----------------------------- MODULE OncePerKey -----------------------------
(***************************************************************************)
(* What an idempotency key promises: the operation of a slot takes effect  *)
(* at most once.  An effect may be undone by somebody else, and then the   *)
(* slot stays used up: no retry brings the effect back.                    *)
(***************************************************************************)
EXTENDS Naturals

CONSTANT Slots

VARIABLES
    slot,     \* "free", "used" or "undone"
    effects   \* how many effects of each slot are in the database

Init ==
    /\ slot = [s \in Slots |-> "free"]
    /\ effects = [s \in Slots |-> 0]

Perform(s) ==
    /\ slot[s] = "free"
    /\ slot' = [slot EXCEPT ![s] = "used"]
    /\ effects' = [effects EXCEPT ![s] = 1]

Undo(s) ==
    /\ slot[s] = "used"
    /\ slot' = [slot EXCEPT ![s] = "undone"]
    /\ effects' = [effects EXCEPT ![s] = 0]

Next == \E s \in Slots : Perform(s) \/ Undo(s)

Spec == Init /\ [][Next]_<<slot, effects>>
=============================================================================
