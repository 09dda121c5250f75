----------------------------- MODULE AiApproval -----------------------------
(***************************************************************************)
(* Write operations of the shop assistant: the human approval between the  *)
(* proposal of an operation and its execution, the idempotency receipts    *)
(* and the commit of the request (api/ai.py, ai/voice_adapter.py, the      *)
(* *_write.py tools).  A request runs the agent over a session of its own; *)
(* the conversation lives in a process-local checkpointer that records a   *)
(* step of the agent at once, while what a tool has flushed lasts only     *)
(* when the request commits.                                               *)
(*                                                                         *)
(* The model, an external service, may propose any operation at any time   *)
(* and reuse a key.  One operation is proposed at a time.                  *)
(***************************************************************************)
EXTENDS FiniteSets, Naturals

CONSTANTS
    Threads, Keys, NoKey,   \* conversations; operation keys
    Requests,               \* the requests that run at one time
    Endpoints,              \* {"chat", "voice"} or one of them
    Faulty                  \* whether the provider may fail and the server restart

ASSUME ApprovalAssumption ==
    /\ NoKey \notin Keys
    /\ Threads # {}
    /\ Endpoints \subseteq {"chat", "voice"}
    /\ Faulty \in BOOLEAN

VARIABLES
    checkpoint,  \* of each thread: the interrupt pending, the results recorded
    request,     \* of each request: its place, its thread, what it has flushed
    receipts,    \* keys with a committed AI*Receipt row
    performed,   \* how often the operation of a key was committed
    approved     \* the keys a person approved

vars == <<checkpoint, request, receipts, performed, approved>>

Idle == [at |-> "idle", thread |-> CHOOSE t \in Threads : TRUE, endpoint |-> "chat",
         resumed |-> FALSE, key |-> NoKey, told |-> {}, flushed |-> {}]

Init ==
    /\ checkpoint = [t \in Threads |-> [pending |-> NoKey, told |-> {}]]
    /\ request = [r \in Requests |-> Idle]
    /\ receipts = {}
    /\ performed = [k \in Keys |-> 0]
    /\ approved = {}

-----------------------------------------------------------------------------
At(r, place) == request[r].at = place

Record(r, pending, told) ==
    checkpoint' = [checkpoint EXCEPT ![request[r].thread] = [pending |-> pending, told |-> told]]

(* db.commit of everything the request has flushed.                         *)
Commit(r) ==
    /\ receipts' = receipts \cup request[r].flushed
    /\ performed' = [k \in Keys |-> performed[k] + IF k \in request[r].flushed THEN 1 ELSE 0]

RollBack == UNCHANGED <<receipts, performed>>

End(r) == request' = [request EXCEPT ![r] = Idle]

-----------------------------------------------------------------------------
(* ai_chat, run_voice_turn: a new message; an interrupt still pending is    *)
(* dropped with the turn it belongs to.                                     *)
Message(r, t, endpoint) ==
    /\ At(r, "idle")
    /\ request' = [request EXCEPT ![r] =
          [Idle EXCEPT !.at = "model", !.thread = t, !.endpoint = endpoint,
                       !.told = checkpoint[t].told]]
    /\ checkpoint' = [checkpoint EXCEPT ![t].pending = NoKey]
    /\ UNCHANGED <<receipts, performed, approved>>

RunRegardless(key, approve) == key

(* What the tool node runs: a rejected call is answered with the message.   *)
KeyToRun(key, approve) == IF approve THEN key ELSE NoKey

(* ai_chat_resume, resume_voice_turn: 409 when nothing is pending.  Nothing *)
(* keeps two resumes of one pause apart.                                    *)
Resume(r, t, endpoint, approve) ==
    LET key == checkpoint[t].pending
        run == KeyToRun(key, approve)
    IN  /\ At(r, "idle")
        /\ key # NoKey
        /\ request' = [request EXCEPT ![r] =
              [Idle EXCEPT !.at = IF run = NoKey THEN "model" ELSE "find", !.thread = t,
                           !.endpoint = endpoint, !.resumed = TRUE, !.key = run,
                           !.told = checkpoint[t].told]]
        /\ approved' = IF approve THEN approved \cup {key} ELSE approved
        /\ UNCHANGED <<checkpoint, receipts, performed>>

Known(r, k) == k \in receipts \cup request[r].flushed

(* The tool has answered: the checkpoint says what it did from now on.      *)
Answered(r, told, flushed) ==
    /\ request' = [request EXCEPT ![r].at = "model", ![r].key = NoKey,
                                  ![r].told = told, ![r].flushed = flushed]
    /\ Record(r, NoKey, told)

(* The tool looks for the receipt of its key before it does anything.       *)
FindReceipt(r) ==
    LET k == request[r].key
    IN  /\ At(r, "find")
        /\ IF Known(r, k) THEN Answered(r, request[r].told \cup {k}, request[r].flushed)
           ELSE request' = [request EXCEPT ![r].at = "insert"] /\ UNCHANGED checkpoint
        /\ UNCHANGED <<receipts, performed, approved>>

InsertUnchecked(r, k) == TRUE

(* UNIQUE(shop_id, operation_key): the insert waits for a transaction that  *)
(* has inserted the key and not yet committed.                              *)
InsertSettled(r, k) == \A u \in Requests \ {r} : k \notin request[u].flushed

(* The operation and its receipt are flushed in one savepoint; a receipt    *)
(* that was committed meanwhile makes the insert fail, the savepoint is     *)
(* discarded and the winner's result is returned.                           *)
Execute(r) ==
    LET k == request[r].key
    IN  /\ At(r, "insert")
        /\ InsertSettled(r, k)
        /\ Answered(r, request[r].told \cup {k},
                    request[r].flushed \cup ({k} \ receipts))
        /\ UNCHANGED <<receipts, performed, approved>>

(* The service refuses (stock, validation): an error result, nothing kept.  *)
Refuse(r) ==
    /\ At(r, "insert")
    /\ Answered(r, request[r].told, request[r].flushed)
    /\ UNCHANGED <<receipts, performed, approved>>

LeftOpen(r) == FALSE

(* _settle_transaction with status "paused": only resume_voice_turn passes  *)
(* commit_if_paused.                                                        *)
SettlesPause(r) == request[r].endpoint = "voice" /\ request[r].resumed

(* The model calls a write tool: the interrupt fires before the tool runs.  *)
Propose(r, k) ==
    /\ At(r, "model")
    /\ Record(r, k, request[r].told)
    /\ IF SettlesPause(r) THEN Commit(r) ELSE RollBack
    /\ End(r)
    /\ UNCHANGED approved

(* The model has answered: status "done", committed.                        *)
Reply(r) ==
    /\ At(r, "model")
    /\ Commit(r)
    /\ Record(r, NoKey, request[r].told)
    /\ End(r)
    /\ UNCHANGED approved

(* An exception of the agent or of the commit: 502 and a rollback.          *)
Fail(r) ==
    /\ Faulty /\ ~At(r, "idle")
    /\ RollBack
    /\ End(r)
    /\ UNCHANGED <<checkpoint, approved>>

(* A restart forgets every conversation and every open transaction.         *)
Restart ==
    /\ Faulty
    /\ checkpoint' = [t \in Threads |-> [pending |-> NoKey, told |-> {}]]
    /\ request' = [r \in Requests |-> Idle]
    /\ RollBack
    /\ UNCHANGED approved

Run(r) ==
    \/ FindReceipt(r) \/ Execute(r) \/ Refuse(r) \/ Reply(r) \/ Fail(r)
    \/ \E k \in Keys : Propose(r, k)

Next ==
    \/ \E r \in Requests, t \in Threads, endpoint \in Endpoints :
          Message(r, t, endpoint) \/ \E approve \in BOOLEAN : Resume(r, t, endpoint, approve)
    \/ \E r \in Requests : Run(r)
    \/ Restart

Spec == Init /\ [][Next]_vars

-----------------------------------------------------------------------------
(* Properties.                                                              *)

TypeOK ==
    /\ checkpoint \in [Threads -> [pending : Keys \cup {NoKey}, told : SUBSET Keys]]
    /\ request \in [Requests ->
          [at : {"idle", "model", "find", "insert"}, thread : Threads,
           endpoint : {"chat", "voice"}, resumed : BOOLEAN, key : Keys \cup {NoKey},
           told : SUBSET Keys, flushed : SUBSET Keys]]
    /\ \A r \in Requests : request[r].key # NoKey <=> request[r].at \in {"find", "insert"}
    /\ receipts \subseteq Keys
    /\ performed \in [Keys -> Nat]
    /\ approved \subseteq Keys

(* A key names one operation: approved twice, in two windows or two         *)
(* conversations, retried after a failure or after a restart, it is         *)
(* committed at most once, and exactly when its receipt is.                 *)
PerformedOnce == \A k \in Keys : performed[k] = IF k \in receipts THEN 1 ELSE 0

(* No key is in two open transactions, nor flushed again once committed.    *)
FlushedByOne ==
    \A r \in Requests :
        /\ request[r].flushed \cap receipts = {}
        /\ \A u \in Requests \ {r} : request[r].flushed \cap request[u].flushed = {}

(* Nothing is run, flushed or committed that no person approved.            *)
NothingUnapproved ==
    /\ receipts \subseteq approved
    /\ \A r \in Requests : request[r].flushed \cup ({request[r].key} \ {NoKey}) \subseteq approved

(* What the conversation records as done is durable as soon as its requests *)
(* have ended (api/ai.py: the checkpoint has recorded the execution, the    *)
(* operation can never be re-approved, so it must land).  Two steps break   *)
(* that promise and no other does, a resume that pauses again by voice      *)
(* included: a failure of the provider after a tool has run, and a chat     *)
(* resume that pauses again, both of which roll back.                       *)
Running(t) == {r \in Requests : ~At(r, "idle") /\ request[r].thread = t}

Covered(t) ==
    checkpoint[t].told \cup UNION {request[r].told : r \in Running(t)}
        \subseteq receipts \cup UNION {request[r].flushed : r \in Running(t)}

ChatPause(r) == request[r].endpoint = "chat" /\ \E k \in Keys : Propose(r, k)

OnlyFailureOrChatPauseLoses ==
    [][\A t \in Threads :
          Covered(t) /\ ~Covered(t)' => \E r \in Requests : Fail(r) \/ ChatPause(r)]_vars
=============================================================================
