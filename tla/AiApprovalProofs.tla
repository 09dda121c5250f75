-------------------------- MODULE AiApprovalProofs --------------------------
(***************************************************************************)
(* An operation of the assistant is committed at most once and only when a *)
(* person approved it, for any number of conversations, requests and keys, *)
(* with provider failures and restarts.  The invariant is the conjunction  *)
(* of the checked ones: that a key is flushed by one open transaction and  *)
(* never again once committed is what makes PerformedOnce inductive.  That *)
(* only a resumed request can have flushed anything is what makes a pause  *)
(* of a new message harmless.                                              *)
(***************************************************************************)
EXTENDS AiApproval, TLAPS

ApprovalInv == TypeOK /\ PerformedOnce /\ FlushedByOne /\ NothingUnapproved

RequestRows ==
    [at : {"idle", "model", "find", "insert"}, thread : Threads, endpoint : {"chat", "voice"},
     resumed : BOOLEAN, key : Keys \cup {NoKey}, told : SUBSET Keys, flushed : SUBSET Keys]

(* A request that has ended is well typed and holds nothing.                *)
LEMMA IdleType ==
    /\ Idle \in [at : {"idle", "model", "find", "insert"}, thread : Threads,
                 endpoint : {"chat", "voice"}, resumed : BOOLEAN, key : Keys \cup {NoKey},
                 told : SUBSET Keys, flushed : SUBSET Keys]
    /\ Idle.key = NoKey /\ Idle.at = "idle" /\ Idle.flushed = {}
<1>1. (CHOOSE t \in Threads : TRUE) \in Threads
  BY ApprovalAssumption
<1> QED
  BY <1>1 DEF Idle

(* Nothing has been approved, flushed or committed at the start.            *)
LEMMA InitInv == Init => ApprovalInv
BY IdleType DEF Init, ApprovalInv, TypeOK, PerformedOnce, FlushedByOne, NothingUnapproved

(* A new message starts with nothing to run and nothing flushed.            *)
LEMMA MessageInv ==
    ASSUME ApprovalInv, NEW r \in Requests, NEW t \in Threads, NEW endpoint \in Endpoints,
           Message(r, t, endpoint)
    PROVE  ApprovalInv'
<1> USE DEF ApprovalInv
<1>1. endpoint \in {"chat", "voice"} /\ NoKey \notin Keys
  BY ApprovalAssumption
<1>2. TypeOK'
  <2> DEFINE row == [Idle EXCEPT !.at = "model", !.thread = t, !.endpoint = endpoint,
                                 !.told = checkpoint[t].told]
  <2>1. /\ row \in RequestRows /\ row.key = NoKey /\ row.at = "model"
        /\ request' = [request EXCEPT ![r] = row]
    BY <1>1, IdleType DEF TypeOK, Message, RequestRows
  <2> HIDE DEF row
  <2>2. /\ request' \in [Requests -> RequestRows]
        /\ \A u \in Requests : request'[u].key # NoKey <=> request'[u].at \in {"find", "insert"}
    BY <2>1 DEF TypeOK, RequestRows
  <2> QED
    BY <2>2 DEF TypeOK, Message, RequestRows
<1>3. /\ \A u \in Requests : request'[u].flushed \subseteq request[u].flushed
      /\ \A u \in Requests : request'[u].key \in {request[u].key, NoKey}
  BY IdleType DEF Message, TypeOK
<1>4. UNCHANGED <<receipts, performed, approved>>
  BY DEF Message
<1> QED
  BY <1>2, <1>3, <1>4 DEF PerformedOnce, FlushedByOne, NothingUnapproved

(* A resume runs the pending key only when it was just approved.            *)
LEMMA ResumeInv ==
    ASSUME ApprovalInv, NEW r \in Requests, NEW t \in Threads, NEW endpoint \in Endpoints,
           NEW approve \in BOOLEAN, Resume(r, t, endpoint, approve)
    PROVE  ApprovalInv'
<1> USE DEF ApprovalInv
<1> DEFINE key == checkpoint[t].pending
           run == KeyToRun(key, approve)
<1>1. endpoint \in {"chat", "voice"} /\ NoKey \notin Keys /\ key \in Keys
  BY ApprovalAssumption DEF Resume, TypeOK
<1>2. run \in {key, NoKey} /\ (run = key => approve)
  BY <1>1 DEF KeyToRun
<1>3. TypeOK'
  BY ZenonT(40), <1>1, <1>2, IdleType DEF TypeOK, Resume
<1>4. /\ \A u \in Requests : request'[u].flushed \subseteq request[u].flushed
      /\ \A u \in Requests : request'[u].key \in {request[u].key, NoKey, run}
  BY IdleType DEF Resume, TypeOK
<1>5. approved \subseteq approved' /\ run \in approved' \cup {NoKey}
  BY <1>2 DEF Resume
<1> QED
  BY <1>3, <1>4, <1>5 DEF PerformedOnce, FlushedByOne, NothingUnapproved, Resume

(* What a request has been told and has flushed are keys.                   *)
LEMMA HeldType ==
    ASSUME TypeOK, NEW r \in Requests
    PROVE  request[r].told \in SUBSET Keys /\ request[r].flushed \in SUBSET Keys
BY DEF TypeOK

(* What the tool has answered is typed, and the request holds no key.       *)
LEMMA AnsweredType ==
    ASSUME TypeOK, NEW r \in Requests, NEW told \in SUBSET Keys, NEW flushed \in SUBSET Keys,
           Answered(r, told, flushed), UNCHANGED <<receipts, performed, approved>>
    PROVE  /\ TypeOK'
           /\ request'[r].flushed = flushed /\ request'[r].key = NoKey
           /\ \A u \in Requests \ {r} : request'[u] = request[u]
<1> DEFINE row == [request[r] EXCEPT !.at = "model", !.key = NoKey,
                                     !.told = told, !.flushed = flushed]
<1>1. /\ row \in RequestRows /\ row.key = NoKey /\ row.at = "model" /\ row.flushed = flushed
      /\ request' = [request EXCEPT ![r] = row]
  BY ZenonT(40) DEF TypeOK, Answered, RequestRows
<1> HIDE DEF row
<1>2. /\ request' \in [Requests -> RequestRows]
      /\ \A u \in Requests : request'[u].key # NoKey <=> request'[u].at \in {"find", "insert"}
      /\ request'[r] = row
      /\ \A u \in Requests \ {r} : request'[u] = request[u]
  BY <1>1 DEF TypeOK, RequestRows
<1> QED
  BY <1>1, <1>2 DEF TypeOK, Answered, Record, RequestRows

(* A known key is only reported again.                                      *)
LEMMA FindReceiptInv ==
    ASSUME ApprovalInv, NEW r \in Requests, FindReceipt(r)
    PROVE  ApprovalInv'
<1> USE DEF ApprovalInv
<1>0. TypeOK
  OBVIOUS
<1> DEFINE k == request[r].key
<1>1. k \in Keys /\ NoKey \notin Keys
  BY ApprovalAssumption DEF FindReceipt, At, TypeOK
<1>2. CASE Known(r, k)
  <2>1. Answered(r, request[r].told \cup {k}, request[r].flushed)
    BY <1>2 DEF FindReceipt
  <2>2. /\ TypeOK' /\ request'[r].flushed = request[r].flushed /\ request'[r].key = NoKey
        /\ \A u \in Requests \ {r} : request'[u] = request[u]
    <3>1. request[r].told \cup {k} \in SUBSET Keys /\ request[r].flushed \in SUBSET Keys
      BY <1>0, <1>1, HeldType
    <3>2. UNCHANGED <<receipts, performed, approved>>
      BY DEF FindReceipt
    <3> QED
      BY <1>0, <2>1, <3>1, <3>2, AnsweredType
  <2> QED
    BY <2>2 DEF PerformedOnce, FlushedByOne, NothingUnapproved, FindReceipt
<1>3. CASE ~Known(r, k)
  <2> DEFINE row == [request[r] EXCEPT !.at = "insert"]
  <2>1. TypeOK'
    <3>0. request[r] \in RequestRows /\ request[r].key # NoKey
      BY <1>0, <1>1 DEF TypeOK, RequestRows
    <3>1. /\ row \in RequestRows /\ row.key # NoKey /\ row.at = "insert"
          /\ request' = [request EXCEPT ![r] = row]
      BY <1>3, <3>0 DEF FindReceipt, RequestRows
    <3> HIDE DEF row
    <3>2. /\ request' \in [Requests -> RequestRows]
          /\ \A u \in Requests : request'[u].key # NoKey
                                     <=> request'[u].at \in {"find", "insert"}
      BY <3>1 DEF TypeOK, RequestRows
    <3> QED
      BY <1>3, <3>2 DEF TypeOK, FindReceipt, RequestRows
  <2>2. \A u \in Requests : /\ request'[u].flushed = request[u].flushed
                            /\ request'[u].key = request[u].key
    BY <1>3 DEF FindReceipt, TypeOK
  <2> QED
    BY <2>1, <2>2 DEF PerformedOnce, FlushedByOne, NothingUnapproved, FindReceipt
<1> QED
  BY <1>2, <1>3

(* The insert waits out every other transaction with the key, and a         *)
(* committed receipt keeps it from being flushed again.                     *)
LEMMA ExecuteInv ==
    ASSUME ApprovalInv, NEW r \in Requests, Execute(r)
    PROVE  ApprovalInv'
<1> USE DEF ApprovalInv
<1>0. TypeOK
  OBVIOUS
<1> DEFINE k == request[r].key
<1>1. k \in Keys /\ NoKey \notin Keys /\ k \in approved
  BY ApprovalAssumption DEF Execute, At, TypeOK, NothingUnapproved
<1>2. Answered(r, request[r].told \cup {k}, request[r].flushed \cup ({k} \ receipts))
  BY DEF Execute
<1>3. /\ TypeOK'
      /\ request'[r].flushed = request[r].flushed \cup ({k} \ receipts)
      /\ request'[r].key = NoKey
      /\ \A u \in Requests \ {r} : request'[u] = request[u]
      /\ \A u \in Requests \ {r} : k \notin request[u].flushed
  <2>1. /\ request[r].told \cup {k} \in SUBSET Keys
        /\ request[r].flushed \cup ({k} \ receipts) \in SUBSET Keys
    BY <1>0, <1>1, HeldType
  <2>2. UNCHANGED <<receipts, performed, approved>>
    BY DEF Execute
  <2>3. \A u \in Requests \ {r} : k \notin request[u].flushed
    BY DEF Execute, InsertSettled
  <2> QED
    BY <1>0, <1>2, <2>1, <2>2, <2>3, AnsweredType
<1>4. UNCHANGED <<receipts, performed, approved>>
  BY DEF Execute
<1>5. FlushedByOne'
  BY <1>1, <1>3, <1>4 DEF FlushedByOne
<1>6. PerformedOnce' /\ NothingUnapproved'
  BY <1>1, <1>3, <1>4 DEF PerformedOnce, NothingUnapproved
<1> QED
  BY <1>3, <1>5, <1>6

(* A refused operation leaves nothing.                                      *)
LEMMA RefuseInv ==
    ASSUME ApprovalInv, NEW r \in Requests, Refuse(r)
    PROVE  ApprovalInv'
<1> USE DEF ApprovalInv
<1>0. TypeOK
  OBVIOUS
<1>1. Answered(r, request[r].told, request[r].flushed)
  BY DEF Refuse
<1>2. /\ TypeOK' /\ request'[r].flushed = request[r].flushed /\ request'[r].key = NoKey
      /\ \A u \in Requests \ {r} : request'[u] = request[u]
  BY <1>0, <1>1, HeldType, AnsweredType DEF Refuse
<1> QED
  BY <1>2 DEF PerformedOnce, FlushedByOne, NothingUnapproved, Refuse

(* A request that ends without a commit drops what it flushed.              *)
LEMMA DroppedInv ==
    ASSUME ApprovalInv, NEW r \in Requests, End(r), RollBack, UNCHANGED approved,
           checkpoint' \in [Threads -> [pending : Keys \cup {NoKey}, told : SUBSET Keys]]
    PROVE  ApprovalInv'
<1> USE DEF ApprovalInv
<1>1. TypeOK'
  BY IdleType DEF TypeOK, End, RollBack
<1>2. /\ \A u \in Requests : request'[u].flushed \subseteq request[u].flushed
      /\ \A u \in Requests : request'[u].key \in {request[u].key, NoKey}
  BY IdleType DEF End, TypeOK
<1> QED
  BY <1>1, <1>2 DEF PerformedOnce, FlushedByOne, NothingUnapproved, RollBack

(* A request that ends with a commit: its keys had no receipt, and nobody   *)
(* else has them open.                                                      *)
LEMMA CommittedInv ==
    ASSUME ApprovalInv, NEW r \in Requests, End(r), Commit(r), UNCHANGED approved,
           checkpoint' \in [Threads -> [pending : Keys \cup {NoKey}, told : SUBSET Keys]]
    PROVE  ApprovalInv'
<1> USE DEF ApprovalInv
<1>1. /\ request'[r] = Idle
      /\ \A u \in Requests \ {r} : request'[u] = request[u]
  BY DEF End, TypeOK
<1>2. /\ receipts' = receipts \cup request[r].flushed
      /\ \A k \in Keys : performed'[k] = performed[k] + IF k \in request[r].flushed THEN 1 ELSE 0
      /\ request[r].flushed \subseteq Keys
      /\ request[r].flushed \cap receipts = {}
  BY DEF Commit, TypeOK, FlushedByOne
<1>3. performed' \in [Keys -> Nat]
  BY DEF Commit, TypeOK
<1>4. TypeOK'
  BY <1>2, <1>3, IdleType DEF TypeOK, End
<1>5. PerformedOnce'
  <2> SUFFICES ASSUME NEW k \in Keys
               PROVE  performed'[k] = IF k \in receipts' THEN 1 ELSE 0
    BY DEF PerformedOnce
  <2>1. performed[k] = IF k \in receipts THEN 1 ELSE 0
    BY DEF PerformedOnce
  <2>2. CASE k \in request[r].flushed
    BY <1>2, <2>1, <2>2
  <2>3. CASE k \notin request[r].flushed
    BY <1>2, <2>1, <2>3
  <2> QED
    BY <2>2, <2>3
<1>6. FlushedByOne'
  BY <1>1, <1>2, IdleType DEF FlushedByOne
<1>7. NothingUnapproved'
  BY <1>1, <1>2, IdleType DEF NothingUnapproved
<1> QED
  BY <1>4, <1>5, <1>6, <1>7

(* The checkpoint stays typed when a step of the agent is recorded.         *)
LEMMA RecordType ==
    ASSUME TypeOK, NEW r \in Requests, NEW pending \in Keys \cup {NoKey},
           Record(r, pending, request[r].told)
    PROVE  checkpoint' \in [Threads -> [pending : Keys \cup {NoKey}, told : SUBSET Keys]]
BY DEF Record, TypeOK

(* Every step of a request or of the server preserves the invariant.        *)
LEMMA NextInv == ApprovalInv /\ [Next]_vars => ApprovalInv'
<1> SUFFICES ASSUME ApprovalInv, [Next]_vars PROVE ApprovalInv'
  OBVIOUS
<1>0. TypeOK
  BY DEF ApprovalInv
<1>1. CASE \E r \in Requests, t \in Threads, endpoint \in Endpoints :
              Message(r, t, endpoint) \/ \E approve \in BOOLEAN : Resume(r, t, endpoint, approve)
  BY <1>1, MessageInv, ResumeInv
<1>2. ASSUME NEW r \in Requests, Run(r) PROVE ApprovalInv'
  <2>1. CASE FindReceipt(r)
    BY <2>1, FindReceiptInv
  <2>2. CASE Execute(r)
    BY <2>2, ExecuteInv
  <2>3. CASE Refuse(r)
    BY <2>3, RefuseInv
  <2>4. CASE Reply(r)
    BY <1>0, <2>4, CommittedInv, RecordType DEF Reply
  <2>5. CASE Fail(r)
    BY <1>0, <2>5, DroppedInv DEF Fail, TypeOK
  <2>6. ASSUME NEW k \in Keys, Propose(r, k) PROVE ApprovalInv'
    BY <1>0, <2>6, DroppedInv, CommittedInv, RecordType DEF Propose
  <2> QED
    BY <1>2, <2>1, <2>2, <2>3, <2>4, <2>5, <2>6 DEF Run
<1>3. CASE Restart
  <2>1. \A u \in Requests : request'[u] = Idle
    BY <1>3 DEF Restart
  <2>2. TypeOK'
    BY <1>0, <1>3, IdleType DEF Restart, RollBack, TypeOK
  <2> QED
    BY <1>3, <2>1, <2>2, IdleType
    DEF Restart, RollBack, ApprovalInv, PerformedOnce, FlushedByOne, NothingUnapproved
<1>4. CASE UNCHANGED vars
  BY <1>4 DEF vars, ApprovalInv, TypeOK, PerformedOnce, FlushedByOne, NothingUnapproved
<1> QED
  BY <1>1, <1>2, <1>3, <1>4 DEF Next

(* The four invariants hold together.                                       *)
LEMMA ApprovalHolds == Spec => []ApprovalInv
BY InitInv, NextInv, PTL DEF Spec

(* The operation of a key is committed at most once, and exactly when its   *)
(* receipt is: whatever two windows approve, whatever is retried after a    *)
(* failed provider or a restarted server.                                   *)
THEOREM CommittedOnce == Spec => []PerformedOnce
<1>1. ApprovalInv => PerformedOnce
  BY DEF ApprovalInv
<1> QED
  BY <1>1, ApprovalHolds, PTL

(* No operation runs, is flushed or is committed unless a person approved   *)
(* its key.                                                                 *)
THEOREM ApprovedFirst == Spec => []NothingUnapproved
<1>1. ApprovalInv => NothingUnapproved
  BY DEF ApprovalInv
<1> QED
  BY <1>1, ApprovalHolds, PTL

-----------------------------------------------------------------------------
(* A tool runs in a resumed request only: a request that began with a       *)
(* message has flushed nothing, nor has one that has ended.                 *)
OnlyResumedFlush ==
    \A r \in Requests :
        /\ At(r, "idle") => request[r].flushed = {} /\ request[r].told = {}
        /\ ~request[r].resumed => request[r].flushed = {} /\ request[r].key = NoKey

(* What the requests of a conversation, and its checkpoint, say was done;   *)
(* and what is durable or will be when they commit.                         *)
Told(t) == checkpoint[t].told \cup UNION {request[r].told : r \in Running(t)}

Held(t) == receipts \cup UNION {request[r].flushed : r \in Running(t)}

(* The fields of a request that has ended.                                  *)
LEMMA IdleFields ==
    /\ Idle.told = {} /\ Idle.flushed = {} /\ Idle.key = NoKey
    /\ Idle.resumed = FALSE /\ Idle.at = "idle"
BY DEF Idle

(* A tool has answered: of the request nothing else changes.                *)
LEMMA AnsweredFields ==
    ASSUME TypeOK, NEW r \in Requests, NEW told, NEW flushed, Answered(r, told, flushed)
    PROVE  /\ request'[r].told = told /\ request'[r].flushed = flushed
           /\ request'[r].at = "model" /\ request'[r].key = NoKey
           /\ request'[r].thread = request[r].thread
           /\ request'[r].resumed = request[r].resumed
           /\ \A u \in Requests \ {r} : request'[u] = request[u]
           /\ \A t \in Threads : checkpoint'[t].told =
                 IF t = request[r].thread THEN told ELSE checkpoint[t].told
<1>1. request[r] \in RequestRows /\ checkpoint \in [Threads -> [pending : Keys \cup {NoKey},
                                                               told : SUBSET Keys]]
  BY DEF TypeOK, RequestRows
<1>2. request' = [request EXCEPT ![r] = [request[r] EXCEPT !.at = "model", !.key = NoKey,
                                             !.told = told, !.flushed = flushed]]
  BY ZenonT(40) DEF Answered, TypeOK
<1>3. checkpoint' = [checkpoint EXCEPT ![request[r].thread] = [pending |-> NoKey, told |-> told]]
  BY DEF Answered, Record
<1>4. request'[r] = [request[r] EXCEPT !.at = "model", !.key = NoKey,
                                        !.told = told, !.flushed = flushed]
  BY <1>2 DEF TypeOK
<1>5. \A u \in Requests \ {r} : request'[u] = request[u]
  BY <1>2 DEF TypeOK
<1>6. \A t \in Threads : checkpoint'[t].told =
          IF t = request[r].thread THEN told ELSE checkpoint[t].told
  BY <1>1, <1>3
<1> QED
  BY <1>1, <1>4, <1>5, <1>6 DEF RequestRows

(* A step of a running request keeps OnlyResumedFlush.                      *)
LEMMA RunFlush ==
    ASSUME ApprovalInv, OnlyResumedFlush, NEW r \in Requests, Run(r)
    PROVE  OnlyResumedFlush'
<1>0. TypeOK /\ NoKey \notin Keys
  BY ApprovalAssumption DEF ApprovalInv
<1>1. ASSUME NEW told, NEW flushed, Answered(r, told, flushed),
             request[r].resumed \/ flushed = {}
      PROVE  OnlyResumedFlush'
  BY <1>0, <1>1, AnsweredFields DEF OnlyResumedFlush, At
<1>2. ASSUME End(r) PROVE OnlyResumedFlush'
  BY <1>0, <1>2, IdleFields DEF OnlyResumedFlush, At, End, TypeOK
<1>3. CASE FindReceipt(r)
  <2>1. request[r].resumed
    BY <1>0, <1>3 DEF FindReceipt, At, TypeOK, OnlyResumedFlush
  <2>2. CASE Known(r, request[r].key)
    BY <1>1, <1>3, <2>1, <2>2 DEF FindReceipt
  <2>3. CASE ~Known(r, request[r].key)
    BY <1>0, <1>3, <2>1, <2>3 DEF FindReceipt, OnlyResumedFlush, At, TypeOK
  <2> QED
    BY <2>2, <2>3
<1>4. CASE Execute(r)
  <2>1. request[r].resumed
    BY <1>0, <1>4 DEF Execute, At, TypeOK, OnlyResumedFlush
  <2> QED
    BY <1>1, <1>4, <2>1 DEF Execute
<1>5. CASE Refuse(r)
  BY <1>1, <1>5 DEF Refuse, OnlyResumedFlush
<1> QED
  BY <1>2, <1>3, <1>4, <1>5 DEF Run, Reply, Fail, Propose

(* So does every step.                                                      *)
LEMMA FlushInv == ApprovalInv /\ OnlyResumedFlush /\ [Next]_vars => OnlyResumedFlush'
<1> SUFFICES ASSUME ApprovalInv, OnlyResumedFlush, [Next]_vars PROVE OnlyResumedFlush'
  OBVIOUS
<1>0. TypeOK
  BY DEF ApprovalInv
<1>1. ASSUME NEW r \in Requests, NEW t \in Threads, NEW endpoint \in Endpoints,
             Message(r, t, endpoint)
      PROVE  OnlyResumedFlush'
  BY <1>0, <1>1, IdleFields DEF OnlyResumedFlush, At, Message, TypeOK, Idle
<1>2. ASSUME NEW r \in Requests, NEW t \in Threads, NEW endpoint \in Endpoints,
             NEW approve \in BOOLEAN, Resume(r, t, endpoint, approve)
      PROVE  OnlyResumedFlush'
  BY <1>0, <1>2 DEF OnlyResumedFlush, At, Resume, TypeOK, Idle
<1>3. CASE Restart
  BY <1>3, IdleFields DEF OnlyResumedFlush, At, Restart
<1>4. CASE UNCHANGED vars
  BY <1>4 DEF OnlyResumedFlush, At, vars
<1> QED
  BY <1>1, <1>2, <1>3, <1>4, RunFlush DEF Next

(* A conversation stays covered when nothing new is told but what is held,  *)
(* and nothing held is let go.                                              *)
LEMMA StaysCovered ==
    ASSUME NEW t \in Threads, Covered(t), NEW more,
           Told(t)' \subseteq Told(t) \cup more, more \subseteq Held(t)',
           Held(t) \subseteq Held(t)'
    PROVE  Covered(t)'
BY DEF Covered, Told, Held

(* A tool that answers tells only what it found committed or has flushed.   *)
LEMMA AnsweredCovers ==
    ASSUME TypeOK, NEW t \in Threads, Covered(t), NEW r \in Requests, ~At(r, "idle"),
           NEW more \in SUBSET Keys, NEW flushed \in SUBSET Keys,
           Answered(r, request[r].told \cup more, flushed), UNCHANGED receipts,
           request[r].flushed \subseteq flushed, more \subseteq receipts \cup flushed
    PROVE  Covered(t)'
<1> DEFINE x == IF t = request[r].thread THEN more ELSE {}
<1>1. /\ request'[r].told = request[r].told \cup more /\ request'[r].flushed = flushed
      /\ request'[r].at = "model" /\ request'[r].thread = request[r].thread
      /\ \A u \in Requests \ {r} : request'[u] = request[u]
      /\ checkpoint'[t].told =
            IF t = request[r].thread THEN request[r].told \cup more ELSE checkpoint[t].told
  BY AnsweredFields
<1>2. Running(t)' = Running(t)
  BY <1>1 DEF Running, At
<1>3. r \in Running(t) <=> t = request[r].thread
  BY DEF Running
<1>4. Running(t) \subseteq Requests
  BY DEF Running
<1>5. Told(t)' \subseteq Told(t) \cup x
  BY <1>1, <1>2, <1>3, <1>4 DEF Told
<1>6. Held(t) \subseteq Held(t)'
  BY <1>1, <1>2, <1>4 DEF Held
<1>7. x \subseteq Held(t)'
  BY <1>1, <1>2, <1>3 DEF Held
<1> HIDE DEF x
<1> QED
  BY <1>5, <1>6, <1>7, StaysCovered

(* A request may end when all it has flushed is committed or there was      *)
(* nothing.                                                                 *)
LEMMA EndCovers ==
    ASSUME TypeOK, NEW t \in Threads, Covered(t), NEW r \in Requests, ~At(r, "idle"), End(r),
           receipts \cup request[r].flushed \subseteq receipts',
           \A v \in Threads : checkpoint'[v].told =
              IF v = request[r].thread THEN request[r].told ELSE checkpoint[v].told
    PROVE  Covered(t)'
<1>1. /\ request'[r].at = "idle"
      /\ \A u \in Requests \ {r} : request'[u] = request[u]
  BY IdleFields DEF End, TypeOK
<1>2. Running(t)' = Running(t) \ {r} /\ Running(t) \subseteq Requests
  BY <1>1 DEF Running, At
<1>3. r \in Running(t) <=> t = request[r].thread
  BY DEF Running
<1>4. Told(t)' \subseteq Told(t) \cup {}
  BY <1>1, <1>2, <1>3 DEF Told
<1>5. Held(t) \subseteq Held(t)'
  BY <1>1, <1>2 DEF Held
<1> QED
  BY <1>4, <1>5, StaysCovered

(* A request begins with what the checkpoint says.                          *)
LEMMA BeginCovers ==
    ASSUME TypeOK, NEW t \in Threads, Covered(t), NEW r \in Requests, At(r, "idle"),
           NEW v \in Threads, NEW row, request' = [request EXCEPT ![r] = row],
           row.thread = v, row.told = checkpoint[v].told, row.flushed = {},
           UNCHANGED receipts, \A w \in Threads : checkpoint'[w].told = checkpoint[w].told
    PROVE  Covered(t)'
<1>1. /\ request'[r] = row
      /\ \A u \in Requests \ {r} : request'[u] = request[u]
  BY DEF TypeOK
<1>2. /\ Running(t)' \subseteq Running(t) \cup {r} /\ Running(t) \subseteq Running(t)'
      /\ Running(t) \subseteq Requests \ {r}
      /\ r \in Running(t)' => t = v
  BY <1>1 DEF Running, At
<1> DEFINE now == Running(t)
           next == Running(t)'
<1>3. Told(t)' \subseteq Told(t) \cup {}
  <2>1. \A u \in next : \/ request'[u].told \subseteq checkpoint[t].told
                        \/ u \in now /\ request'[u].told = request[u].told
    BY <1>1, <1>2
  <2>2. Told(t) = checkpoint[t].told \cup UNION {request[u].told : u \in now}
    BY DEF Told
  <2>3. Told(t)' = checkpoint'[t].told \cup UNION {request'[u].told : u \in next}
    BY DEF Told
  <2> HIDE DEF now, next
  <2> QED
    BY <2>1, <2>2, <2>3
<1>4. Held(t) \subseteq Held(t)'
  <2>1. \A u \in now : u \in next /\ request'[u].flushed = request[u].flushed
    BY <1>1, <1>2
  <2>2. Held(t) = receipts \cup UNION {request[u].flushed : u \in now}
    BY DEF Held
  <2>3. Held(t)' = receipts' \cup UNION {request'[u].flushed : u \in next}
    BY DEF Held
  <2> HIDE DEF now, next
  <2> QED
    BY <2>1, <2>2, <2>3
<1> QED
  BY <1>3, <1>4, StaysCovered

(* Every step but a failure and a chat pause keeps a conversation covered.  *)
LEMMA StepCovers ==
    ASSUME ApprovalInv, OnlyResumedFlush, [Next]_vars, NEW t \in Threads, Covered(t),
           \A r \in Requests : ~Fail(r) /\ ~ChatPause(r)
    PROVE  Covered(t)'
<1>0. TypeOK /\ NoKey \notin Keys
  BY ApprovalAssumption DEF ApprovalInv
<1>1. ASSUME NEW r \in Requests, NEW v \in Threads, NEW endpoint \in Endpoints,
             Message(r, v, endpoint)
      PROVE  Covered(t)'
  <2> DEFINE row == [Idle EXCEPT !.at = "model", !.thread = v, !.endpoint = endpoint,
                                 !.told = checkpoint[v].told]
  <2>1. row.thread = v /\ row.told = checkpoint[v].told /\ row.flushed = {}
    BY DEF Idle
  <2>2. /\ At(r, "idle") /\ request' = [request EXCEPT ![r] = row] /\ UNCHANGED receipts
        /\ \A w \in Threads : checkpoint'[w].told = checkpoint[w].told
    BY <1>0, <1>1 DEF Message, TypeOK
  <2> HIDE DEF row
  <2> QED
    BY <1>0, <2>1, <2>2, BeginCovers
<1>2. ASSUME NEW r \in Requests, NEW v \in Threads, NEW endpoint \in Endpoints,
             NEW approve \in BOOLEAN, Resume(r, v, endpoint, approve)
      PROVE  Covered(t)'
  <2> DEFINE run == KeyToRun(checkpoint[v].pending, approve)
             row == [Idle EXCEPT !.at = IF run = NoKey THEN "model" ELSE "find", !.thread = v,
                                 !.endpoint = endpoint, !.resumed = TRUE, !.key = run,
                                 !.told = checkpoint[v].told]
  <2>1. row.thread = v /\ row.told = checkpoint[v].told /\ row.flushed = {}
    BY DEF Idle
  <2>2. /\ At(r, "idle") /\ request' = [request EXCEPT ![r] = row] /\ UNCHANGED receipts
        /\ \A w \in Threads : checkpoint'[w].told = checkpoint[w].told
    BY <1>2 DEF Resume
  <2> HIDE DEF row
  <2> QED
    BY <1>0, <2>1, <2>2, BeginCovers
<1>3. ASSUME NEW r \in Requests, Run(r) PROVE Covered(t)'
  <2>0. request[r].told \in SUBSET Keys /\ request[r].flushed \in SUBSET Keys
    BY <1>0, HeldType
  <2>1. CASE FindReceipt(r) /\ Known(r, request[r].key)
    <3>1. /\ ~At(r, "idle") /\ UNCHANGED receipts /\ {request[r].key} \in SUBSET Keys
          /\ Answered(r, request[r].told \cup {request[r].key}, request[r].flushed)
          /\ {request[r].key} \subseteq receipts \cup request[r].flushed
      BY <1>0, <2>1 DEF FindReceipt, At, Known, TypeOK
    <3> QED
      BY <1>0, <2>0, <3>1, AnsweredCovers
  <2>2. CASE FindReceipt(r) /\ ~Known(r, request[r].key)
    <3>1. /\ checkpoint' = checkpoint /\ receipts' = receipts
          /\ request' = [request EXCEPT ![r].at = "insert"]
          /\ request[r].at = "find"
      BY <2>2 DEF FindReceipt, At
    <3>2. \A u \in Requests : /\ request'[u].told = request[u].told
                              /\ request'[u].flushed = request[u].flushed
                              /\ request'[u].thread = request[u].thread
                              /\ request'[u].at = "idle" <=> request[u].at = "idle"
      BY <1>0, <3>1 DEF TypeOK
    <3>3. Running(t)' = Running(t) /\ Running(t) \subseteq Requests
      BY <3>2 DEF Running, At
    <3>4. Told(t)' \subseteq Told(t) \cup {} /\ Held(t) \subseteq Held(t)'
      BY <3>1, <3>2, <3>3 DEF Told, Held
    <3> QED
      BY <3>4, StaysCovered
  <2>3. CASE Execute(r)
    <3> DEFINE k == request[r].key
    <3>1. /\ ~At(r, "idle") /\ UNCHANGED receipts /\ k \in Keys
          /\ Answered(r, request[r].told \cup {k}, request[r].flushed \cup ({k} \ receipts))
      BY <1>0, <2>3 DEF Execute, At, TypeOK
    <3> HIDE DEF k
    <3>2. /\ {k} \in SUBSET Keys /\ request[r].flushed \cup ({k} \ receipts) \in SUBSET Keys
          /\ {k} \subseteq receipts \cup (request[r].flushed \cup ({k} \ receipts))
          /\ request[r].flushed \subseteq request[r].flushed \cup ({k} \ receipts)
      BY <2>0, <3>1
    <3> QED
      BY <1>0, <3>1, <3>2, AnsweredCovers
  <2>4. CASE Refuse(r)
    <3>1. /\ ~At(r, "idle") /\ UNCHANGED receipts
          /\ Answered(r, request[r].told \cup {}, request[r].flushed)
      BY <2>4 DEF Refuse, At
    <3>2. /\ {} \in SUBSET Keys /\ {} \subseteq receipts \cup request[r].flushed
          /\ request[r].flushed \subseteq request[r].flushed
      OBVIOUS
    <3> QED
      BY <1>0, <2>0, <3>1, <3>2, AnsweredCovers
  <2>5. ASSUME NEW pending, Record(r, pending, request[r].told)
        PROVE  \A v \in Threads : checkpoint'[v].told =
                  IF v = request[r].thread THEN request[r].told ELSE checkpoint[v].told
    BY <1>0, <2>5 DEF Record, TypeOK
  <2>6. CASE Reply(r)
    BY <1>0, <2>5, <2>6, EndCovers DEF Reply, At, Commit
  <2>7. ASSUME NEW k \in Keys, Propose(r, k) PROVE Covered(t)'
    <3>1. receipts \cup request[r].flushed \subseteq receipts'
      <4>1. request[r].endpoint = "voice"
        BY <1>0, <2>7 DEF ChatPause, TypeOK
      <4>2. CASE request[r].resumed
        BY <2>7, <4>1, <4>2 DEF Propose, SettlesPause, Commit
      <4>3. CASE ~request[r].resumed
        BY <2>7, <4>3 DEF Propose, SettlesPause, RollBack, OnlyResumedFlush
      <4> QED
        BY <4>2, <4>3
    <3> QED
      BY <1>0, <2>5, <2>7, <3>1, EndCovers DEF Propose, At
  <2> QED
    BY <1>3, <2>1, <2>2, <2>3, <2>4, <2>6, <2>7 DEF Run
<1>4. CASE Restart
  <2>1. checkpoint'[t].told = {} /\ \A r \in Requests : request'[r].at = "idle"
    BY <1>4, IdleFields DEF Restart
  <2>2. Running(t)' = {}
    BY <2>1 DEF Running, At
  <2> QED
    BY <2>1, <2>2 DEF Covered
<1>5. CASE UNCHANGED vars
  BY <1>5 DEF vars, Covered, Running, At
<1> QED
  BY <1>1, <1>2, <1>3, <1>4, <1>5 DEF Next

(* What a conversation says was done is durable once its requests have      *)
(* ended, and no step breaks that but a failure of the provider and a chat  *)
(* turn that pauses again: for any number of conversations and requests,    *)
(* those of one conversation that overlap included.                         *)
THEOREM LossExplained == Spec => OnlyFailureOrChatPauseLoses
<1>1. Init => OnlyResumedFlush
  BY IdleFields DEF Init, OnlyResumedFlush, At
<1>2. Spec => []OnlyResumedFlush
  BY <1>1, FlushInv, ApprovalHolds, PTL DEF Spec
<1>3. ApprovalInv /\ OnlyResumedFlush /\ [Next]_vars
        => [\A t \in Threads :
              Covered(t) /\ ~Covered(t)' => \E r \in Requests : Fail(r) \/ ChatPause(r)]_vars
  BY StepCovers
<1> QED
  BY <1>2, <1>3, ApprovalHolds, PTL DEF Spec, OnlyFailureOrChatPauseLoses
=============================================================================
