---------------------------- MODULE JobQueueProofs ----------------------------
(***************************************************************************)
(* Proofs about JobQueue: no published job is lost, for any number of jobs *)
(* and callbacks, any prefetch count and retry limit, and any sequence of  *)
(* lost connections, crashes and failed publishes.                         *)
(*                                                                         *)
(* That a job is in the broker, handled or dead is not inductive: a        *)
(* message about to be acknowledged covers its job only for another        *)
(* moment.  The strengthening, Covered, asks for a message that is not.    *)
(***************************************************************************)
EXTENDS JobQueue, FiniteSetTheorems, TLAPS

\* A callback holds an unacknowledged message of its own job, and no two
\* callbacks hold the same one.
HoldInv ==
    /\ \A c \in Handlers : callback[c].of # NoMessage =>
         /\ msg[callback[c].of].place = "unacked"
         /\ msg[callback[c].of].job = callback[c].job
    /\ \A c, d \in Handlers :
         callback[c].of # NoMessage /\ callback[c].of = callback[d].of => c = d

JobInv ==
    /\ \A m \in Messages : msg[m].place # "none" => msg[m].job \in published
    /\ \A c \in Handlers : callback[c].pc # "free" => callback[c].job \in published

\* Message m of job j is in the broker and nobody is about to acknowledge it.
Open(m, j) ==
    /\ msg[m].place # "none" /\ msg[m].job = j
    /\ \A c \in Handlers : ~(callback[c].of = m /\ callback[c].pc = "acking")

Covered ==
    \A j \in published : j \in handled \cup dead \/ \E m \in Messages : Open(m, j)

QueueInv == TypeOK /\ HoldInv /\ JobInv /\ Covered

LEMMA QueueInit == Init => QueueInv
  BY QueueAssumption DEF Init, QueueInv, TypeOK, HoldInv, JobInv, Covered,
     FreeMsg, FreeCall

----------------------------------------------------------------------------
(* The free slots and the helpers *)

LEMMA SlotIsFree ==
    ASSUME Slots # {}
    PROVE  NextSlot \in Messages /\ msg[NextSlot].place = "none"
  BY DEF Slots, NextSlot

LEMMA CallIsFree ==
    ASSUME Idle # {}
    PROVE  NextCall \in Handlers /\ callback[NextCall].pc = "free"
  BY DEF Idle, NextCall

MsgType == [place : {"none", "queue", "unacked"}, job : Jobs \cup {NoJob},
            retry : 0..MaxRetries]

CallType == [pc : {"free", "running", "failed", "acking"},
             of : Messages \cup {NoMessage}, job : Jobs \cup {NoJob},
             retry : 0..MaxRetries]

LEMMA PutType ==
    ASSUME TypeOK, NEW j \in Jobs, NEW r \in 0..MaxRetries, Put(j, r)
    PROVE  /\ msg' \in [Messages -> MsgType]
           /\ \E n \in Messages : /\ msg[n].place = "none"
                                 /\ msg'[n] = Queued(j, r)
                                 /\ \A m \in Messages \ {n} : msg'[m] = msg[m]
  <1>1. NextSlot \in Messages /\ msg[NextSlot].place = "none"
    BY SlotIsFree DEF Put
  <1>2. msg' = [msg EXCEPT ![NextSlot] = Queued(j, r)] /\ Queued(j, r) \in MsgType
    BY DEF Put, Queued, MsgType
  <1> HIDE DEF NextSlot
  <1> QED
    BY <1>1, <1>2 DEF TypeOK, MsgType

LEMMA DiscardType ==
    ASSUME TypeOK, NEW m \in Messages \cup {NoMessage}, Discard(m)
    PROVE  /\ msg' \in [Messages -> MsgType]
           /\ \A n \in Messages : msg'[n] = IF n = m THEN FreeMsg ELSE msg[n]
  BY QueueAssumption DEF Discard, TypeOK, FreeMsg, MsgType

LEMMA RequeueType ==
    ASSUME TypeOK, Requeue
    PROVE  /\ msg' \in [Messages -> MsgType]
           /\ \A m \in Messages : /\ msg'[m].job = msg[m].job
                                  /\ msg'[m].place = "none" <=> msg[m].place = "none"
  BY DEF Requeue, TypeOK, MsgType

----------------------------------------------------------------------------
(* Every action keeps the invariant. *)

LEMMA PublishKeeps ==
    ASSUME QueueInv, NEW j \in Jobs, Publish(j)
    PROVE  QueueInv'
  <1> USE DEF QueueInv
  <1>1. /\ Put(j, 0) /\ published' = published \cup {j} /\ callback' = callback
        /\ UNCHANGED <<handled, dead, faults>>
    BY DEF Publish
  <1>2. msg' \in [Messages -> MsgType]
    BY <1>1, PutType, QueueAssumption
  <1>3. PICK n \in Messages : /\ msg[n].place = "none" /\ msg'[n] = Queued(j, 0)
                             /\ \A m \in Messages \ {n} : msg'[m] = msg[m]
    BY <1>1, PutType, QueueAssumption
  <1>4. TypeOK'
    BY <1>1, <1>2 DEF TypeOK, MsgType
  <1>5. \A c \in Handlers : callback[c].of # n
    BY <1>3, QueueAssumption DEF HoldInv
  <1>6. HoldInv'
    BY <1>1, <1>3, <1>5 DEF HoldInv, TypeOK
  <1>7. JobInv'
    BY <1>1, <1>3 DEF JobInv, Queued
  <1>8. \A x, m : m \in Messages /\ Open(m, x) => Open(m, x)'
    BY <1>1, <1>3 DEF Open
  <1>9. Open(n, j)'
    BY <1>1, <1>3, <1>5 DEF Open, Queued
  <1>10. Covered'
    BY <1>1, <1>8, <1>9 DEF Covered
  <1> QED
    BY <1>4, <1>6, <1>7, <1>10

LEMMA DeliverKeeps ==
    ASSUME QueueInv, NEW m \in Messages, Deliver(m)
    PROVE  QueueInv'
  <1> USE DEF QueueInv
  <1>1. PICK c \in Handlers : c = NextCall /\ callback[c].pc = "free"
    BY CallIsFree DEF Deliver
  <1>2. PICK call : call = [pc |-> "running", of |-> m, job |-> msg[m].job,
                            retry |-> msg[m].retry]
    OBVIOUS
  <1>3. /\ msg[m].place = "queue"
        /\ callback' = [callback EXCEPT ![c] = call]
        /\ msg' = [msg EXCEPT ![m].place = "unacked"]
        /\ UNCHANGED <<published, handled, dead, faults>>
    BY <1>1, <1>2 DEF Deliver
  <1>4. /\ \A n \in Messages \ {m} : msg'[n] = msg[n]
        /\ msg'[m].place = "unacked" /\ msg'[m].job = msg[m].job
        /\ callback'[c] = call
        /\ \A d \in Handlers \ {c} : callback'[d] = callback[d]
    BY <1>3 DEF TypeOK
  <1>5. call \in CallType /\ call.of = m /\ call.job = msg[m].job
        /\ call.pc = "running"
    BY <1>2 DEF CallType, TypeOK
  <1>6. TypeOK'
    BY <1>3, <1>5 DEF TypeOK, CallType
  <1>7. \A d \in Handlers : callback[d].of # m
    BY <1>3, QueueAssumption DEF HoldInv
  <1>8. HoldInv'
    BY <1>3, <1>4, <1>5, <1>7, QueueAssumption DEF HoldInv, TypeOK
  <1>9. JobInv'
    BY <1>3, <1>4, <1>5 DEF JobInv
  <1>10. \A x, n : n \in Messages /\ Open(n, x) => Open(n, x)'
    BY <1>3, <1>4, <1>5, <1>7 DEF Open
  <1>11. Covered'
    BY <1>3, <1>10 DEF Covered
  <1> QED
    BY <1>6, <1>8, <1>9, <1>11

LEMMA HandlerKeeps ==
    ASSUME QueueInv, NEW c \in Handlers,
           \/ HandlerReturns(c) \/ HandlerFails(c) \/ DeadLetter(c)
    PROVE  QueueInv'
  <1> USE DEF QueueInv
  <1> DEFINE j == callback[c].job
  <1>1. PICK p \in {"failed", "acking"} :
          callback' = [callback EXCEPT ![c].pc = p]
    BY DEF HandlerReturns, HandlerFails, DeadLetter
  <1>2. /\ callback[c].pc # "free" /\ msg' = msg
        /\ UNCHANGED <<published, faults>> /\ j \in published
        /\ handled' \in {handled, handled \cup {j}}
        /\ dead' \in {dead, dead \cup {j}}
        /\ p = "failed" \/ j \in handled' \cup dead'
    BY <1>1 DEF HandlerReturns, HandlerFails, DeadLetter, JobInv, TypeOK
  <1>3. /\ \A d \in Handlers \ {c} : callback'[d] = callback[d]
        /\ callback'[c].of = callback[c].of /\ callback'[c].job = j
        /\ callback'[c].pc = p
    BY <1>1 DEF TypeOK
  <1>4. TypeOK'
    <2>1. callback' \in [Handlers -> CallType]
      BY <1>1 DEF TypeOK, CallType
    <2> QED
      BY <1>2, <2>1 DEF TypeOK, CallType
  <1>5. HoldInv'
    BY <1>2, <1>3 DEF HoldInv
  <1>6. JobInv'
    BY <1>2, <1>3 DEF JobInv
  <1>7. \A x \in published, m \in Messages :
          Open(m, x) => Open(m, x)' \/ x \in handled' \cup dead'
    BY <1>2, <1>3, QueueAssumption DEF Open, HoldInv
  <1>8. Covered'
    BY <1>2, <1>7 DEF Covered
  <1> QED
    BY <1>4, <1>5, <1>6, <1>8

LEMMA RepublishKeeps ==
    ASSUME QueueInv, NEW c \in Handlers, Republish(c)
    PROVE  QueueInv'
  <1> USE DEF QueueInv
  <1>1. PICK j \in published : j = callback[c].job
    BY DEF Republish, JobInv
  <1>2. PICK r \in 0..MaxRetries : Put(j, r)
    BY <1>1, QueueAssumption DEF Republish, TypeOK
  <1>3. /\ callback' = [callback EXCEPT ![c].pc = "acking"]
        /\ UNCHANGED <<published, handled, dead, faults>> /\ j \in Jobs
    BY <1>1 DEF Republish, TypeOK
  <1>4. msg' \in [Messages -> MsgType]
    BY <1>2, <1>3, PutType
  <1>5. PICK n \in Messages : /\ msg[n].place = "none" /\ msg'[n] = Queued(j, r)
                             /\ \A m \in Messages \ {n} : msg'[m] = msg[m]
    BY <1>2, <1>3, PutType
  <1>6. /\ \A d \in Handlers \ {c} : callback'[d] = callback[d]
        /\ callback'[c].of = callback[c].of /\ callback'[c].job = j
        /\ callback' \in [Handlers -> CallType]
    BY <1>1, <1>3 DEF TypeOK, CallType
  <1>7. TypeOK'
    BY <1>3, <1>4, <1>6 DEF TypeOK, MsgType, CallType
  <1>8. \A d \in Handlers : callback[d].of # n
    BY <1>5, QueueAssumption DEF HoldInv
  <1>9. \A d \in Handlers : callback'[d].of = callback[d].of
                              /\ callback'[d].job = callback[d].job
    BY <1>1, <1>6
  <1>10. HoldInv'
    BY <1>5, <1>8, <1>9 DEF HoldInv, TypeOK
  <1>11. JobInv'
    BY <1>3, <1>5, <1>6 DEF JobInv, Queued
  <1>12. Open(n, j)'
    BY <1>5, <1>8, <1>9 DEF Open, Queued
  <1>13. \A x, m : m \in Messages /\ x # j /\ Open(m, x) => Open(m, x)'
    BY <1>1, <1>5, <1>6, <1>9, QueueAssumption DEF Open, HoldInv
  <1>14. Covered'
    BY <1>3, <1>12, <1>13 DEF Covered
  <1> QED
    BY <1>7, <1>10, <1>11, <1>14

\* A callback that ends, acknowledging or rejecting its message.
LEMMA EndKeeps ==
    ASSUME QueueInv, NEW c \in Handlers, Ack(c) \/ PublishFails(c)
    PROVE  QueueInv'
  <1> USE DEF QueueInv
  <1> DEFINE m == callback[c].of
             j == callback[c].job
  <1>1. /\ Discard(m) /\ callback' = [callback EXCEPT ![c] = FreeCall]
        /\ UNCHANGED <<published, handled>>
        /\ faults' \in Nat /\ dead' \in {dead, dead \cup {j}}
        /\ callback[c].pc = "acking" \/ m = NoMessage \/ j \in dead'
        /\ callback[c].pc # "free"
    BY DEF Ack, PublishFails, Fault, TypeOK, Holders
  <1>2. m \in Messages \cup {NoMessage} /\ j \in published /\ NoMessage \notin Messages
    BY <1>1, QueueAssumption DEF TypeOK, JobInv
  <1>3. /\ msg' \in [Messages -> MsgType]
        /\ \A n \in Messages : msg'[n] = IF n = m THEN FreeMsg ELSE msg[n]
    BY <1>1, <1>2, DiscardType
  <1>4. /\ \A d \in Handlers \ {c} : callback'[d] = callback[d]
        /\ callback'[c] = FreeCall /\ callback' \in [Handlers -> CallType]
    BY <1>1, QueueAssumption DEF TypeOK, CallType, FreeCall
  <1>5. TypeOK'
    BY <1>1, <1>2, <1>3, <1>4 DEF TypeOK, MsgType, CallType
  <1>6. HoldInv'
    <2>1. \A d \in Handlers : callback'[d].of # NoMessage =>
            d # c /\ callback'[d] = callback[d] /\ callback[d].of # m
      BY <1>4 DEF HoldInv, FreeCall
    <2> HIDE DEF m, j
    <2> QED
      BY <1>2, <1>3, <1>4, <2>1 DEF HoldInv, TypeOK
  <1>7. JobInv'
    BY <1>1, <1>3, <1>4 DEF JobInv, FreeMsg, FreeCall
  <1>8. \A x, n : n \in Messages /\ n # m /\ Open(n, x) => Open(n, x)'
    BY <1>2, <1>3, <1>4 DEF Open, FreeCall
  <1>9. \A x \in published : m \in Messages /\ Open(m, x) => x \in dead'
    BY <1>1, <1>2 DEF Open, HoldInv
  <1>10. Covered'
    BY <1>1, <1>8, <1>9 DEF Covered
  <1> QED
    BY <1>5, <1>6, <1>7, <1>10

LEMMA ExpireKeeps ==
    ASSUME QueueInv, NEW m \in Messages, Expire(m)
    PROVE  QueueInv'
  <1> USE DEF QueueInv
  <1>1. /\ msg[m].place = "queue" /\ Discard(m) /\ dead' = dead \cup {msg[m].job}
        /\ UNCHANGED <<published, callback, handled, faults>>
        /\ msg[m].job \in published
    BY DEF Expire, JobInv
  <1>2. /\ msg' \in [Messages -> MsgType]
        /\ \A n \in Messages : msg'[n] = IF n = m THEN FreeMsg ELSE msg[n]
    BY <1>1, DiscardType
  <1>3. TypeOK'
    BY <1>1, <1>2 DEF TypeOK, MsgType
  <1>4. HoldInv'
    BY <1>1, <1>2 DEF HoldInv, TypeOK
  <1>5. JobInv'
    BY <1>1, <1>2 DEF JobInv, FreeMsg
  <1>6. \A x, n : n \in Messages /\ n # m /\ Open(n, x) => Open(n, x)'
    BY <1>1, <1>2 DEF Open
  <1>7. Covered'
    BY <1>1, <1>6 DEF Covered, Open
  <1> QED
    BY <1>3, <1>4, <1>5, <1>7

LEMMA LossKeeps ==
    ASSUME QueueInv, Reconnect \/ Crash
    PROVE  QueueInv'
  <1> USE DEF QueueInv
  <1>1. /\ Requeue /\ UNCHANGED <<published, handled, dead>> /\ faults' \in Nat
        /\ \A c \in Handlers : /\ callback'[c].of = NoMessage
                               /\ \/ callback'[c].pc = "free"
                                  \/ /\ callback'[c].pc = callback[c].pc
                                     /\ callback'[c].job = callback[c].job
        /\ callback' \in [Handlers -> CallType]
    BY QueueAssumption DEF Reconnect, Crash, Fault, TypeOK, FreeCall, CallType
  <1>2. /\ msg' \in [Messages -> MsgType]
        /\ \A m \in Messages : /\ msg'[m].job = msg[m].job
                               /\ msg'[m].place = "none" <=> msg[m].place = "none"
    BY <1>1, RequeueType
  <1>3. TypeOK'
    BY <1>1, <1>2 DEF TypeOK, MsgType, CallType
  <1>4. HoldInv'
    BY <1>1 DEF HoldInv
  <1>5. JobInv'
    BY <1>1, <1>2 DEF JobInv
  <1>6. \A x, m : m \in Messages /\ Open(m, x) => Open(m, x)'
    BY <1>1, <1>2, QueueAssumption DEF Open
  <1>7. Covered'
    BY <1>1, <1>6 DEF Covered
  <1> QED
    BY <1>3, <1>4, <1>5, <1>7

LEMMA QueueNext == QueueInv /\ [Next]_vars => QueueInv'
  <1> SUFFICES ASSUME QueueInv, [Next]_vars PROVE QueueInv'
    OBVIOUS
  <1>1. CASE Next
    BY <1>1, PublishKeeps, DeliverKeeps, HandlerKeeps, RepublishKeeps, EndKeeps,
       ExpireKeeps, LossKeeps DEF Next, CallbackStep
  <1>2. CASE UNCHANGED vars
    BY <1>2 DEF QueueInv, TypeOK, HoldInv, JobInv, Covered, Open, vars
  <1> QED
    BY <1>1, <1>2

\* Messages, callbacks and the sets of jobs keep their types; in particular
\* no copy is ever published with a retry count above _MAX_RETRIES.
THEOREM QueueTypeCorrect == Spec => []TypeOK
  <1>1. QueueInv => TypeOK
    BY DEF QueueInv
  <1> QED
    BY <1>1, QueueInit, QueueNext, PTL DEF Spec

----------------------------------------------------------------------------
(* The queue keeps the promise. *)

Owed == {j \in Jobs : InBroker(j) # {}}

LEMMA OwedMeaning ==
    ASSUME NEW j
    PROVE  j \in Owed <=> /\ j \in Jobs
                          /\ \E m \in Messages : msg[m].place # "none" /\ msg[m].job = j
  BY DEF Owed, InBroker

LEMMA OwedMeaningNext ==
    ASSUME NEW j
    PROVE  j \in Owed' <=> /\ j \in Jobs
                           /\ \E m \in Messages : msg'[m].place # "none" /\ msg'[m].job = j
  BY DEF Owed, InBroker

\* A step that keeps every message's job, and its being in the broker or not,
\* keeps the jobs that are owed.
LEMMA SameOwed ==
    ASSUME \A m \in Messages : msg'[m].job = msg[m].job,
           \A m \in Messages : msg'[m].place = "none" <=> msg[m].place = "none"
    PROVE  Owed' = Owed
  <1>1. ASSUME NEW j
        PROVE  j \in Owed' <=> j \in Owed
    <2>1. CASE j \in Owed
      <3>1. PICK m \in Messages : msg[m].place # "none" /\ msg[m].job = j
        BY <2>1, OwedMeaning
      <3>2. msg'[m].place # "none" /\ msg'[m].job = j
        BY <3>1
      <3> QED
        BY <2>1, <3>2, OwedMeaning, OwedMeaningNext
    <2>2. CASE j \in Owed'
      <3>1. PICK m \in Messages : msg'[m].place # "none" /\ msg'[m].job = j
        BY <2>2, OwedMeaningNext
      <3>2. msg[m].place # "none" /\ msg[m].job = j
        BY <3>1
      <3> QED
        BY <2>2, <3>2, OwedMeaning, OwedMeaningNext
    <2> QED
      BY <2>1, <2>2
  <1> QED
    BY <1>1

\* The messages of every job but one stay where they were, and that job is
\* handled or dead if it has no message left: a step of the work on it.
LEMMA WorkStep ==
    ASSUME QueueInv, QueueInv', NEW j \in published, UNCHANGED published,
           \A x \in Jobs \ {j} : x \in Owed' <=> x \in Owed,
           handled' \in {handled, handled \cup {j}},
           dead' \in {dead, dead \cup {j}}
    PROVE  Promise!Work(j)
  <1> USE DEF QueueInv
  <1>1. j \in Jobs /\ j \in published'
    BY DEF TypeOK
  <1>2. Owed' \in {Owed \cup {j}, Owed \ {j}}
    <2>1. Owed \subseteq Jobs /\ Owed' \subseteq Jobs
      BY DEF Owed
    <2> QED
      BY <1>1, <2>1
  <1>3. j \notin Owed' => j \in handled' \cup dead'
    BY <1>1, OwedMeaningNext DEF Covered, Open
  <1> QED
    BY <1>1, <1>2, <1>3 DEF Promise!Work, Owed

LEMMA PromiseStep ==
    QueueInv /\ QueueInv' /\ [Next]_vars => [Promise!Next]_(Promise!vars)
  <1> SUFFICES ASSUME QueueInv, QueueInv', [Next]_vars
               PROVE  Promise!Next \/ UNCHANGED Promise!vars
    OBVIOUS
  <1> USE DEF QueueInv
  <1>0. Owed \subseteq Jobs /\ Owed' \subseteq Jobs
    BY DEF Owed
  <1>1. ASSUME NEW j \in Jobs, Publish(j)
        PROVE  Promise!Accept(j)
    <2>1. PICK n \in Messages : /\ msg[n].place = "none" /\ msg'[n] = Queued(j, 0)
                               /\ \A m \in Messages \ {n} : msg'[m] = msg[m]
      BY <1>1, PutType, QueueAssumption DEF Publish
    <2>2. Owed' = Owed \cup {j}
      BY <1>0, <2>1, OwedMeaning, OwedMeaningNext DEF Queued
    <2> QED
      BY <1>1, <2>2 DEF Publish, Promise!Accept, Owed
  <1>2. ASSUME NEW m \in Messages, Deliver(m)
        PROVE  UNCHANGED Promise!vars
    <2>1. msg[m].place = "queue" /\ msg' = [msg EXCEPT ![m].place = "unacked"]
      BY <1>2 DEF Deliver
    <2>2. \A n \in Messages : /\ msg'[n].job = msg[n].job
                              /\ msg'[n].place = "none" <=> msg[n].place = "none"
      BY <2>1 DEF TypeOK
    <2>3. Owed' = Owed
      BY <2>2, SameOwed
    <2> QED
      BY <1>2, <2>3 DEF Deliver, Promise!vars, Owed
  <1>3. ASSUME NEW m \in Messages, Expire(m)
        PROVE  Promise!Work(msg[m].job)
    <2>1. PICK j \in published : j = msg[m].job
      BY <1>3 DEF Expire, JobInv
    <2>2. \A n \in Messages : msg'[n] = IF n = m THEN FreeMsg ELSE msg[n]
      BY <1>3, DiscardType DEF Expire
    <2>3. \A x \in Jobs \ {j} : x \in Owed' <=> x \in Owed
      BY <2>1, <2>2, OwedMeaning, OwedMeaningNext DEF FreeMsg
    <2>4. Promise!Work(j)
      BY <1>3, <2>1, <2>3, WorkStep DEF Expire
    <2> QED
      BY <2>1, <2>4
  <1>4. ASSUME NEW c \in Handlers, Republish(c)
        PROVE  Promise!Work(callback[c].job)
    <2>1. PICK j \in published : j = callback[c].job
      BY <1>4 DEF Republish, JobInv
    <2>2. PICK r \in 0..MaxRetries : Put(j, r)
      BY <1>4, <2>1, QueueAssumption DEF Republish, TypeOK
    <2>3. PICK n \in Messages : /\ msg[n].place = "none" /\ msg'[n] = Queued(j, r)
                               /\ \A m \in Messages \ {n} : msg'[m] = msg[m]
      BY <2>2, PutType DEF TypeOK
    <2>4. \A x \in Jobs \ {j} : x \in Owed' <=> x \in Owed
      BY <2>3, OwedMeaning, OwedMeaningNext DEF Queued
    <2>5. Promise!Work(j)
      BY <1>4, <2>4, WorkStep DEF Republish
    <2> QED
      BY <2>1, <2>5
  <1>5. ASSUME NEW c \in Handlers, Ack(c) \/ PublishFails(c)
        PROVE  Promise!Work(callback[c].job)
    <2>1. PICK j \in published : j = callback[c].job
      BY <1>5 DEF Ack, PublishFails, JobInv
    <2>2. PICK m \in Messages \cup {NoMessage} : m = callback[c].of /\ Discard(m)
      BY <1>5 DEF Ack, PublishFails, TypeOK
    <2>3. \A n \in Messages : msg'[n] = IF n = m THEN FreeMsg ELSE msg[n]
      BY <2>2, DiscardType
    <2>4. m \in Messages => msg[m].job = j
      BY <2>1, <2>2, QueueAssumption DEF HoldInv
    <2>5. \A x \in Jobs \ {j} : x \in Owed' <=> x \in Owed
      BY <2>3, <2>4, OwedMeaning, OwedMeaningNext DEF FreeMsg
    <2>6. /\ UNCHANGED <<published, handled>>
          /\ dead' \in {dead, dead \cup {j}}
      BY <1>5, <2>1 DEF Ack, PublishFails
    <2>7. Promise!Work(j)
      BY <2>5, <2>6, WorkStep
    <2> QED
      BY <2>1, <2>7
  <1>6. ASSUME NEW c \in Handlers,
               HandlerReturns(c) \/ HandlerFails(c) \/ DeadLetter(c)
        PROVE  Promise!Work(callback[c].job)
    <2>1. PICK j \in published : j = callback[c].job
      BY <1>6 DEF HandlerReturns, HandlerFails, DeadLetter, JobInv
    <2>2. /\ UNCHANGED <<published, msg>>
          /\ handled' \in {handled, handled \cup {j}}
          /\ dead' \in {dead, dead \cup {j}}
      BY <1>6, <2>1 DEF HandlerReturns, HandlerFails, DeadLetter
    <2>3. \A x \in Jobs \ {j} : x \in Owed' <=> x \in Owed
      BY <2>2, OwedMeaning, OwedMeaningNext
    <2>4. Promise!Work(j)
      BY <2>2, <2>3, WorkStep
    <2> QED
      BY <2>1, <2>4
  <1>7. ASSUME Reconnect \/ Crash
        PROVE  UNCHANGED Promise!vars
    <2>1. \A m \in Messages : /\ msg'[m].job = msg[m].job
                              /\ msg'[m].place = "none" <=> msg[m].place = "none"
      BY <1>7, RequeueType DEF Reconnect, Crash
    <2>2. Owed' = Owed
      BY <2>1, SameOwed
    <2> QED
      BY <1>7, <2>2 DEF Reconnect, Crash, Promise!vars, Owed
  <1>8. ASSUME UNCHANGED vars
        PROVE  UNCHANGED Promise!vars
    BY <1>8 DEF vars, Promise!vars, InBroker
  <1>9. \A j : Promise!Work(j) => j \in Jobs
    BY DEF Promise!Work, TypeOK
  <1> QED
    BY <1>1, <1>2, <1>3, <1>4, <1>5, <1>6, <1>7, <1>8, <1>9
       DEF Next, CallbackStep, Promise!Next

\* The queue of RabbitMQService implements JobPromise: whatever fails and
\* however often, a published job leaves the broker only handled or dead.
THEOREM JobsAreNeverLost == Spec => Refines
  <1>1. Init => Promise!Init
    BY QueueAssumption DEF Init, Promise!Init, InBroker, FreeMsg
  <1> QED
    BY <1>1, QueueInit, QueueNext, PromiseStep, PTL
       DEF Spec, Refines, Promise!Spec

----------------------------------------------------------------------------
(* One copy until a fault *)

\* While nothing has failed, a callback has its message until it ends, a job
\* has at most one open message, and none once it is handled or dead.
CopyInv ==
    /\ handled \cup dead \subseteq published
    /\ \A c \in Handlers : callback[c].pc = "free" => callback[c].of = NoMessage
    /\ faults = 0 =>
         /\ \A c \in Handlers : callback[c].pc # "free" => callback[c].of # NoMessage
         /\ \A m, n \in Messages, j \in Jobs : Open(m, j) /\ Open(n, j) => m = n
         /\ \A m \in Messages, j \in handled \cup dead : ~Open(m, j)

LEMMA CopyInit == Init => CopyInv
  BY DEF Init, CopyInv, FreeMsg, FreeCall, Open

\* A callback that is not acknowledging keeps its message open.
LEMMA HeldIsOpen ==
    ASSUME QueueInv, CopyInv, faults = 0, NEW c \in Handlers,
           callback[c].pc \in {"running", "failed"}
    PROVE  callback[c].of \in Messages /\ Open(callback[c].of, callback[c].job)
  <1>1. callback[c].of \in Messages
    BY DEF CopyInv, QueueInv, TypeOK
  <1> QED
    BY <1>1, QueueAssumption DEF QueueInv, HoldInv, Open

\* Steps that open and close nothing.
LEMMA SameOpen ==
    ASSUME QueueInv, CopyInv, UNCHANGED <<published, handled, dead>>,
           \A c \in Handlers : callback'[c].pc = "free" => callback'[c].of = NoMessage,
           faults' = 0 =>
             /\ faults = 0
             /\ \A c \in Handlers : callback'[c].pc # "free" =>
                                      callback'[c].of # NoMessage
             /\ \A m \in Messages, j \in Jobs : Open(m, j)' => Open(m, j)
    PROVE  CopyInv'
  <1>1. handled \cup dead \subseteq Jobs
    BY DEF QueueInv, TypeOK
  <1> QED
    BY <1>1 DEF CopyInv

\* Steps that close the message of a job and settle it.
LEMMA ClosedOpen ==
    ASSUME QueueInv, CopyInv, NEW m \in Messages, NEW j \in published,
           faults = 0 => Open(m, j), faults' = faults, published' = published,
           handled' \in {handled, handled \cup {j}}, dead' \in {dead, dead \cup {j}},
           \A c \in Handlers : callback'[c].of = callback[c].of,
           \A c \in Handlers : callback'[c].pc = "free" <=> callback[c].pc = "free",
           \A n \in Messages, x \in Jobs : Open(n, x)' => Open(n, x) /\ n # m
    PROVE  CopyInv'
  <1>1. handled \cup dead \subseteq Jobs /\ j \in Jobs
    BY DEF QueueInv, TypeOK
  <1>2. ASSUME faults = 0, NEW n \in Messages, NEW x \in handled' \cup dead'
        PROVE  ~Open(n, x)'
    BY <1>1, <1>2 DEF CopyInv
  <1> QED
    BY <1>1, <1>2 DEF CopyInv

LEMMA CopyNext ==
    ASSUME QueueInv, QueueInv', CopyInv, [Next]_vars
    PROVE  CopyInv'
  <1> USE DEF QueueInv
  <1>1. ASSUME NEW j \in Jobs, Publish(j)
        PROVE  CopyInv'
    <2>1. PICK n \in Messages : /\ msg[n].place = "none" /\ msg'[n] = Queued(j, 0)
                               /\ \A m \in Messages \ {n} : msg'[m] = msg[m]
      BY <1>1, PutType, QueueAssumption DEF Publish
    <2>2. /\ j \notin published /\ published' = published \cup {j}
          /\ UNCHANGED <<callback, handled, dead, faults>>
      BY <1>1 DEF Publish
    <2>3. \A m \in Messages : ~Open(m, j)
      BY <2>2 DEF JobInv, Open
    <2>4. \A m \in Messages, x \in Jobs :
            Open(m, x)' => (m = n /\ x = j) \/ (x # j /\ Open(m, x))
      BY <2>1, <2>2, <2>3 DEF Open, Queued
    <2> QED
      BY <2>2, <2>4 DEF CopyInv, TypeOK
  <1>2. ASSUME NEW m \in Messages, Deliver(m)
        PROVE  CopyInv'
    <2>1. PICK c \in Handlers : c = NextCall /\ callback[c].pc = "free"
      BY <1>2, CallIsFree DEF Deliver
    <2>2. /\ msg[m].place = "queue"
          /\ \A n \in Messages : /\ msg'[n].job = msg[n].job
                                 /\ msg'[n].place = "none" <=> msg[n].place = "none"
          /\ UNCHANGED <<published, handled, dead, faults>>
      BY <1>2 DEF Deliver, TypeOK
    <2>3. /\ callback'[c].of = m /\ callback'[c].pc = "running"
          /\ \A d \in Handlers \ {c} : callback'[d] = callback[d]
      BY <1>2, <2>1 DEF Deliver, TypeOK
    <2>4. callback[c].of = NoMessage /\ m # NoMessage
      BY <2>1, QueueAssumption DEF CopyInv
    <2>5. \A n \in Messages, x \in Jobs : Open(n, x)' => Open(n, x)
      BY <2>2, <2>3, <2>4, QueueAssumption DEF Open
    <2> QED
      BY <2>2, <2>3, <2>4, <2>5, SameOpen DEF CopyInv
  <1>3. ASSUME NEW c \in Handlers, HandlerReturns(c) \/ DeadLetter(c)
        PROVE  CopyInv'
    <2>1. PICK j \in published : j = callback[c].job
      BY <1>3 DEF HandlerReturns, DeadLetter, JobInv
    <2>2. /\ callback[c].pc \in {"running", "failed"}
          /\ UNCHANGED <<published, msg, faults>>
          /\ handled' \in {handled, handled \cup {j}}
          /\ dead' \in {dead, dead \cup {j}}
          /\ handled' \cup dead' = handled \cup dead \cup {j}
      BY <1>3, <2>1 DEF HandlerReturns, DeadLetter
    <2>3. /\ callback'[c].of = callback[c].of /\ callback'[c].pc = "acking"
          /\ \A d \in Handlers \ {c} : callback'[d] = callback[d]
      BY <1>3 DEF HandlerReturns, DeadLetter, TypeOK
    <2>4. \A n \in Messages, x \in Jobs : Open(n, x)' => Open(n, x) /\ n # callback[c].of
      BY <2>2, <2>3 DEF Open
    <2>5. CASE faults = 0
      <3>1. callback[c].of \in Messages /\ Open(callback[c].of, j)
        BY <2>1, <2>2, <2>5, HeldIsOpen
      <3> QED BY <2>2, <2>3, <2>4, <3>1, ClosedOpen
    <2>6. CASE faults # 0
      BY <2>1, <2>2, <2>3, <2>6 DEF CopyInv
    <2> QED BY <2>5, <2>6
  <1>4. ASSUME NEW c \in Handlers, HandlerFails(c)
        PROVE  CopyInv'
    <2>1. /\ callback[c].pc = "running"
          /\ UNCHANGED <<published, msg, handled, dead, faults>>
          /\ callback'[c].of = callback[c].of /\ callback'[c].pc = "failed"
          /\ \A d \in Handlers \ {c} : callback'[d] = callback[d]
      BY <1>4 DEF HandlerFails, TypeOK
    <2>2. \A n \in Messages, x \in Jobs : Open(n, x)' => Open(n, x)
      BY <2>1 DEF Open
    <2> QED
      BY <2>1, <2>2, SameOpen DEF CopyInv
  <1>5. ASSUME NEW c \in Handlers, Republish(c)
        PROVE  CopyInv'
    <2>1. PICK j \in published : j = callback[c].job
      BY <1>5 DEF Republish, JobInv
    <2>2. PICK r \in 0..MaxRetries : Put(j, r)
      BY <1>5, <2>1, QueueAssumption DEF Republish, TypeOK
    <2>3. PICK n \in Messages : /\ msg[n].place = "none" /\ msg'[n] = Queued(j, r)
                               /\ \A m \in Messages \ {n} : msg'[m] = msg[m]
      BY <2>2, PutType DEF TypeOK
    <2>4. /\ callback[c].pc = "failed"
          /\ UNCHANGED <<published, handled, dead, faults>>
          /\ callback'[c].of = callback[c].of /\ callback'[c].pc = "acking"
          /\ \A d \in Handlers \ {c} : callback'[d] = callback[d]
      BY <1>5 DEF Republish, TypeOK
    <2>5. CASE faults = 0
      <3>1. callback[c].of \in Messages /\ Open(callback[c].of, j)
        BY <2>1, <2>4, <2>5, HeldIsOpen
      <3>2. \A m \in Messages, x \in Jobs :
              Open(m, x)' => (m = n /\ x = j) \/ (Open(m, x) /\ m # callback[c].of)
        BY <2>3, <2>4 DEF Open, Queued
      <3>3. j \in Jobs /\ handled \cup dead \subseteq Jobs
        BY DEF TypeOK
      <3>4. \A m \in Messages : ~Open(m, j) \/ m = callback[c].of
        BY <2>5, <3>1, <3>3 DEF CopyInv
      <3>5. \A m, p \in Messages, x \in Jobs : Open(m, x)' /\ Open(p, x)' => m = p
        BY <2>5, <3>2, <3>4 DEF CopyInv
      <3>6. j \notin handled \cup dead
        BY <2>5, <3>1 DEF CopyInv
      <3>7. \A m \in Messages, x \in handled \cup dead : ~Open(m, x)'
        BY <2>5, <3>2, <3>3, <3>6 DEF CopyInv
      <3> QED BY <2>4, <2>5, <3>5, <3>7 DEF CopyInv
    <2>6. CASE faults # 0
      BY <2>4, <2>6 DEF CopyInv
    <2> QED BY <2>5, <2>6
  <1>6. ASSUME NEW c \in Handlers, Ack(c)
        PROVE  CopyInv'
    <2>1. PICK m \in Messages \cup {NoMessage} : m = callback[c].of /\ Discard(m)
      BY <1>6 DEF Ack, TypeOK
    <2>2. \A n \in Messages : msg'[n] = IF n = m THEN FreeMsg ELSE msg[n]
      BY <2>1, DiscardType
    <2>3. /\ UNCHANGED <<published, handled, dead, faults>>
          /\ callback'[c] = FreeCall
          /\ \A d \in Handlers \ {c} : callback'[d] = callback[d]
      BY <1>6 DEF Ack, TypeOK
    <2>4. \A n \in Messages, x \in Jobs : Open(n, x)' => Open(n, x)
      BY <2>1, <2>2, <2>3 DEF Open, FreeMsg
    <2> QED
      BY <2>3, <2>4, SameOpen DEF CopyInv, FreeCall
  <1>7. ASSUME NEW m \in Messages, Expire(m)
        PROVE  CopyInv'
    <2>1. PICK j \in published : j = msg[m].job
      BY <1>7 DEF Expire, JobInv
    <2>2. \A n \in Messages : msg'[n] = IF n = m THEN FreeMsg ELSE msg[n]
      BY <1>7, DiscardType DEF Expire
    <2>3. /\ UNCHANGED <<published, callback, handled, faults>>
          /\ dead' = dead \cup {j} /\ msg[m].place = "queue"
      BY <1>7, <2>1 DEF Expire
    <2>4. Open(m, j)
      BY <2>1, <2>3, QueueAssumption DEF HoldInv, Open
    <2>5. \A n \in Messages, x \in Jobs : Open(n, x)' => Open(n, x) /\ n # m
      BY <2>2, <2>3 DEF Open, FreeMsg
    <2> QED
      BY <2>3, <2>4, <2>5, ClosedOpen
  <1>8. ASSUME \/ Reconnect \/ Crash \/ \E c \in Handlers : PublishFails(c)
        PROVE  CopyInv'
    <2>1. /\ faults' = faults + 1 /\ faults \in Nat
          /\ UNCHANGED <<published, handled>>
      BY <1>8 DEF Reconnect, Crash, PublishFails, Fault, TypeOK
    <2>2. faults' # 0
      BY <2>1
    <2>3. dead' \subseteq published
      BY <1>8 DEF Reconnect, Crash, PublishFails, JobInv, CopyInv
    <2>4. \A c \in Handlers : callback'[c].pc = "free" => callback'[c].of = NoMessage
      BY <1>8 DEF Reconnect, Crash, PublishFails, FreeCall, CopyInv, TypeOK
    <2> QED
      BY <2>1, <2>2, <2>3, <2>4 DEF CopyInv
  <1>9. CASE UNCHANGED vars
    BY <1>9 DEF vars, CopyInv, Open
  <1> QED
    BY <1>1, <1>2, <1>3, <1>4, <1>5, <1>6, <1>7, <1>8, <1>9 DEF Next, CallbackStep

\* Until a connection, a process or a publish fails, RabbitMQService keeps one
\* copy of a job, and none once it is settled: its handler never runs twice
\* for one attempt.
THEOREM OneCopyWhileNothingFails == Spec => []OneCopyUntilFault
  <1>1. ASSUME QueueInv, CopyInv
        PROVE  OneCopyUntilFault
    <2> SUFFICES ASSUME faults = 0, NEW j \in published
                 PROVE  Cardinality({m \in InBroker(j) :
                           ~\E c \in Handlers : callback[c].of = m
                                                  /\ callback[c].pc = "acking"})
                          = IF j \in handled \cup dead THEN 0 ELSE 1
      BY DEF OneCopyUntilFault
    <2> DEFINE open == {m \in InBroker(j) :
                          ~\E c \in Handlers : callback[c].of = m
                                                 /\ callback[c].pc = "acking"}
    <2>1. \A m : m \in open <=> m \in Messages /\ Open(m, j)
      BY DEF InBroker, Open
    <2>2. j \in Jobs
      BY <1>1 DEF QueueInv, TypeOK
    <2>3. CASE j \in handled \cup dead
      <3>1. open = {}
        BY <1>1, <2>1, <2>3 DEF CopyInv
      <3> QED BY <2>3, <3>1, FS_EmptySet
    <2>4. CASE j \notin handled \cup dead
      <3>1. PICK m \in Messages : Open(m, j)
        BY <1>1, <2>4 DEF QueueInv, Covered
      <3>2. open = {m}
        BY <1>1, <2>1, <2>2, <3>1 DEF CopyInv
      <3> QED BY <2>4, <3>2, FS_Singleton
    <2> QED BY <2>3, <2>4
  <1> QED
    BY <1>1, QueueInit, QueueNext, CopyInit, CopyNext, PTL DEF Spec
=============================================================================
