------------------------------- MODULE JobQueue -------------------------------
(***************************************************************************)
(* One RabbitMQ queue of RabbitMQService with its dead-letter queue, the   *)
(* publishers, and one consuming process: consume() runs a callback per    *)
(* delivery, up to the prefetch count of them at once.                     *)
(*                                                                         *)
(* A callback that fails publishes a copy of its message and only then     *)
(* acknowledges the original, so a connection lost in between leaves both. *)
(* connect_robust reconnects under running callbacks: the broker delivers  *)
(* their messages again, and the old callbacks go on as zombies that can   *)
(* still publish but no longer acknowledge.                                *)
(***************************************************************************)
EXTENDS Naturals, FiniteSets

CONSTANTS
    Jobs,        \* payloads; each is published once
    Messages,    \* message slots at the broker (a bound on copies)
    Handlers,    \* slots for callbacks running, zombies included
    Prefetch,    \* set_qos(prefetch_count)
    MaxRetries,  \* _MAX_RETRIES
    MaxFaults,   \* bound on lost connections, crashes and failed publishes
    NoJob, NoMessage

ASSUME QueueAssumption ==
    /\ Prefetch \in Nat \ {0} /\ MaxRetries \in Nat /\ MaxFaults \in Nat
    /\ NoJob \notin Jobs /\ NoMessage \notin Messages

VARIABLES
    published,   \* jobs a publisher has handed to the broker
    msg,         \* where each message is, its job and its retry_count header
    callback,    \* the callbacks of consume()
    handled,     \* jobs whose handler has returned
    dead,        \* jobs with a message in nexus.dlq
    faults

vars == <<published, msg, callback, handled, dead, faults>>

FreeMsg  == [place |-> "none", job |-> NoJob, retry |-> 0]
Queued(j, r) == [place |-> "queue", job |-> j, retry |-> r]
FreeCall == [pc |-> "free", of |-> NoMessage, job |-> NoJob, retry |-> 0]

\* Any free slot will do; the same one is taken every time.
Slots    == {m \in Messages : msg[m].place = "none"}
NextSlot == CHOOSE m \in Slots : TRUE
Idle     == {c \in Handlers : callback[c].pc = "free"}
NextCall == CHOOSE c \in Idle : TRUE

Put(j, r) == Slots # {} /\ msg' = [msg EXCEPT ![NextSlot] = Queued(j, r)]

\* A callback whose connection is gone is no longer "of" a message.
Holders  == {c \in Handlers : callback[c].of # NoMessage}

TypeOK ==
    /\ published \subseteq Jobs
    /\ msg \in [Messages -> [place : {"none", "queue", "unacked"},
                             job : Jobs \cup {NoJob}, retry : 0..MaxRetries]]
    /\ callback \in [Handlers -> [pc : {"free", "running", "failed", "acking"},
                                  of : Messages \cup {NoMessage},
                                  job : Jobs \cup {NoJob},
                                  retry : 0..MaxRetries]]
    /\ handled \subseteq Jobs
    /\ dead \subseteq Jobs
    /\ faults \in Nat

Init ==
    /\ published = {}
    /\ msg = [m \in Messages |-> FreeMsg]
    /\ callback = [c \in Handlers |-> FreeCall]
    /\ handled = {}
    /\ dead = {}
    /\ faults = 0

Fault == faults < MaxFaults /\ faults' = faults + 1

----------------------------------------------------------------------------

\* publish(): a persistent message with retry_count 0, confirmed.
Publish(j) ==
    /\ j \notin published
    /\ published' = published \cup {j}
    /\ Put(j, 0)
    /\ UNCHANGED <<callback, handled, dead, faults>>

\* The broker delivers a message and starts a callback for it.
Deliver(m) ==
    /\ msg[m].place = "queue"
    /\ Idle # {}
    /\ Cardinality(Holders) < Prefetch
    /\ msg' = [msg EXCEPT ![m].place = "unacked"]
    /\ callback' = [callback EXCEPT ![NextCall] =
         [pc |-> "running", of |-> m, job |-> msg[m].job, retry |-> msg[m].retry]]
    /\ UNCHANGED <<published, handled, dead, faults>>

HandlerReturns(c) ==
    /\ callback[c].pc = "running"
    /\ callback' = [callback EXCEPT ![c].pc = "acking"]
    /\ handled' = handled \cup {callback[c].job}
    /\ UNCHANGED <<published, msg, dead, faults>>

HandlerFails(c) ==
    /\ callback[c].pc = "running"
    /\ callback' = [callback EXCEPT ![c].pc = "failed"]
    /\ UNCHANGED <<published, msg, handled, dead, faults>>

\* Mutant: the copy keeps the retry count of its original.
RepublishSameCount(c) ==
    /\ callback[c].pc = "failed"
    /\ callback[c].retry < MaxRetries
    /\ Put(callback[c].job, callback[c].retry)
    /\ callback' = [callback EXCEPT ![c].pc = "acking"]
    /\ UNCHANGED <<published, handled, dead, faults>>

\* Mutant: one retry too many.
RepublishOneMore(c) ==
    /\ callback[c].pc = "failed"
    /\ callback[c].retry <= MaxRetries
    /\ Put(callback[c].job, callback[c].retry + 1)
    /\ callback' = [callback EXCEPT ![c].pc = "acking"]
    /\ UNCHANGED <<published, handled, dead, faults>>

\* After _RETRY_DELAY: publish a copy with the next retry_count.
Republish(c) ==
    /\ callback[c].pc = "failed"
    /\ callback[c].retry < MaxRetries
    /\ Put(callback[c].job, callback[c].retry + 1)
    /\ callback' = [callback EXCEPT ![c].pc = "acking"]
    /\ UNCHANGED <<published, handled, dead, faults>>

\* Mutant: a job out of retries is only acknowledged.
DeadLetterDropped(c) ==
    /\ callback[c].pc = "failed"
    /\ callback[c].retry = MaxRetries
    /\ callback' = [callback EXCEPT ![c].pc = "acking"]
    /\ UNCHANGED <<published, msg, handled, dead, faults>>

\* Out of retries: publish to nexus.dlq.
DeadLetter(c) ==
    /\ callback[c].pc = "failed"
    /\ callback[c].retry = MaxRetries
    /\ dead' = dead \cup {callback[c].job}
    /\ callback' = [callback EXCEPT ![c].pc = "acking"]
    /\ UNCHANGED <<published, msg, handled, faults>>

\* Message m leaves the queue for good.
Discard(m) ==
    msg' = IF m = NoMessage THEN msg ELSE [msg EXCEPT ![m] = FreeMsg]

\* Either publish raises: process(requeue=False) rejects the message and the
\* broker dead-letters it; a zombie has nothing it could reject.
PublishFails(c) ==
    /\ callback[c].pc = "failed"
    /\ Fault
    /\ Discard(callback[c].of)
    /\ dead' = IF c \in Holders THEN dead \cup {callback[c].job} ELSE dead
    /\ callback' = [callback EXCEPT ![c] = FreeCall]
    /\ UNCHANGED <<published, handled>>

\* Mutant: leaving process() after a failure puts the message back.
AckRequeues(c) ==
    /\ callback[c].pc = "acking"
    /\ IF callback[c].job \in handled \/ c \notin Holders
         THEN Discard(callback[c].of)
         ELSE msg' = [msg EXCEPT ![callback[c].of].place = "queue"]
    /\ callback' = [callback EXCEPT ![c] = FreeCall]
    /\ UNCHANGED <<published, handled, dead, faults>>

\* Leaving process() acknowledges the message; a zombie's ack goes nowhere.
Ack(c) ==
    /\ callback[c].pc = "acking"
    /\ Discard(callback[c].of)
    /\ callback' = [callback EXCEPT ![c] = FreeCall]
    /\ UNCHANGED <<published, handled, dead, faults>>

\* x-message-ttl: a message that waited too long is dead-lettered.
Expire(m) ==
    /\ msg[m].place = "queue"
    /\ Discard(m)
    /\ dead' = dead \cup {msg[m].job}
    /\ UNCHANGED <<published, callback, handled, faults>>

\* The broker puts what was not acknowledged back into the queue.
Requeue ==
    msg' = [m \in Messages |-> IF msg[m].place = "unacked"
                                 THEN [msg[m] EXCEPT !.place = "queue"]
                                 ELSE msg[m]]

\* The connection is lost and made again: the callbacks run on as zombies.
Reconnect ==
    /\ Fault
    /\ Requeue
    /\ callback' = [c \in Handlers |-> [callback[c] EXCEPT !.of = NoMessage]]
    /\ UNCHANGED <<published, handled, dead>>

\* The consuming process dies.
Crash ==
    /\ Fault
    /\ Requeue
    /\ callback' = [c \in Handlers |-> FreeCall]
    /\ UNCHANGED <<published, handled, dead>>

----------------------------------------------------------------------------

CallbackStep(c) ==
    \/ HandlerReturns(c) \/ HandlerFails(c)
    \/ Republish(c) \/ DeadLetter(c) \/ Ack(c)

Next ==
    \/ \E j \in Jobs : Publish(j)
    \/ \E m \in Messages : Deliver(m) \/ Expire(m)
    \/ \E c \in Handlers : CallbackStep(c) \/ PublishFails(c)
    \/ Reconnect \/ Crash

Spec == Init /\ [][Next]_vars

\* Callbacks run on, and the broker delivers what it holds when it may.
FairSpec ==
    /\ Spec
    /\ \A c \in Handlers : WF_vars(CallbackStep(c))
    /\ \A m \in Messages : SF_vars(Deliver(m))

----------------------------------------------------------------------------
(* Properties *)

InBroker(j) == {m \in Messages : msg[m].place # "none" /\ msg[m].job = j}

\* The queue keeps the promise of JobPromise, at every moment of a retry.
Promise == INSTANCE JobPromise WITH
    accepted <- published,
    owed     <- {j \in Jobs : InBroker(j) # {}}

Refines == Promise!Spec

\* Until a connection, a process or a publish fails, a job has one message
\* that is not about to be acknowledged, none once it is handled or dead:
\* no handler runs twice for the same attempt.
OneCopyUntilFault ==
    faults = 0 => \A j \in published :
      LET open == {m \in InBroker(j) :
                     ~\E c \in Handlers : callback[c].of = m
                                            /\ callback[c].pc = "acking"}
      IN  Cardinality(open) = IF j \in handled \cup dead THEN 0 ELSE 1

\* Every published job is handled or ends in the dead-letter queue, however
\* often its handler fails.
JobsSettle ==
    \A j \in Jobs : j \in published ~> j \in handled \cup dead
=============================================================================
