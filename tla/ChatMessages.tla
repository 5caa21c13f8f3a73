----------------------------- MODULE ChatMessages -----------------------------
(***************************************************************************)
(* The message rows of one chat channel, under the REST handlers and the   *)
(* WebSocket handler of chat.py: posts, replies, edits, deletions, pins.   *)
(*                                                                         *)
(* A handler loads a row, checks it, changes the object and commits, and   *)
(* none locks what it reads: a request is the load and the commit, and the *)
(* commit writes what UnitOfWork says. What a request broadcasts           *)
(* afterwards is the subject of Presence; its users are members of the     *)
(* channel throughout.                                                     *)
(***************************************************************************)
EXTENDS Naturals, FiniteSets, UnitOfWork

CONSTANTS
    Users, Admins,
    Creator,      \* created_by of the channel
    Messages,     \* message ids
    Requests,     \* requests that may run at once
    MaxPins,      \* 10 in the code
    MaxServed,    \* bound on the requests served
    NoMessage, NoUser, Absent

VARIABLES
    channel,   \* whether the channel's row is still there
    row,       \* chat_messages
    req,       \* the requests between their load and their commit
    served,
    raced      \* <<message, columns>> two requests changed at once

vars == <<channel, row, req, served, raced>>

Row == [sender : Users, parent : Messages \cup {NoMessage}, count : Nat,
        content : {"posted", "edited"}, deleted : BOOLEAN,
        pinned : BOOLEAN, by : Users \cup {NoUser}, at : BOOLEAN]

ASSUME ChatAssumption ==
    /\ Admins \subseteq Users /\ Creator \in Users
    /\ IsFiniteSet(Messages) /\ IsFiniteSet(Requests) /\ Requests # {}
    /\ MaxPins \in Nat \ {0} /\ MaxServed \in Nat
    /\ NoMessage \notin Messages /\ NoUser \notin Users /\ Absent \notin Row

Ops == {"reply", "edit", "delete", "pin", "unpin"}
Request == [op : Ops, user : Users, msg : Messages, seen : Row \cup {Absent}]
Idle == [op |-> "none"]

\* The columns an operation is about.
Columns(op) == IF op = "reply" THEN "thread"
               ELSE IF op \in {"pin", "unpin"} THEN "pin" ELSE "text"

Exists(m) == row[m] # Absent
Replies(m) == {n \in Messages : Exists(n) /\ row[n].parent = m}
Pinned == {m \in Messages : Exists(m) /\ row[m].pinned}

TypeOK ==
    /\ channel \in BOOLEAN
    /\ row \in [Messages -> Row \cup {Absent}]
    /\ req \in [Requests -> Request \cup {Idle}]
    /\ served \in 0..MaxServed
    /\ raced \subseteq Messages \X {"thread", "text", "pin"}
    \* The foreign keys of chat_messages.
    /\ \A m \in Messages : Exists(m) =>
         channel /\ (row[m].parent = NoMessage \/ Exists(row[m].parent))

Init ==
    /\ channel = TRUE
    /\ row = [m \in Messages |-> Absent]
    /\ req = [r \in Requests |-> Idle]
    /\ served = 0
    /\ raced = {}

-----------------------------------------------------------------------------
(* The first half of a request: its checks, on what it loads. *)

Serve == channel /\ served < MaxServed /\ served' = served + 1

\* The author and the admins edit and delete; the channel's creator and the
\* admins pin and unpin. A deleted message cannot be edited, but it can be
\* replied to, pinned and deleted again.
MayDelete(u, m) == u \in Admins \cup {row[m].sender}
MayEdit(u, m) == MayDelete(u, m) /\ ~row[m].deleted
MayPin(u) == u \in Admins \cup {Creator}

Allowed(op, u, m) ==
    CASE op = "reply"  -> TRUE
      [] op = "edit"   -> MayEdit(u, m)
      [] op = "delete" -> MayDelete(u, m)
      [] op = "unpin"  -> MayPin(u)

Start(r, u, op, m) ==
    /\ op # "pin" /\ req[r] = Idle /\ Serve
    /\ Exists(m) /\ Allowed(op, u, m)
    /\ req' = [req EXCEPT ![r] = [op |-> op, user |-> u, msg |-> m,
                                  seen |-> row[m]]]
    /\ UNCHANGED <<channel, row, raced>>

\* pin_message counts the channel's pins, the message among them if it is
\* pinned already, before it loads the message.
RoomToPin == Cardinality(Pinned) < MaxPins

CountPins(r, u, m) ==
    /\ req[r] = Idle /\ Serve
    /\ MayPin(u) /\ RoomToPin
    /\ req' = [req EXCEPT ![r] = [op |-> "pin", user |-> u, msg |-> m,
                                  seen |-> Absent]]
    /\ UNCHANGED <<channel, row, raced>>

LoadToPin(r) ==
    /\ req[r] # Idle /\ req[r].seen = Absent
    /\ LET m == req[r].msg IN
       req' = [req EXCEPT ![r] = IF Exists(m) THEN [@ EXCEPT !.seen = row[m]]
                                              ELSE Idle]
    /\ UNCHANGED <<channel, row, served, raced>>

-----------------------------------------------------------------------------
(* The second half: what it changes, and what of it reaches the row. *)

New(u, p) == [sender |-> u, parent |-> p, count |-> 0, content |-> "posted",
              deleted |-> FALSE, pinned |-> FALSE, by |-> NoUser, at |-> FALSE]

\* The loaded object after the assignments of each handler.
CountReply(m) == [m EXCEPT !.count = @ + 1]
EditMessage(m) == [m EXCEPT !.content = "edited"]
DeleteMessage(m) == [m EXCEPT !.deleted = TRUE]
PinMessage(m, u) == [m EXCEPT !.pinned = TRUE, !.by = u, !.at = TRUE]

\* Mutant: unpinning leaves who pinned the message.
UnpinOnly(m) == [m EXCEPT !.pinned = FALSE]

UnpinMessage(m) == [m EXCEPT !.pinned = FALSE, !.by = NoUser, !.at = FALSE]

Wanted(q) ==
    CASE q.op = "reply"  -> CountReply(q.seen)
      [] q.op = "edit"   -> EditMessage(q.seen)
      [] q.op = "delete" -> DeleteMessage(q.seen)
      [] q.op = "pin"    -> PinMessage(q.seen, q.user)
      [] q.op = "unpin"  -> UnpinMessage(q.seen)

\* The UPDATE of the flush. A new text, and the new timestamp of a pin, differ
\* from whatever was loaded.
Flushed(q) ==
    LET now == row[q.msg]
        w == Wanted(q)
    IN
    [sender  |-> now.sender,
     parent  |-> now.parent,
     count   |-> Column(now.count, q.seen.count, w.count),
     content |-> IF q.op = "edit" THEN w.content
                 ELSE Column(now.content, q.seen.content, w.content),
     deleted |-> Column(now.deleted, q.seen.deleted, w.deleted),
     pinned  |-> Column(now.pinned, q.seen.pinned, w.pinned),
     by      |-> Column(now.by, q.seen.by, w.by),
     at      |-> IF q.op = "pin" THEN w.at
                 ELSE Column(now.at, q.seen.at, w.at)]

\* Others between their load and their commit, on the same columns.
Rivals(r) == {s \in Requests \ {r} : req[s] # Idle /\ req[s].msg = req[r].msg
                                   /\ Columns(req[s].op) = Columns(req[r].op)}
Race(r) == IF Rivals(r) = {} THEN {}
           ELSE {<<req[r].msg, Columns(req[r].op)>>}

Change(r) ==
    /\ req[r] # Idle /\ req[r].seen # Absent /\ req[r].op # "reply"
    /\ Exists(req[r].msg)
    /\ row' = [row EXCEPT ![req[r].msg] = Flushed(req[r])]
    /\ req' = [req EXCEPT ![r] = Idle]
    /\ raced' = raced \cup Race(r)
    /\ UNCHANGED <<channel, served>>

\* Mutant: nothing refers to the channel or to the parent.
ReplyUnchecked(r, n) ==
    /\ req[r] # Idle /\ req[r].op = "reply" /\ ~Exists(n)
    /\ row' = [row EXCEPT ![n] = New(req[r].user, req[r].msg)]
    /\ req' = [req EXCEPT ![r] = Idle]
    /\ raced' = raced \cup Race(r)
    /\ UNCHANGED <<channel, served>>

\* The reply is inserted and its parent's counters are updated, in one
\* transaction.
Reply(r, n) ==
    /\ req[r] # Idle /\ req[r].op = "reply"
    /\ Exists(req[r].msg) /\ ~Exists(n)
    /\ row' = [row EXCEPT ![n] = New(req[r].user, req[r].msg),
                          ![req[r].msg] = Flushed(req[r])]
    /\ req' = [req EXCEPT ![r] = Idle]
    /\ raced' = raced \cup Race(r)
    /\ UNCHANGED <<channel, served>>

\* The row has gone with its channel: the UPDATE matches none, or the insert
\* has no channel to refer to, and the transaction is rolled back.
Fail(r) ==
    /\ req[r] # Idle /\ ~Exists(req[r].msg)
    /\ req' = [req EXCEPT ![r] = Idle]
    /\ UNCHANGED <<channel, row, served, raced>>

\* A message that is no reply.
Post(u, n) ==
    /\ Serve /\ ~Exists(n)
    /\ row' = [row EXCEPT ![n] = New(u, NoMessage)]
    /\ UNCHANGED <<channel, req, raced>>

\* The rows that refer to the channel are deleted with it.
DeleteChannel(u) ==
    /\ Serve /\ u \in Admins \cup {Creator}
    /\ channel' = FALSE
    /\ row' = [m \in Messages |-> Absent]
    /\ UNCHANGED <<req, raced>>

-----------------------------------------------------------------------------

Next ==
    \/ \E u \in Users :
         \/ DeleteChannel(u)
         \/ \E n \in Messages : Post(u, n)
         \/ \E r \in Requests, m \in Messages :
              \/ CountPins(r, u, m)
              \/ \E op \in Ops : Start(r, u, op, m)
    \/ \E r \in Requests :
         \/ LoadToPin(r) \/ Change(r) \/ Fail(r)
         \/ \E n \in Messages : Reply(r, n)

Spec == Init /\ [][Next]_vars

-----------------------------------------------------------------------------
(* Properties *)

\* thread_count never exceeds the replies, is never zero when there are any,
\* and is exact unless two replies to the message ran at once; what else
\* happens to the message does not touch it.
ThreadCounts ==
    \A m \in Messages : Exists(m) =>
      LET n == Cardinality(Replies(m)) IN
      /\ row[m].count <= n
      /\ n > 0 => row[m].count > 0
      /\ <<m, "thread">> \notin raced => row[m].count = n

\* A deleted message stays deleted, whatever requests had loaded it before.
DeletedStaysDeleted ==
    [][\A m \in Messages : Exists(m) /\ row[m].deleted
         => row'[m] = Absent \/ row'[m].deleted]_vars

\* pin_message's "Maximum 10 pinned messages per channel". The limit is checked
\* before the pin is written, so requests that overlap each find room: it holds
\* of requests served one at a time only.
PinLimit == Cardinality(Pinned) <= MaxPins

\* is_pinned, pinned_by_id and pinned_at agree on a message whose pinning and
\* unpinning never overlapped.
PinColumnsAgree ==
    \A m \in Messages : Exists(m) /\ <<m, "pin">> \notin raced =>
      /\ row[m].pinned <=> row[m].by # NoUser
      /\ row[m].pinned <=> row[m].at
=============================================================================
