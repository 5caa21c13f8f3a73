-------------------------- MODULE ChatMessagesProofs --------------------------
(***************************************************************************)
(* Proofs about ChatMessages, for any number of users, messages and        *)
(* overlapping requests.                                                   *)
(*                                                                         *)
(* None of the properties is inductive: what a commit does depends on the  *)
(* row its request loaded. ThreadSeen and PinSeen say how far that row may *)
(* have fallen behind; PinsInv counts the pins that are still under way.   *)
(***************************************************************************)
EXTENDS ChatMessages, FiniteSetTheorems, TLAPS

Open(r) == req[r] # Idle
Loaded(r) == Open(r) /\ req[r].seen # Absent

\* Every open request but a pin has loaded its row, which stays until the
\* channel is gone.
LoadInv ==
    \A r \in Requests : Open(r) =>
      /\ req[r].op # "pin" => req[r].seen # Absent
      /\ req[r].seen # Absent /\ channel => Exists(req[r].msg)

\* What a request on m has seen of the columns it will write.
SeesThread(q) ==
    q.op = "reply" /\ Exists(q.msg) =>
      /\ q.seen.count <= Cardinality(Replies(q.msg))
      /\ <<q.msg, "thread">> \notin raced => q.seen.count = row[q.msg].count

SeesPin(q) ==
    q.op \in {"pin", "unpin"} /\ Exists(q.msg)
      /\ <<q.msg, "pin">> \notin raced =>
        /\ q.seen.pinned = row[q.msg].pinned
        /\ q.seen.by = row[q.msg].by
        /\ q.seen.at = row[q.msg].at

ThreadSeen == \A r \in Requests : Loaded(r) => SeesThread(req[r])
PinSeen == \A r \in Requests : Loaded(r) => SeesPin(req[r])

\* Pins whose limit has been checked and that are not written yet.
Pinning == {r \in Requests : Open(r) /\ req[r].op = "pin"}

PinsInv == Cardinality(Pinned) + Cardinality(Pinning)
             <= MaxPins + Cardinality(Requests) - 1

----------------------------------------------------------------------------
(* The rows *)

LEMMA IdleIsNoRequest == Idle \notin Request
  BY DEF Idle, Request, Ops

LEMMA NewIsARow ==
    ASSUME NEW u \in Users, NEW p \in Messages \cup {NoMessage}
    PROVE  /\ New(u, p) \in Row /\ New(u, p) # Absent
           /\ New(u, p).parent = p /\ New(u, p).count = 0
           /\ New(u, p).deleted = FALSE /\ New(u, p).pinned = FALSE
           /\ New(u, p).by = NoUser /\ New(u, p).at = FALSE
  <1>1. New(u, p) \in Row
    BY DEF New, Row
  <1> QED
    BY <1>1, ChatAssumption DEF New

LEMMA AssignedRow ==
    ASSUME NEW s \in Row, NEW u \in Users
    PROVE  /\ CountReply(s) \in Row /\ EditMessage(s) \in Row
           /\ DeleteMessage(s) \in Row /\ UnpinMessage(s) \in Row
           /\ PinMessage(s, u) \in Row
  <1>1. CountReply(s) \in Row
    BY DEF CountReply, Row
  <1>2. EditMessage(s) \in Row
    BY DEF EditMessage, Row
  <1>3. DeleteMessage(s) \in Row
    BY DEF DeleteMessage, Row
  <1>4. UnpinMessage(s) \in Row
    <2>1. UnpinMessage(s) = [[[s EXCEPT !.pinned = FALSE] EXCEPT !.by = NoUser]
                                EXCEPT !.at = FALSE]
      BY DEF UnpinMessage
    <2>2. [s EXCEPT !.pinned = FALSE] \in Row
      BY DEF Row
    <2>3. \A x \in Row : [x EXCEPT !.by = NoUser] \in Row
      BY DEF Row
    <2>4. \A x \in Row : [x EXCEPT !.at = FALSE] \in Row
      BY DEF Row
    <2> QED BY <2>1, <2>2, <2>3, <2>4
  <1>5. PinMessage(s, u) \in Row
    <2>1. PinMessage(s, u) = [[[s EXCEPT !.pinned = TRUE] EXCEPT !.by = u]
                                EXCEPT !.at = TRUE]
      BY DEF PinMessage
    <2>2. [s EXCEPT !.pinned = TRUE] \in Row
      BY DEF Row
    <2>3. \A x \in Row : [x EXCEPT !.by = u] \in Row
      BY DEF Row
    <2>4. \A x \in Row : [x EXCEPT !.at = TRUE] \in Row
      BY DEF Row
    <2> QED BY <2>1, <2>2, <2>3, <2>4
  <1> QED
    BY <1>1, <1>2, <1>3, <1>4, <1>5

\* What a commit makes of the row, column by column.
LEMMA FlushedRow ==
    ASSUME NEW q \in Request, q.seen \in Row, row[q.msg] \in Row
    PROVE  /\ Flushed(q) \in Row /\ Flushed(q) # Absent
           /\ Flushed(q).parent = row[q.msg].parent
  <1> DEFINE s == q.seen
             now == row[q.msg]
  <1>1. /\ q.op \in Ops /\ q.user \in Users /\ s \in Row /\ now \in Row
    BY DEF Request
  <1>2. /\ CountReply(s) \in Row /\ EditMessage(s) \in Row
        /\ DeleteMessage(s) \in Row /\ UnpinMessage(s) \in Row
        /\ PinMessage(s, q.user) \in Row
    BY <1>1, AssignedRow
  <1>3. Wanted(q) \in Row
    BY <1>1, <1>2 DEF Wanted, Ops
  <1> DEFINE w == Wanted(q)
  <1>4. /\ w \in Row /\ s \in Row /\ now \in Row
    BY <1>1, <1>3
  <1>5. /\ now.sender \in Users /\ now.parent \in Messages \cup {NoMessage}
        /\ Column(now.count, s.count, w.count) \in Nat
        /\ Column(now.content, s.content, w.content) \in {"posted", "edited"}
        /\ w.content \in {"posted", "edited"} /\ w.at \in BOOLEAN
        /\ Column(now.deleted, s.deleted, w.deleted) \in BOOLEAN
        /\ Column(now.pinned, s.pinned, w.pinned) \in BOOLEAN
        /\ Column(now.by, s.by, w.by) \in Users \cup {NoUser}
        /\ Column(now.at, s.at, w.at) \in BOOLEAN
    <2> HIDE DEF w, s, now
    <2> QED BY <1>4 DEF Column, Row
  <1>6. Flushed(q) \in Row
    BY <1>5 DEF Flushed, Row
  <1>7. Flushed(q).parent = row[q.msg].parent
    BY DEF Flushed
  <1> QED
    BY <1>6, <1>7, ChatAssumption

\* Nobody but a reply changes the thread's counter, and only a pin or an
\* unpin the pin's columns.
LEMMA FlushedColumns ==
    ASSUME NEW q \in Request, q.seen \in Row, row[q.msg] \in Row
    PROVE  /\ Flushed(q).count = IF q.op = "reply" THEN q.seen.count + 1
                                 ELSE row[q.msg].count
           /\ row[q.msg].deleted => Flushed(q).deleted
           /\ q.op \notin {"pin", "unpin"} =>
                /\ Flushed(q).pinned = row[q.msg].pinned
                /\ Flushed(q).by = row[q.msg].by
                /\ Flushed(q).at = row[q.msg].at
  <1> DEFINE s == q.seen
  <1>1. /\ q.op \in Ops /\ s \in Row /\ s.count \in Nat
        /\ row[q.msg].deleted \in BOOLEAN
    BY DEF Request, Row
  <1>2. CASE q.op = "reply"
    <2>1. Wanted(q) = [s EXCEPT !.count = @ + 1]
      BY <1>2 DEF Wanted, CountReply
    <2>2. /\ Wanted(q).count = s.count + 1 /\ Wanted(q).deleted = s.deleted
          /\ Wanted(q).pinned = s.pinned /\ Wanted(q).by = s.by
          /\ Wanted(q).at = s.at
      BY <1>1, <2>1 DEF Row
    <2>3. s.count + 1 # s.count
      BY <1>1
    <2> QED BY <1>2, <2>2, <2>3 DEF Flushed, Column
  <1>3. CASE q.op = "edit"
    <2>2. /\ Wanted(q).count = s.count /\ Wanted(q).deleted = s.deleted
          /\ Wanted(q).pinned = s.pinned /\ Wanted(q).by = s.by
          /\ Wanted(q).at = s.at
      BY <1>1, <1>3 DEF Row, Wanted, EditMessage
    <2> QED BY <1>3, <2>2 DEF Flushed, Column
  <1>4. CASE q.op = "delete"
    <2>2. /\ Wanted(q).count = s.count /\ Wanted(q).deleted = TRUE
          /\ Wanted(q).pinned = s.pinned /\ Wanted(q).by = s.by
          /\ Wanted(q).at = s.at
      BY <1>1, <1>4 DEF Row, Wanted, DeleteMessage
    <2> QED BY <1>1, <1>4, <2>2 DEF Flushed, Column
  <1>5. CASE q.op = "pin"
    <2>2. /\ Wanted(q).count = s.count /\ Wanted(q).deleted = s.deleted
      BY <1>1, <1>5 DEF Row, Wanted, PinMessage
    <2> QED BY <1>5, <2>2 DEF Flushed, Column
  <1>6. CASE q.op = "unpin"
    <2>2. /\ Wanted(q).count = s.count /\ Wanted(q).deleted = s.deleted
      BY <1>1, <1>6 DEF Row, Wanted, UnpinMessage
    <2> QED BY <1>6, <2>2 DEF Flushed, Column
  <1> QED
    BY <1>1, <1>2, <1>3, <1>4, <1>5, <1>6 DEF Ops

\* A pin or an unpin whose row nobody has touched writes all three columns.
LEMMA FlushedPin ==
    ASSUME NEW q \in Request, q.seen \in Row, row[q.msg] \in Row,
           q.op \in {"pin", "unpin"},
           q.seen.pinned = row[q.msg].pinned, q.seen.by = row[q.msg].by,
           q.seen.at = row[q.msg].at
    PROVE  /\ Flushed(q).pinned = (q.op = "pin")
           /\ Flushed(q).by = IF q.op = "pin" THEN q.user ELSE NoUser
           /\ Flushed(q).at = (q.op = "pin")
  <1> DEFINE s == q.seen
  <1>1. s \in Row
    OBVIOUS
  <1>2. CASE q.op = "pin"
    <2>1. Wanted(q).pinned = TRUE /\ Wanted(q).by = q.user /\ Wanted(q).at = TRUE
      BY <1>1, <1>2 DEF Wanted, PinMessage, Row
    <2> QED BY <1>2, <2>1 DEF Flushed, Column
  <1>3. CASE q.op = "unpin"
    <2>1. Wanted(q).pinned = FALSE /\ Wanted(q).by = NoUser
          /\ Wanted(q).at = FALSE
      BY <1>1, <1>3 DEF Wanted, UnpinMessage, Row
    <2> QED BY <1>3, <2>1 DEF Flushed, Column
  <1> QED
    BY <1>2, <1>3

----------------------------------------------------------------------------
(* What the actions do to the rows *)

LEMMA LoadedRequest ==
    ASSUME TypeOK, NEW r \in Requests, Loaded(r)
    PROVE  /\ req[r] \in Request /\ req[r].msg \in Messages
           /\ req[r].op \in Ops /\ req[r].user \in Users
           /\ req[r].seen \in Row
           /\ Exists(req[r].msg) => row[req[r].msg] \in Row
  <1>1. req[r] \in Request
    BY DEF TypeOK, Loaded, Open
  <1>2. /\ req[r].msg \in Messages /\ req[r].op \in Ops
        /\ req[r].user \in Users /\ req[r].seen \in Row \cup {Absent}
    BY <1>1 DEF Request
  <1> QED
    BY <1>1, <1>2 DEF TypeOK, Loaded, Exists

LEMMA ChangeDoes ==
    ASSUME TypeOK, NEW r \in Requests, Change(r)
    PROVE  /\ Loaded(r) /\ req[r].op # "reply" /\ Exists(req[r].msg)
           /\ row'[req[r].msg] = Flushed(req[r])
           /\ row'[req[r].msg] \in Row
           /\ \A x \in Messages \ {req[r].msg} : row'[x] = row[x]
           /\ row' \in [Messages -> Row \cup {Absent}]
           /\ \A x \in Messages : Exists(x)' <=> Exists(x)
           /\ \A x \in Messages : Exists(x) => row'[x].parent = row[x].parent
  <1>1. Loaded(r) /\ req[r].op # "reply" /\ Exists(req[r].msg)
    BY DEF Change, Loaded, Open
  <1>2. /\ req[r] \in Request /\ req[r].msg \in Messages
        /\ req[r].seen \in Row /\ row[req[r].msg] \in Row
    BY <1>1, LoadedRequest
  <1>3. /\ Flushed(req[r]) \in Row /\ Flushed(req[r]) # Absent
        /\ Flushed(req[r]).parent = row[req[r].msg].parent
    BY <1>2, FlushedRow
  <1>4. /\ row' = [row EXCEPT ![req[r].msg] = Flushed(req[r])]
        /\ row \in [Messages -> Row \cup {Absent}]
    BY DEF Change, TypeOK
  <1> QED
    BY <1>1, <1>2, <1>3, <1>4 DEF Exists

LEMMA ReplyDoes ==
    ASSUME TypeOK, LoadInv, NEW r \in Requests, NEW n \in Messages, Reply(r, n)
    PROVE  /\ Loaded(r) /\ req[r].op = "reply"
           /\ Exists(req[r].msg) /\ ~Exists(n) /\ req[r].msg # n
           /\ row'[n] = New(req[r].user, req[r].msg) /\ row'[n] \in Row
           /\ row'[req[r].msg] = Flushed(req[r])
           /\ row'[req[r].msg] \in Row
           /\ \A x \in Messages \ {n, req[r].msg} : row'[x] = row[x]
           /\ row' \in [Messages -> Row \cup {Absent}]
           /\ \A x \in Messages : Exists(x)' <=> (Exists(x) \/ x = n)
           /\ \A x \in Messages : Exists(x) => row'[x].parent = row[x].parent
  <1>1. /\ Loaded(r) /\ req[r].op = "reply" /\ Exists(req[r].msg)
        /\ ~Exists(n) /\ req[r].msg # n
    BY DEF Reply, LoadInv, Loaded, Open
  <1>2. /\ req[r] \in Request /\ req[r].msg \in Messages
        /\ req[r].user \in Users
        /\ req[r].seen \in Row /\ row[req[r].msg] \in Row
    BY <1>1, LoadedRequest
  <1>3. /\ Flushed(req[r]) \in Row /\ Flushed(req[r]) # Absent
        /\ Flushed(req[r]).parent = row[req[r].msg].parent
    BY <1>2, FlushedRow
  <1>4. /\ New(req[r].user, req[r].msg) \in Row
        /\ New(req[r].user, req[r].msg) # Absent
    BY <1>2, NewIsARow
  <1> DEFINE fresh == New(req[r].user, req[r].msg)
             flush == Flushed(req[r])
  <1>5. /\ row' = [row EXCEPT ![n] = fresh, ![req[r].msg] = flush]
        /\ row \in [Messages -> Row \cup {Absent}]
    BY DEF Reply, TypeOK
  <1> HIDE DEF fresh, flush
  <1>6. /\ row'[n] = fresh /\ row'[req[r].msg] = flush
        /\ \A x \in Messages \ {n, req[r].msg} : row'[x] = row[x]
        /\ DOMAIN row' = Messages
    BY <1>1, <1>2, <1>5
  <1>7. fresh \in Row /\ fresh # Absent /\ flush \in Row /\ flush # Absent
    BY <1>3, <1>4 DEF fresh, flush
  <1>8. row' \in [Messages -> Row \cup {Absent}]
    BY <1>1, <1>2, <1>5, <1>7
  <1>9. \A x \in Messages : Exists(x)' <=> (Exists(x) \/ x = n)
    BY <1>1, <1>2, <1>6, <1>7 DEF Exists
  <1>10. \A x \in Messages : Exists(x) => row'[x].parent = row[x].parent
    BY <1>1, <1>3, <1>6 DEF flush
  <1> QED
    BY <1>1, <1>6, <1>7, <1>8, <1>9, <1>10 DEF fresh, flush

LEMMA PostDoes ==
    ASSUME TypeOK, NEW u \in Users, NEW n \in Messages, Post(u, n)
    PROVE  /\ channel /\ ~Exists(n)
           /\ row'[n] = New(u, NoMessage) /\ row'[n] \in Row
           /\ \A x \in Messages \ {n} : row'[x] = row[x]
           /\ row' \in [Messages -> Row \cup {Absent}]
           /\ \A x \in Messages : Exists(x)' <=> (Exists(x) \/ x = n)
           /\ \A x \in Messages : Exists(x) => row'[x].parent = row[x].parent
  <1>1. New(u, NoMessage) \in Row /\ New(u, NoMessage) # Absent
    BY NewIsARow
  <1>2. /\ row' = [row EXCEPT ![n] = New(u, NoMessage)]
        /\ row \in [Messages -> Row \cup {Absent}]
        /\ channel /\ ~Exists(n)
    BY DEF Post, Serve, TypeOK
  <1> QED
    BY <1>1, <1>2 DEF Exists

\* The actions that only open, load or close a request.
Checks(r) ==
    /\ row' = row /\ channel' = channel /\ raced' = raced
    /\ \/ \E q \in Request :
            /\ req' = [req EXCEPT ![r] = q] /\ ~Open(r) /\ channel
            /\ \/ q.op # "pin" /\ Exists(q.msg) /\ q.seen = row[q.msg]
               \/ q.op = "pin" /\ q.seen = Absent /\ RoomToPin
       \/ \E q \in Request :
            /\ req' = [req EXCEPT ![r] = q]
            /\ Open(r) /\ req[r].seen = Absent
            /\ q.op = req[r].op /\ q.msg = req[r].msg /\ Exists(q.msg)
            /\ q.seen = row[q.msg]
       \/ req' = [req EXCEPT ![r] = Idle] /\ Open(r)

LEMMA StartChecks ==
    ASSUME TypeOK, NEW r \in Requests, NEW u \in Users, NEW op \in Ops,
           NEW m \in Messages, Start(r, u, op, m)
    PROVE  Checks(r)
  <1> DEFINE q == [op |-> op, user |-> u, msg |-> m, seen |-> row[m]]
  <1>1. row[m] \in Row \cup {Absent}
    BY DEF TypeOK
  <1>2. q \in Request
    BY <1>1 DEF Request
  <1>3. q.op = op /\ q.msg = m /\ q.seen = row[m]
    OBVIOUS
  <1>4. /\ req' = [req EXCEPT ![r] = q] /\ ~Open(r) /\ channel
        /\ op # "pin" /\ Exists(m)
        /\ row' = row /\ channel' = channel /\ raced' = raced
    BY DEF Start, Serve, Open
  <1> HIDE DEF q
  <1> QED
    BY <1>2, <1>3, <1>4 DEF Checks

LEMMA CountPinsChecks ==
    ASSUME TypeOK, NEW r \in Requests, NEW u \in Users, NEW m \in Messages,
           CountPins(r, u, m)
    PROVE  Checks(r)
  <1> DEFINE q == [op |-> "pin", user |-> u, msg |-> m, seen |-> Absent]
  <1>2. q \in Request
    BY DEF Request, Ops
  <1>3. q.op = "pin" /\ q.seen = Absent
    OBVIOUS
  <1>4. /\ req' = [req EXCEPT ![r] = q] /\ ~Open(r) /\ channel /\ RoomToPin
        /\ row' = row /\ channel' = channel /\ raced' = raced
    BY DEF CountPins, Serve, Open
  <1> HIDE DEF q
  <1> QED
    BY <1>2, <1>3, <1>4 DEF Checks

LEMMA LoadToPinChecks ==
    ASSUME TypeOK, NEW r \in Requests, LoadToPin(r)
    PROVE  Checks(r)
  <1>1. /\ Open(r) /\ req[r].seen = Absent
        /\ row' = row /\ channel' = channel /\ raced' = raced
    BY DEF LoadToPin, Open
  <1>2. req[r] \in Request
    BY <1>1 DEF TypeOK, Open
  <1> DEFINE m == req[r].msg
             q == [req[r] EXCEPT !.seen = row[m]]
  <1>3. m \in Messages
    BY <1>2 DEF Request
  <1>4. row[m] \in Row \cup {Absent}
    BY <1>3 DEF TypeOK
  <1>5. CASE Exists(m)
    <2>1. req' = [req EXCEPT ![r] = q]
      BY <1>5 DEF LoadToPin, TypeOK
    <2>2. q \in Request
      BY <1>2, <1>4 DEF Request
    <2>3. q.op = req[r].op /\ q.msg = m /\ q.seen = row[m]
      BY <1>2 DEF Request
    <2> HIDE DEF q
    <2> QED BY <1>1, <1>5, <2>1, <2>2, <2>3 DEF Checks
  <1>6. CASE ~Exists(m)
    <2>1. req' = [req EXCEPT ![r] = Idle]
      BY <1>6 DEF LoadToPin, TypeOK
    <2> QED BY <1>1, <2>1 DEF Checks
  <1> QED
    BY <1>5, <1>6

LEMMA FailChecks ==
    ASSUME NEW r \in Requests, Fail(r)
    PROVE  Checks(r)
  BY DEF Fail, Checks, Open

\* Next, with the actions that leave the rows alone taken together.
Steps ==
    \/ \E r \in Requests : Checks(r)
    \/ \E r \in Requests : Change(r)
    \/ \E r \in Requests, n \in Messages : Reply(r, n)
    \/ \E u \in Users, n \in Messages : Post(u, n)
    \/ \E u \in Users : DeleteChannel(u)

LEMMA NextSteps == TypeOK /\ Next => Steps
  BY StartChecks, CountPinsChecks, LoadToPinChecks, FailChecks
     DEF Next, Steps, Ops

----------------------------------------------------------------------------
(* The types, and which requests have loaded a row *)

LEMMA InitTyped == Init => TypeOK /\ LoadInv
  BY ChatAssumption DEF Init, TypeOK, LoadInv, Exists, Open

LEMMA ServedTyped ==
    ASSUME TypeOK, Next
    PROVE  served' \in 0..MaxServed
  <1>1. served \in 0..MaxServed /\ MaxServed \in Nat
    BY ChatAssumption DEF TypeOK
  <1>2. served' = served \/ (served < MaxServed /\ served' = served + 1)
    BY DEF Next, Start, CountPins, LoadToPin, Change, Fail, Reply, Post,
       DeleteChannel, Serve
  <1> QED
    BY <1>1, <1>2

LEMMA RaceTyped ==
    ASSUME TypeOK, NEW r \in Requests, Open(r)
    PROVE  Race(r) \subseteq Messages \X {"thread", "text", "pin"}
  <1>1. req[r].msg \in Messages
    BY DEF TypeOK, Open, Request
  <1>2. Columns(req[r].op) \in {"thread", "text", "pin"}
    BY DEF Columns
  <1> QED
    BY <1>1, <1>2 DEF Race

\* Everything of TypeOK but the count of requests served.
RowsTyped ==
    /\ channel \in BOOLEAN
    /\ row \in [Messages -> Row \cup {Absent}]
    /\ req \in [Requests -> Request \cup {Idle}]
    /\ raced \subseteq Messages \X {"thread", "text", "pin"}
    /\ \A m \in Messages : Exists(m) =>
         channel /\ (row[m].parent = NoMessage \/ Exists(row[m].parent))

LEMMA ChecksTyped ==
    ASSUME TypeOK, LoadInv, NEW r \in Requests, Checks(r)
    PROVE  RowsTyped' /\ LoadInv'
  <1>1. /\ row' = row /\ channel' = channel /\ raced' = raced
        /\ \A x : Exists(x)' <=> Exists(x)
    BY DEF Checks, Exists
  <1>2. PICK q \in Request \cup {Idle} :
          /\ req' = [req EXCEPT ![r] = q]
          /\ q = Idle \/ /\ q.op # "pin" => q.seen # Absent
                         /\ q.seen # Absent => Exists(q.msg)
    BY DEF Checks, Exists, LoadInv
  <1>3. req' \in [Requests -> Request \cup {Idle}]
    BY <1>2 DEF TypeOK
  <1>4. RowsTyped'
    BY <1>1, <1>3 DEF TypeOK, RowsTyped, Exists
  <1>5. LoadInv'
    BY <1>1, <1>2, <1>3 DEF LoadInv, Open, TypeOK
  <1> QED
    BY <1>4, <1>5

LEMMA ChangeTyped ==
    ASSUME TypeOK, LoadInv, NEW r \in Requests, Change(r)
    PROVE  RowsTyped' /\ LoadInv'
  <1>1. /\ row' \in [Messages -> Row \cup {Absent}]
        /\ \A x \in Messages : Exists(x)' <=> Exists(x)
        /\ \A x \in Messages : Exists(x) => row'[x].parent = row[x].parent
    BY ChangeDoes
  <1>2. /\ channel' = channel /\ req' = [req EXCEPT ![r] = Idle]
        /\ raced' = raced \cup Race(r) /\ Open(r)
    BY DEF Change, Open
  <1>3. req' \in [Requests -> Request \cup {Idle}]
    BY <1>2 DEF TypeOK
  <1>4. raced' \subseteq Messages \X {"thread", "text", "pin"}
    BY <1>2, RaceTyped DEF TypeOK
  <1>5. \A m \in Messages : Exists(m)' =>
          channel' /\ (row'[m].parent = NoMessage \/ row'[row'[m].parent] # Absent)
    <2> TAKE m \in Messages
    <2> HAVE Exists(m)'
    <2>1. Exists(m) /\ row[m] \in Row
      BY <1>1 DEF TypeOK, Exists
    <2>2. row[m].parent \in Messages \cup {NoMessage}
      BY <2>1 DEF Row
    <2> QED BY <1>1, <1>2, <2>1, <2>2 DEF TypeOK, Exists
  <1>6. RowsTyped'
    BY <1>1, <1>2, <1>3, <1>4, <1>5 DEF RowsTyped, TypeOK, Exists
  <1>7. LoadInv'
    <2> SUFFICES ASSUME NEW s \in Requests, Open(s)'
                 PROVE  /\ req'[s].op # "pin" => req'[s].seen # Absent
                        /\ req'[s].seen # Absent /\ channel'
                             => row'[req'[s].msg] # Absent
      BY DEF LoadInv, Exists, Open
    <2>1. s # r /\ req'[s] = req[s] /\ Open(s) /\ req[s] \in Request
      BY <1>2 DEF TypeOK, Open
    <2>2. req[s].msg \in Messages
      BY <2>1 DEF Request
    <2> QED BY <1>1, <1>2, <2>1, <2>2 DEF LoadInv, Exists
  <1> QED
    BY <1>6, <1>7

LEMMA ReplyTyped ==
    ASSUME TypeOK, LoadInv, NEW r \in Requests, NEW n \in Messages, Reply(r, n)
    PROVE  RowsTyped' /\ LoadInv'
  <1>1. /\ Loaded(r) /\ Exists(req[r].msg)
        /\ row'[n] = New(req[r].user, req[r].msg)
        /\ row' \in [Messages -> Row \cup {Absent}]
        /\ \A x \in Messages : Exists(x)' <=> (Exists(x) \/ x = n)
        /\ \A x \in Messages : Exists(x) => row'[x].parent = row[x].parent
    BY ReplyDoes
  <1>2. /\ channel' = channel /\ req' = [req EXCEPT ![r] = Idle]
        /\ raced' = raced \cup Race(r) /\ Open(r)
    BY DEF Reply, Open
  <1>3. req' \in [Requests -> Request \cup {Idle}]
    BY <1>2 DEF TypeOK
  <1>4. raced' \subseteq Messages \X {"thread", "text", "pin"}
    BY <1>2, RaceTyped DEF TypeOK
  <1>0. req[r].msg \in Messages /\ channel /\ row'[n].parent = req[r].msg
    BY <1>1, LoadedRequest DEF TypeOK, New
  <1>5. \A m \in Messages : Exists(m)' =>
          channel' /\ (row'[m].parent = NoMessage \/ row'[row'[m].parent] # Absent)
    <2> TAKE m \in Messages
    <2> HAVE Exists(m)'
    <2>1. CASE Exists(m)
      <3>1. row[m] \in Row
        BY <2>1 DEF TypeOK, Exists
      <3>2. row[m].parent \in Messages \cup {NoMessage}
        BY <3>1 DEF Row
      <3> QED BY <1>1, <1>2, <2>1, <3>2 DEF TypeOK, Exists
    <2>2. CASE m = n
      BY <1>0, <1>1, <1>2, <2>2 DEF Exists
    <2> QED BY <1>1, <2>1, <2>2
  <1>6. RowsTyped'
    BY <1>1, <1>2, <1>3, <1>4, <1>5 DEF RowsTyped, TypeOK, Exists
  <1>7. LoadInv'
    <2> SUFFICES ASSUME NEW s \in Requests, Open(s)'
                 PROVE  /\ req'[s].op # "pin" => req'[s].seen # Absent
                        /\ req'[s].seen # Absent /\ channel'
                             => row'[req'[s].msg] # Absent
      BY DEF LoadInv, Exists, Open
    <2>1. s # r /\ req'[s] = req[s] /\ Open(s) /\ req[s] \in Request
      BY <1>2 DEF TypeOK, Open
    <2>2. req[s].msg \in Messages
      BY <2>1 DEF Request
    <2> QED BY <1>1, <1>2, <2>1, <2>2 DEF LoadInv, Exists
  <1> QED
    BY <1>6, <1>7

LEMMA PostTyped ==
    ASSUME TypeOK, LoadInv, NEW u \in Users, NEW n \in Messages, Post(u, n)
    PROVE  RowsTyped' /\ LoadInv'
  <1>1. /\ channel
        /\ row'[n] = New(u, NoMessage)
        /\ row' \in [Messages -> Row \cup {Absent}]
        /\ \A x \in Messages : Exists(x)' <=> (Exists(x) \/ x = n)
        /\ \A x \in Messages : Exists(x) => row'[x].parent = row[x].parent
    BY PostDoes
  <1>2. channel' = channel /\ req' = req /\ raced' = raced
    BY DEF Post, Serve
  <1>3. row'[n].parent = NoMessage
    BY <1>1 DEF New
  <1>5. \A m \in Messages : Exists(m)' =>
          channel' /\ (row'[m].parent = NoMessage \/ row'[row'[m].parent] # Absent)
    <2> TAKE m \in Messages
    <2> HAVE Exists(m)'
    <2>1. CASE Exists(m)
      <3>1. row[m] \in Row
        BY <2>1 DEF TypeOK, Exists
      <3>2. row[m].parent \in Messages \cup {NoMessage}
        BY <3>1 DEF Row
      <3> QED BY <1>1, <1>2, <2>1, <3>2 DEF TypeOK, Exists
    <2>2. CASE m = n
      BY <1>1, <1>2, <1>3, <2>2
    <2> QED BY <1>1, <2>1, <2>2
  <1>6. RowsTyped'
    BY <1>1, <1>2, <1>5 DEF RowsTyped, TypeOK, Exists
  <1>7. LoadInv'
    <2> SUFFICES ASSUME NEW s \in Requests, Open(s)'
                 PROVE  /\ req'[s].op # "pin" => req'[s].seen # Absent
                        /\ req'[s].seen # Absent /\ channel'
                             => row'[req'[s].msg] # Absent
      BY DEF LoadInv, Exists, Open
    <2>1. req'[s] = req[s] /\ Open(s) /\ req[s] \in Request
      BY <1>2 DEF TypeOK, Open
    <2>2. req[s].msg \in Messages
      BY <2>1 DEF Request
    <2> QED BY <1>1, <1>2, <2>1, <2>2 DEF LoadInv, Exists
  <1> QED
    BY <1>6, <1>7

LEMMA DeleteTyped ==
    ASSUME TypeOK, LoadInv, NEW u \in Users, DeleteChannel(u)
    PROVE  RowsTyped' /\ LoadInv'
  BY DEF DeleteChannel, Serve, TypeOK, RowsTyped, LoadInv, Exists, Open

LEMMA StepTyped ==
    ASSUME TypeOK, LoadInv, [Next]_vars
    PROVE  TypeOK' /\ LoadInv'
  <1>1. CASE Next
    <2>1. Steps
      BY <1>1, NextSteps
    <2>2. RowsTyped' /\ LoadInv'
      BY <2>1, ChecksTyped, ChangeTyped, ReplyTyped, PostTyped, DeleteTyped
         DEF Steps
    <2>3. served' \in 0..MaxServed
      BY <1>1, ServedTyped
    <2> QED BY <2>2, <2>3 DEF RowsTyped, TypeOK, Exists
  <1>2. CASE UNCHANGED vars
    BY <1>2 DEF vars, TypeOK, LoadInv, Exists, Open
  <1> QED
    BY <1>1, <1>2

\* The rows of a channel keep their types and their foreign keys, whatever
\* requests overlap and whenever the channel is deleted (models/chat.py).
THEOREM ChatTypeCorrect == Spec => []TypeOK
  <1>1. Init => TypeOK /\ LoadInv
    BY InitTyped
  <1>2. TypeOK /\ LoadInv /\ [Next]_vars => TypeOK' /\ LoadInv'
    BY StepTyped
  <1> QED
    BY <1>1, <1>2, PTL DEF Spec

----------------------------------------------------------------------------
(* Deleted messages *)

\* A deleted message stays deleted until its channel goes: a request that
\* loaded it before may write its other columns, but not is_deleted
\* (edit_message, pin_message, send_message).
THEOREM DeletedMessagesStayDeleted == Spec => DeletedStaysDeleted
  <1>1. ASSUME TypeOK, LoadInv, [Next]_vars,
               NEW m \in Messages, Exists(m), row[m].deleted
        PROVE  row'[m] = Absent \/ row'[m].deleted
    <2>1. CASE \E r \in Requests : Change(r)
      <3>1. PICK r \in Requests : Change(r)
        BY <2>1
      <3>2. /\ Loaded(r) /\ Exists(req[r].msg)
            /\ row'[req[r].msg] = Flushed(req[r])
            /\ \A x \in Messages \ {req[r].msg} : row'[x] = row[x]
        BY <1>1, <3>1, ChangeDoes
      <3>3. /\ req[r] \in Request /\ req[r].seen \in Row
            /\ row[req[r].msg] \in Row
        BY <1>1, <3>2, LoadedRequest
      <3>4. row[req[r].msg].deleted => Flushed(req[r]).deleted
        BY <3>3, FlushedColumns
      <3> QED BY <1>1, <3>2, <3>4
    <2>2. CASE \E r \in Requests, n \in Messages : Reply(r, n)
      <3>1. PICK r \in Requests, n \in Messages : Reply(r, n)
        BY <2>2
      <3>2. /\ Loaded(r) /\ Exists(req[r].msg) /\ ~Exists(n)
            /\ row'[req[r].msg] = Flushed(req[r])
            /\ \A x \in Messages \ {n, req[r].msg} : row'[x] = row[x]
        BY <1>1, <3>1, ReplyDoes
      <3>3. /\ req[r] \in Request /\ req[r].seen \in Row
            /\ row[req[r].msg] \in Row
        BY <1>1, <3>2, LoadedRequest
      <3>4. row[req[r].msg].deleted => Flushed(req[r]).deleted
        BY <3>3, FlushedColumns
      <3> QED BY <1>1, <3>2, <3>4
    <2>3. CASE \E u \in Users, n \in Messages : Post(u, n)
      BY <1>1, <2>3, PostDoes
    <2>4. CASE \E u \in Users : DeleteChannel(u)
      BY <2>4 DEF DeleteChannel
    <2>5. CASE row' = row
      BY <1>1, <2>5
    <2>6. Steps \/ row' = row
      BY <1>1, NextSteps DEF vars
    <2> QED BY <2>1, <2>2, <2>3, <2>4, <2>5, <2>6 DEF Steps, Checks
  <1>2. TypeOK /\ LoadInv /\ [Next]_vars =>
          [\A m \in Messages : Exists(m) /\ row[m].deleted
             => row'[m] = Absent \/ row'[m].deleted]_vars
    BY <1>1
  <1>3. Init => TypeOK /\ LoadInv
    BY InitTyped
  <1>4. TypeOK /\ LoadInv /\ [Next]_vars => TypeOK' /\ LoadInv'
    BY StepTyped
  <1> QED
    BY <1>2, <1>3, <1>4, PTL DEF Spec, DeletedStaysDeleted

----------------------------------------------------------------------------
(* The limit of pins *)

LEMMA FlushedUnpinned ==
    ASSUME NEW q \in Request, q.seen \in Row, row[q.msg] \in Row,
           q.op # "pin", Flushed(q).pinned
    PROVE  row[q.msg].pinned
  <1>1. CASE q.op = "unpin"
    <2>1. Wanted(q).pinned = FALSE
      BY <1>1 DEF Wanted, UnpinMessage, Row
    <2> QED BY <1>1, <2>1 DEF Flushed, Column
  <1>2. CASE q.op # "unpin"
    BY <1>2, FlushedColumns
  <1> QED
    BY <1>1, <1>2

LEMMA PinSizes ==
    ASSUME TypeOK
    PROVE  /\ IsFiniteSet(Pinned) /\ Cardinality(Pinned) \in Nat
           /\ IsFiniteSet(Pinning) /\ Cardinality(Pinning) \in Nat
           /\ Cardinality(Pinning) <= Cardinality(Requests)
           /\ Cardinality(Requests) \in Nat \ {0} /\ MaxPins \in Nat
  <1>1. Pinned \subseteq Messages /\ Pinning \subseteq Requests
    BY DEF Pinned, Pinning
  <1>2. IsFiniteSet(Messages) /\ IsFiniteSet(Requests) /\ MaxPins \in Nat
    BY ChatAssumption
  <1>3. Cardinality(Requests) # 0
    BY <1>2, ChatAssumption, FS_EmptySet
  <1> QED
    BY <1>1, <1>2, <1>3, FS_Subset, FS_CardinalityType

\* Fewer pins, and fewer under way, keep the bound.
LEMMA FewerPins ==
    ASSUME TypeOK, TypeOK', PinsInv,
           Pinned' \subseteq Pinned, Pinning' \subseteq Pinning
    PROVE  PinsInv'
  <1>1. /\ Cardinality(Pinned') <= Cardinality(Pinned)
        /\ Cardinality(Pinning') <= Cardinality(Pinning)
    BY PinSizes, FS_Subset
  <1>2. /\ Cardinality(Pinned) \in Nat /\ Cardinality(Pinning) \in Nat
        /\ Cardinality(Requests) \in Nat /\ MaxPins \in Nat
    BY PinSizes
  <1>3. Cardinality(Pinned') \in Nat /\ Cardinality(Pinning') \in Nat
    BY PinSizes, FS_Subset, FS_CardinalityType
  <1>4. Cardinality(Pinned') + Cardinality(Pinning')
          <= MaxPins + Cardinality(Requests) - 1
    BY <1>1, <1>2, <1>3 DEF PinsInv
  <1> QED
    BY <1>4 DEF PinsInv

\* A check that finds room starts a pin.
LEMMA RoomKeepsPins ==
    ASSUME TypeOK, TypeOK', RoomToPin, Pinned' = Pinned
    PROVE  PinsInv'
  <1>1. /\ Cardinality(Pinned) \in Nat /\ Cardinality(Requests) \in Nat
        /\ MaxPins \in Nat
    BY PinSizes
  <1>2. Pinning' \subseteq Requests
    BY DEF Pinning
  <1>3. /\ Cardinality(Pinning') <= Cardinality(Requests)
        /\ Cardinality(Pinning') \in Nat
    BY <1>2, ChatAssumption, FS_Subset, FS_CardinalityType
  <1>4. Cardinality(Pinned) < MaxPins
    BY DEF RoomToPin
  <1>5. Cardinality(Pinned') + Cardinality(Pinning')
          <= MaxPins + Cardinality(Requests) - 1
    BY <1>1, <1>3, <1>4
  <1> QED
    BY <1>5 DEF PinsInv

\* A pin that is written is no longer under way.
LEMMA WrittenPin ==
    ASSUME TypeOK, TypeOK', PinsInv, NEW r \in Pinning, NEW m \in Messages,
           Pinned' \subseteq Pinned \cup {m}, Pinning' \subseteq Pinning \ {r}
    PROVE  PinsInv'
  <1>1. /\ IsFiniteSet(Pinned) /\ IsFiniteSet(Pinning)
        /\ Cardinality(Pinned) \in Nat /\ Cardinality(Pinning) \in Nat
        /\ Cardinality(Requests) \in Nat /\ MaxPins \in Nat
    BY PinSizes
  <1>2. /\ IsFiniteSet(Pinned \cup {m})
        /\ Cardinality(Pinned \cup {m}) <= Cardinality(Pinned) + 1
    <2>1. /\ IsFiniteSet(Pinned \cup {m})
          /\ Cardinality(Pinned \cup {m}) = IF m \in Pinned
               THEN Cardinality(Pinned) ELSE Cardinality(Pinned) + 1
      BY <1>1, FS_AddElement
    <2> HIDE DEF Pinned
    <2> QED BY <1>1, <2>1
  <1>3. /\ IsFiniteSet(Pinning \ {r})
        /\ Cardinality(Pinning \ {r}) = Cardinality(Pinning) - 1
    BY <1>1, FS_RemoveElement
  <1>4. /\ Cardinality(Pinned') <= Cardinality(Pinned \cup {m})
        /\ Cardinality(Pinning') <= Cardinality(Pinning \ {r})
        /\ IsFiniteSet(Pinned') /\ IsFiniteSet(Pinning')
    BY <1>2, <1>3, FS_Subset
  <1>5. /\ Cardinality(Pinned') \in Nat /\ Cardinality(Pinning') \in Nat
        /\ Cardinality(Pinned \cup {m}) \in Nat
    BY <1>2, <1>4, FS_CardinalityType
  <1>6. Cardinality(Pinned') + Cardinality(Pinning')
          <= MaxPins + Cardinality(Requests) - 1
    BY <1>1, <1>2, <1>3, <1>4, <1>5 DEF PinsInv
  <1> QED
    BY <1>6 DEF PinsInv

LEMMA ChecksPins ==
    ASSUME TypeOK, TypeOK', PinsInv, NEW r \in Requests, Checks(r)
    PROVE  PinsInv'
  <1>1. row' = row /\ Pinned' = Pinned
    BY DEF Checks, Pinned, Exists
  <1>2. req \in [Requests -> Request \cup {Idle}]
    BY DEF TypeOK
  <1>3. CASE \E q \in Request :
               /\ req' = [req EXCEPT ![r] = q]
               /\ q.op # "pin" \/ (Open(r) /\ q.op = req[r].op)
    <2>1. PICK q \in Request :
               /\ req' = [req EXCEPT ![r] = q]
               /\ q.op # "pin" \/ (Open(r) /\ q.op = req[r].op)
      BY <1>3
    <2>2. Pinning' \subseteq Pinning
      BY <1>2, <2>1 DEF Pinning, Open
    <2> QED BY <1>1, <2>2, FewerPins
  <1>4. CASE RoomToPin
    BY <1>1, <1>4, RoomKeepsPins
  <1>5. CASE req' = [req EXCEPT ![r] = Idle]
    <2>1. Pinning' \subseteq Pinning
      BY <1>2, <1>5 DEF Pinning, Open
    <2> QED BY <1>1, <2>1, FewerPins
  <1> QED
    BY <1>3, <1>4, <1>5 DEF Checks

LEMMA ChangePins ==
    ASSUME TypeOK, TypeOK', PinsInv, NEW r \in Requests, Change(r)
    PROVE  PinsInv'
  <1> DEFINE m == req[r].msg
  <1>1. /\ Loaded(r) /\ Exists(m)
        /\ row'[m] = Flushed(req[r])
        /\ \A x \in Messages \ {m} : row'[x] = row[x]
        /\ \A x \in Messages : Exists(x)' <=> Exists(x)
    BY ChangeDoes
  <1>2. /\ req[r] \in Request /\ m \in Messages
        /\ req[r].seen \in Row /\ row[m] \in Row
    BY <1>1, LoadedRequest
  <1>3. Open(r) /\ req' = [req EXCEPT ![r] = Idle]
    BY DEF Change, Open
  <1>4. Pinning' = Pinning \ {r}
    BY <1>3 DEF Pinning, Open, TypeOK
  <1>5. CASE req[r].op = "pin"
    <2>1. r \in Pinning
      BY <1>3, <1>5 DEF Pinning
    <2>2. Pinned' \subseteq Pinned \cup {m}
      BY <1>1 DEF Pinned, Exists
    <2> HIDE DEF m
    <2> QED BY <1>2, <1>4, <2>1, <2>2, WrittenPin
  <1>6. CASE req[r].op # "pin"
    <2>1. Flushed(req[r]).pinned => row[m].pinned
      BY <1>2, <1>6, FlushedUnpinned
    <2>2. Pinned' \subseteq Pinned
      BY <1>1, <2>1 DEF Pinned, Exists
    <2> QED BY <1>4, <2>2, FewerPins
  <1> QED
    BY <1>5, <1>6

LEMMA ReplyPins ==
    ASSUME TypeOK, LoadInv, TypeOK', PinsInv,
           NEW r \in Requests, NEW n \in Messages, Reply(r, n)
    PROVE  PinsInv'
  <1> DEFINE m == req[r].msg
  <1>1. /\ Loaded(r) /\ req[r].op = "reply" /\ Exists(m) /\ ~Exists(n)
        /\ row'[n] = New(req[r].user, m)
        /\ row'[m] = Flushed(req[r])
        /\ \A x \in Messages \ {n, m} : row'[x] = row[x]
        /\ \A x \in Messages : Exists(x)' <=> (Exists(x) \/ x = n)
    BY ReplyDoes
  <1>2. /\ req[r] \in Request /\ m \in Messages
        /\ req[r].seen \in Row /\ row[m] \in Row
    BY <1>1, LoadedRequest
  <1>3. Open(r) /\ req' = [req EXCEPT ![r] = Idle]
    BY DEF Reply, Open
  <1>4. Pinning' \subseteq Pinning
    BY <1>3 DEF Pinning, Open, TypeOK
  <1>5. Flushed(req[r]).pinned = row[m].pinned
    BY <1>1, <1>2, FlushedColumns
  <1>6. row'[n].pinned = FALSE
    BY <1>1 DEF New
  <1>7. Pinned' \subseteq Pinned
    BY <1>1, <1>5, <1>6 DEF Pinned, Exists
  <1> QED
    BY <1>4, <1>7, FewerPins

LEMMA StepPins ==
    ASSUME TypeOK, LoadInv, TypeOK', PinsInv, [Next]_vars
    PROVE  PinsInv'
  <1>1. CASE \E u \in Users, n \in Messages : Post(u, n)
    <2>1. PICK u \in Users, n \in Messages : Post(u, n)
      BY <1>1
    <2>2. /\ row'[n] = New(u, NoMessage)
          /\ \A x \in Messages \ {n} : row'[x] = row[x]
      BY <2>1, PostDoes
    <2>3. row'[n].pinned = FALSE
      BY <2>2 DEF New
    <2>4. Pinned' \subseteq Pinned
      BY <2>2, <2>3 DEF Pinned, Exists
    <2>5. Pinning' = Pinning
      BY <2>1 DEF Post, Pinning, Open
    <2> QED BY <2>4, <2>5, FewerPins
  <1>2. CASE \E u \in Users : DeleteChannel(u)
    <2>1. Pinned' \subseteq Pinned
      BY <1>2 DEF DeleteChannel, Pinned, Exists
    <2>2. Pinning' = Pinning
      BY <1>2 DEF DeleteChannel, Pinning, Open
    <2> QED BY <2>1, <2>2, FewerPins
  <1>3. CASE UNCHANGED vars
    <2>1. Pinned' = Pinned /\ Pinning' = Pinning
      BY <1>3 DEF vars, Pinned, Pinning, Exists, Open
    <2> QED BY <2>1, FewerPins
  <1>4. Steps \/ UNCHANGED vars
    BY NextSteps
  <1> QED
    BY <1>1, <1>2, <1>3, <1>4, ChecksPins, ChangePins, ReplyPins DEF Steps

\* The check that comes before the write is the only cause of too many pins:
\* were a channel's requests served one at a time, pin_message would keep the
\* limit it reports. PinsInv says by how much overlapping ones exceed it.
THEOREM OneAtATimeKeepsTheLimit ==
    ASSUME Cardinality(Requests) = 1
    PROVE  Spec => []PinLimit
  <1>1. Init => TypeOK /\ LoadInv /\ PinsInv
    <2>1. ASSUME Init PROVE PinsInv
      <3>1. Pinned = {} /\ Pinning = {}
        BY <2>1 DEF Init, Pinned, Pinning, Exists, Open
      <3>2. Cardinality({}) = 0
        BY FS_EmptySet
      <3>3. /\ Cardinality(Requests) \in Nat \ {0} /\ MaxPins \in Nat
        BY <2>1, InitTyped, PinSizes
      <3> QED BY <3>1, <3>2, <3>3 DEF PinsInv
    <2> QED BY <2>1, InitTyped
  <1>2. TypeOK /\ LoadInv /\ PinsInv /\ [Next]_vars
          => (TypeOK /\ LoadInv /\ PinsInv)'
    BY StepTyped, StepPins
  <1>3. TypeOK /\ PinsInv => PinLimit
    <2> SUFFICES ASSUME TypeOK, PinsInv PROVE PinLimit
      OBVIOUS
    <2>1. /\ Cardinality(Pinned) \in Nat /\ Cardinality(Pinning) \in Nat
          /\ Cardinality(Requests) \in Nat /\ MaxPins \in Nat
      BY PinSizes
    <2> QED BY <2>1 DEF PinsInv, PinLimit
  <1> QED
    BY <1>1, <1>2, <1>3, PTL DEF Spec

----------------------------------------------------------------------------
(* The counters of threads *)

\* The counter of message m against its replies.
CountFits(m) ==
    /\ row[m].count <= Cardinality(Replies(m))
    /\ Cardinality(Replies(m)) > 0 => row[m].count > 0
    /\ <<m, "thread">> \notin raced => row[m].count = Cardinality(Replies(m))

CountsFit == \A m \in Messages : Exists(m) => CountFits(m)

LEMMA CountsAreThreadCounts == CountsFit <=> ThreadCounts
  BY DEF CountsFit, CountFits, ThreadCounts

LEMMA RepliesAreFinite ==
    ASSUME NEW m \in Messages
    PROVE  IsFiniteSet(Replies(m)) /\ Cardinality(Replies(m)) \in Nat
  <1>1. Replies(m) \subseteq Messages
    BY DEF Replies
  <1> QED
    BY <1>1, ChatAssumption, FS_Subset, FS_CardinalityType

\* Who commits while another request on the same columns is open is recorded.
LEMMA RaceIsRecorded ==
    ASSUME NEW r \in Requests, NEW s \in Requests, s # r, Open(s),
           req[s].msg = req[r].msg, Columns(req[s].op) = Columns(req[r].op),
           raced' = raced \cup Race(r)
    PROVE  <<req[r].msg, Columns(req[r].op)>> \in raced'
  <1>1. s \in Rivals(r)
    BY DEF Rivals, Open
  <1> QED
    BY <1>1 DEF Race

\* What a step leaves as it is for message x.
SameThread(x) ==
    /\ Exists(x)' <=> Exists(x)
    /\ Replies(x)' = Replies(x)
    /\ row'[x].count = row[x].count
    /\ <<x, "thread">> \in raced => <<x, "thread">> \in raced'

LEMMA SameThreadFits ==
    ASSUME NEW x \in Messages, SameThread(x), CountFits(x)
    PROVE  CountFits(x)'
  BY DEF SameThread, CountFits

LEMMA SameThreadSeen ==
    ASSUME NEW s \in Requests, req'[s] = req[s], SameThread(req[s].msg),
           SeesThread(req[s])
    PROVE  SeesThread(req[s])'
  <1> DEFINE q == req[s]
  <1>1. req'[s] = q /\ SameThread(q.msg) /\ SeesThread(q)
    OBVIOUS
  <1>2. (q.op = "reply" /\ row'[q.msg] # Absent) =>
          /\ q.seen.count <= Cardinality(Replies(q.msg))
          /\ <<q.msg, "thread">> \notin raced'
               => q.seen.count = row'[q.msg].count
    BY <1>1 DEF SeesThread, SameThread, Exists
  <1>3. Replies(q.msg)' = Replies(q.msg)
    BY <1>1 DEF SameThread
  <1> QED
    BY <1>1, <1>2, <1>3 DEF SeesThread, Exists, Replies

LEMMA RowsKeepReplies ==
    ASSUME \A x \in Messages : Exists(x)' <=> Exists(x),
           \A x \in Messages : Exists(x) => row'[x].parent = row[x].parent,
           NEW m \in Messages
    PROVE  Replies(m)' = Replies(m)
  <1>1. \A x \in Messages : x \in Replies(m)' <=> x \in Replies(m)
    BY DEF Replies, Exists
  <1>2. Replies(m)' \subseteq Messages /\ Replies(m) \subseteq Messages
    BY DEF Replies
  <1> QED
    BY <1>1, <1>2

LEMMA ChecksThreads ==
    ASSUME TypeOK, CountsFit, ThreadSeen, NEW r \in Requests, Checks(r)
    PROVE  CountsFit' /\ ThreadSeen'
  <1>1. row' = row /\ raced' = raced
    BY DEF Checks
  <1>2. \A x \in Messages : SameThread(x)
    BY <1>1 DEF SameThread, Exists, Replies
  <1>3. CountsFit'
    BY <1>1 DEF CountsFit, CountFits, Exists, Replies
  <1>4. ThreadSeen'
    <2> SUFFICES ASSUME NEW s \in Requests, Loaded(s)'
                 PROVE  SeesThread(req[s])'
      BY DEF ThreadSeen
    <2>1. CASE s # r
      <3>1. req'[s] = req[s]
        BY <2>1 DEF Checks, TypeOK
      <3>2. Loaded(s)
        BY <3>1 DEF Loaded, Open
      <3>3. req[s].msg \in Messages
        BY <3>2, LoadedRequest
      <3> QED BY <1>2, <3>1, <3>2, <3>3, SameThreadSeen DEF ThreadSeen
    <2>2. CASE s = r
      <3>1. PICK q \in Request \cup {Idle} :
              /\ req' = [req EXCEPT ![r] = q]
              /\ \/ q = Idle \/ q.seen = Absent
                 \/ /\ q \in Request
                    /\ Exists(q.msg) /\ q.seen = row[q.msg]
        BY DEF Checks
      <3>2. req'[s] = q
        BY <2>2, <3>1 DEF TypeOK
      <3>3. q \in Request /\ Exists(q.msg) /\ q.seen = row[q.msg]
        BY <3>1, <3>2 DEF Loaded, Open
      <3>4. q.msg \in Messages /\ row[q.msg] \in Row
        BY <3>3 DEF Request, TypeOK, Exists
      <3>5. row[q.msg].count <= Cardinality(Replies(q.msg))
        BY <3>3, <3>4 DEF CountsFit, CountFits
      <3>6. SeesThread(q)
        BY <3>3, <3>5 DEF SeesThread
      <3> QED BY <1>1, <3>2, <3>6 DEF SeesThread, Exists, Replies
    <2> QED BY <2>1, <2>2
  <1> QED
    BY <1>3, <1>4

LEMMA ChangeThreads ==
    ASSUME TypeOK, CountsFit, ThreadSeen, NEW r \in Requests, Change(r)
    PROVE  CountsFit' /\ ThreadSeen'
  <1> DEFINE m == req[r].msg
  <1>1. /\ Loaded(r) /\ req[r].op # "reply" /\ Exists(m)
        /\ row'[m] = Flushed(req[r])
        /\ \A x \in Messages \ {m} : row'[x] = row[x]
        /\ \A x \in Messages : Exists(x)' <=> Exists(x)
        /\ \A x \in Messages : Exists(x) => row'[x].parent = row[x].parent
    BY ChangeDoes
  <1>2. /\ req[r] \in Request /\ m \in Messages
        /\ req[r].seen \in Row /\ row[m] \in Row
    BY <1>1, LoadedRequest
  <1>3. Flushed(req[r]).count = row[m].count
    BY <1>1, <1>2, FlushedColumns
  <1>4. \A x \in Messages : row'[x].count = row[x].count
    BY <1>1, <1>3
  <1>5. req' = [req EXCEPT ![r] = Idle] /\ raced' = raced \cup Race(r)
    BY DEF Change
  <1>6. \A x \in Messages : Replies(x)' = Replies(x)
    BY <1>1, RowsKeepReplies
  <1>7. \A x \in Messages : SameThread(x)
    BY <1>1, <1>4, <1>5, <1>6 DEF SameThread
  <1>8. CountsFit'
    <2> SUFFICES ASSUME NEW x \in Messages, Exists(x)'
                 PROVE  CountFits(x)'
      BY DEF CountsFit
    <2>1. CountFits(x)
      BY <1>1 DEF CountsFit
    <2> QED BY <1>7, <2>1, SameThreadFits
  <1>9. ThreadSeen'
    <2> SUFFICES ASSUME NEW s \in Requests, Loaded(s)'
                 PROVE  SeesThread(req[s])'
      BY DEF ThreadSeen
    <2>1. req'[s] = req[s] /\ Loaded(s)
      BY <1>5 DEF Loaded, Open, TypeOK
    <2>2. req[s].msg \in Messages
      BY <2>1, LoadedRequest
    <2> QED BY <1>7, <2>1, <2>2, SameThreadSeen DEF ThreadSeen
  <1> QED
    BY <1>8, <1>9

\* A new message leaves the threads of all others but its parent's alone.
LEMMA NobodyRepliesToNew ==
    ASSUME TypeOK, NEW n \in Messages, ~Exists(n),
           \A x \in Messages : Exists(x)' <=> (Exists(x) \/ x = n),
           \A x \in Messages : Exists(x) => row'[x].parent = row[x].parent,
           row'[n].parent # n
    PROVE  Replies(n)' = {}
  <1>1. ASSUME NEW x \in Messages, x \in Replies(n)' PROVE FALSE
    <2>1. row'[x].parent = n /\ x # n
      BY <1>1 DEF Replies
    <2>2. Exists(x) /\ row[x].parent = n
      BY <1>1, <2>1 DEF Replies, Exists
    <2>3. n # NoMessage
      BY ChatAssumption
    <2> QED BY <2>2, <2>3 DEF TypeOK
  <1> QED
    BY <1>1 DEF Replies

LEMMA NewIsNoReply ==
    ASSUME NEW n \in Messages, ~Exists(n), NEW m \in Messages,
           \A x \in Messages : Exists(x)' <=> (Exists(x) \/ x = n),
           \A x \in Messages : Exists(x) => row'[x].parent = row[x].parent,
           row'[n].parent # m
    PROVE  Replies(m)' = Replies(m)
  <1>1. \A x \in Messages : x \in Replies(m)' <=> x \in Replies(m)
    BY DEF Replies, Exists
  <1>2. Replies(m)' \subseteq Messages /\ Replies(m) \subseteq Messages
    BY DEF Replies
  <1> QED
    BY <1>1, <1>2

LEMMA NewIsReply ==
    ASSUME NEW n \in Messages, ~Exists(n), NEW m \in Messages,
           \A x \in Messages : Exists(x)' <=> (Exists(x) \/ x = n),
           \A x \in Messages : Exists(x) => row'[x].parent = row[x].parent,
           row'[n].parent = m
    PROVE  Cardinality(Replies(m)') = Cardinality(Replies(m)) + 1
  <1>1. \A x \in Messages : x \in Replies(m)' <=> x \in Replies(m) \cup {n}
    BY DEF Replies, Exists
  <1>2. Replies(m)' \subseteq Messages /\ Replies(m) \subseteq Messages
    BY DEF Replies
  <1>3. Replies(m)' = Replies(m) \cup {n}
    BY <1>1, <1>2
  <1>4. n \notin Replies(m) /\ IsFiniteSet(Replies(m))
    BY RepliesAreFinite DEF Replies
  <1> QED
    BY <1>3, <1>4, FS_AddElement

LEMMA NewFits ==
    ASSUME NEW n \in Messages, Replies(n)' = {}, row'[n].count = 0
    PROVE  CountFits(n)'
  <1>1. Cardinality(Replies(n)') = 0
    BY FS_EmptySet
  <1> QED
    BY <1>1 DEF CountFits

LEMMA PostThreads ==
    ASSUME TypeOK, LoadInv, CountsFit, ThreadSeen,
           NEW u \in Users, NEW n \in Messages, Post(u, n)
    PROVE  CountsFit' /\ ThreadSeen'
  <1>1. /\ channel /\ ~Exists(n) /\ row'[n] = New(u, NoMessage)
        /\ \A x \in Messages \ {n} : row'[x] = row[x]
        /\ \A x \in Messages : Exists(x)' <=> (Exists(x) \/ x = n)
        /\ \A x \in Messages : Exists(x) => row'[x].parent = row[x].parent
    BY PostDoes
  <1>2. req' = req /\ raced' = raced
    BY DEF Post
  <1>3. /\ row'[n].count = 0 /\ row'[n].parent = NoMessage
        /\ NoMessage \notin Messages
    BY <1>1, ChatAssumption DEF New
  <1>4. \A x \in Messages : Replies(x)' = Replies(x)
    BY <1>1, <1>3, NewIsNoReply
  <1>5. \A x \in Messages \ {n} : SameThread(x)
    BY <1>1, <1>2, <1>4 DEF SameThread
  <1>6. CountsFit'
    <2> SUFFICES ASSUME NEW x \in Messages, Exists(x)'
                 PROVE  CountFits(x)'
      BY DEF CountsFit
    <2>1. CASE x = n
      <3>1. Replies(n)' = {}
        BY <1>1, <1>3, NobodyRepliesToNew
      <3> QED BY <1>3, <2>1, <3>1, NewFits
    <2>2. CASE x # n
      <3>1. CountFits(x)
        BY <1>1, <2>2 DEF CountsFit
      <3> QED BY <1>5, <2>2, <3>1, SameThreadFits
    <2> QED BY <2>1, <2>2
  <1>7. ThreadSeen'
    <2> SUFFICES ASSUME NEW s \in Requests, Loaded(s)'
                 PROVE  SeesThread(req[s])'
      BY DEF ThreadSeen
    <2>1. req'[s] = req[s] /\ Loaded(s)
      BY <1>2 DEF Loaded, Open
    <2>2. req[s].msg \in Messages
      BY <2>1, LoadedRequest
    <2>3. req[s].msg # n
      BY <1>1, <2>1 DEF LoadInv, Loaded
    <2> QED BY <1>5, <2>1, <2>2, <2>3, SameThreadSeen DEF ThreadSeen
  <1> QED
    BY <1>6, <1>7

LEMMA DeleteThreads ==
    ASSUME TypeOK, NEW u \in Users, DeleteChannel(u)
    PROVE  CountsFit' /\ ThreadSeen'
  <1>1. \A m \in Messages : row'[m] = Absent
    BY DEF DeleteChannel
  <1>2. CountsFit'
    BY <1>1 DEF CountsFit, Exists
  <1>3. \A s \in Requests : Loaded(s)' =>
          req'[s] = req[s] /\ req[s].msg \in Messages
    BY LoadedRequest DEF DeleteChannel, Loaded, Open
  <1>4. ThreadSeen'
    BY <1>1, <1>3 DEF ThreadSeen, SeesThread, Exists
  <1> QED
    BY <1>2, <1>4

LEMMA ReplyThreads ==
    ASSUME TypeOK, LoadInv, CountsFit, ThreadSeen,
           NEW r \in Requests, NEW n \in Messages, Reply(r, n)
    PROVE  CountsFit' /\ ThreadSeen'
  <1>1. PICK m \in Messages : m = req[r].msg
    BY ReplyDoes, LoadedRequest
  <1>2. /\ Loaded(r) /\ req[r].op = "reply" /\ Exists(m) /\ ~Exists(n)
        /\ m # n
        /\ row'[n] = New(req[r].user, m)
        /\ row'[m] = Flushed(req[r])
        /\ \A x \in Messages \ {n, m} : row'[x] = row[x]
        /\ \A x \in Messages : Exists(x)' <=> (Exists(x) \/ x = n)
        /\ \A x \in Messages : Exists(x) => row'[x].parent = row[x].parent
    BY <1>1, ReplyDoes
  <1>3. /\ req[r] \in Request /\ req[r].seen \in Row /\ row[m] \in Row
        /\ req[r].seen.count \in Nat /\ channel
    BY <1>1, <1>2, LoadedRequest DEF Row, TypeOK
  <1>4. row'[m].count = req[r].seen.count + 1
    BY <1>1, <1>2, <1>3, FlushedColumns
  <1>5. row'[n].count = 0 /\ row'[n].parent = m
    BY <1>2 DEF New
  <1>6. req' = [req EXCEPT ![r] = Idle] /\ raced' = raced \cup Race(r)
    BY DEF Reply
  <1>7. \A x \in Messages \ {m} : Replies(x)' = Replies(x)
    BY <1>2, <1>5, NewIsNoReply
  <1>8. /\ Cardinality(Replies(m)') = Cardinality(Replies(m)) + 1
        /\ Cardinality(Replies(m)) \in Nat
    BY <1>2, <1>5, NewIsReply, RepliesAreFinite
  <1>9. \A x \in Messages \ {n, m} : SameThread(x)
    BY <1>2, <1>6, <1>7 DEF SameThread
  <1>10. CountFits(m)'
    <2>1. /\ req[r].seen.count <= Cardinality(Replies(m))
          /\ <<m, "thread">> \notin raced => req[r].seen.count = row[m].count
      BY <1>1, <1>2 DEF ThreadSeen, SeesThread
    <2>2. <<m, "thread">> \notin raced => row[m].count = Cardinality(Replies(m))
      BY <1>2 DEF CountsFit, CountFits
    <2>3. /\ row'[m].count <= Cardinality(Replies(m)')
          /\ row'[m].count > 0
      BY <1>3, <1>4, <1>8, <2>1
    <2>4. <<m, "thread">> \notin raced'
            => row'[m].count = Cardinality(Replies(m)')
      BY <1>4, <1>6, <1>8, <2>1, <2>2
    <2> QED BY <2>3, <2>4 DEF CountFits
  <1>11. CountsFit'
    <2> SUFFICES ASSUME NEW x \in Messages, Exists(x)'
                 PROVE  CountFits(x)'
      BY DEF CountsFit
    <2>1. CASE x = n
      <3>1. Replies(n)' = {}
        BY <1>2, <1>5, NobodyRepliesToNew
      <3> QED BY <1>5, <2>1, <3>1, NewFits
    <2>2. CASE x \notin {n, m}
      <3>1. CountFits(x)
        BY <1>2, <2>2 DEF CountsFit
      <3> QED BY <1>9, <2>2, <3>1, SameThreadFits
    <2> QED BY <1>10, <2>1, <2>2
  <1>12. ThreadSeen'
    <2> SUFFICES ASSUME NEW s \in Requests, Loaded(s)'
                 PROVE  SeesThread(req[s])'
      BY DEF ThreadSeen
    <2>1. s # r /\ req'[s] = req[s] /\ Loaded(s) /\ SeesThread(req[s])
      BY <1>6 DEF Loaded, Open, TypeOK, ThreadSeen
    <2>2. req[s].msg \in Messages /\ req[s].seen.count \in Nat
      BY <2>1, LoadedRequest DEF Row
    <2>3. req[s].msg # n
      BY <1>2, <1>3, <2>1 DEF LoadInv, Loaded
    <2>4. CASE req[s].op # "reply"
      BY <2>1, <2>4 DEF SeesThread
    <2>5. CASE req[s].op = "reply" /\ req[s].msg = m
      <3>1. <<m, "thread">> \in raced'
        BY <1>1, <1>2, <1>6, <2>1, <2>5, RaceIsRecorded DEF Columns, Loaded
      <3>2. req[s].seen.count <= Cardinality(Replies(m))
        BY <1>2, <2>1, <2>5 DEF SeesThread
      <3>3. req[s].seen.count <= Cardinality(Replies(m)')
        BY <1>8, <2>2, <3>2
      <3> QED BY <2>1, <2>5, <3>1, <3>3 DEF SeesThread, Replies, Exists
    <2>6. CASE req[s].msg # m
      BY <1>9, <2>1, <2>2, <2>3, <2>6, SameThreadSeen
    <2> QED BY <2>4, <2>5, <2>6
  <1> QED
    BY <1>11, <1>12

\* The counter of a message never exceeds its replies, is zero only when it
\* has none, and is exact unless two replies to it ran at once (send_message
\* and the WebSocket handler add one to the value they loaded).
THEOREM ThreadCountsHold == Spec => []ThreadCounts
  <1>1. Init => TypeOK /\ LoadInv /\ CountsFit /\ ThreadSeen
    <2>1. Init => CountsFit /\ ThreadSeen
      BY DEF Init, CountsFit, ThreadSeen, Exists, Loaded, Open
    <2> QED BY <2>1, InitTyped
  <1>2. ASSUME TypeOK, LoadInv, CountsFit, ThreadSeen, [Next]_vars
        PROVE  CountsFit' /\ ThreadSeen'
    <2>1. CASE UNCHANGED vars
      <3>1. CountsFit'
        BY <1>2, <2>1 DEF vars, CountsFit, CountFits, Exists, Replies
      <3>2. ThreadSeen'
        BY <1>2, <2>1
           DEF vars, ThreadSeen, SeesThread, Exists, Replies, Loaded, Open
      <3> QED BY <3>1, <3>2
    <2>2. Steps \/ UNCHANGED vars
      BY <1>2, NextSteps
    <2> QED
      BY <1>2, <2>1, <2>2, ChecksThreads, ChangeThreads, ReplyThreads,
         PostThreads, DeleteThreads DEF Steps
  <1>3. TypeOK /\ LoadInv /\ CountsFit /\ ThreadSeen /\ [Next]_vars
          => (TypeOK /\ LoadInv /\ CountsFit /\ ThreadSeen)'
    BY <1>2, StepTyped
  <1>4. CountsFit => ThreadCounts
    BY CountsAreThreadCounts
  <1> QED
    BY <1>1, <1>3, <1>4, PTL DEF Spec

----------------------------------------------------------------------------
(* The columns of a pin *)

PinAgrees(m) ==
    <<m, "pin">> \notin raced =>
      /\ row[m].pinned <=> row[m].by # NoUser
      /\ row[m].pinned <=> row[m].at

\* What a step leaves as it is for message x.
SamePin(x) ==
    /\ row'[x].pinned = row[x].pinned
    /\ row'[x].by = row[x].by /\ row'[x].at = row[x].at
    /\ <<x, "pin">> \in raced => <<x, "pin">> \in raced'

LEMMA SamePinAgrees ==
    ASSUME NEW x \in Messages, SamePin(x), PinAgrees(x)
    PROVE  PinAgrees(x)'
  BY DEF SamePin, PinAgrees

LEMMA SamePinSeen ==
    ASSUME NEW s \in Requests, req'[s] = req[s], SamePin(req[s].msg),
           Exists(req[s].msg), SeesPin(req[s])
    PROVE  SeesPin(req[s])'
  BY DEF SeesPin, SamePin, Exists

\* The rows whose pin columns a step writes, and whom it leaves alone.
PinsKept(n) ==
    /\ \A x \in Messages \ {n} : Exists(x)' => Exists(x) /\ SamePin(x)
    /\ Exists(n)' => PinAgrees(n)'

LEMMA KeptPinsAgree ==
    ASSUME PinColumnsAgree, NEW n, PinsKept(n)
    PROVE  PinColumnsAgree'
  <1> SUFFICES ASSUME NEW x \in Messages, Exists(x)'
               PROVE  PinAgrees(x)'
    BY DEF PinColumnsAgree, PinAgrees
  <1>1. CASE x = n
    BY <1>1 DEF PinsKept
  <1>2. CASE x # n
    <2>1. Exists(x) /\ SamePin(x)
      BY <1>2 DEF PinsKept
    <2>2. PinAgrees(x)
      BY <2>1 DEF PinColumnsAgree, PinAgrees
    <2> QED BY <2>1, <2>2, SamePinAgrees
  <1> QED
    BY <1>1, <1>2

LEMMA ChecksAgree ==
    ASSUME TypeOK, PinColumnsAgree, PinSeen, NEW r \in Requests, Checks(r)
    PROVE  PinColumnsAgree' /\ PinSeen'
  <1>1. row' = row /\ raced' = raced
    BY DEF Checks
  <1>2. PinColumnsAgree'
    BY <1>1 DEF PinColumnsAgree, Exists
  <1>3. PinSeen'
    <2> SUFFICES ASSUME NEW s \in Requests, Loaded(s)'
                 PROVE  SeesPin(req[s])'
      BY DEF PinSeen
    <2>1. CASE s # r
      <3>1. req'[s] = req[s] /\ Loaded(s)
        BY <2>1 DEF Checks, TypeOK, Loaded, Open
      <3> QED BY <1>1, <3>1 DEF PinSeen, SeesPin, Exists
    <2>2. CASE s = r
      <3>1. PICK q \in Request \cup {Idle} :
              /\ req' = [req EXCEPT ![r] = q]
              /\ q = Idle \/ q.seen = Absent \/ q.seen = row[q.msg]
        BY DEF Checks
      <3>2. req'[s] = q
        BY <2>2, <3>1 DEF TypeOK
      <3>3. q.seen = row[q.msg]
        BY <3>1, <3>2 DEF Loaded, Open
      <3> QED BY <1>1, <3>2, <3>3 DEF SeesPin, Exists
    <2> QED BY <2>1, <2>2
  <1> QED
    BY <1>2, <1>3

\* Requests still open after r, when r has written message m, and n is new.
LEMMA OthersSee ==
    ASSUME TypeOK, LoadInv, PinSeen, NEW r \in Requests, NEW m \in Messages,
           channel, req' = [req EXCEPT ![r] = Idle],
           \A x \in Messages \ {m} : Exists(x) => SamePin(x),
           SamePin(m) \/ \A s \in Requests \ {r} :
             Open(s) /\ req[s].msg = m /\ req[s].op \in {"pin", "unpin"}
               => <<m, "pin">> \in raced'
    PROVE  PinSeen'
  <1> SUFFICES ASSUME NEW s \in Requests, Loaded(s)'
               PROVE  SeesPin(req[s])'
    BY DEF PinSeen
  <1>1. s # r /\ req'[s] = req[s] /\ Loaded(s) /\ SeesPin(req[s])
    BY DEF Loaded, Open, TypeOK, PinSeen
  <1>2. req[s].msg \in Messages /\ Exists(req[s].msg)
    BY <1>1, LoadedRequest DEF LoadInv, Loaded
  <1>3. CASE SamePin(req[s].msg)
    BY <1>1, <1>2, <1>3, SamePinSeen
  <1>4. CASE req[s].msg = m /\ ~SamePin(m)
    <2>1. req[s].op \in {"pin", "unpin"} => <<m, "pin">> \in raced'
      BY <1>1, <1>4 DEF Loaded
    <2> QED BY <1>1, <1>4, <2>1 DEF SeesPin
  <1> QED
    BY <1>2, <1>3, <1>4

LEMMA ChangeAgrees ==
    ASSUME TypeOK, LoadInv, PinColumnsAgree, PinSeen,
           NEW r \in Requests, Change(r)
    PROVE  PinColumnsAgree' /\ PinSeen'
  <1>1. PICK m \in Messages : m = req[r].msg
    BY ChangeDoes, LoadedRequest
  <1>2. /\ Loaded(r) /\ Exists(m)
        /\ row'[m] = Flushed(req[r])
        /\ \A x \in Messages \ {m} : row'[x] = row[x]
        /\ \A x \in Messages : Exists(x)' <=> Exists(x)
    BY <1>1, ChangeDoes
  <1>3. /\ req[r] \in Request /\ req[r].seen \in Row /\ row[m] \in Row
        /\ req[r].user \in Users /\ channel
    BY <1>1, <1>2, LoadedRequest DEF TypeOK
  <1>4. req' = [req EXCEPT ![r] = Idle] /\ raced' = raced \cup Race(r)
    BY DEF Change
  <1>5. \A x \in Messages \ {m} : SamePin(x)
    BY <1>2, <1>4 DEF SamePin
  <1>6. CASE req[r].op \in {"pin", "unpin"}
    <2>1. ASSUME <<m, "pin">> \notin raced'
          PROVE  /\ row'[m].pinned <=> row'[m].by # NoUser
                 /\ row'[m].pinned <=> row'[m].at
      <3>1. /\ req[r].seen.pinned = row[m].pinned
            /\ req[r].seen.by = row[m].by /\ req[r].seen.at = row[m].at
        BY <1>1, <1>2, <1>4, <1>6, <2>1 DEF PinSeen, SeesPin
      <3>2. /\ row'[m].pinned = (req[r].op = "pin")
            /\ row'[m].by = IF req[r].op = "pin" THEN req[r].user ELSE NoUser
            /\ row'[m].at = (req[r].op = "pin")
        BY <1>1, <1>2, <1>3, <1>6, <3>1, FlushedPin
      <3> QED BY <1>3, <3>2, ChatAssumption
    <2>2. PinsKept(m)
      BY <1>2, <1>5, <2>1 DEF PinsKept, PinAgrees
    <2>3. \A s \in Requests \ {r} :
            Open(s) /\ req[s].msg = m /\ req[s].op \in {"pin", "unpin"}
              => <<m, "pin">> \in raced'
      BY <1>1, <1>4, <1>6, RaceIsRecorded DEF Columns
    <2> QED BY <1>3, <1>4, <1>5, <2>2, <2>3, KeptPinsAgree, OthersSee
  <1>7. CASE req[r].op \notin {"pin", "unpin"}
    <2>1. /\ row'[m].pinned = row[m].pinned
          /\ row'[m].by = row[m].by /\ row'[m].at = row[m].at
      BY <1>1, <1>2, <1>3, <1>7, FlushedColumns
    <2>2. SamePin(m)
      BY <1>4, <2>1 DEF SamePin
    <2>3. PinAgrees(m)'
      BY <1>2, <2>2, SamePinAgrees DEF PinColumnsAgree, PinAgrees
    <2>4. PinsKept(m)
      BY <1>2, <1>5, <2>3 DEF PinsKept
    <2> QED BY <1>3, <1>4, <1>5, <2>2, <2>4, KeptPinsAgree, OthersSee
  <1> QED
    BY <1>6, <1>7

LEMMA NewAgrees ==
    ASSUME NEW n \in Messages, row'[n].pinned = FALSE, row'[n].by = NoUser,
           row'[n].at = FALSE
    PROVE  PinAgrees(n)'
  BY DEF PinAgrees

LEMMA ReplyAgrees ==
    ASSUME TypeOK, LoadInv, PinColumnsAgree, PinSeen,
           NEW r \in Requests, NEW n \in Messages, Reply(r, n)
    PROVE  PinColumnsAgree' /\ PinSeen'
  <1>1. PICK m \in Messages : m = req[r].msg
    BY ReplyDoes, LoadedRequest
  <1>2. /\ Loaded(r) /\ req[r].op = "reply" /\ Exists(m) /\ ~Exists(n)
        /\ row'[n] = New(req[r].user, m)
        /\ row'[m] = Flushed(req[r])
        /\ \A x \in Messages \ {n, m} : row'[x] = row[x]
        /\ \A x \in Messages : Exists(x)' <=> (Exists(x) \/ x = n)
    BY <1>1, ReplyDoes
  <1>3. /\ req[r] \in Request /\ req[r].seen \in Row /\ row[m] \in Row
        /\ channel
    BY <1>1, <1>2, LoadedRequest DEF TypeOK
  <1>4. req' = [req EXCEPT ![r] = Idle] /\ raced' = raced \cup Race(r)
    BY DEF Reply
  <1>5. /\ row'[m].pinned = row[m].pinned
        /\ row'[m].by = row[m].by /\ row'[m].at = row[m].at
    BY <1>1, <1>2, <1>3, FlushedColumns
  <1>6. \A x \in Messages \ {n} : SamePin(x)
    BY <1>2, <1>4, <1>5 DEF SamePin
  <1>7. PinAgrees(n)'
    <2>1. /\ row'[n].pinned = FALSE /\ row'[n].by = NoUser
          /\ row'[n].at = FALSE
      BY <1>2 DEF New
    <2> QED BY <2>1, NewAgrees
  <1>8. PinsKept(n)
    BY <1>2, <1>6, <1>7 DEF PinsKept
  <1>9. PinColumnsAgree'
    BY <1>8, KeptPinsAgree
  <1>10. PinSeen'
    <2>1. \A x \in Messages \ {m} : Exists(x) => SamePin(x)
      BY <1>2, <1>6
    <2>2. SamePin(m)
      BY <1>2, <1>6
    <2> QED BY <1>3, <1>4, <2>1, <2>2, OthersSee
  <1> QED
    BY <1>9, <1>10

LEMMA PostAgrees ==
    ASSUME TypeOK, LoadInv, PinColumnsAgree, PinSeen,
           NEW u \in Users, NEW n \in Messages, Post(u, n)
    PROVE  PinColumnsAgree' /\ PinSeen'
  <1>1. /\ channel /\ ~Exists(n) /\ row'[n] = New(u, NoMessage)
        /\ \A x \in Messages \ {n} : row'[x] = row[x]
        /\ \A x \in Messages : Exists(x)' <=> (Exists(x) \/ x = n)
    BY PostDoes
  <1>2. req' = req /\ raced' = raced
    BY DEF Post
  <1>3. \A x \in Messages \ {n} : SamePin(x)
    BY <1>1, <1>2 DEF SamePin
  <1>4. PinAgrees(n)'
    <2>1. /\ row'[n].pinned = FALSE /\ row'[n].by = NoUser
          /\ row'[n].at = FALSE
      BY <1>1 DEF New
    <2> QED BY <2>1, NewAgrees
  <1>5. PinsKept(n)
    BY <1>1, <1>3, <1>4 DEF PinsKept
  <1>6. PinSeen'
    <2> SUFFICES ASSUME NEW s \in Requests, Loaded(s)'
                 PROVE  SeesPin(req[s])'
      BY DEF PinSeen
    <2>1. req'[s] = req[s] /\ Loaded(s)
      BY <1>2 DEF Loaded, Open
    <2>2. req[s].msg \in Messages /\ Exists(req[s].msg)
      BY <1>1, <2>1, LoadedRequest DEF LoadInv, Loaded
    <2> QED BY <1>1, <1>3, <2>1, <2>2, SamePinSeen DEF PinSeen
  <1> QED
    BY <1>5, <1>6, KeptPinsAgree

LEMMA DeleteAgrees ==
    ASSUME TypeOK, NEW u \in Users, DeleteChannel(u)
    PROVE  PinColumnsAgree' /\ PinSeen'
  <1>1. \A m \in Messages : row'[m] = Absent
    BY DEF DeleteChannel
  <1>2. PinColumnsAgree'
    BY <1>1 DEF PinColumnsAgree, Exists
  <1>3. \A s \in Requests : Loaded(s)' =>
          req'[s] = req[s] /\ req[s].msg \in Messages
    BY LoadedRequest DEF DeleteChannel, Loaded, Open
  <1>4. PinSeen'
    BY <1>1, <1>3 DEF PinSeen, SeesPin, Exists
  <1> QED
    BY <1>2, <1>4

\* Whether a message is pinned, by whom and when always agree, unless two
\* requests to pin or unpin it overlapped (pin_message and unpin_message
\* write only the columns they change).
THEOREM PinsAgree == Spec => []PinColumnsAgree
  <1>1. Init => TypeOK /\ LoadInv /\ PinColumnsAgree /\ PinSeen
    <2>1. Init => PinColumnsAgree /\ PinSeen
      BY DEF Init, PinColumnsAgree, PinSeen, Exists, Loaded, Open
    <2> QED BY <2>1, InitTyped
  <1>2. ASSUME TypeOK, LoadInv, PinColumnsAgree, PinSeen, [Next]_vars
        PROVE  PinColumnsAgree' /\ PinSeen'
    <2>1. CASE UNCHANGED vars
      <3>1. PinColumnsAgree'
        BY <1>2, <2>1 DEF vars, PinColumnsAgree, Exists
      <3>2. PinSeen'
        BY <1>2, <2>1 DEF vars, PinSeen, SeesPin, Exists, Loaded, Open
      <3> QED BY <3>1, <3>2
    <2>2. Steps \/ UNCHANGED vars
      BY <1>2, NextSteps
    <2> QED
      BY <1>2, <2>1, <2>2, ChecksAgree, ChangeAgrees, ReplyAgrees,
         PostAgrees, DeleteAgrees DEF Steps
  <1>3. TypeOK /\ LoadInv /\ PinColumnsAgree /\ PinSeen /\ [Next]_vars
          => (TypeOK /\ LoadInv /\ PinColumnsAgree /\ PinSeen)'
    BY <1>2, StepTyped
  <1> QED
    BY <1>1, <1>3, PTL DEF Spec
=============================================================================
