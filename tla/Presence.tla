------------------------------- MODULE Presence -------------------------------
(***************************************************************************)
(* The WebSockets of chat and notifications in one API process: who is     *)
(* registered, who is shown as online, and what a broadcast reaches.       *)
(*                                                                         *)
(* asyncio switches tasks at awaits only. A broadcast awaits every send    *)
(* while it walks a registry list, which connects append to and            *)
(* disconnects replace; a handler's other awaits are its receive and its   *)
(* database sessions. A step of a broadcast is the end of one send and     *)
(* whatever runs up to the next.                                           *)
(***************************************************************************)
EXTENDS Naturals, Sequences, FiniteSets, SequencesExt

CONSTANTS
    Users, Channels,
    Sockets,      \* WebSockets; one that nothing refers to any more stands
                  \* for the client's next
    Settable,     \* the statuses users set themselves ("dnd" is left out: like
                  \* "offline", it is what no ping changes)
    Requests,     \* slots for REST requests that broadcast
    UserOf,       \* the user whose token a socket carries
    ListOf,       \* a chat socket's channel; a notification socket's user
    Partners,     \* the members of a direct channel; {} for another channel
    MaxEvents     \* bound on connections, messages, requests and database
                  \* errors, all together

Statuses == {"online", "away", "offline"}
Keys == Channels \cup Users
Tasks == Sockets \cup Requests

ASSUME PresenceAssumption ==
    /\ Channels \cap Users = {} /\ Sockets \cap Requests = {}
    /\ UserOf \in [Sockets -> Users]
    /\ ListOf \in [Sockets -> Keys]
    /\ \A s \in Sockets : ListOf[s] \in Users => ListOf[s] = UserOf[s]
    /\ Partners \in [Channels -> SUBSET Users]
    /\ Settable \subseteq Statuses /\ MaxEvents \in Nat
    /\ IsFiniteSet(Users)

VARIABLES
    peer,      \* the client's end of each socket
    pc,        \* where each socket's handler waits
    refused,   \* sockets Starlette has marked as disconnected by a failed send
    listed,    \* the lists of ConnectionManager and NotificationManager
    opened,    \* the channels ConnectionManager has a list for, oldest first
    presence,  \* PresenceService._presence
    run,       \* the broadcast each task is in
    chosen,    \* users whose status was last set by a request
    events

registry == <<listed, opened>>
status == <<presence, chosen>>
vars == <<peer, pc, refused, registry, status, run, events>>

IsChat(s) == ListOf[s] \in Channels
Listed == UNION {ToSet(listed[k]) : k \in Keys}
\* _user_sockets[u]: the chat sockets of u that are in some channel's list.
ChatOf(u)  == {s \in Listed : IsChat(s) /\ UserOf[s] = u}
NotifOf(u) == ToSet(listed[u])

\* A broadcast: the lists it has yet to walk, what is left of each, those it
\* would still see an append to, the sockets that failed, and those that were
\* registered when it started and have not been sent to.
Idle == [lists |-> <<>>, todo |-> [k \in Keys |-> <<>>],
         live |-> {}, dead |-> {}, due |-> {}]
Running(t) == run[t].lists # <<>>

TypeOK ==
    /\ peer \in [Sockets -> {"new", "open", "closed"}]
    /\ pc \in [Sockets -> {"none", "announce", "roster", "receive", "busy",
                           "reply", "tell", "push", "leaving", "bye",
                           "gone", "broken"}]
    /\ refused \subseteq Sockets
    /\ listed \in [Keys -> Seq(Sockets)]
    /\ \A s \in Sockets, k \in Keys : s \in ToSet(listed[k]) => k = ListOf[s]
    /\ \A k \in Keys : IsInjective(listed[k])
    /\ opened \in Seq(Channels) /\ IsInjective(opened)
    /\ presence \in [Users -> Statuses]
    /\ \A t \in Tasks :
         /\ ToSet(run[t].lists) \subseteq Keys
         /\ run[t].dead \cup run[t].due \subseteq Sockets
         /\ Running(t) => run[t].todo[Head(run[t].lists)] # <<>>
    /\ events \in 0..MaxEvents
    /\ chosen \subseteq Users

Init ==
    /\ peer = [s \in Sockets |-> "new"] /\ pc = [s \in Sockets |-> "none"]
    /\ refused = {} /\ listed = [k \in Keys |-> <<>>] /\ opened = <<>>
    /\ presence = [u \in Users |-> "offline"]
    /\ run = [t \in Tasks |-> Idle]
    /\ events = 0
    /\ chosen = {}

-----------------------------------------------------------------------------
(* The lists, and the broadcasts that walk them. *)

\* A list is left once its last socket has been sent to.
NextList(b) ==
    LET left == {i \in DOMAIN b.lists : b.todo[b.lists[i]] # <<>>} IN
    IF left = {}
    THEN [Idle EXCEPT !.dead = b.dead, !.due = b.due]
    ELSE [b EXCEPT !.lists =
            SubSeq(@, CHOOSE i \in left : \A j \in left : i <= j, Len(@))]

\* Start walking the lists ks of the registry l.
Broadcast(ks, l) ==
    NextList([lists |-> ks,
              todo |-> [k \in Keys |->
                          IF k \in ToSet(ks) THEN l[k] ELSE <<>>],
              live |-> ToSet(ks), dead |-> {},
              due |-> UNION {ToSet(l[k]) : k \in ToSet(ks)}])

\* Mutant: a chat socket is registered under its user.
AppendedToUser(s) == [listed EXCEPT ![UserOf[s]] = Append(@, s)]

\* connect() appends to the list in place: a broadcast that has still to walk
\* that very list, or is in it, will reach the new socket too.
Appended(s) == [listed EXCEPT ![ListOf[s]] = Append(@, s)]
Joined(s) ==
    [t \in Tasks |->
       IF ListOf[s] \in run[t].live \cap ToSet(run[t].lists)
       THEN [run[t] EXCEPT !.todo[ListOf[s]] = Append(@, s)]
       ELSE run[t]]

\* What is left of the list q, in its order: the n-th socket left is the one
\* that n - 1 of those left come before.
Rest(q, gone) ==
    LET left == {i \in DOMAIN q : q[i] \notin gone}
        place(n) == CHOOSE i \in left : Cardinality({j \in left : j < i}) = n - 1
    IN [n \in 1..Cardinality(left) |-> q[place(n)]]

\* disconnect() puts a new list in the old one's place, whether or not the
\* socket was in it: broadcasts that hold the old one walk on undisturbed.
Without(gone) == [k \in Keys |-> Rest(listed[k], gone)]

\* Mutant: disconnect() removes from the list in place, so that the iterator
\* of a broadcast that is past the socket misses the next one.
ReplacedInPlace(r, gone) ==
    LET shrunk(t) == r[t].live \cap {ListOf[s] : s \in gone} IN
    [t \in Tasks |-> [r[t] EXCEPT !.todo =
       [k \in Keys |-> IF k \in shrunk(t) /\ Len(@[k]) > 1
                       THEN <<@[k][1]>> \o SubSeq(@[k], 3, Len(@[k]))
                       ELSE @[k]]]]

Replaced(r, gone) ==
    [t \in Tasks |-> [r[t] EXCEPT !.live = @ \ {ListOf[s] : s \in gone}]]

\* ws.send_text raises once the server has noticed that the client is gone.
CanSend(s) == peer[s] = "open"

Sent(b, ok) ==
    LET s == Head(b.todo[Head(b.lists)]) IN
    NextList([b EXCEPT !.todo[Head(b.lists)] = Tail(@),
                       !.dead = IF ok THEN @ ELSE @ \cup {s},
                       !.due = @ \ {s}])

\* After the last send the sockets that failed are disconnected. What a
\* message has reached is remembered until its handler is done with it.
Deliver(t) ==
    /\ Running(t)
    /\ LET s == Head(run[t].todo[Head(run[t].lists)])
           ok == CanSend(s)
           b == Sent(run[t], ok)
           kept == b.lists # <<>> \/ (t \in Sockets /\ pc[t] = "tell")
           r == [run EXCEPT ![t] = IF kept THEN b ELSE Idle]
       IN
       /\ refused' = IF ok THEN refused ELSE refused \cup {s}
       /\ IF b.lists = <<>>
          THEN listed' = Without(b.dead) /\ run' = Replaced(r, b.dead)
          ELSE listed' = listed /\ run' = r
    /\ UNCHANGED <<peer, pc, opened, status, events>>

\* A status change and the start of its announcement, r and l being the
\* running broadcasts and the lists it leaves.
Announce(t, u, st, r, l) ==
    /\ presence' = [presence EXCEPT ![u] = st]
    /\ run' = [r EXCEPT ![t] = Broadcast(opened', l)]

-----------------------------------------------------------------------------
(* The handlers: websocket_endpoint of chat.py, notifications_ws. *)

\* What the clients and the database may still do.
Event == events < MaxEvents /\ events' = events + 1

Goto(s, to) == pc' = [pc EXCEPT ![s] = to]
\* Handler s is at p and its broadcast, if that is what it waited for, is over.
At(s, p) == pc[s] = p /\ ~Running(s)

\* No handler, no list and no broadcast has s.
Unused(s) ==
    /\ pc[s] \in {"none", "gone", "broken"} /\ ~Running(s) /\ s \notin Listed
    /\ \A t \in Tasks :
         /\ s \notin run[t].dead \cup run[t].due
         /\ \A k \in Keys : s \notin ToSet(run[t].todo[k])

\* connect(), set_online() and the start of broadcast_all.
Connect(s) ==
    /\ Unused(s) /\ Event
    /\ peer' = [peer EXCEPT ![s] = "open"]
    /\ listed' = Appended(s)
    /\ opened' = IF IsChat(s) /\ ListOf[s] \notin ToSet(opened)
                 THEN Append(opened, ListOf[s]) ELSE opened
    /\ Announce(s, UserOf[s], "online", Joined(s), Appended(s))
    /\ chosen' = chosen \ {UserOf[s]}
    /\ Goto(s, IF IsChat(s) THEN "announce" ELSE "roster")
    /\ refused' = refused \ {s}

\* The server notices that the client has closed, or that its network has.
PeerCloses(s) ==
    /\ peer[s] = "open"
    /\ peer' = [peer EXCEPT ![s] = "closed"]
    /\ UNCHANGED <<pc, refused, registry, status, run, events>>

\* A broadcast to the channel of s, in which nothing but its reach matters.
ToChannel(s) == run' = [run EXCEPT ![s] = Broadcast(<<ListOf[s]>>, listed)]

Roster(s) ==
    /\ At(s, "announce") /\ Goto(s, "roster") /\ ToChannel(s)
    /\ UNCHANGED <<peer, refused, registry, status, events>>

\* A handler that ends with another exception than WebSocketDisconnect does
\* not run the cleanup; the server closes the socket under it.
Break(s) == Goto(s, "broken") /\ peer' = [peer EXCEPT ![s] = "closed"]

\* receive raises RuntimeError if Starlette has marked the socket.
Listen(s) ==
    /\ At(s, "roster") \/ At(s, "push")
    /\ IF s \in refused THEN Break(s) ELSE Goto(s, "receive") /\ peer' = peer
    /\ UNCHANGED <<refused, registry, status, run, events>>

\* record_ping: an "away" user is online again, and nobody is told.
Ping(s) ==
    /\ At(s, "receive") /\ presence[UserOf[s]] = "away"
    /\ presence' = [presence EXCEPT ![UserOf[s]] = "online"]
    /\ UNCHANGED <<peer, pc, refused, registry, chosen, run, events>>

\* A ping that the client sent before it closed is answered in vain. The chat
\* handler's pong raises WebSocketDisconnect, which is Leave, but RuntimeError
\* if Starlette has marked the socket; the notification handler swallows
\* either, and fails at its next receive.
PongFails(s) ==
    /\ At(s, "receive") /\ peer[s] = "closed" /\ (IsChat(s) => s \in refused)
    /\ refused' = refused \cup {s} /\ Break(s)
    /\ UNCHANGED <<registry, status, run, events>>

\* A message arrives, to be stored.
Receive(s) ==
    /\ At(s, "receive") /\ IsChat(s)
    /\ Event
    /\ Goto(s, "busy")
    /\ UNCHANGED <<peer, refused, registry, status, run>>

\* A reply is preceded by a thread_reply.
Stored(s) ==
    /\ At(s, "busy") /\ ToChannel(s)
    /\ Goto(s, "reply") \/ Goto(s, "tell")
    /\ UNCHANGED <<peer, refused, registry, status, events>>

Tell(s) ==
    /\ At(s, "reply") /\ Goto(s, "tell") /\ ToChannel(s)
    /\ UNCHANGED <<peer, refused, registry, status, events>>

DatabaseFails(s) ==
    /\ At(s, "busy") \/ At(s, "tell") \/ At(s, "push")
    /\ Event
    /\ Break(s) /\ run' = [run EXCEPT ![s] = Idle]
    /\ UNCHANGED <<refused, registry, status>>

\* The partners that get a notification instead of the message.
\* Mutant: whoever is connected to some channel.
OnlineAnywhere(ch) == {UserOf[s] : s \in Listed}

OnlineIds(ch) == {UserOf[s] : s \in ToSet(listed[ch])}
Away(s) == (Partners[ListOf[s]] \ {UserOf[s]}) \ OnlineIds(ListOf[s])

\* After the mentions: a notification for each partner that is not in the
\* channel, pushed to the notification sockets it has.
Notify(s) ==
    /\ At(s, "tell") /\ Goto(s, "push")
    /\ run' = [run EXCEPT ![s] =
                 Broadcast(SetToSeq({u \in Away(s) : NotifOf(u) # {}}), listed)]
    /\ UNCHANGED <<peer, refused, registry, status, events>>

\* WebSocketDisconnect: disconnect(), then offline if no socket of the same
\* kind remains.
\* Mutant: a check before the socket is disconnected.
RemainingWithSelf(s) ==
    IF IsChat(s) THEN ChatOf(UserOf[s]) ELSE NotifOf(UserOf[s])

Remaining(s) ==
    (IF IsChat(s) THEN ChatOf(UserOf[s]) ELSE NotifOf(UserOf[s])) \ {s}
Leave(s) ==
    /\ At(s, "receive") /\ peer[s] = "closed"
    /\ listed' = Without({s})
    /\ opened' = opened
    /\ LET u == UserOf[s]
           r == Replaced(run, {s})
       IN
       IF Remaining(s) = {}
       THEN Announce(s, u, "offline", r, listed') /\ chosen' = chosen \ {u}
       ELSE run' = r /\ UNCHANGED status
    /\ Goto(s, "leaving")
    /\ UNCHANGED <<peer, refused, events>>

Bye(s) ==
    /\ At(s, "leaving")
    /\ IF IsChat(s) THEN ToChannel(s) /\ Goto(s, "bye")
                    ELSE run' = run /\ Goto(s, "gone")
    /\ UNCHANGED <<peer, refused, registry, status, events>>

Gone(s) ==
    /\ At(s, "bye") /\ Goto(s, "gone")
    /\ UNCHANGED <<peer, refused, registry, status, run, events>>

-----------------------------------------------------------------------------
(* REST requests. *)

\* PATCH /auth/status and /notifications/status.
SetStatus(q, u, st) ==
    /\ ~Running(q) /\ Event
    /\ opened' = opened
    /\ Announce(q, u, st, run, listed)
    /\ chosen' = chosen \cup {u}
    /\ UNCHANGED <<peer, pc, refused, listed>>

\* send, edit, delete, react, pin: each broadcasts to the channel.
Post(q, ch) ==
    /\ ~Running(q) /\ Event
    /\ run' = [run EXCEPT ![q] = Broadcast(<<ch>>, listed)]
    /\ UNCHANGED <<peer, pc, refused, registry, status>>

-----------------------------------------------------------------------------

Handler(s) ==
    \/ Roster(s) \/ Listen(s) \/ Stored(s) \/ Tell(s) \/ Notify(s)
    \/ Leave(s) \/ Bye(s) \/ Gone(s)

Next ==
    \/ \E t \in Tasks : Deliver(t)
    \/ \E s \in Sockets :
         \/ Handler(s)
         \/ Connect(s) \/ PeerCloses(s) \/ Receive(s)
         \/ Ping(s) \/ PongFails(s) \/ DatabaseFails(s)
    \/ \E q \in Requests :
         \/ \E u \in Users, st \in Settable : SetStatus(q, u, st)
         \/ \E ch \in Channels : Post(q, ch)

\* The event loop does not idle while a send has ended or a handler is ready.
\* Which task it resumes is left open: what the clients cause is finite here.
Fairness ==
    WF_vars((\E t \in Tasks : Deliver(t)) \/ (\E s \in Sockets : Handler(s)))

Spec == Init /\ [][Next]_vars /\ Fairness

-----------------------------------------------------------------------------
(* Properties *)

\* While a broadcast runs, connects and disconnects move the list under it:
\* still, every socket that was registered when it started and is so yet has
\* been sent to or will be, and none will be sent to twice.
NobodySkippedOrRepeated ==
    \A t \in Tasks : Running(t) =>
      /\ run[t].due \cap Listed
           \subseteq UNION {ToSet(run[t].todo[k]) : k \in Keys}
      /\ \A k \in Keys : IsInjective(run[t].todo[k])

\* A user all of whose handlers have run their cleanup is offline, in
\* whatever order they did and whoever had removed their sockets before.
GoneIsOffline ==
    \A u \in Users \ chosen :
      (\A s \in Sockets : UserOf[s] = u => pc[s] \in {"none", "gone"})
        => presence[u] = "offline"

\* A partner that gets no notification of a direct message has a socket in
\* the channel, which the message was sent to unless it connected since.
PartnerIsTold ==
    [][\A s \in Sockets : Notify(s) =>
         \A u \in (Partners[ListOf[s]] \ {UserOf[s]}) \ Away(s) :
           \E o \in ToSet(listed[ListOf[s]]) :
             UserOf[o] = u /\ o \notin run[s].due \cup run[s].dead]_vars

\* A user whose clients are all closed does not stay online, unless one of its
\* handlers broke or the user chose a status.
ClosedGoesOffline ==
    \A u \in Users :
      LET own == {s \in Sockets : UserOf[s] = u} IN
      []<>(\/ \E s \in own : peer[s] = "open" \/ pc[s] = "broken"
           \/ presence[u] = "offline" \/ u \in chosen)
=============================================================================
