---------------------------- MODULE AccountsProofs ----------------------------
(***************************************************************************)
(* Proofs about Accounts, for any number of sessions, of requests at once  *)
(* and of backup codes: types, revoked sessions, the second factor, backup *)
(* codes, and what the user was last told.                                 *)
(*                                                                         *)
(* The invariants say what a request that is between its load and its      *)
(* commit may not know: for each column, that the row has changed since    *)
(* only if an operation on that column has overlapped it.                  *)
(***************************************************************************)
EXTENDS Accounts, FiniteSetTheorems, TLAPS

-----------------------------------------------------------------------------
(* What a commit writes, column by column. *)

LEMMA ColumnOneOf ==
    ASSUME NEW now, NEW seen, NEW wanted
    PROVE  /\ Column(now, seen, wanted) \in {now, wanted}
           /\ wanted # seen => Column(now, seen, wanted) = wanted
           /\ Column(now, seen, seen) = now
  BY DEF Column

LEMMA OpsDiffer ==
    ASSUME TypeOK, NEW r \in Requests
    PROVE  /\ req[r].op \in UserOps => req[r] \in UserRequest
           /\ req[r].op \in OnSession => req[r] \in SessionRequest
           /\ req[r].op = "mail" => req[r] \in MailRequest
           /\ Idle.op \notin UserOps \cup OnSession \cup {"mail"}
           /\ OnUser \subseteq UserOps /\ "mail" \notin UserOps
  <1>1. req[r] \in UserRequest \cup SessionRequest \cup MailRequest \cup {Idle}
    BY DEF TypeOK
  <1>2. \A q \in UserRequest : q.op \in UserOps
    BY DEF UserRequest
  <1>3. \A q \in SessionRequest : q.op \in OnSession
    BY DEF SessionRequest
  <1>4. Idle.op = "none" /\ \A q \in MailRequest : q.op = "mail"
    BY DEF Idle, MailRequest
  <1>5. /\ UserOps \cap OnSession = {}
        /\ {"none", "mail"} \cap (UserOps \cup OnSession) = {}
    BY DEF UserOps, OnSession, OnUser, Logins
  <1> QED
    BY <1>1, <1>2, <1>3, <1>4, <1>5 DEF UserOps

\* Requests whose load the row may have left behind.
Working(r) == req[r].op \in UserOps

LEMMA WorkingType ==
    ASSUME TypeOK, NEW r \in Requests, Working(r)
    PROVE  /\ req[r].op \in UserOps /\ req[r].no \in Numbers
           /\ req[r].seen \in User /\ req[r].code \in Codes \cup {None}
  <1>1. req[r] \in UserRequest
    BY OpsDiffer DEF Working
  <1> QED
    BY <1>1 DEF UserRequest

\* Requests whose answer waits for the mail server.
Mailing(r) == req[r].op = "mail"

LEMMA CommitRequests ==
    ASSUME TypeOK, NEW r \in Requests, NEW s \in Sessions, Commit(r, s)
    PROVE  /\ Working(r) /\ ~Working(r)'
           /\ IF req[r].op = "forgot"
                THEN req'[r] \in MailRequest /\ req'[r].no = req[r].no
                ELSE req'[r] = Idle
           /\ \A t \in Requests : t # r => req'[t] = req[t]
           /\ raced \subseteq raced'
           /\ \A t \in Requests \ {r} :
                {req[r].op, req[t].op} \subseteq OnUser
                  => {req[r].op, req[t].op} \in raced'
           /\ \A t \in Requests \ {r} :
                Mailing(t) /\ req[r].op \in OnUser
                  => {req[r].op, "forgot"} \in raced'
           /\ served' = served /\ pending' = pending /\ mailed' = mailed
  <1> DEFINE left == IF req[r].op = "forgot"
                       THEN [op |-> "mail", no |-> req[r].no] ELSE Idle
  <1>1. /\ req[r].op \in UserOps /\ req' = [req EXCEPT ![r] = left]
        /\ raced' = raced \cup Overlaps(r)
        /\ served' = served /\ pending' = pending /\ mailed' = mailed
    BY DEF Commit
  <1>2. IF req[r].op = "forgot"
          THEN left \in MailRequest /\ left.no = req[r].no /\ left.op = "mail"
          ELSE left = Idle
    BY <1>1, OpsDiffer DEF UserRequest, MailRequest
  <1> HIDE DEF left
  <1>3. req'[r] = left /\ \A t \in Requests : t # r => req'[t] = req[t]
    BY <1>1 DEF TypeOK
  <1>4. Working(r) /\ ~Working(r)'
    BY <1>1, <1>2, <1>3, OpsDiffer DEF Working
  <1>5. "mail" \notin OnUser /\ "forgot" \in OnUser
    BY DEF OnUser
  <1>6. ASSUME NEW t \in Requests \ {r},
               {req[r].op, Doing(req[t])} \subseteq OnUser
        PROVE  {req[r].op, Doing(req[t])} \in raced'
    BY <1>1, <1>6 DEF Overlaps
  <1>7. \A t \in Requests \ {r} :
          {req[r].op, req[t].op} \subseteq OnUser
            => {req[r].op, req[t].op} \in raced'
    BY <1>5, <1>6 DEF Doing
  <1>8. \A t \in Requests \ {r} :
          Mailing(t) /\ req[r].op \in OnUser
            => {req[r].op, "forgot"} \in raced'
    BY <1>5, <1>6 DEF Doing, Mailing
  <1> QED
    BY <1>1, <1>2, <1>3, <1>4, <1>7, <1>8

LEMMA ChangedSecret ==
    ASSUME NEW u \in User, NEW q, q.op \in UserOps
    PROVE  Changed(u, q).secret = CASE q.op = "setup" -> q.no
                                    [] q.op = "disable" -> None
                                    [] OTHER -> u.secret
  BY DEF User, UserOps, OnUser, Logins, Changed, SetUp, VerifySetUp, Disable,
         UseCode, ForgotPassword, ResetPassword

LEMMA ChangedReset ==
    ASSUME NEW u \in User, NEW q, q.op \in UserOps
    PROVE  Changed(u, q).reset = CASE q.op = "forgot" -> q.no
                                   [] q.op = "reset" -> None
                                   [] OTHER -> u.reset
  BY DEF User, UserOps, OnUser, Logins, Changed, SetUp, VerifySetUp, Disable,
         UseCode, ForgotPassword, ResetPassword

LEMMA ChangedCodes ==
    ASSUME NEW u \in User, NEW q, q.op \in UserOps
    PROVE  /\ q.op = "verify" => Changed(u, q).codes = {q.no} \X Slots
           /\ q.op = "disable" => Changed(u, q).codes = None
           /\ q.op = "backup" => Changed(u, q).codes = CodesOf(u) \ {q.code}
           /\ q.op \notin {"verify", "disable", "backup"} =>
                Changed(u, q).codes = u.codes
  BY DEF User, UserOps, OnUser, Logins, Changed, SetUp, VerifySetUp, Disable,
         UseCode, ForgotPassword, ResetPassword

LEMMA ChangedEnabled ==
    ASSUME NEW u \in User, NEW q, q.op \in UserOps
    PROVE  /\ q.op = "verify" => Changed(u, q).enabled = TRUE
           /\ q.op = "disable" => Changed(u, q).enabled = FALSE
           /\ q.op \notin {"verify", "disable"} =>
                Changed(u, q).enabled = u.enabled
  BY DEF User, UserOps, OnUser, Logins, Changed, SetUp, VerifySetUp, Disable,
         UseCode, ForgotPassword, ResetPassword

LEMMA ChangedType ==
    ASSUME NEW u \in User, NEW q \in UserRequest
    PROVE  Changed(u, q) \in User
  <1>1. q.op \in UserOps /\ q.no \in Numbers
    BY DEF UserRequest
  <1>2. \A n \in Numbers : {n} \X Slots \in SUBSET Codes
    BY DEF Codes
  <1>3. CodesOf(u) \ {q.code} \in SUBSET Codes
    BY DEF CodesOf, User
  <1>4. /\ SetUp(u, q) \in User /\ VerifySetUp(u, q) \in User
        /\ Disable(u) \in User /\ UseCode(u, q) \in User
        /\ ForgotPassword(u, q) \in User /\ ResetPassword(u) \in User
    BY <1>1, <1>2, <1>3 DEF User, SetUp, VerifySetUp, Disable, UseCode,
                            ForgotPassword, ResetPassword
  <1> QED
    BY <1>1, <1>4 DEF Changed, UserOps, OnUser, Logins

LEMMA FlushedType ==
    ASSUME user \in User, NEW q \in UserRequest
    PROVE  Flushed(q) \in User
  <1>1. q.seen \in User
    BY DEF UserRequest
  <1>2. Changed(q.seen, q) \in User
    BY <1>1, ChangedType
  <1>3. PICK w \in User : w = Changed(q.seen, q)
    BY <1>2
  <1>4. /\ Column(user.secret, q.seen.secret, w.secret) \in Numbers \cup {None}
        /\ Column(user.enabled, q.seen.enabled, w.enabled) \in BOOLEAN
        /\ Column(user.codes, q.seen.codes, w.codes)
             \in (SUBSET Codes) \cup {None}
        /\ Column(user.reset, q.seen.reset, w.reset) \in Numbers \cup {None}
    BY <1>3, ColumnOneOf DEF User
  <1> QED
    BY <1>3, <1>4 DEF Flushed, User

-----------------------------------------------------------------------------
(* Types *)

\* A list of backup codes is what is left of the codes one request made.
OfOne(u) == \E n \in Numbers : CodesOf(u) \subseteq {n} \X Slots

OneList == /\ Numbers # {} => OfOne(user)
           /\ \A r \in Requests : Working(r) => OfOne(req[r].seen)

\* The code that completes a login is of the list that was loaded.
CodeInv == \A r \in Requests : req[r].op = "backup" =>
             req[r].code \in CodesOf(req[r].seen)

TypeInv == TypeOK /\ OneList /\ CodeInv

LEMMA OfOneIsOne ==
    ASSUME NEW u, Numbers # {} => OfOne(u), CodesOf(u) \subseteq Codes
    PROVE  Cardinality({c[1] : c \in CodesOf(u)}) <= 1
  <1>1. CASE Numbers = {}
    <2>1. {c[1] : c \in CodesOf(u)} = {}
      BY <1>1 DEF Codes
    <2> QED BY <2>1, FS_EmptySet
  <1>2. CASE Numbers # {}
    <2>1. PICK n \in Numbers : CodesOf(u) \subseteq {n} \X Slots
      BY <1>2 DEF OfOne
    <2>2. {c[1] : c \in CodesOf(u)} \subseteq {n}
      BY <2>1
    <2>3. IsFiniteSet({n}) /\ Cardinality({n}) = 1
      BY FS_Singleton
    <2>4. /\ Cardinality({c[1] : c \in CodesOf(u)}) <= Cardinality({n})
      BY <2>2, <2>3, FS_Subset
    <2> QED BY <2>3, <2>4
  <1> QED BY <1>1, <1>2

LEMMA PairSize ==
    ASSUME NEW a, NEW b
    PROVE  Cardinality({a, b}) \in 1..2
  <1>1. IsFiniteSet({a}) /\ Cardinality({a}) = 1
    BY FS_Singleton
  <1>2. CASE a = b
    BY <1>1, <1>2
  <1>3. CASE a # b
    <2>1. {a, b} = {a} \cup {b}
      OBVIOUS
    <2>2. Cardinality({a} \cup {b}) = Cardinality({a}) + 1
      BY <1>1, <1>3, FS_AddElement
    <2> QED BY <1>1, <2>1, <2>2
  <1> QED BY <1>2, <1>3

LEMMA InitType == Init => TypeInv
  <1> SUFFICES ASSUME Init PROVE TypeInv
    OBVIOUS
  <1>1. user \in User /\ told \in User /\ CodesOf(user) = {}
    BY DEF Init, User, CodesOf
  <1>2. Idle.op \notin UserOps
    BY DEF Idle, UserOps, OnUser, Logins
  <1>3. OneList
    BY <1>1, <1>2 DEF Init, OneList, OfOne, Working
  <1>6. CodeInv
    BY <1>2 DEF Init, CodeInv, UserOps, OnUser
  <1>4. Cardinality({c[1] : c \in CodesOf(user)}) <= 1
    BY <1>1, <1>3, OfOneIsOne DEF OneList
  <1>5. served \in 0..MaxServed /\ mailed \subseteq Numbers
    BY AccountsAssumption DEF Init
  <1> QED
    BY <1>1, <1>3, <1>4, <1>5, <1>6 DEF Init, TypeInv, TypeOK

\* A request enters with what it loads, on a row that stays as it is.
LEMMA LoadTyped ==
    ASSUME TypeInv, NEW r \in Requests, NEW q, req' = [req EXCEPT ![r] = q],
           \/ q \in SessionRequest
           \/ q \in UserRequest /\ q.seen = user,
           q.op = "backup" => q.code \in CodesOf(user),
           UNCHANGED <<user, told, session, pending, mailed, spent, raced>>,
           served' \in 0..MaxServed, Numbers # {}
    PROVE  TypeInv'
  <1>1. req' \in [Requests ->
                    UserRequest \cup SessionRequest \cup MailRequest \cup {Idle}]
    BY DEF TypeInv, TypeOK
  <1>2. TypeOK'
    BY <1>1 DEF TypeInv, TypeOK, CodesOf
  <1>3. req'[r] = q /\ \A t \in Requests : t # r => req'[t] = req[t]
    BY DEF TypeInv, TypeOK
  <1>4. Working(r)' => OfOne(req'[r].seen)
    <2>1. q \in SessionRequest => q.op \notin UserOps
      BY DEF SessionRequest, OnSession, UserOps, OnUser, Logins
    <2> QED BY <1>3, <2>1 DEF Working, TypeInv, OneList
  <1>5. \A t \in Requests : Working(t)' => OfOne(req'[t].seen)
    BY <1>3, <1>4 DEF Working, TypeInv, OneList
  <1>6. OfOne(user)'
    BY DEF TypeInv, OneList, OfOne, CodesOf
  <1>7. OneList'
    BY <1>5, <1>6 DEF OneList, OfOne, CodesOf
  <1>8. CodeInv'
    <2>1. q \in SessionRequest => q.op # "backup"
      BY DEF SessionRequest, OnSession
    <2> QED BY <1>3, <2>1 DEF CodeInv, TypeInv, CodesOf
  <1> QED
    BY <1>2, <1>7, <1>8 DEF TypeInv

LEMMA CommitTyped ==
    ASSUME TypeInv, NEW r \in Requests, NEW s \in Sessions, Commit(r, s)
    PROVE  TypeInv'
  <1>1. PICK q \in UserRequest : q = req[r]
    BY OpsDiffer DEF Commit, TypeInv
  <1>2. q.op \in UserOps /\ q.no \in Numbers /\ q.seen \in User
    BY <1>1 DEF UserRequest
  <1>3. user' \in User
    BY <1>1, FlushedType DEF Commit, TypeInv, TypeOK
  <1>4. told' \in User
    BY <1>1, ChangedType DEF Commit, Answered, TypeInv, TypeOK
  <1>5. session' \in [Sessions -> {"none", "active", "revoked"}]
    BY DEF Commit, NewSession, TypeInv, TypeOK
  <1>6. req' \in [Requests ->
                    UserRequest \cup SessionRequest \cup MailRequest \cup {Idle}]
    <2>1. req'[r] \in MailRequest \cup {Idle}
      BY CommitRequests DEF TypeInv
    <2>2. \E left : req' = [req EXCEPT ![r] = left]
      BY DEF Commit
    <2> QED BY <2>1, <2>2 DEF TypeInv, TypeOK
  <1>7. spent' \in [once : SUBSET Codes, again : SUBSET Codes]
    <2>1. CASE q.op # "backup"
      BY <1>1, <2>1 DEF Commit, TypeInv, TypeOK
    <2>2. CASE q.op = "backup"
      <3>1. spent' = [once |-> spent.once \cup {q.code},
                      again |-> spent.again \cup (spent.once \cap {q.code})]
        BY <1>1, <2>2 DEF Commit
      <3>2. q.code \in Codes
        BY <1>1, <1>2, <2>2 DEF TypeInv, CodeInv, CodesOf, User
      <3> QED BY <3>1, <3>2 DEF TypeInv, TypeOK
    <2> QED BY <2>1, <2>2
  <1>8. raced' \subseteq {o \in SUBSET OnUser : Cardinality(o) \in 1..2}
    <2>1. ASSUME NEW o \in Overlaps(r)
          PROVE  o \in SUBSET OnUser /\ Cardinality(o) \in 1..2
      <3>1. PICK t \in Requests : /\ o = {req[r].op, Doing(req[t])}
                                 /\ {req[r].op, Doing(req[t])} \subseteq OnUser
        BY <2>1 DEF Overlaps
      <3> QED BY <3>1, PairSize
    <2>2. raced' = raced \cup Overlaps(r)
      BY DEF Commit
    <2> QED BY <2>1, <2>2 DEF TypeInv, TypeOK
  <1>9. OneList'
    <2>1. OfOne(q.seen) /\ OfOne(user)
      BY <1>1, <1>2 DEF TypeInv, OneList, Working
    <2>2. user'.codes \in {user.codes, Changed(q.seen, q).codes}
      BY <1>1, ColumnOneOf DEF Commit, Flushed
    <2>3. OfOne(user)'
      <3>1. CASE user'.codes = user.codes
        BY <2>1, <3>1 DEF OfOne, CodesOf
      <3>2. CASE user'.codes = Changed(q.seen, q).codes
        <4>1. \/ user'.codes = {q.no} \X Slots
              \/ user'.codes = None
              \/ user'.codes = CodesOf(q.seen) \ {q.code}
              \/ user'.codes = q.seen.codes
          BY <1>2, <3>2, ChangedCodes
        <4>2. \/ CodesOf(user') \subseteq {q.no} \X Slots
              \/ CodesOf(user') \subseteq CodesOf(q.seen)
          BY <4>1 DEF CodesOf
        <4> QED BY <1>2, <2>1, <4>2 DEF OfOne
      <3> QED BY <2>2, <3>1, <3>2
    <2>4. ASSUME NEW t \in Requests, Working(t)'
          PROVE  OfOne(req'[t].seen)
      BY <2>4, CommitRequests DEF Working, TypeInv, OneList
    <2> QED BY <2>3, <2>4 DEF OneList
  <1>10. CodeInv'
    <2>1. Idle.op # "backup" /\ \A m \in MailRequest : m.op # "backup"
      BY DEF Idle, MailRequest
    <2> QED BY <2>1, CommitRequests DEF CodeInv, TypeInv
  <1>11. Cardinality({c[1] : c \in CodesOf(user')}) <= 1
    <2>1. CodesOf(user') \subseteq Codes
      BY <1>3 DEF CodesOf, User
    <2> QED BY <1>9, <2>1, OfOneIsOne DEF OneList
  <1>12. /\ pending' \in BOOLEAN /\ served' \in 0..MaxServed
         /\ mailed' \subseteq Numbers
    BY DEF Commit, TypeInv, TypeOK
  <1> QED
    BY <1>3, <1>4, <1>5, <1>6, <1>7, <1>8, <1>9, <1>10, <1>11, <1>12
    DEF TypeInv, TypeOK

-----------------------------------------------------------------------------
(* The steps, as the invariants see them *)

\* Request r enters with the row it has loaded and checked.
Enters(r) ==
    /\ Working(r)' /\ req'[r] \in UserRequest
    /\ served' = served + 1 /\ req'[r].no = served' /\ req'[r].seen = user
    /\ req'[r].op = "verify" => user.secret # None
    /\ req'[r].op = "disable" => user.enabled = TRUE
    /\ req'[r].op = "reset" => user.reset \in mailed
    /\ req'[r].op = "backup" => req'[r].code \in CodesOf(user)

\* At most one request enters, or sends its mail; none commits a change of the
\* row.
Quiet ==
    /\ UNCHANGED <<user, spent, raced>>
    /\ told'.secret = told.secret /\ told'.codes = told.codes
    /\ \/ mailed' = mailed /\ told'.reset = told.reset
       \/ /\ served' = served
          /\ \E r \in Requests : /\ Mailing(r) /\ told'.reset = req[r].no
                               /\ mailed' = mailed \cup {req[r].no}
    /\ served' \in {served, served + 1}
    /\ \A r \in Requests :
         /\ Mailing(r)' => req'[r] = req[r]
         /\ \/ ~Working(r)' \/ req'[r] = req[r]
            \/ /\ Enters(r)
               /\ \A t \in Requests \ {r} : req'[t] = req[t]

LEMMA NewRequest ==
    ASSUME TypeOK, NEW r \in Requests, NEW q, req' = [req EXCEPT ![r] = q]
    PROVE  req'[r] = q /\ \A t \in Requests \ {r} : req'[t] = req[t]
  BY DEF TypeOK

LEMMA Entering ==
    ASSUME TypeInv, NEW r \in Requests, NEW q \in UserRequest,
           q.no = served', q.seen = user,
           Serve, req' = [req EXCEPT ![r] = q],
           UNCHANGED <<user, session, pending, mailed, told, spent, raced>>,
           q.op = "verify" => user.secret # None,
           q.op = "disable" => user.enabled = TRUE,
           q.op = "reset" => user.reset \in mailed,
           q.op = "backup" => q.code \in CodesOf(user)
    PROVE  TypeInv' /\ Quiet
  <1>1. served' = served + 1 /\ served' \in 0..MaxServed /\ served' \in Numbers
    BY AccountsAssumption DEF Serve, TypeInv, TypeOK, Numbers
  <1>2. TypeInv'
    BY <1>1, LoadTyped
  <1>3. req'[r] = q /\ \A t \in Requests \ {r} : req'[t] = req[t]
    BY NewRequest DEF TypeInv
  <1>4. Working(r)' /\ ~Mailing(r)'
    BY <1>3, OpsDiffer DEF Working, Mailing, UserRequest, TypeInv
  <1>5. Enters(r)
    BY <1>1, <1>3, <1>4 DEF Enters
  <1> QED
    BY <1>1, <1>2, <1>3, <1>4, <1>5 DEF Quiet

LEMMA MailQuiet ==
    ASSUME TypeInv, NEW r \in Requests, Mail(r) \/ MailFails(r)
    PROVE  TypeInv' /\ Quiet
  <1>1. /\ Mailing(r) /\ req' = [req EXCEPT ![r] = Idle]
        /\ UNCHANGED <<user, session, pending, served, spent, raced>>
        /\ \/ mailed' = mailed /\ told' = told
           \/ /\ mailed' = mailed \cup {req[r].no}
              /\ told' = [told EXCEPT !.reset = req[r].no]
    BY DEF Mail, MailFails, Mailing
  <1>2. req'[r] = Idle /\ \A t \in Requests \ {r} : req'[t] = req[t]
    BY <1>1, NewRequest DEF TypeInv
  <1>3. Idle.op \notin UserOps \cup {"backup", "mail"}
    BY DEF Idle, UserOps, OnUser, Logins
  <1>4. req[r].no \in Numbers /\ told \in User
    BY <1>1, OpsDiffer DEF Mailing, MailRequest, TypeInv, TypeOK
  <1>5. /\ told' \in User /\ mailed' \subseteq Numbers
        /\ told'.secret = told.secret /\ told'.codes = told.codes
        /\ \/ mailed' = mailed /\ told'.reset = told.reset
           \/ /\ told'.reset = req[r].no
              /\ mailed' = mailed \cup {req[r].no}
    BY <1>1, <1>4 DEF User, TypeInv, TypeOK
  <1>6. TypeOK'
    BY <1>1, <1>5 DEF TypeInv, TypeOK, CodesOf
  <1>7. OneList' /\ CodeInv'
    BY <1>1, <1>2, <1>3 DEF TypeInv, OneList, CodeInv, OfOne, CodesOf, Working
  <1>8. \A t \in Requests : (Working(t)' \/ Mailing(t)') => req'[t] = req[t]
    BY <1>2, <1>3 DEF Working, Mailing
  <1>9. Quiet
    BY <1>1, <1>5, <1>8 DEF Quiet
  <1> QED
    BY <1>6, <1>7, <1>9 DEF TypeInv

LEMMA StepCases ==
    ASSUME TypeInv, [Next]_vars
    PROVE  TypeInv' /\ (Quiet \/ \E r \in Requests, s \in Sessions : Commit(r, s))
  <1>1. CASE LoginIsHalf
    <2>1. /\ UNCHANGED <<user, session, req, mailed, told, spent, raced>>
          /\ served' = served + 1 /\ served < MaxServed /\ pending' = TRUE
      BY <1>1 DEF LoginIsHalf, Serve
    <2>2. served' \in 0..MaxServed
      BY <2>1, AccountsAssumption DEF TypeInv, TypeOK
    <2>3. TypeOK'
      BY <2>1, <2>2 DEF TypeInv, TypeOK, CodesOf
    <2>4. OneList' /\ CodeInv'
      BY <2>1 DEF TypeInv, OneList, CodeInv, OfOne, CodesOf, Working
    <2>5. Quiet
      BY <2>1 DEF Quiet
    <2> QED BY <2>3, <2>4, <2>5 DEF TypeInv
  <1>3. ASSUME NEW r \in Requests, NEW op \in UserOps \ {"backup"}, Load(r, op)
        PROVE  TypeInv' /\ Quiet
    <2> DEFINE q == [op |-> op, no |-> served', seen |-> user, code |-> None]
    <2>1. /\ Serve /\ req' = [req EXCEPT ![r] = q]
          /\ UNCHANGED <<user, session, pending, mailed, told, spent, raced>>
          /\ Verified(op)
      BY <1>3 DEF Load
    <2>2. served' \in Numbers
      BY <2>1, AccountsAssumption DEF Serve, TypeInv, TypeOK, Numbers
    <2>3. /\ q \in UserRequest /\ q.op = op /\ q.no = served' /\ q.seen = user
      BY <2>2 DEF UserRequest, TypeInv, TypeOK
    <2>4. /\ op = "verify" => user.secret # None
          /\ op = "disable" => user.enabled = TRUE
          /\ op = "reset" => user.reset \in mailed
      BY <2>1 DEF Verified, TypeInv, TypeOK, User
    <2>5. op # "backup"
      OBVIOUS
    <2> HIDE DEF q
    <2> QED BY <2>1, <2>3, <2>4, <2>5, Entering
  <1>4. ASSUME NEW r \in Requests, NEW c \in Codes, LoadCode(r, c)
        PROVE  TypeInv' /\ Quiet
    <2> DEFINE q == [op |-> "backup", no |-> served', seen |-> user, code |-> c]
    <2>1. /\ Serve /\ req' = [req EXCEPT ![r] = q]
          /\ UNCHANGED <<user, session, pending, mailed, told, spent, raced>>
          /\ c \in CodesOf(user)
      BY <1>4 DEF LoadCode
    <2>2. served' \in Numbers
      BY <2>1, AccountsAssumption DEF Serve, TypeInv, TypeOK, Numbers
    <2>3. "backup" \in UserOps
      BY DEF UserOps, OnUser
    <2>4. /\ q \in UserRequest /\ q.op = "backup" /\ q.no = served'
          /\ q.seen = user /\ q.code = c
      BY <2>2, <2>3 DEF UserRequest, TypeInv, TypeOK
    <2> HIDE DEF q
    <2> QED BY <2>1, <2>4, Entering
  <1>5. ASSUME NEW r \in Requests, NEW op \in OnSession,
               NEW rows \in SUBSET Sessions, LoadSessions(r, op, rows)
        PROVE  TypeInv' /\ Quiet
    <2> DEFINE q == [op |-> op, seen |-> session, rows |-> rows]
    <2>1. /\ Serve /\ req' = [req EXCEPT ![r] = q]
          /\ UNCHANGED <<user, session, pending, mailed, told, spent, raced>>
      BY <1>5 DEF LoadSessions
    <2>2. q \in SessionRequest /\ q.op = op
      BY DEF SessionRequest, TypeInv, TypeOK
    <2> HIDE DEF q
    <2>3. q.op \notin UserOps /\ q.op # "backup"
      BY <2>2 DEF OnSession, UserOps, OnUser, Logins
    <2>4. served' = served + 1 /\ served' \in 0..MaxServed /\ Numbers # {}
      BY <2>1, AccountsAssumption DEF Serve, TypeInv, TypeOK, Numbers
    <2>5. TypeInv'
      BY <2>1, <2>2, <2>3, <2>4, LoadTyped
    <2>6. req'[r] = q /\ \A t \in Requests \ {r} : req'[t] = req[t]
      BY <2>1, NewRequest DEF TypeInv
    <2>7. q.op # "mail"
      BY <2>2 DEF OnSession
    <2>8. Quiet
      BY <2>1, <2>3, <2>4, <2>6, <2>7 DEF Quiet, Working, Mailing
    <2> QED BY <2>5, <2>8
  <1>6. ASSUME NEW r \in Requests, NEW s \in Sessions, Commit(r, s)
        PROVE  TypeInv'
    BY <1>6, CommitTyped
  <1>7. ASSUME NEW r \in Requests, CommitSessions(r)
        PROVE  TypeInv' /\ Quiet
    <2>1. /\ req' = [req EXCEPT ![r] = Idle] /\ req[r].op \in OnSession
          /\ UNCHANGED <<user, pending, served, mailed, told, spent, raced>>
      BY <1>7 DEF CommitSessions
    <2>2. req'[r] = Idle /\ \A t \in Requests \ {r} : req'[t] = req[t]
      BY <2>1, NewRequest DEF TypeInv
    <2>3. Idle.op \notin UserOps \cup {"backup", "mail"}
      BY DEF Idle, UserOps, OnUser, Logins
    <2>4. req' \in [Requests ->
                      UserRequest \cup SessionRequest \cup MailRequest \cup {Idle}]
      BY <2>1 DEF TypeInv, TypeOK
    <2>5. session' \in [Sessions -> {"none", "active", "revoked"}]
      <3>1. req[r] \in SessionRequest
        BY <2>1, OpsDiffer DEF TypeInv
      <3>2. req[r].seen \in [Sessions -> {"none", "active", "revoked"}]
        BY <3>1 DEF SessionRequest
      <3> QED BY <1>7, <3>2 DEF CommitSessions, Column, TypeInv, TypeOK
    <2>6. TypeOK'
      BY <2>1, <2>4, <2>5 DEF TypeInv, TypeOK, CodesOf
    <2>7. OneList' /\ CodeInv'
      BY <2>1, <2>2, <2>3 DEF TypeInv, OneList, CodeInv, OfOne, CodesOf, Working
    <2>8. Quiet
      BY <2>1, <2>2, <2>3 DEF Quiet, Working, Mailing
    <2> QED BY <2>6, <2>7, <2>8 DEF TypeInv
  <1>9. ASSUME NEW r \in Requests, Mail(r) \/ MailFails(r)
        PROVE  TypeInv' /\ Quiet
    BY <1>9, MailQuiet
  <1>8. CASE UNCHANGED vars
    <2>1. /\ UNCHANGED <<user, session, pending, req, served>>
          /\ UNCHANGED <<mailed, told, spent, raced>>
      BY <1>8 DEF vars
    <2>2. TypeOK'
      BY <2>1 DEF TypeInv, TypeOK, CodesOf
    <2>3. OneList' /\ CodeInv'
      BY <2>1 DEF TypeInv, OneList, CodeInv, OfOne, CodesOf, Working
    <2>4. Quiet
      BY <2>1 DEF Quiet
    <2> QED BY <2>2, <2>3, <2>4 DEF TypeInv
  <1> QED
    BY <1>1, <1>3, <1>4, <1>5, <1>6, <1>7, <1>8, <1>9 DEF Next

\* The rows, the requests and what is recorded about them have the shapes
\* they are declared with; what is left of the backup codes is of one list,
\* however the handlers of auth.py that rewrite it overlap.
THEOREM AccountsTypeCorrect == Spec => []TypeOK
  <1>1. Init => TypeInv
    BY InitType
  <1>2. TypeInv /\ [Next]_vars => TypeInv'
    BY StepCases
  <1>3. TypeInv => TypeOK
    BY DEF TypeInv
  <1> QED
    BY <1>1, <1>2, <1>3, PTL DEF Spec

-----------------------------------------------------------------------------
(* Sessions *)

\* Neither a new login nor a refresh takes a revoked session back: a refresh
\* writes is_revoked only if it changed it, and it does not.
THEOREM RevokedSessionsStayRevoked == Spec => RevokedStaysRevoked
  <1> DEFINE Stays == \A s \in Sessions :
                        session[s] = "revoked" => session'[s] = "revoked"
  <1>1. TypeInv /\ [Next]_vars => Stays
    <2> SUFFICES ASSUME TypeInv, [Next]_vars, NEW s \in Sessions,
                        session[s] = "revoked"
                 PROVE  session'[s] = "revoked"
      OBVIOUS
    <2>1. CASE session' = session
      BY <2>1
    <2>2. ASSUME NEW r \in Requests, NEW x \in Sessions, Commit(r, x)
          PROVE  session'[s] = "revoked"
      <3>1. \/ session' = session
            \/ session[x] = "none" /\ session' = [session EXCEPT ![x] = "active"]
        BY <2>2 DEF Commit, NewSession
      <3> QED BY <3>1 DEF TypeInv, TypeOK
    <2>3. ASSUME NEW r \in Requests, CommitSessions(r)
          PROVE  session'[s] = "revoked"
      <3>1. session'[s] \in {session[s],
                             Column(session[s], req[r].seen[s], "revoked"),
                             Column(session[s], req[r].seen[s], req[r].seen[s])}
        BY <2>3 DEF CommitSessions
      <3> QED BY <3>1, ColumnOneOf
    <2> QED BY <2>1, <2>2, <2>3
            DEF Next, vars, LoginIsHalf, Load, LoadCode, LoadSessions, Mail,
                MailFails
  <1>2. Stays => [Stays]_vars
    OBVIOUS
  <1>3. Init => TypeInv
    BY InitType
  <1>4. TypeInv /\ [Next]_vars => TypeInv'
    BY StepCases
  <1> QED
    BY <1>1, <1>3, <1>4, PTL DEF Spec, RevokedStaysRevoked

-----------------------------------------------------------------------------
(* What is new is new: numbers *)

\* All that u holds was made before request n.
Older(u, n) ==
    /\ u.secret # None => u.secret < n
    /\ u.reset # None => u.reset < n
    /\ \A c \in CodesOf(u) : c[1] < n

NumberInv ==
    /\ Older(user, served + 1)
    /\ \A r \in Requests : Working(r) =>
         req[r].no < served + 1 /\ Older(req[r].seen, req[r].no)
    /\ \A r, t \in Requests :
         Working(r) /\ Working(t) /\ r # t => req[r].no # req[t].no

LEMMA SecretWritten ==
    ASSUME TypeInv, NumberInv, NEW r \in Requests, NEW s \in Sessions,
           Commit(r, s)
    PROVE  /\ req[r].op = "setup" =>
                user'.secret = req[r].no /\ told'.secret = req[r].no
           /\ req[r].op = "disable" =>
                /\ user'.secret \in {None, user.secret}
                /\ req[r].seen.secret # None => user'.secret = None
                /\ told'.secret = None
           /\ req[r].op \notin {"setup", "disable"} =>
                user'.secret = user.secret /\ told'.secret = told.secret
  <1>1. /\ req[r].op \in UserOps /\ req[r].seen \in User
        /\ req[r].no \in Numbers /\ Older(req[r].seen, req[r].no)
    BY WorkingType, CommitRequests DEF TypeInv, NumberInv
  <1>2. user'.secret = Column(user.secret, req[r].seen.secret,
                              Changed(req[r].seen, req[r]).secret)
    BY DEF Commit, Flushed
  <1>3. req[r].op = "setup" => req[r].no # req[r].seen.secret
    BY <1>1, AccountsAssumption DEF Older, Numbers
  <1>4. \/ told' = told /\ req[r].op \in {"forgot", "reset"}
        \/ told' = Changed(told, req[r])
    BY DEF Commit, Answered
  <1>5. told \in User
    BY DEF TypeInv, TypeOK
  <1> QED
    BY <1>1, <1>2, <1>3, <1>4, <1>5, ColumnOneOf, ChangedSecret

LEMMA ResetWritten ==
    ASSUME TypeInv, NumberInv, NEW r \in Requests, NEW s \in Sessions,
           Commit(r, s)
    PROVE  /\ req[r].op = "forgot" =>
                user'.reset = req[r].no /\ told'.reset = told.reset
           /\ req[r].op = "reset" =>
                /\ req[r].seen.reset # None => user'.reset = None
                /\ told'.reset = IF told.reset = req[r].seen.reset THEN None
                                 ELSE told.reset
           /\ req[r].op \notin {"forgot", "reset"} =>
                user'.reset = user.reset /\ told'.reset = told.reset
  <1>1. /\ req[r].op \in UserOps /\ req[r].seen \in User
        /\ req[r].no \in Numbers /\ Older(req[r].seen, req[r].no)
    BY WorkingType, CommitRequests DEF TypeInv, NumberInv
  <1>2. user'.reset = Column(user.reset, req[r].seen.reset,
                             Changed(req[r].seen, req[r]).reset)
    BY DEF Commit, Flushed
  <1>3. req[r].op = "forgot" => req[r].no # req[r].seen.reset
    BY <1>1, AccountsAssumption DEF Older, Numbers
  <1>4. IF \/ req[r].op = "forgot"
           \/ req[r].op = "reset" /\ told.reset # req[r].seen.reset
          THEN told' = told ELSE told' = Changed(told, req[r])
    BY DEF Commit, Answered
  <1>5. told \in User
    BY DEF TypeInv, TypeOK
  <1> QED
    BY <1>1, <1>2, <1>3, <1>4, <1>5, ColumnOneOf, ChangedReset

LEMMA CodesWritten ==
    ASSUME TypeInv, NumberInv, NEW r \in Requests, NEW s \in Sessions,
           Commit(r, s)
    PROVE  /\ req[r].op = "verify" =>
                user'.codes = {req[r].no} \X Slots /\ told'.codes = user'.codes
           /\ req[r].op = "disable" =>
                /\ req[r].seen.codes # None => user'.codes = None
                /\ told'.codes = None
           /\ req[r].op = "backup" =>
                /\ user'.codes = req[r].seen.codes \ {req[r].code}
                /\ told'.codes = CodesOf(told) \ {req[r].code}
           /\ req[r].op \notin {"verify", "disable", "backup"} =>
                user'.codes = user.codes /\ told'.codes = told.codes
  <1>1. /\ req[r].op \in UserOps /\ req[r].seen \in User
        /\ req[r].no \in Numbers /\ Older(req[r].seen, req[r].no)
    BY WorkingType, CommitRequests DEF TypeInv, NumberInv
  <1>2. user'.codes = Column(user.codes, req[r].seen.codes,
                             Changed(req[r].seen, req[r]).codes)
    BY DEF Commit, Flushed
  <1>3. {req[r].no} \X Slots # req[r].seen.codes
    <2>1. PICK x \in Slots : TRUE
      BY AccountsAssumption
    <2>2. <<req[r].no, x>> \in {req[r].no} \X Slots
      OBVIOUS
    <2>3. \A c \in CodesOf(req[r].seen) : c[1] # req[r].no
      BY <1>1, AccountsAssumption DEF Older, CodesOf, User, Codes, Numbers
    <2>4. {req[r].no} \X Slots \in SUBSET Codes
      BY <1>1 DEF Codes
    <2>5. req[r].seen.codes # None => CodesOf(req[r].seen) = req[r].seen.codes
      BY DEF CodesOf
    <2> QED BY <2>2, <2>3, <2>4, <2>5, AccountsAssumption
  <1>4. req[r].op = "backup" =>
          /\ CodesOf(req[r].seen) = req[r].seen.codes
          /\ req[r].code \in req[r].seen.codes
    BY DEF TypeInv, CodeInv, CodesOf
  <1>5. \/ told' = told /\ req[r].op \in {"forgot", "reset"}
        \/ told' = Changed(told, req[r])
    BY DEF Commit, Answered
  <1>6. told \in User
    BY DEF TypeInv, TypeOK
  <1>7. CASE req[r].op = "backup"
    <2>1. Changed(req[r].seen, req[r]).codes = req[r].seen.codes \ {req[r].code}
      BY <1>1, <1>4, <1>7, ChangedCodes
    <2>2. req[r].seen.codes \ {req[r].code} # req[r].seen.codes
      BY <1>4, <1>7
    <2>3. user'.codes = req[r].seen.codes \ {req[r].code}
      BY <1>2, <2>1, <2>2, ColumnOneOf
    <2> QED BY <1>1, <1>5, <1>6, <1>7, <2>3, ChangedCodes
  <1>8. CASE req[r].op = "verify"
    <2>1. Changed(req[r].seen, req[r]).codes = {req[r].no} \X Slots
      BY <1>1, <1>8, ChangedCodes
    <2>2. user'.codes = {req[r].no} \X Slots
      BY <1>2, <1>3, <2>1, ColumnOneOf
    <2>3. told'.codes = {req[r].no} \X Slots
      BY <1>1, <1>5, <1>6, <1>8, ChangedCodes
    <2> QED BY <1>8, <2>2, <2>3
  <1>9. CASE req[r].op = "disable"
    <2>1. Changed(req[r].seen, req[r]).codes = None
      BY <1>1, <1>9, ChangedCodes
    <2>2. req[r].seen.codes # None => user'.codes = None
      BY <1>2, <2>1, ColumnOneOf
    <2>3. told'.codes = None
      BY <1>1, <1>5, <1>6, <1>9, ChangedCodes
    <2> QED BY <1>9, <2>2, <2>3
  <1>10. CASE req[r].op \notin {"verify", "disable", "backup"}
    <2>1. Changed(req[r].seen, req[r]).codes = req[r].seen.codes
      BY <1>1, <1>10, ChangedCodes
    <2>2. user'.codes = user.codes
      BY <1>2, <2>1, ColumnOneOf
    <2>3. told'.codes = told.codes
      BY <1>1, <1>5, <1>6, <1>10, ChangedCodes
    <2> QED BY <1>10, <2>2, <2>3
  <1> QED
    BY <1>7, <1>8, <1>9, <1>10

LEMMA EnabledWritten ==
    ASSUME TypeInv, NEW r \in Requests, NEW s \in Sessions, Commit(r, s)
    PROVE  /\ req[r].op = "verify" =>
                user'.enabled \in {TRUE, user.enabled}
           /\ req[r].op = "verify" /\ req[r].seen.enabled # TRUE =>
                user'.enabled = TRUE
           /\ req[r].op = "disable" /\ req[r].seen.enabled = TRUE =>
                user'.enabled = FALSE
           /\ req[r].op \notin {"verify", "disable"} =>
                user'.enabled = user.enabled
  <1>1. req[r].op \in UserOps /\ req[r].seen \in User
    BY WorkingType, CommitRequests DEF TypeInv
  <1>2. user'.enabled = Column(user.enabled, req[r].seen.enabled,
                               Changed(req[r].seen, req[r]).enabled)
    BY DEF Commit, Flushed
  <1>3. CASE req[r].op = "verify"
    <2>1. Changed(req[r].seen, req[r]).enabled = TRUE
      BY <1>1, <1>3, ChangedEnabled
    <2>2. user'.enabled = Column(user.enabled, req[r].seen.enabled, TRUE)
      BY <1>2, <2>1
    <2>3. /\ user'.enabled \in {TRUE, user.enabled}
          /\ req[r].seen.enabled # TRUE => user'.enabled = TRUE
      BY <2>2 DEF Column
    <2> QED BY <1>3, <2>3
  <1>4. CASE req[r].op = "disable"
    <2>1. Changed(req[r].seen, req[r]).enabled = FALSE
      BY <1>1, <1>4, ChangedEnabled
    <2>2. user'.enabled = Column(user.enabled, req[r].seen.enabled, FALSE)
      BY <1>2, <2>1
    <2>3. req[r].seen.enabled = TRUE => user'.enabled = FALSE
      BY <2>2 DEF Column
    <2> QED BY <1>4, <2>3
  <1>5. CASE req[r].op \notin {"verify", "disable"}
    <2>1. Changed(req[r].seen, req[r]).enabled = req[r].seen.enabled
      BY <1>1, <1>5, ChangedEnabled
    <2>2. user'.enabled = Column(user.enabled, req[r].seen.enabled,
                                 req[r].seen.enabled)
      BY <1>2, <2>1
    <2>3. user'.enabled = user.enabled
      BY <2>2 DEF Column
    <2> QED BY <1>5, <2>3
  <1> QED
    BY <1>3, <1>4, <1>5

\* Quiet steps: a request that works after one has been there before, or has
\* just loaded the row.
LEMMA QuietRequests ==
    ASSUME Quiet, NEW r \in Requests, Working(r)'
    PROVE  (Working(r) /\ req'[r] = req[r]) \/ Enters(r)
  BY DEF Quiet, Working

LEMMA OlderLater ==
    ASSUME NEW u \in User, NEW n \in Nat, NEW m \in Nat, n <= m, Older(u, n)
    PROVE  Older(u, m)
  <1>1. /\ u.secret # None => u.secret \in Nat
        /\ u.reset # None => u.reset \in Nat
        /\ \A c \in CodesOf(u) : c[1] \in Nat
    BY DEF User, CodesOf, Codes, Numbers
  <1> QED
    BY <1>1 DEF Older

LEMMA NumberStep ==
    ASSUME TypeInv, TypeInv', NumberInv,
           Quiet \/ \E r \in Requests, s \in Sessions : Commit(r, s)
    PROVE  NumberInv'
  <1>1. user \in User /\ user' \in User /\ served \in Nat /\ served' \in Nat
    BY AccountsAssumption DEF TypeInv, TypeOK
  <1>2. \A t \in Requests : Working(t) => /\ req[t].no \in Nat
                                         /\ req[t].seen \in User
    BY WorkingType DEF TypeInv, Numbers
  <1>3. CASE Quiet
    <2>1. Older(user, served + 1) /\ user' = user /\ served <= served'
      BY <1>1, <1>3 DEF Quiet, NumberInv
    <2>2. Older(user', served' + 1)
      BY <1>1, <2>1, OlderLater
    <2>3. ASSUME NEW t \in Requests, Working(t)'
          PROVE  req'[t].no < served' + 1 /\ Older(req'[t].seen, req'[t].no)
      <3>1. CASE Working(t) /\ req'[t] = req[t]
        <4>1. req[t].no < served + 1 /\ Older(req[t].seen, req[t].no)
          BY <3>1 DEF NumberInv
        <4> QED BY <1>1, <1>2, <2>1, <3>1, <4>1
      <3>2. CASE Enters(t)
        BY <1>1, <2>1, <3>2 DEF Enters
      <3> QED BY <1>3, <2>3, <3>1, <3>2, QuietRequests
    <2>4. ASSUME NEW t \in Requests, NEW v \in Requests, t # v,
                 Working(t)', Working(v)'
          PROVE  req'[t].no # req'[v].no
      <3>1. CASE Working(t) /\ req'[t] = req[t] /\ Working(v) /\ req'[v] = req[v]
        BY <2>4, <3>1 DEF NumberInv
      <3>2. CASE Working(t) /\ req'[t] = req[t] /\ Enters(v)
        <4>1. req[t].no < served + 1 /\ req'[v].no = served + 1
          BY <3>2 DEF NumberInv, Enters
        <4> QED BY <1>1, <1>2, <3>2, <4>1
      <3>3. CASE Enters(t) /\ Working(v) /\ req'[v] = req[v]
        <4>1. req[v].no < served + 1 /\ req'[t].no = served + 1
          BY <3>3 DEF NumberInv, Enters
        <4> QED BY <1>1, <1>2, <3>3, <4>1
      <3>4. CASE Enters(t) /\ Enters(v) /\ req'[v] # req[v]
        \* Only one request enters.
        <4>1. req'[v] = req[v] \/ req'[t] = req[t]
          BY <1>3, <2>4 DEF Quiet
        <4>2. req'[t] = req[t]
          BY <3>4, <4>1
        <4>3. Working(t)
          BY <2>4, <4>2 DEF Working
        <4>4. req[t].no < served + 1 /\ req'[t].no = served + 1
          BY <3>4, <4>3 DEF NumberInv, Enters
        <4> QED BY <1>1, <1>2, <4>2, <4>3, <4>4
      <3>5. CASE Enters(t) /\ Enters(v) /\ req'[v] = req[v]
        <4>1. Working(v)
          BY <2>4, <3>5 DEF Working
        <4>2. req[v].no < served + 1 /\ req'[v].no = served + 1
          BY <3>5, <4>1 DEF NumberInv, Enters
        <4> QED BY <1>1, <1>2, <3>5, <4>1, <4>2
      <3> QED BY <1>3, <2>4, <3>1, <3>2, <3>3, <3>4, <3>5, QuietRequests
    <2> QED BY <2>2, <2>3, <2>4 DEF NumberInv
  <1>4. ASSUME NEW r \in Requests, NEW s \in Sessions, Commit(r, s)
        PROVE  NumberInv'
    <2>1. /\ served' = served /\ ~Working(r)' /\ Working(r)
          /\ \A t \in Requests : t # r => req'[t] = req[t]
      BY <1>4, CommitRequests DEF TypeInv
    <2>2. \A t \in Requests : Working(t)' => Working(t) /\ req'[t] = req[t]
      BY <2>1 DEF Working
    <2>3. /\ req[r].no < served + 1 /\ Older(req[r].seen, req[r].no)
          /\ req[r].no \in Nat /\ req[r].seen \in User
      BY <1>2, <2>1 DEF NumberInv
    <2>4. Older(user, served + 1) /\ Older(req[r].seen, served + 1)
      BY <1>1, <2>3, OlderLater DEF NumberInv
    <2>5. user'.secret \in {user.secret, req[r].no, None}
      BY <1>4, SecretWritten
    <2>6. user'.reset \in {user.reset, req[r].no, None}
      <3>1. req[r].op = "reset" => user'.reset \in {user.reset, None}
        <4>1. user'.reset = Column(user.reset, req[r].seen.reset,
                                   Changed(req[r].seen, req[r]).reset)
          BY <1>4 DEF Commit, Flushed
        <4>2. req[r].op = "reset" => Changed(req[r].seen, req[r]).reset = None
          BY <2>1, <2>3, ChangedReset DEF Working
        <4> QED BY <4>1, <4>2, ColumnOneOf
      <3> QED BY <1>4, <3>1, ResetWritten
    <2>7. \A c \in CodesOf(user') : \/ c \in CodesOf(user) \cup CodesOf(req[r].seen)
                                   \/ c[1] = req[r].no
      <3>1. user'.codes = Column(user.codes, req[r].seen.codes,
                                 Changed(req[r].seen, req[r]).codes)
        BY <1>4 DEF Commit, Flushed
      <3>2. user'.codes \in {user.codes, Changed(req[r].seen, req[r]).codes}
        BY <3>1, ColumnOneOf
      <3>3. \/ Changed(req[r].seen, req[r]).codes = {req[r].no} \X Slots
            \/ Changed(req[r].seen, req[r]).codes = None
            \/ Changed(req[r].seen, req[r]).codes
                 = CodesOf(req[r].seen) \ {req[r].code}
            \/ Changed(req[r].seen, req[r]).codes = req[r].seen.codes
        BY <2>1, <2>3, ChangedCodes DEF Working
      <3> QED BY <3>2, <3>3 DEF CodesOf
    <2>8. Older(user', served + 1)
      BY <1>1, <2>3, <2>4, <2>5, <2>6, <2>7 DEF Older
    <2> QED BY <2>1, <2>2, <2>8 DEF NumberInv
  <1> QED
    BY <1>3, <1>4

\* What the steps of requests other than r see of its commit.
LEMMA BesideCommit ==
    ASSUME TypeInv, NEW r \in Requests, NEW s \in Sessions, Commit(r, s),
           NEW t \in Requests, Working(t)'
    PROVE  /\ t # r /\ Working(t) /\ req'[t] = req[t]
           /\ req[r].op \in OnUser /\ req[t].op \in OnUser
                => {req[r].op, req[t].op} \in raced'
  BY CommitRequests DEF Working, TypeInv

LEMMA OnUserWorks ==
    ASSUME NEW r \in Requests, req[r].op \in OnUser
    PROVE  Working(r)
  BY DEF Working, UserOps

LEMMA NobodyWorksYet ==
    ASSUME Init, NEW r \in Requests
    PROVE  ~Working(r)
  BY DEF Init, Working, Idle, UserOps, OnUser, Logins

-----------------------------------------------------------------------------
(* The secret *)

SecretRaced == {"setup", "disable"} \in raced

\* A disabling that loaded another secret than there is now has been
\* overlapped by a set-up.
SecretInv ==
    /\ user.secret # told.secret => SecretRaced
    /\ \A r \in Requests :
         req[r].op = "disable" /\ user.secret \notin {None, req[r].seen.secret}
           => SecretRaced

LEMMA SecretStep ==
    ASSUME TypeInv, NumberInv, SecretInv,
           Quiet \/ \E r \in Requests, s \in Sessions : Commit(r, s)
    PROVE  SecretInv'
  <1>1. CASE Quiet
    <2>1. user' = user /\ told'.secret = told.secret /\ raced' = raced
      BY <1>1 DEF Quiet
    <2>2. ASSUME NEW t \in Requests, req'[t].op = "disable",
                 user'.secret \notin {None, req'[t].seen.secret}
          PROVE  SecretRaced'
      <3>1. Working(t)'
        BY <2>2 DEF Working, UserOps, OnUser
      <3>2. req'[t] = req[t]
        BY <1>1, <2>1, <2>2, <3>1, QuietRequests DEF Enters
      <3> QED BY <2>1, <2>2, <3>2 DEF SecretInv, SecretRaced
    <2> QED BY <2>1, <2>2 DEF SecretInv, SecretRaced
  <1>2. ASSUME NEW r \in Requests, NEW s \in Sessions, Commit(r, s)
        PROVE  SecretInv'
    <2>1. SecretRaced => SecretRaced'
      BY <1>2, CommitRequests DEF SecretRaced, TypeInv
    <2>2. user'.secret # told'.secret => SecretRaced'
      BY <1>2, <2>1, SecretWritten DEF SecretInv
    <2>3. ASSUME NEW t \in Requests, req'[t].op = "disable",
                 user'.secret \notin {None, req'[t].seen.secret}
          PROVE  SecretRaced'
      <3>1. Working(t)'
        BY <2>3 DEF Working, UserOps, OnUser
      <3>2. /\ req'[t] = req[t]
            /\ req[r].op = "setup" => {"setup", "disable"} \in raced'
        BY <1>2, <2>3, <3>1, BesideCommit DEF OnUser
      <3>3. req[r].op # "setup" => user'.secret \in {None, user.secret}
        BY <1>2, SecretWritten
      <3> QED BY <2>1, <2>3, <3>2, <3>3 DEF SecretInv, SecretRaced
    <2> QED BY <2>2, <2>3 DEF SecretInv
  <1> QED
    BY <1>1, <1>2

-----------------------------------------------------------------------------
(* The mailed link *)

\* A token that was mailed, or is about to be, is of no request still to come.
MailInv ==
    /\ \A n \in mailed : n < served + 1
    /\ \A r \in Requests : Working(r) => req[r].no \notin mailed
    /\ \A r \in Requests : Mailing(r) =>
         /\ req[r].no < served + 1
         /\ \A t \in Requests : Working(t) => req[t].no # req[r].no

LEMMA MailStep ==
    ASSUME TypeInv, NumberInv, MailInv,
           Quiet \/ \E r \in Requests, s \in Sessions : Commit(r, s)
    PROVE  MailInv'
  <1>1. /\ served \in Nat /\ mailed \subseteq Nat
        /\ \A r \in Requests : Working(r) \/ Mailing(r) => req[r].no \in Nat
    BY AccountsAssumption, OpsDiffer, WorkingType
       DEF TypeInv, TypeOK, Numbers, Mailing, MailRequest
  <1>2. CASE Quiet
    <2>1. served' \in {served, served + 1}
      BY <1>2 DEF Quiet
    <2>2. \/ mailed' = mailed
          \/ \E r \in Requests : Mailing(r) /\ mailed' = mailed \cup {req[r].no}
      BY <1>2 DEF Quiet
    <2>3. \A n \in mailed' : n \in Nat /\ n < served + 1
      <3>1. \A n \in mailed : n \in Nat /\ n < served + 1
        BY <1>1 DEF MailInv
      <3>2. \A r \in Requests : Mailing(r) =>
              req[r].no \in Nat /\ req[r].no < served + 1
        BY <1>1 DEF MailInv
      <3> QED BY <2>2, <3>1, <3>2
    <2>4. \A r \in Requests : Mailing(r)' => Mailing(r) /\ req'[r] = req[r]
      BY <1>2 DEF Quiet, Mailing
    <2>5. \A r \in Requests : Mailing(r)' =>
            req'[r].no \in Nat /\ req'[r].no < served + 1
      BY <1>1, <2>4 DEF MailInv
    <2>6. ASSUME NEW t \in Requests, Working(t)'
          PROVE  /\ req'[t].no \notin mailed'
                 /\ \A r \in Requests : Mailing(r)' => req'[t].no # req'[r].no
      <3>1. CASE Working(t) /\ req'[t] = req[t]
        BY <2>2, <2>4, <3>1 DEF MailInv
      <3>2. CASE Enters(t)
        <4>1. req'[t].no = served + 1
          BY <3>2 DEF Enters
        <4> QED BY <1>1, <2>3, <2>5, <4>1
      <3> QED BY <1>2, <2>6, <3>1, <3>2, QuietRequests
    <2>7. \A n \in mailed' : n < served' + 1
      BY <1>1, <2>1, <2>3
    <2>8. \A r \in Requests : Mailing(r)' => req'[r].no < served' + 1
      BY <1>1, <2>1, <2>5
    <2> QED BY <2>6, <2>7, <2>8 DEF MailInv
  <1>3. ASSUME NEW r \in Requests, NEW s \in Sessions, Commit(r, s)
        PROVE  MailInv'
    <2>1. /\ mailed' = mailed /\ served' = served /\ Working(r)
          /\ \A t \in Requests : t # r => req'[t] = req[t]
          /\ Mailing(r)' => req'[r].no = req[r].no
      BY <1>3, CommitRequests, OpsDiffer DEF TypeInv, Mailing
    <2>2. req[r].no < served + 1
      BY <2>1 DEF NumberInv
    <2>3. \A t \in Requests : Working(t)' =>
            Working(t) /\ req'[t] = req[t] /\ t # r /\ req[t].no # req[r].no
      BY <1>3, <2>1, BesideCommit DEF NumberInv
    <2>4. \A t \in Requests : Mailing(t)' =>
            \/ Mailing(t) /\ req'[t] = req[t]
            \/ req'[t].no = req[r].no
      BY <2>1 DEF Mailing
    <2> QED BY <2>1, <2>2, <2>3, <2>4 DEF MailInv
  <1> QED
    BY <1>2, <1>3

ResetRaced == {{"forgot"}, {"forgot", "reset"}} \cap raced # {}

\* A password reset that loaded another token than there is now, and a mail to
\* be sent with another, have been overlapped by a request for a new one.
ResetInv ==
    /\ user.reset \in {told.reset} \cup (Numbers \ mailed) \/ ResetRaced
    /\ \A r \in Requests : req[r].op = "reset" =>
         /\ req[r].seen.reset \in mailed
         /\ user.reset \in {None, req[r].seen.reset} \/ ResetRaced
    /\ \A r \in Requests : Mailing(r) =>
         user.reset = req[r].no \/ ResetRaced

LEMMA ResetStep ==
    ASSUME TypeInv, NumberInv, MailInv, ResetInv,
           Quiet \/ \E r \in Requests, s \in Sessions : Commit(r, s)
    PROVE  ResetInv'
  <1>1. CASE Quiet
    <2>1. user' = user /\ raced' = raced /\ mailed \subseteq mailed'
      BY <1>1 DEF Quiet
    <2>2. ASSUME NEW t \in Requests, req'[t].op = "reset"
          PROVE  /\ req'[t].seen.reset \in mailed'
                 /\ user'.reset \in {None, req'[t].seen.reset} \/ ResetRaced'
      <3>1. Working(t)'
        BY <2>2 DEF Working, UserOps, OnUser
      <3>2. CASE req'[t] = req[t]
        BY <2>1, <2>2, <3>2 DEF ResetInv, ResetRaced
      <3>3. CASE Enters(t)
        BY <2>1, <2>2, <3>3 DEF Enters
      <3> QED BY <1>1, <3>1, <3>2, <3>3, QuietRequests
    <2>3. ASSUME NEW t \in Requests, Mailing(t)'
          PROVE  user'.reset = req'[t].no \/ ResetRaced'
      <3>1. Mailing(t) /\ req'[t] = req[t]
        BY <1>1, <2>3 DEF Quiet, Mailing
      <3> QED BY <2>1, <3>1 DEF ResetInv, ResetRaced
    <2>4. user'.reset \in {told'.reset} \cup (Numbers \ mailed') \/ ResetRaced'
      <3>1. CASE mailed' = mailed /\ told'.reset = told.reset
        BY <2>1, <3>1 DEF ResetInv, ResetRaced
      <3>2. ASSUME NEW r \in Requests, Mailing(r), told'.reset = req[r].no
            PROVE  user'.reset = told'.reset \/ ResetRaced'
        BY <2>1, <3>2 DEF ResetInv, ResetRaced
      <3> QED BY <1>1, <3>1, <3>2 DEF Quiet
    <2> QED BY <2>2, <2>3, <2>4 DEF ResetInv
  <1>2. ASSUME NEW r \in Requests, NEW s \in Sessions, Commit(r, s)
        PROVE  ResetInv'
    <2>1. /\ ResetRaced => ResetRaced'
          /\ mailed' = mailed /\ req[r].no \in Numbers \ mailed
      BY <1>2, CommitRequests, WorkingType DEF ResetRaced, TypeInv, MailInv
    <2>2. mailed \subseteq Numbers /\ None \notin Numbers
      BY AccountsAssumption DEF TypeInv, TypeOK
    <2>3. user'.reset \in {told'.reset} \cup (Numbers \ mailed') \/ ResetRaced'
      <3>1. CASE req[r].op = "forgot"
        BY <1>2, <2>1, <3>1, ResetWritten
      <3>2. CASE req[r].op = "reset"
        <4>1. /\ user'.reset = None
              /\ told'.reset = IF told.reset = req[r].seen.reset THEN None
                               ELSE told.reset
          BY <1>2, <2>2, <3>2, ResetWritten DEF ResetInv
        <4>2. told.reset \in {None, req[r].seen.reset} \/ ResetRaced
          BY <2>2, <3>2 DEF ResetInv
        <4> QED BY <2>1, <4>1, <4>2
      <3>3. CASE req[r].op \notin {"forgot", "reset"}
        BY <1>2, <2>1, <3>3, ResetWritten DEF ResetInv
      <3> QED BY <3>1, <3>2, <3>3
    <2>4. ASSUME NEW t \in Requests, req'[t].op = "reset"
          PROVE  /\ req'[t].seen.reset \in mailed'
                 /\ user'.reset \in {None, req'[t].seen.reset} \/ ResetRaced'
      <3>1. Working(t)'
        BY <2>4 DEF Working, UserOps, OnUser
      <3>2. /\ req'[t] = req[t]
            /\ req[r].op = "forgot" => {"forgot", "reset"} \in raced'
        BY <1>2, <2>4, <3>1, BesideCommit DEF OnUser
      <3>3. CASE req[r].op = "forgot"
        BY <2>1, <2>4, <3>2, <3>3 DEF ResetInv, ResetRaced
      <3>4. CASE req[r].op # "forgot"
        <4>1. user'.reset \in {None, user.reset}
          BY <1>2, <2>2, <3>4, ResetWritten DEF ResetInv
        <4> QED BY <2>1, <2>4, <3>2, <4>1 DEF ResetInv
      <3> QED BY <3>3, <3>4
    <2>5. ASSUME NEW t \in Requests, Mailing(t)'
          PROVE  user'.reset = req'[t].no \/ ResetRaced'
      <3>1. CASE t = r
        <4>1. req[r].op = "forgot" /\ req'[r].no = req[r].no
          BY <1>2, <2>5, <3>1, CommitRequests, OpsDiffer DEF Mailing, TypeInv
        <4> QED BY <1>2, <3>1, <4>1, ResetWritten
      <3>2. CASE t # r
        <4>1. /\ Mailing(t) /\ req'[t] = req[t]
              /\ req[r].op \in {"forgot", "reset"}
                   => {req[r].op, "forgot"} \in raced'
          BY <1>2, <2>5, <3>2, CommitRequests DEF Mailing, TypeInv, OnUser
        <4>2. CASE req[r].op = "forgot"
          <5>1. {"forgot", "forgot"} = {"forgot"}
            OBVIOUS
          <5> QED BY <4>1, <4>2, <5>1 DEF ResetRaced
        <4>3. CASE req[r].op = "reset"
          BY <4>1, <4>3 DEF ResetRaced
        <4>4. CASE req[r].op \notin {"forgot", "reset"}
          BY <1>2, <2>1, <4>1, <4>4, ResetWritten DEF ResetInv
        <4> QED BY <4>2, <4>3, <4>4
      <3> QED BY <3>1, <3>2
    <2> QED BY <2>3, <2>4, <2>5 DEF ResetInv
  <1> QED
    BY <1>1, <1>2

-----------------------------------------------------------------------------
(* The backup codes *)

CodesRaced ==
    {{"backup"}, {"backup", "verify"}, {"backup", "disable"}} \cap raced # {}

\* The use of a code that loaded another list than there is now has been
\* overlapped by a request that wrote it. An enabled second factor has a
\* list, and so has one that is being disabled.
CodesInv ==
    /\ user.codes # told.codes => CodesRaced
    /\ user.enabled = TRUE => user.codes # None
    /\ \A r \in Requests :
         /\ req[r].op = "disable" => req[r].seen.codes # None
         /\ req[r].op = "backup" /\ user.codes # req[r].seen.codes => CodesRaced

LEMMA CodesStep ==
    ASSUME TypeInv, TypeInv', NumberInv, CodesInv,
           \A r \in Requests : req[r].op = "disable" => req[r].seen.enabled = TRUE,
           Quiet \/ \E r \in Requests, s \in Sessions : Commit(r, s)
    PROVE  CodesInv'
  <1>1. CASE Quiet
    <2>1. user' = user /\ told'.codes = told.codes /\ raced' = raced
      BY <1>1 DEF Quiet
    <2>2. ASSUME NEW t \in Requests, req'[t].op \in {"disable", "backup"}
          PROVE  /\ req'[t].op = "disable" => req'[t].seen.codes # None
                 /\ req'[t].op = "backup" /\ user'.codes # req'[t].seen.codes
                      => CodesRaced'
      <3>1. Working(t)'
        BY <2>2 DEF Working, UserOps, OnUser
      <3>2. CASE req'[t] = req[t]
        BY <2>1, <2>2, <3>2 DEF CodesInv, CodesRaced
      <3>3. CASE Enters(t)
        BY <2>1, <2>2, <3>3 DEF Enters, CodesInv
      <3> QED BY <1>1, <3>1, <3>2, <3>3, QuietRequests
    <2> QED BY <2>1, <2>2 DEF CodesInv, CodesRaced
  <1>2. ASSUME NEW r \in Requests, NEW s \in Sessions, Commit(r, s)
        PROVE  CodesInv'
    <2>1. CodesRaced => CodesRaced'
      BY <1>2, CommitRequests DEF CodesRaced, TypeInv
    <2>2. req[r].op = "backup" => CodesOf(req[r].seen) = req[r].seen.codes
      BY DEF TypeInv, CodeInv, CodesOf
    <2>3. user'.codes # told'.codes => CodesRaced'
      <3>1. CASE req[r].op = "backup"
        <4>1. /\ user'.codes = req[r].seen.codes \ {req[r].code}
              /\ told'.codes = CodesOf(told) \ {req[r].code}
          BY <1>2, <3>1, CodesWritten
        <4>2. CASE user.codes = req[r].seen.codes /\ user.codes = told.codes
          <5>1. CodesOf(told) = req[r].seen.codes
            BY <2>2, <3>1, <4>2 DEF CodesOf
          <5> QED BY <4>1, <5>1
        <4>3. CASE ~(user.codes = req[r].seen.codes /\ user.codes = told.codes)
          BY <2>1, <3>1, <4>3 DEF CodesInv
        <4> QED BY <4>2, <4>3
      <3>2. CASE req[r].op # "backup"
        BY <1>2, <2>1, <3>2, CodesWritten DEF CodesInv
      <3> QED BY <3>1, <3>2
    <2>4. user'.enabled = TRUE => user'.codes # None
      <3>1. CASE req[r].op \in {"verify", "backup"}
        <4>1. user'.codes \in SUBSET Codes
          <5>1. CASE req[r].op = "verify"
            <6>1. req[r].no \in Numbers
              BY <1>2, CommitRequests, WorkingType DEF TypeInv
            <6>2. user'.codes = {req[r].no} \X Slots
              BY <1>2, <5>1, CodesWritten
            <6> QED BY <6>1, <6>2 DEF Codes
          <5>2. CASE req[r].op = "backup"
            <6>1. req[r].seen \in User
              BY <1>2, CommitRequests, WorkingType DEF TypeInv
            <6> QED BY <1>2, <2>2, <5>2, <6>1, CodesWritten DEF CodesOf, User
          <5> QED BY <3>1, <5>1, <5>2
        <4> QED BY <4>1, AccountsAssumption
      <3>2. CASE req[r].op = "disable"
        BY <1>2, <3>2, EnabledWritten
      <3>3. CASE req[r].op \notin {"verify", "backup", "disable"}
        BY <1>2, <3>3, EnabledWritten, CodesWritten DEF CodesInv
      <3> QED BY <3>1, <3>2, <3>3
    <2>5. ASSUME NEW t \in Requests, req'[t].op = "disable"
          PROVE  req'[t].seen.codes # None
      <3>1. Working(t)'
        BY <2>5 DEF Working, UserOps, OnUser
      <3> QED BY <1>2, <2>5, <3>1, BesideCommit DEF CodesInv
    <2>6. ASSUME NEW t \in Requests, req'[t].op = "backup",
                 user'.codes # req'[t].seen.codes
          PROVE  CodesRaced'
      <3>1. Working(t)'
        BY <2>6 DEF Working, UserOps, OnUser
      <3>2. /\ req'[t] = req[t]
            /\ req[r].op \in {"verify", "disable", "backup"}
                 => {req[r].op, "backup"} \in raced'
        BY <1>2, <2>6, <3>1, BesideCommit DEF OnUser
      <3>3. CASE req[r].op \in {"verify", "disable", "backup"}
        BY <3>2, <3>3 DEF CodesRaced
      <3>4. CASE req[r].op \notin {"verify", "disable", "backup"}
        BY <1>2, <2>1, <2>6, <3>2, <3>4, CodesWritten DEF CodesInv
      <3> QED BY <3>3, <3>4
    <2> QED BY <2>3, <2>4, <2>5, <2>6 DEF CodesInv
  <1> QED
    BY <1>1, <1>2

-----------------------------------------------------------------------------
(* The second factor *)

VerifyRaced == {"verify", "disable"} \in raced
WholeRaced == {{"verify", "disable"}, {"backup", "disable"}} \cap raced # {}

\* A verification that finds the secret gone, or the factor disabled, was
\* overlapped by the disabling; and so was the use of a code.
WholeInv ==
    /\ user.enabled = TRUE /\ user.secret = None => VerifyRaced
    /\ user.enabled # TRUE /\ user.codes # None => WholeRaced
    /\ \A r \in Requests :
         /\ req[r].op = "verify" =>
              /\ req[r].seen.secret # None
              /\ user.secret = None => VerifyRaced
              /\ req[r].seen.enabled = TRUE /\ user.enabled # TRUE => VerifyRaced
         /\ req[r].op = "backup" /\ user.enabled # TRUE => WholeRaced
         /\ req[r].op = "disable" => req[r].seen.enabled = TRUE

\* The part of it about one request.
WholeFor(r) ==
    /\ req[r].op = "verify" =>
         /\ req[r].seen.secret # None
         /\ user.secret = None => VerifyRaced
         /\ req[r].seen.enabled = TRUE /\ user.enabled # TRUE => VerifyRaced
    /\ req[r].op = "backup" /\ user.enabled # TRUE => WholeRaced
    /\ req[r].op = "disable" => req[r].seen.enabled = TRUE

LEMMA WholeStep ==
    ASSUME TypeInv, NumberInv, CodesInv, WholeInv,
           Quiet \/ \E r \in Requests, s \in Sessions : Commit(r, s)
    PROVE  WholeInv'
  <1>0. \A t \in Requests : WholeFor(t)
    BY DEF WholeInv, WholeFor
  <1>1. CASE Quiet
    <2>1. user' = user /\ raced' = raced
      BY <1>1 DEF Quiet
    <2>2. ASSUME NEW t \in Requests, Working(t)'
          PROVE  WholeFor(t)'
      <3>1. CASE req'[t] = req[t]
        BY <1>0, <2>1, <3>1 DEF WholeFor, VerifyRaced, WholeRaced
      <3>2. CASE Enters(t)
        BY <2>1, <3>2 DEF Enters, WholeInv, WholeFor, WholeRaced, CodesOf
      <3> QED BY <1>1, <2>2, <3>1, <3>2, QuietRequests
    <2>3. \A t \in Requests : ~Working(t)' => WholeFor(t)'
      BY DEF Working, WholeFor, UserOps, OnUser
    <2> QED BY <2>1, <2>2, <2>3 DEF WholeInv, WholeFor, VerifyRaced, WholeRaced
  <1>2. ASSUME NEW r \in Requests, NEW s \in Sessions, Commit(r, s)
        PROVE  WholeInv'
    <2>1. (VerifyRaced => VerifyRaced') /\ (WholeRaced => WholeRaced')
      BY <1>2, CommitRequests DEF VerifyRaced, WholeRaced, TypeInv
    <2>2. VerifyRaced => WholeRaced
      BY DEF VerifyRaced, WholeRaced
    <2>3. /\ req[r].op = "setup" => user'.secret # None
          /\ req[r].op \notin {"setup", "disable"} => user'.secret = user.secret
      BY <1>2, SecretWritten, CommitRequests, WorkingType, AccountsAssumption
         DEF TypeInv
    <2>4. WholeFor(r)
      BY <1>0
    <2>5. req[r].op = "disable" => user'.enabled = FALSE /\ user'.codes = None
      BY <1>2, <2>4, EnabledWritten, CodesWritten DEF WholeFor, CodesInv
    <2>6. user'.enabled = TRUE /\ user'.secret = None => VerifyRaced'
      <3>1. CASE req[r].op = "verify"
        BY <2>1, <2>3, <2>4, <3>1 DEF WholeFor
      <3>2. CASE req[r].op = "disable"
        BY <2>5, <3>2
      <3>3. CASE req[r].op \notin {"verify", "disable"}
        <4>1. user'.enabled = user.enabled
          BY <1>2, <3>3, EnabledWritten
        <4> QED BY <2>1, <2>3, <3>3, <4>1 DEF WholeInv
      <3> QED BY <3>1, <3>2, <3>3
    <2>7. user'.enabled # TRUE /\ user'.codes # None => WholeRaced'
      <3>1. CASE req[r].op = "verify"
        <4>1. user'.enabled # TRUE =>
                user.enabled # TRUE /\ req[r].seen.enabled = TRUE
          BY <1>2, <3>1, EnabledWritten
        <4> QED BY <2>1, <2>2, <2>4, <3>1, <4>1 DEF WholeFor
      <3>2. CASE req[r].op = "disable"
        BY <2>5, <3>2
      <3>3. CASE req[r].op \notin {"verify", "disable"}
        <4>1. user'.enabled = user.enabled
          BY <1>2, <3>3, EnabledWritten
        <4>2. CASE req[r].op = "backup"
          BY <2>1, <2>4, <4>1, <4>2 DEF WholeFor
        <4>3. CASE req[r].op # "backup"
          <5>1. user'.codes = user.codes
            BY <1>2, <3>3, <4>3, CodesWritten
          <5> QED BY <2>1, <4>1, <5>1 DEF WholeInv
        <4> QED BY <4>2, <4>3
      <3> QED BY <3>1, <3>2, <3>3
    <2>8. ASSUME NEW t \in Requests, Working(t)'
          PROVE  WholeFor(t)'
      <3>1. /\ req'[t] = req[t] /\ WholeFor(t)
            /\ req[t].op \in {"verify", "backup"} /\ req[r].op = "disable"
                 => {"disable", req[t].op} \in raced'
        BY <1>0, <1>2, <2>8, BesideCommit DEF OnUser
      <3>2. CASE req[r].op = "disable"
        <4>1. /\ req[t].op = "verify" => VerifyRaced'
              /\ req[t].op = "backup" => WholeRaced'
          BY <3>1, <3>2 DEF VerifyRaced, WholeRaced
        <4> QED BY <3>1, <4>1 DEF WholeFor
      <3>3. CASE req[r].op # "disable"
        <4>1. user'.secret = None => user.secret = None
          BY <2>3, <3>3
        <4>2. user'.enabled # TRUE => user.enabled # TRUE
          BY <1>2, <3>3, EnabledWritten
        <4> QED BY <2>1, <3>1, <4>1, <4>2 DEF WholeFor
      <3> QED BY <3>2, <3>3
    <2>9. \A t \in Requests : ~Working(t)' => WholeFor(t)'
      BY DEF Working, WholeFor, UserOps, OnUser
    <2> QED BY <2>6, <2>7, <2>8, <2>9 DEF WholeInv, WholeFor
  <1> QED
    BY <1>1, <1>2

-----------------------------------------------------------------------------
(* Codes that were used *)

OnceRaced == {"backup"} \in raced

\* A used code is in the list, or in one that was loaded to use another, only
\* if two codes were used at once. The number of a request that works is on
\* no code yet, so that a verification makes new ones.
SpentInv ==
    /\ spent.again # {} => OnceRaced
    /\ CodesOf(user) \cap spent.once # {} => OnceRaced
    /\ \A c \in spent.once : c[1] < served + 1
    /\ \A r \in Requests : Working(r) =>
         /\ \A c \in spent.once \cup CodesOf(user) : c[1] # req[r].no
         /\ \A t \in Requests : Working(t) =>
              \A c \in CodesOf(req[t].seen) : c[1] # req[r].no
    /\ \A r \in Requests : req[r].op = "backup" =>
         (CodesOf(req[r].seen) \cap spent.once # {} => OnceRaced)

LEMMA SpentQuiet ==
    ASSUME TypeInv, NumberInv, SpentInv, Quiet
    PROVE  SpentInv'
  <1>1. user' = user /\ spent' = spent /\ raced' = raced
    BY DEF Quiet
  <1>2. /\ served \in Nat /\ served' \in {served, served + 1}
        /\ \A c \in Codes : c[1] \in Nat
    BY AccountsAssumption DEF TypeInv, TypeOK, Quiet, Codes, Numbers
  <1>3. spent.once \subseteq Codes /\ CodesOf(user) \subseteq Codes
    BY DEF TypeInv, TypeOK, User, CodesOf
  <1>4. \A t \in Requests : Working(t) =>
          /\ req[t].no \in Nat /\ CodesOf(req[t].seen) \subseteq Codes
          /\ req[t].no < served + 1
          /\ \A c \in CodesOf(req[t].seen) : c[1] < req[t].no
    <2> SUFFICES ASSUME NEW t \in Requests, Working(t)
                 PROVE  /\ req[t].no \in Nat /\ CodesOf(req[t].seen) \subseteq Codes
                        /\ req[t].no < served + 1
                        /\ \A c \in CodesOf(req[t].seen) : c[1] < req[t].no
      OBVIOUS
    <2>1. req[t].no \in Nat /\ req[t].seen \in User
      BY WorkingType DEF TypeInv, Numbers
    <2> QED BY <2>1 DEF NumberInv, Older, User, CodesOf
  <1>5. \A c \in spent.once \cup CodesOf(user) : c[1] < served + 1
    BY DEF SpentInv, NumberInv, Older
  <1>6. ASSUME NEW r \in Requests, Working(r)'
        PROVE  \A c \in spent.once \cup CodesOf(user) : c[1] # req'[r].no
    <2>1. CASE Working(r) /\ req'[r] = req[r]
      BY <2>1 DEF SpentInv
    <2>2. CASE Enters(r)
      <3>1. req'[r].no = served + 1
        BY <2>2 DEF Enters
      <3> QED BY <1>2, <1>3, <1>5, <3>1
    <2> QED BY <1>6, <2>1, <2>2, QuietRequests
  <1>7. ASSUME NEW r \in Requests, Working(r)', NEW t \in Requests, Working(t)',
               NEW c \in CodesOf(req'[t].seen)
        PROVE  c[1] # req'[r].no
    <2>1. CASE Working(t) /\ req'[t] = req[t]
      <3>1. CASE Working(r) /\ req'[r] = req[r]
        BY <1>7, <2>1, <3>1 DEF SpentInv
      <3>2. CASE Enters(r)
        <4>1. req'[r].no = served + 1
          BY <3>2 DEF Enters
        <4>2. c[1] < req[t].no /\ req[t].no < served + 1 /\ c[1] \in Nat
              /\ req[t].no \in Nat
          BY <1>2, <1>4, <1>7, <2>1
        <4> QED BY <1>2, <4>1, <4>2
      <3> QED BY <1>7, <3>1, <3>2, QuietRequests
    <2>2. CASE Enters(t)
      BY <1>6, <1>7, <2>2 DEF Enters
    <2> QED BY <1>7, <2>1, <2>2, QuietRequests
  <1>8. ASSUME NEW r \in Requests, req'[r].op = "backup",
               CodesOf(req'[r].seen) \cap spent.once # {}
        PROVE  OnceRaced
    <2>1. Working(r)'
      BY <1>8 DEF Working, UserOps, OnUser
    <2>2. CASE req'[r] = req[r]
      BY <1>8, <2>2 DEF SpentInv
    <2>3. CASE Enters(r)
      BY <1>8, <2>3 DEF Enters, SpentInv
    <2> QED BY <2>1, <2>2, <2>3, QuietRequests
  <1>9. CodesOf(user)' = CodesOf(user)
    BY <1>1 DEF CodesOf
  <1>10. OnceRaced' = OnceRaced
    BY <1>1 DEF OnceRaced
  <1>11. \A c \in spent.once : c[1] < served' + 1
    BY <1>2, <1>3, <1>5
  <1>12. \A r \in Requests : Working(r)' =>
           /\ \A c \in spent.once \cup CodesOf(user) : c[1] # req'[r].no
           /\ \A t \in Requests : Working(t)' =>
                \A c \in CodesOf(req'[t].seen) : c[1] # req'[r].no
    BY <1>6, <1>7
  <1>13. \A r \in Requests : req'[r].op = "backup" =>
           (CodesOf(req'[r].seen) \cap spent.once # {} => OnceRaced)
    BY <1>8
  <1> QED
    BY <1>1, <1>9, <1>10, <1>11, <1>12, <1>13 DEF SpentInv, CodesOf

LEMMA SpentCommit ==
    ASSUME TypeInv, NumberInv, CodesInv, SpentInv,
           NEW r \in Requests, NEW s \in Sessions, Commit(r, s)
    PROVE  SpentInv'
  <1>1. /\ Working(r) /\ served' = served
        /\ (OnceRaced => OnceRaced')
    BY CommitRequests DEF OnceRaced, TypeInv
  <1>2. /\ req[r].no \in Nat /\ served \in Nat
        /\ req[r].no < served + 1 /\ Older(req[r].seen, req[r].no)
    BY <1>1, WorkingType, AccountsAssumption
       DEF TypeInv, TypeOK, NumberInv, Numbers
  <1>3. req[r].op = "backup" =>
          /\ CodesOf(req[r].seen) = req[r].seen.codes
          /\ req[r].code \in CodesOf(req[r].seen)
          /\ req[r].code \in Codes
    BY <1>1, WorkingType DEF TypeInv, CodeInv, CodesOf, User
  <1>4. /\ req[r].op # "backup" => spent' = spent
        /\ req[r].op = "backup" =>
             /\ spent'.once = spent.once \cup {req[r].code}
             /\ spent'.again = spent.again \cup (spent.once \cap {req[r].code})
    BY DEF Commit
  <1>5. /\ req[r].op = "backup" =>
             CodesOf(user') = CodesOf(req[r].seen) \ {req[r].code}
        /\ req[r].op = "verify" => CodesOf(user') = {req[r].no} \X Slots
        /\ req[r].op = "disable" => CodesOf(user') = {}
        /\ req[r].op \notin {"backup", "verify", "disable"} =>
             CodesOf(user') = CodesOf(user)
    <2>1. CASE req[r].op = "backup"
      <3>1. user'.codes = CodesOf(req[r].seen) \ {req[r].code}
        BY <1>3, <2>1, CodesWritten
      <3>2. user'.codes \in SUBSET Codes
        BY <1>1, <3>1, WorkingType DEF TypeInv, CodesOf, User
      <3>3. user'.codes # None
        BY <3>2, AccountsAssumption
      <3>4. CodesOf(user') = user'.codes
        BY <3>3 DEF CodesOf
      <3> QED BY <2>1, <3>1, <3>4
    <2>2. CASE req[r].op = "verify"
      <3>1. user'.codes = {req[r].no} \X Slots
        BY <2>2, CodesWritten
      <3>2. user'.codes \in SUBSET Codes
        BY <1>1, <3>1, WorkingType DEF TypeInv, Codes
      <3>3. user'.codes # None
        BY <3>2, AccountsAssumption
      <3> QED BY <2>2, <3>1, <3>3 DEF CodesOf
    <2>3. CASE req[r].op = "disable"
      <3>1. user'.codes = None
        BY <2>3, CodesWritten DEF CodesInv
      <3> QED BY <2>3, <3>1 DEF CodesOf
    <2>4. CASE req[r].op \notin {"backup", "verify", "disable"}
      <3>1. user'.codes = user.codes
        BY <2>4, CodesWritten
      <3> QED BY <2>4, <3>1 DEF CodesOf
    <2> QED BY <2>1, <2>2, <2>3, <2>4
  <1>6. req[r].op = "backup" =>
          (CodesOf(req[r].seen) \cap spent.once # {} => OnceRaced)
    BY DEF SpentInv
  <1>7. spent'.again # {} => OnceRaced'
    <2>1. CASE req[r].op = "backup"
      <3>1. spent'.again # {} => spent.again # {} \/ req[r].code \in spent.once
        BY <1>4, <2>1
      <3> QED BY <1>1, <1>3, <1>6, <2>1, <3>1 DEF SpentInv
    <2>2. CASE req[r].op # "backup"
      BY <1>1, <1>4, <2>2 DEF SpentInv
    <2> QED BY <2>1, <2>2
  <1>8. CodesOf(user') \cap spent'.once # {} => OnceRaced'
    <2>1. CASE req[r].op = "backup"
      <3>1. CodesOf(user') \cap spent'.once \subseteq CodesOf(req[r].seen) \cap spent.once
        BY <1>4, <1>5, <2>1
      <3> QED BY <1>1, <1>6, <2>1, <3>1
    <2>2. CASE req[r].op = "verify"
      <3>1. \A c \in spent.once : c[1] # req[r].no
        BY <1>1 DEF SpentInv
      <3>2. \A c \in CodesOf(user') : c[1] = req[r].no
        BY <1>5, <2>2
      <3> QED BY <1>4, <2>2, <3>1, <3>2
    <2>3. CASE req[r].op = "disable"
      BY <1>5, <2>3
    <2>4. CASE req[r].op \notin {"backup", "verify", "disable"}
      BY <1>1, <1>4, <1>5, <2>4 DEF SpentInv
    <2> QED BY <2>1, <2>2, <2>3, <2>4
  <1>9. \A c \in spent'.once : c[1] < served' + 1
    <2>1. CASE req[r].op = "backup"
      <3>1. req[r].code[1] < req[r].no
        BY <1>2, <1>3, <2>1 DEF Older
      <3>2. req[r].code[1] \in Nat
        BY <1>3, <2>1 DEF Codes, Numbers
      <3>3. req[r].code[1] < served + 1
        BY <1>2, <3>1, <3>2
      <3> QED BY <1>1, <1>4, <2>1, <3>3 DEF SpentInv
    <2>2. CASE req[r].op # "backup"
      BY <1>1, <1>4, <2>2 DEF SpentInv
    <2> QED BY <2>1, <2>2
  <1>10. \A t \in Requests : Working(t)' =>
           Working(t) /\ req'[t] = req[t] /\ t # r /\ req[t].no # req[r].no
    BY <1>1, BesideCommit DEF NumberInv
  <1>11. ASSUME NEW t \in Requests, Working(t)',
                NEW c \in spent'.once \cup CodesOf(user')
         PROVE  c[1] # req'[t].no
    <2>1. Working(t) /\ req'[t] = req[t] /\ req[t].no # req[r].no
      BY <1>10, <1>11
    <2>2. c \in spent.once \cup CodesOf(user) \cup CodesOf(req[r].seen)
            \/ c[1] = req[r].no
      BY <1>3, <1>4, <1>5, <1>11
    <2> QED BY <1>1, <2>1, <2>2 DEF SpentInv
  <1>12. ASSUME NEW t \in Requests, Working(t)', NEW v \in Requests, Working(v)',
                NEW c \in CodesOf(req'[v].seen)
         PROVE  c[1] # req'[t].no
    BY <1>10, <1>12 DEF SpentInv
  <1>13. ASSUME NEW t \in Requests, req'[t].op = "backup",
                CodesOf(req'[t].seen) \cap spent'.once # {}
         PROVE  OnceRaced'
    <2>1. Working(t)'
      BY <1>13 DEF Working, UserOps, OnUser
    <2>2. /\ req'[t] = req[t]
          /\ req[r].op = "backup" => {"backup", "backup"} \in raced'
      BY <1>13, <2>1, BesideCommit DEF OnUser
    <2>3. CASE req[r].op = "backup"
      <3>1. {"backup", "backup"} = {"backup"}
        OBVIOUS
      <3> QED BY <2>2, <2>3, <3>1 DEF OnceRaced
    <2>4. CASE req[r].op # "backup"
      BY <1>1, <1>4, <1>13, <2>2, <2>4 DEF SpentInv
    <2> QED BY <2>3, <2>4
  <1>14. \A t \in Requests : Working(t)' =>
           /\ \A c \in spent'.once \cup CodesOf(user') : c[1] # req'[t].no
           /\ \A v \in Requests : Working(v)' =>
                \A c \in CodesOf(req'[v].seen) : c[1] # req'[t].no
    BY <1>11, <1>12
  <1>15. \A t \in Requests : req'[t].op = "backup" =>
           (CodesOf(req'[t].seen) \cap spent'.once # {} => OnceRaced')
    BY <1>13
  <1> QED
    BY <1>7, <1>8, <1>9, <1>14, <1>15 DEF SpentInv, CodesOf

-----------------------------------------------------------------------------
(* The invariant and what follows from it *)

AccountInv == /\ TypeInv /\ NumberInv /\ MailInv /\ SecretInv /\ ResetInv
              /\ CodesInv /\ WholeInv /\ SpentInv

LEMMA AccountInductive ==
    /\ Init => AccountInv
    /\ AccountInv /\ [Next]_vars => AccountInv'
  <1>1. ASSUME Init
        PROVE  AccountInv
    <2>1. TypeInv
      BY <1>1, InitType
    <2>2. \A r \in Requests : ~Working(r)
      BY <1>1, NobodyWorksYet
    <2>3. \A r \in Requests : req[r].op \notin OnUser
      BY <2>2, OnUserWorks
    <2>4. /\ user.secret = None /\ user.enabled = FALSE /\ user.codes = None
          /\ user.reset = None /\ told = user /\ mailed = {}
          /\ spent.once = {} /\ spent.again = {}
      BY <1>1 DEF Init
    <2>5. CodesOf(user) = {}
      BY <2>4 DEF CodesOf
    <2>6. NumberInv
      BY <2>2, <2>4, <2>5 DEF NumberInv, Older
    <2>7. SecretInv /\ ResetInv /\ MailInv
      <3>1. \A r \in Requests : ~Mailing(r)
        BY <1>1 DEF Init, Mailing, Idle
      <3> QED
        BY <2>2, <2>3, <2>4, <3>1 DEF SecretInv, ResetInv, MailInv, OnUser
    <2>8. user.enabled # TRUE
      BY <2>4
    <2>9. CodesInv /\ WholeInv
      BY <2>3, <2>4, <2>8 DEF CodesInv, WholeInv, OnUser
    <2>10. SpentInv
      BY <2>2, <2>3, <2>4, <2>5 DEF SpentInv, OnUser
    <2> QED BY <2>1, <2>6, <2>7, <2>9, <2>10 DEF AccountInv
  <1>2. ASSUME AccountInv, [Next]_vars
        PROVE  AccountInv'
    <2>1. /\ TypeInv'
          /\ Quiet \/ \E r \in Requests, s \in Sessions : Commit(r, s)
      BY <1>2, StepCases DEF AccountInv
    <2>2. NumberInv'
      BY <1>2, <2>1, NumberStep DEF AccountInv
    <2>3. SecretInv' /\ MailInv' /\ ResetInv'
      BY <1>2, <2>1, SecretStep, MailStep, ResetStep DEF AccountInv
    <2>4. \A r \in Requests : req[r].op = "disable" => req[r].seen.enabled = TRUE
      BY <1>2 DEF AccountInv, WholeInv
    <2>5. CodesInv'
      BY <1>2, <2>1, <2>4, CodesStep DEF AccountInv
    <2>6. WholeInv'
      BY <1>2, <2>1, WholeStep DEF AccountInv
    <2>7. SpentInv'
      BY <1>2, <2>1, SpentQuiet, SpentCommit DEF AccountInv
    <2> QED BY <2>1, <2>2, <2>3, <2>5, <2>6, <2>7 DEF AccountInv
  <1> QED
    BY <1>1, <1>2

\* Half a second factor takes a disabling that overlaps a verification, or
\* the use of a backup code (verify_2fa_setup, disable_2fa, complete_2fa).
THEOREM SecondFactorStaysWhole == Spec => []SecondFactorIsWhole
  <1>1. AccountInv => SecondFactorIsWhole
    <2> SUFFICES ASSUME AccountInv PROVE SecondFactorIsWhole
      OBVIOUS
    <2>1. user.enabled \in BOOLEAN
      BY DEF AccountInv, TypeInv, TypeOK, User
    <2>2. CASE user.enabled
      BY <2>1, <2>2 DEF AccountInv, WholeInv, CodesInv, VerifyRaced,
                        SecondFactorIsWhole
    <2>3. CASE ~user.enabled
      BY <2>1, <2>3 DEF AccountInv, WholeInv, WholeRaced, SecondFactorIsWhole
    <2> QED BY <2>2, <2>3
  <1> QED
    BY <1>1, AccountInductive, PTL DEF Spec

\* The rewriting of a list that another request has read is the only cause of
\* a second use: were a user's requests served one at a time, every backup code
\* would complete one login, whatever else happens to the lists between
\* (totp_complete, totp_disable, totp_verify_setup).
THEOREM OneAtATimeUsesCodesOnce ==
    ASSUME \A r, t \in Requests : r = t
    PROVE  Spec => []BackupCodesOnce
  <1>1. Init => raced = {}
    BY DEF Init
  <1>2. TypeInv /\ raced = {} /\ [Next]_vars => (raced = {})'
    <2> SUFFICES ASSUME TypeInv, raced = {}, [Next]_vars
                 PROVE  raced' = {}
      OBVIOUS
    <2>1. ASSUME NEW r \in Requests, NEW s \in Sessions, Commit(r, s)
          PROVE  raced' = {}
      <3>1. Overlaps(r) = {}
        BY DEF Overlaps
      <3> QED BY <2>1, <3>1 DEF Commit
    <2>2. CASE Quiet
      BY <2>2 DEF Quiet
    <2> QED BY <2>1, <2>2, StepCases
  <1>3. AccountInv /\ raced = {} => BackupCodesOnce
    BY DEF AccountInv, SpentInv, OnceRaced, BackupCodesOnce
  <1>4. AccountInv => TypeInv
    BY DEF AccountInv
  <1> QED
    BY <1>1, <1>2, <1>3, <1>4, AccountInductive, PTL DEF Spec

\* The secret shown and the codes issued and not used stay good, unless
\* requests about them overlap. So does the link mailed last and not followed,
\* unless the row has the token of a link that was not mailed (forgot_password
\* commits before it mails, and may fail to), or requests for links overlapped.
\* Logins, refreshes and requests about other columns never matter, whenever
\* they commit.
THEOREM LastAnswersHold == Spec => []LastAnswerHolds
  <1>1. AccountInv => LastAnswerHolds
    BY DEF AccountInv, SecretInv, SecretRaced, ResetInv, ResetRaced, CodesInv,
           CodesRaced, LastAnswerHolds
  <1> QED
    BY <1>1, AccountInductive, PTL DEF Spec
=============================================================================
