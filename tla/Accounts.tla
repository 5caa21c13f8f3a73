------------------------------- MODULE Accounts -------------------------------
(***************************************************************************)
(* One user's account under auth.py: the sessions that logins create and   *)
(* refreshes use, the second factor with its backup codes, and the mailed  *)
(* links that reset the password.                                          *)
(*                                                                         *)
(* A handler loads the user's row or rows of user_sessions, checks them,   *)
(* changes the objects and commits; none locks what it reads. A request is *)
(* therefore its load and its commit, and the commit writes what           *)
(* UnitOfWork says. The n-th request makes the secret, the codes or the    *)
(* token numbered n.                                                       *)
(***************************************************************************)
EXTENDS Naturals, FiniteSets, UnitOfWork

CONSTANTS
    Sessions,     \* rows of user_sessions
    Requests,     \* requests that may run at once
    Slots,        \* the backup codes of one verify-setup, 8 in the code
    MaxServed,    \* bound on the requests served
    None          \* NULL

VARIABLES
    user,      \* the user's row
    session,   \* user_sessions, by whether is_revoked
    pending,   \* a login has been answered with a token for /2fa/complete
    req,       \* requests between their load and their commit
    served,
    mailed,    \* reset tokens whose link has been mailed
    told,      \* the row as the answers and the mails to the user describe it
    spent,     \* backup codes that completed a login, once and again
    raced      \* the operations that overlapped on the user's row

vars == <<user, session, pending, req, served, mailed, told, spent, raced>>

Numbers == 1..MaxServed
Codes == Numbers \X Slots
User == [secret : Numbers \cup {None}, enabled : BOOLEAN,
         codes : (SUBSET Codes) \cup {None}, reset : Numbers \cup {None}]

ASSUME AccountsAssumption ==
    /\ MaxServed \in Nat /\ Slots # {}
    /\ None \notin Numbers /\ \A C \in SUBSET Codes : C # None

OnUser == {"setup", "verify", "disable", "backup", "forgot", "reset"}
OnSession == {"refresh", "revoke"}
Logins == {"login", "code", "backup"}
Idle == [op |-> "none"]
\* "other" is a request about other columns: the profile, the password, the
\* verification of the e-mail address.
UserOps == OnUser \cup Logins \cup {"other"}
UserRequest == [op : UserOps, no : Numbers, seen : User,
                code : Codes \cup {None}]
SessionRequest ==
    [op : OnSession, seen : [Sessions -> {"none", "active", "revoked"}],
     rows : SUBSET Sessions]
\* A forgotten password's token is committed, and its mail not yet sent.
MailRequest == [op : {"mail"}, no : Numbers]

CodesOf(u) == IF u.codes = None THEN {} ELSE u.codes

TypeOK ==
    /\ user \in User /\ told \in User
    /\ session \in [Sessions -> {"none", "active", "revoked"}]
    /\ pending \in BOOLEAN
    /\ req \in [Requests ->
                  UserRequest \cup SessionRequest \cup MailRequest \cup {Idle}]
    /\ served \in 0..MaxServed
    /\ mailed \subseteq Numbers
    /\ spent \in [once : SUBSET Codes, again : SUBSET Codes]
    /\ raced \subseteq {o \in SUBSET OnUser : Cardinality(o) \in 1..2}
    \* The codes are what is left of one list, whoever rewrote it.
    /\ Cardinality({c[1] : c \in CodesOf(user)}) <= 1

Init ==
    /\ user = [secret |-> None, enabled |-> FALSE, codes |-> None,
               reset |-> None]
    /\ session = [s \in Sessions |-> "none"]
    /\ pending = FALSE
    /\ req = [r \in Requests |-> Idle]
    /\ served = 0
    /\ mailed = {}
    /\ told = user
    /\ spent = [once |-> {}, again |-> {}]
    /\ raced = {}

-----------------------------------------------------------------------------
(* The first half of a request: its checks, on what it loads. *)

Serve == served < MaxServed /\ served' = served + 1

\* /2fa/verify-setup takes a code of the secret; /2fa/disable one of the
\* secret or a backup code; a password reset the token of a link that was mailed.
Verified(op) ==
    CASE op \in {"setup", "forgot", "other"} -> TRUE
      [] op = "verify"  -> user.secret # None
      [] op = "disable" -> /\ user.enabled
                           /\ user.secret # None \/ CodesOf(user) # {}
      [] op = "reset"   -> user.reset \in mailed
      [] op = "login"   -> ~user.enabled
      [] op = "code"    -> pending /\ user.secret # None

Load(r, op) ==
    /\ req[r] = Idle /\ Serve /\ Verified(op)
    /\ req' = [req EXCEPT ![r] = [op |-> op, no |-> served', seen |-> user,
                                  code |-> None]]
    /\ UNCHANGED <<user, session, pending, mailed, told, spent, raced>>

\* A login with the second factor enabled gets a token for its second half.
LoginIsHalf ==
    /\ Serve /\ user.enabled /\ pending' = TRUE
    /\ UNCHANGED <<user, session, req, mailed, told, spent, raced>>

\* /2fa/complete with a backup code of the list it loads.
LoadCode(r, c) ==
    /\ req[r] = Idle /\ Serve /\ pending /\ c \in CodesOf(user)
    /\ req' = [req EXCEPT ![r] = [op |-> "backup", no |-> served',
                                  seen |-> user, code |-> c]]
    /\ UNCHANGED <<user, session, pending, mailed, told, spent, raced>>

\* The rows that a request about sessions loads: refresh an active one;
\* logout, or the deletion of a session, one; the deletion of the others all
\* that are active but the current one, or all if the request does not name
\* it. Which session a logout that names none takes, the times of use decide,
\* which are not modelled.
ToRefresh(rows) == \E s \in Sessions : rows = {s} /\ session[s] = "active"

ToRevoke(rows) == \E s \in Sessions : rows = {s} /\ session[s] # "none"

ToRevokeOthers(rows) ==
    LET active == {s \in Sessions : session[s] = "active"} IN
    rows = active \/ \E current \in active : rows = active \ {current}

LoadSessions(r, op, rows) ==
    /\ req[r] = Idle /\ Serve
    /\ \/ op = "refresh" /\ ToRefresh(rows)
       \/ op = "revoke" /\ (ToRevoke(rows) \/ ToRevokeOthers(rows))
    /\ req' = [req EXCEPT ![r] = [op |-> op, seen |-> session, rows |-> rows]]
    /\ UNCHANGED <<user, session, pending, mailed, told, spent, raced>>

-----------------------------------------------------------------------------
(* The second half: what a request changes, and what reaches the rows. *)

\* The loaded row u after the assignments of request q, handler by handler.
SetUp(u, q) == [u EXCEPT !.secret = q.no]

\* Mutant: new codes join the old ones.
VerifySetUpAddingCodes(u, q) ==
    [u EXCEPT !.enabled = TRUE, !.codes = CodesOf(u) \cup ({q.no} \X Slots)]

VerifySetUp(u, q) ==
    [u EXCEPT !.enabled = TRUE, !.codes = {q.no} \X Slots]

\* Mutant: the codes are left.
DisableLeavingCodes(u) == [u EXCEPT !.secret = None, !.enabled = FALSE]

Disable(u) ==
    [u EXCEPT !.secret = None, !.enabled = FALSE, !.codes = None]

UseCode(u, q) == [u EXCEPT !.codes = CodesOf(u) \ {q.code}]
ForgotPassword(u, q) == [u EXCEPT !.reset = q.no]
ResetPassword(u) == [u EXCEPT !.reset = None]

Changed(u, q) ==
    CASE q.op = "setup"   -> SetUp(u, q)
      [] q.op = "verify"  -> VerifySetUp(u, q)
      [] q.op = "disable" -> Disable(u)
      [] q.op = "backup"  -> UseCode(u, q)
      [] q.op = "forgot"  -> ForgotPassword(u, q)
      [] q.op = "reset"   -> ResetPassword(u)
      [] q.op \in {"login", "code", "other"} -> u

\* The UPDATE of the flush.
Flushed(q) ==
    LET w == Changed(q.seen, q) IN
    [secret  |-> Column(user.secret, q.seen.secret, w.secret),
     enabled |-> Column(user.enabled, q.seen.enabled, w.enabled),
     codes   |-> Column(user.codes, q.seen.codes, w.codes),
     reset   |-> Column(user.reset, q.seen.reset, w.reset)]

\* What the user may take to be so after the answer to q. That a link is on its
\* way says nothing of the one at hand; and if another than the newest link has
\* been followed, the newest still holds.
Answered(q) ==
    IF q.op = "forgot" \/ (q.op = "reset" /\ told.reset # q.seen.reset)
      THEN told ELSE Changed(told, q)

\* The operations on the row that r runs beside; forgot_password runs until it
\* has mailed.
Doing(q) == IF q.op = "mail" THEN "forgot" ELSE q.op
Overlaps(r) ==
    {{req[r].op, Doing(req[s])} :
       s \in {t \in Requests \ {r} :
                {req[r].op, Doing(req[t])} \subseteq OnUser}}

\* A request that completes a login also inserts a session.
NewSession(op, s) ==
    IF op \in Logins
      THEN session[s] = "none" /\ session' = [session EXCEPT ![s] = "active"]
      ELSE session' = session

Commit(r, s) ==
    LET q == req[r] IN
    /\ q.op \in UserOps
    /\ user' = Flushed(q)
    /\ told' = Answered(q)
    /\ NewSession(q.op, s)
    /\ spent' = IF q.op # "backup" THEN spent
                ELSE [once |-> spent.once \cup {q.code},
                      again |-> spent.again \cup (spent.once \cap {q.code})]
    /\ raced' = raced \cup Overlaps(r)
    /\ req' = [req EXCEPT ![r] = IF q.op = "forgot"
                                   THEN [op |-> "mail", no |-> q.no] ELSE Idle]
    /\ UNCHANGED <<pending, served, mailed>>

\* After its commit forgot_password awaits the mail server.
Mail(r) ==
    /\ req[r].op = "mail"
    /\ mailed' = mailed \cup {req[r].no}
    /\ told' = [told EXCEPT !.reset = req[r].no]
    /\ req' = [req EXCEPT ![r] = Idle]
    /\ UNCHANGED <<user, session, pending, served, spent, raced>>

\* What the mail server raises is swallowed, and the answer is the same.
MailFails(r) ==
    /\ req[r].op = "mail"
    /\ req' = [req EXCEPT ![r] = Idle]
    /\ UNCHANGED <<user, session, pending, served, mailed, told, spent, raced>>

\* is_revoked of the loaded rows, which a refresh leaves as it is.
CommitSessions(r) ==
    LET q == req[r] IN
    /\ q.op \in OnSession
    /\ session' = [s \in Sessions |->
         IF s \notin q.rows THEN session[s]
         ELSE Column(session[s], q.seen[s],
                     IF q.op = "revoke" THEN "revoked" ELSE q.seen[s])]
    /\ req' = [req EXCEPT ![r] = Idle]
    /\ UNCHANGED <<user, pending, served, mailed, told, spent, raced>>

-----------------------------------------------------------------------------

Next ==
    \/ LoginIsHalf
    \/ \E r \in Requests :
         \/ \E op \in UserOps \ {"backup"} : Load(r, op)
         \/ \E c \in Codes : LoadCode(r, c)
         \/ \E op \in OnSession, rows \in SUBSET Sessions :
              LoadSessions(r, op, rows)
         \/ \E s \in Sessions : Commit(r, s)
         \/ CommitSessions(r) \/ Mail(r) \/ MailFails(r)

Spec == Init /\ [][Next]_vars

-----------------------------------------------------------------------------
(* Properties *)

\* A revoked session stays revoked, whatever refreshes had loaded it before.
RevokedStaysRevoked ==
    [][\A s \in Sessions :
         session[s] = "revoked" => session'[s] = "revoked"]_vars

\* The second factor is never half on: enabled without a secret nobody could
\* log in but by backup code, and codes without it would outlive it. Only a
\* disabling that overlaps a verification, or the use of a code, does that.
SecondFactorIsWhole ==
    /\ user.enabled /\ user.secret = None => {"verify", "disable"} \in raced
    /\ user.enabled # (user.codes # None) =>
         {{"verify", "disable"}, {"backup", "disable"}} \cap raced # {}

\* "Each code can only be used once", as the user is told with the list: no
\* backup code completes two logins. The list is rewritten from what the request
\* has read of it.
BackupCodesOnce == spent.again = {}

\* What the user was last told holds: the secret shown, the codes issued and
\* not used, the link mailed and not followed. The first two end only by
\* requests about them that overlapped. The link ends also when another is
\* asked for, before its mail is sent and even if it never is; and the last
\* of two mails may be of the older token, if their requests overlapped.
\* Requests about anything else never matter.
LastAnswerHolds ==
    /\ user.secret # told.secret => {"setup", "disable"} \in raced
    /\ user.codes # told.codes =>
         {{"backup"}, {"backup", "verify"}, {"backup", "disable"}}
           \cap raced # {}
    /\ user.reset # told.reset =>
         \/ user.reset \in Numbers \ mailed
         \/ {{"forgot"}, {"forgot", "reset"}} \cap raced # {}
=============================================================================
