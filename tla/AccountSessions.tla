-------------------------- MODULE AccountSessions --------------------------
(***************************************************************************)
(* One account, its sessions and its password reset tokens (AuthService of *)
(* app/services/auth_service.py, the repositories of                       *)
(* app/db/repositories/identity.py).                                       *)
(*                                                                         *)
(* A request is one READ COMMITTED transaction.  It reads rows without a   *)
(* lock and decides on a copy; the update reads the row again and writes   *)
(* every column of the copy that differs from that.  The revocation of all *)
(* sessions is one UPDATE of the sessions that are there when it runs.     *)
(*                                                                         *)
(* Left out are throttles, the expiry of sessions and tokens, which only   *)
(* makes fewer of them valid, and the second factor, which a login does    *)
(* not ask for.                                                            *)
(***************************************************************************)
CONSTANTS
  Passwords,    \* passwords the account may have
  Roles,        \* roles it may have
  Sessions,     \* sessions that may be opened
  Tokens,       \* reset tokens that may be issued
  Requests      \* requests that may overlap

VARIABLES
  account,      \* the row of the user
  session,      \* the session rows
  token,        \* "unissued", "issued" or "used"
  request,      \* what each request has read and will write
  overtaken     \* has a request written, or opened a session, by what was no longer so?

accountVars == <<account, session, token, request, overtaken>>

\* "outdated" is a hash whose parameters a login brings up to date.
Account == [password : Passwords, outdated : BOOLEAN, role : Roles, active : BOOLEAN]
Unopened == [opened |-> FALSE]
Session == [password : Passwords, role : Roles, revoked : BOOLEAN]
Idle == [pc |-> "idle"]

AccountTypeOK ==
  /\ account \in Account
  /\ session \in [Sessions -> Session \cup {Unopened}]
  /\ token \in [Tokens -> {"unissued", "issued", "used"}]
  /\ request \in [Requests ->
       [pc : {"login"}, read : Account]
       \cup [pc : {"revise"}, read : Account, write : Account, revokes : BOOLEAN]
       \cup [pc : {"reset"}, read : Account, write : Account, token : Tokens]
       \cup [pc : {"touch", "logout"}, session : Sessions, read : Session]
       \cup {Idle}]
  /\ overtaken \in BOOLEAN

AccountInit ==
  /\ account \in {a \in Account : a.active}
  /\ session = [s \in Sessions |-> Unopened]
  /\ token = [k \in Tokens |-> "unissued"]
  /\ request = [q \in Requests |-> Idle]
  /\ overtaken = FALSE

Opens(q, state) ==
  /\ request[q] = Idle
  /\ request' = [request EXCEPT ![q] = state]
  /\ UNCHANGED <<account, session, token, overtaken>>

Ends(q) == request' = [request EXCEPT ![q] = Idle]

\* What an update leaves of the stored row.  A commit just before the second read
\* is overwritten by the whole copy, one just after it keeps the columns in which
\* the copy is as it was first read.
Updated(stored, read, write) ==
  {write, [c \in DOMAIN stored |-> IF write[c] # read[c] THEN write[c] ELSE stored[c]]}

Live(s) == session[s] # Unopened /\ ~session[s].revoked

-----------------------------------------------------------------------------
(* Sessions: login, authenticate, logout. *)

\* The password is verified against the hash that is read.
LoginReads(q) ==
  /\ account.active
  /\ Opens(q, [pc |-> "login", read |-> account])

Credentials(a) == [a EXCEPT !.outdated = FALSE]
Repassworded(a, p) == [a EXCEPT !.password = p, !.outdated = FALSE]

\* Fault seeded to test RevocationSettles: a login takes up an earlier session.
LoginResumes(q, s) ==
  /\ request[q].pc = "login"
  /\ LET read == request[q].read
     IN  /\ account' = account
         /\ session' = [session EXCEPT ![s] =
                          [password |-> read.password, role |-> read.role,
                           revoked |-> FALSE]]
         /\ overtaken' = (overtaken \/ Credentials(account) # Credentials(read))
  /\ Ends(q)
  /\ UNCHANGED token

\* A hash that is out of date is replaced by a new one of the password given.
LoginCommits(q, s) ==
  /\ request[q].pc = "login"
  /\ session[s] = Unopened
  /\ LET read == request[q].read
     IN  /\ account' \in IF read.outdated
                           THEN Updated(account, read, Repassworded(read, read.password))
                           ELSE {account}
         /\ session' = [session EXCEPT ![s] =
                          [password |-> read.password, role |-> read.role,
                           revoked |-> FALSE]]
         /\ overtaken' = (overtaken \/ Credentials(account) # Credentials(read))
  /\ Ends(q)
  /\ UNCHANGED token

\* A request on a session that is accepted writes when it was last seen, and with it
\* its copy of the other columns; a second factor that is verified is written in the
\* same way.
TouchReads(q, s) ==
  /\ Live(s)
  /\ account.active
  /\ Opens(q, [pc |-> "touch", session |-> s, read |-> session[s]])

LogoutReads(q, s) ==
  /\ Live(s)
  /\ Opens(q, [pc |-> "logout", session |-> s, read |-> session[s]])

SessionWrite(q) ==
  IF request[q].pc = "touch" THEN request[q].read
                             ELSE [request[q].read EXCEPT !.revoked = TRUE]

SessionCommits(q) ==
  /\ request[q].pc \in {"touch", "logout"}
  /\ LET s == request[q].session
     IN  /\ \E kept \in Updated(session[s], request[q].read, SessionWrite(q)) :
              session' = [session EXCEPT ![s] = kept]
         /\ overtaken' = (overtaken \/ (request[q].pc = "touch" /\ session[s].revoked))
  /\ Ends(q)
  /\ UNCHANGED <<account, token>>

-----------------------------------------------------------------------------
(* The account: change_password, change_role, set_active, reset_password. *)

Revision(q, write, revokes) ==
  Opens(q, [pc |-> "revise", read |-> account, write |-> write, revokes |-> revokes])

ChangePassword(q, p) == account.active /\ Revision(q, Repassworded(account, p), TRUE)

ChangeRole(q, x) == Revision(q, [account EXCEPT !.role = x], TRUE)

\* Fault seeded to test LiveSessionsAreCurrent: whoever is signed in stays so.
SetActiveQuietly(q, b) == Revision(q, [account EXCEPT !.active = b], FALSE)

\* An activation leaves the sessions alone.
SetActive(q, b) == Revision(q, [account EXCEPT !.active = b], ~b)

Revises(q, revokes) ==
  /\ account' \in Updated(account, request[q].read, request[q].write)
  /\ session' = [s \in Sessions |-> IF revokes /\ Live(s)
                                      THEN [session[s] EXCEPT !.revoked = TRUE]
                                      ELSE session[s]]
  /\ overtaken' = (overtaken \/ (~revokes /\ Credentials(account)
                                             # Credentials(request[q].read)))
  /\ Ends(q)

ReviseCommits(q) ==
  /\ request[q].pc = "revise"
  /\ Revises(q, request[q].revokes)
  /\ UNCHANGED token

\* By the owner, or by an administrator; the account has to be active.
IssueToken(k) ==
  /\ token[k] = "unissued"
  /\ account.active
  /\ token' = [token EXCEPT ![k] = "issued"]
  /\ UNCHANGED <<account, session, request, overtaken>>

ResetReads(q, k, p) ==
  /\ token[k] = "issued"
  /\ Opens(q, [pc |-> "reset", read |-> account, write |-> Repassworded(account, p),
               token |-> k])

ResetCommits(q) ==
  /\ request[q].pc = "reset"
  /\ Revises(q, TRUE)
  /\ token' = [token EXCEPT ![request[q].token] = "used"]

\* A request that is refused, or fails.
Refuse(q) ==
  /\ request[q] # Idle
  /\ Ends(q)
  /\ UNCHANGED <<account, session, token, overtaken>>

AccountNext ==
  \/ \E k \in Tokens : IssueToken(k)
  \/ \E q \in Requests :
       \/ LoginReads(q) \/ SessionCommits(q) \/ ReviseCommits(q) \/ ResetCommits(q)
       \/ Refuse(q)
       \/ \E s \in Sessions : LoginCommits(q, s) \/ TouchReads(q, s) \/ LogoutReads(q, s)
       \/ \E p \in Passwords : ChangePassword(q, p)
       \/ \E x \in Roles : ChangeRole(q, x)
       \/ \E b \in BOOLEAN : SetActive(q, b)
       \/ \E k \in Tokens, p \in Passwords : ResetReads(q, k, p)

AccountSpec == AccountInit /\ [][AccountNext]_accountVars

-----------------------------------------------------------------------------
(* Properties. *)

\* A live session is one of an active account and was opened with the password and
\* the role that the account has now: whatever changes them ends the sessions that
\* were there.  What gets past it is a request that overlaps the change: a login that
\* has verified the old password, an activation that writes the old row back, or a
\* request of a session that writes back its copy of before the revocation (change_password,
\* reset_password, change_role, set_active, authenticate).
LiveSessionsAreCurrent == ~overtaken =>
  \A s \in Sessions : Live(s) =>
    /\ account.active
    /\ session[s].password = account.password
    /\ session[s].role = account.role

\* A session that is revoked, and that no request has read before it was.
Lapsed(s) ==
  /\ session[s] # Unopened /\ session[s].revoked
  /\ \A q \in Requests : request[q].pc \in {"touch", "logout"} => request[q].session # s

\* A revocation that no request of the session was under way at lasts for ever:
\* nothing that reads the session afterwards, and no login, makes it live again
\* (authenticate, logout).
RevocationSettles == [][\A s \in Sessions : Lapsed(s) => Lapsed(s)']_accountVars
=============================================================================
