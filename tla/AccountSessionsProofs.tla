----------------------- MODULE AccountSessionsProofs -----------------------
(***************************************************************************)
(* What holds of an account for any passwords, roles, sessions, tokens and *)
(* overlapping requests: its types, that a live session was opened with    *)
(* the present credentials of an active account unless a request has       *)
(* overtaken their change, and that a revocation settles.                  *)
(*                                                                         *)
(* None of it is inductive without what the requests carry: a login has    *)
(* read an active account, a request on a session has read one that is     *)
(* open, with the credentials it still has, and a revision that revokes    *)
(* nothing only activates.                                                 *)
(***************************************************************************)
EXTENDS AccountSessions, TLAPS

LoginsSound == \A q \in Requests :
  request[q].pc = "login" => request[q].read.active

SessionRequestsSound == \A q \in Requests :
  request[q].pc \in {"touch", "logout"} =>
    /\ session[request[q].session] # Unopened
    /\ request[q].read.password = session[request[q].session].password
    /\ request[q].read.role = session[request[q].session].role

RevisionsSound == \A q \in Requests :
  request[q].pc = "revise" /\ ~request[q].revokes =>
    request[q].write = [request[q].read EXCEPT !.active = TRUE]

AccountInv ==
  /\ AccountTypeOK /\ LiveSessionsAreCurrent
  /\ LoginsSound /\ SessionRequestsSound /\ RevisionsSound

-----------------------------------------------------------------------------
(* The operators. *)

\* The columns of a row after an update, one by one: each is the copy's, or the
\* stored one where the copy was not changed.
LEMMA UpdatedAccount ==
  ASSUME NEW a \in Account, NEW r \in Account, NEW w \in Account,
         NEW u \in Updated(a, r, w)
  PROVE  /\ u \in Account
         /\ u.password = w.password \/ (w.password = r.password /\ u.password = a.password)
         /\ u.role = w.role \/ (w.role = r.role /\ u.role = a.role)
         /\ u.active = w.active \/ (w.active = r.active /\ u.active = a.active)
  <1>1. CASE u = w
    BY <1>1
  <1>2. CASE u = [c \in DOMAIN a |-> IF w[c] # r[c] THEN w[c] ELSE a[c]]
    BY <1>2 DEF Account
  <1> QED BY <1>1, <1>2 DEF Updated

LEMMA UpdatedSession ==
  ASSUME NEW a \in Session, NEW r \in Session, NEW w \in Session,
         NEW u \in Updated(a, r, w)
  PROVE  /\ u \in Session
         /\ u.password = w.password \/ (w.password = r.password /\ u.password = a.password)
         /\ u.role = w.role \/ (w.role = r.role /\ u.role = a.role)
         /\ u.revoked = w.revoked \/ (w.revoked = r.revoked /\ u.revoked = a.revoked)
  <1>1. CASE u = w
    BY <1>1
  <1>2. CASE u = [c \in DOMAIN a |-> IF w[c] # r[c] THEN w[c] ELSE a[c]]
    BY <1>2 DEF Session
  <1> QED BY <1>1, <1>2 DEF Updated

\* An unopened session can be told from an opened one.
LEMMA UnopenedOutside == Unopened \notin Session
  BY DEF Unopened, Session

RequestSet ==
  [pc : {"login"}, read : Account]
  \cup [pc : {"revise"}, read : Account, write : Account, revokes : BOOLEAN]
  \cup [pc : {"reset"}, read : Account, write : Account, token : Tokens]
  \cup [pc : {"touch", "logout"}, session : Sessions, read : Session]
  \cup {Idle}

\* What a request that begins has to have read.
Sound(state) ==
  /\ state.pc = "login" => state.read.active
  /\ state.pc \in {"touch", "logout"} =>
       /\ session[state.session] # Unopened
       /\ state.read.password = session[state.session].password
       /\ state.read.role = session[state.session].role
  /\ state.pc = "revise" /\ ~state.revokes =>
       state.write = [state.read EXCEPT !.active = TRUE]

-----------------------------------------------------------------------------
(* Requests that begin or end. *)

LEMMA OpensKeeps ==
  ASSUME AccountInv, NEW q \in Requests, NEW state \in RequestSet, Sound(state),
         Opens(q, state)
  PROVE  AccountInv'
  <1>1. AccountTypeOK'
    BY DEF AccountInv, AccountTypeOK, Opens, RequestSet
  <1>2. LiveSessionsAreCurrent'
    BY DEF AccountInv, LiveSessionsAreCurrent, Live, Opens
  <1>3. LoginsSound' /\ SessionRequestsSound'
    BY DEF AccountInv, AccountTypeOK, LoginsSound, SessionRequestsSound, Sound, Opens
  <1>4. RevisionsSound'
    BY DEF AccountInv, AccountTypeOK, RevisionsSound, Sound, Opens
  <1> QED BY <1>1, <1>2, <1>3, <1>4 DEF AccountInv

\* When a request ends the others are as sound as they were, if no session closes or
\* changes what it was opened with.
LEMMA EndsKeeps ==
  ASSUME AccountInv, NEW q \in Requests, Ends(q),
         \A s \in Sessions : session[s] # Unopened =>
           /\ session'[s] # Unopened
           /\ session'[s].password = session[s].password
           /\ session'[s].role = session[s].role
  PROVE  /\ request' \in [Requests -> RequestSet]
         /\ LoginsSound' /\ SessionRequestsSound' /\ RevisionsSound'
  <1>1. /\ request' \in [Requests -> RequestSet]
        /\ \A p \in Requests : request'[p] = request[p] \/ request'[p] = Idle
    BY DEF AccountInv, AccountTypeOK, Ends, RequestSet
  <1>2. LoginsSound' /\ RevisionsSound'
    BY <1>1 DEF AccountInv, LoginsSound, RevisionsSound, Idle
  <1>3. SessionRequestsSound'
    <2> SUFFICES ASSUME NEW p \in Requests, request'[p].pc \in {"touch", "logout"}
                 PROVE  /\ session'[request'[p].session] # Unopened
                        /\ request'[p].read.password = session'[request'[p].session].password
                        /\ request'[p].read.role = session'[request'[p].session].role
      BY DEF SessionRequestsSound
    <2>1. request'[p] = request[p]
      BY <1>1 DEF Idle
    <2>2. request[p].session \in Sessions
      BY <2>1 DEF AccountInv, AccountTypeOK, Idle
    <2> QED BY <2>1, <2>2 DEF AccountInv, SessionRequestsSound
  <1> QED BY <1>1, <1>2, <1>3

LEMMA RefuseKeeps ==
  ASSUME AccountInv, NEW q \in Requests, Refuse(q)
  PROVE  AccountInv'
  <1>1. /\ request' \in [Requests -> RequestSet]
        /\ LoginsSound' /\ SessionRequestsSound' /\ RevisionsSound'
    BY EndsKeeps DEF Refuse
  <1>2. AccountTypeOK' /\ LiveSessionsAreCurrent'
    BY <1>1 DEF AccountInv, AccountTypeOK, LiveSessionsAreCurrent, Live, Refuse, RequestSet
  <1> QED BY <1>1, <1>2 DEF AccountInv

LEMMA IssueTokenKeeps ==
  ASSUME AccountInv, NEW k \in Tokens, IssueToken(k)
  PROVE  AccountInv'
  <1>1. AccountTypeOK' /\ LiveSessionsAreCurrent'
    BY DEF AccountInv, AccountTypeOK, LiveSessionsAreCurrent, Live, IssueToken
  <1>2. LoginsSound' /\ SessionRequestsSound' /\ RevisionsSound'
    BY DEF AccountInv, LoginsSound, SessionRequestsSound, RevisionsSound, IssueToken
  <1> QED BY <1>1, <1>2 DEF AccountInv

-----------------------------------------------------------------------------
(* The requests that read. *)

LEMMA LoginReadsKeeps ==
  ASSUME AccountInv, NEW q \in Requests, LoginReads(q)
  PROVE  AccountInv'
  <1> DEFINE state == [pc |-> "login", read |-> account]
  <1>1. state \in RequestSet /\ Sound(state)
    BY DEF AccountInv, AccountTypeOK, RequestSet, Sound, LoginReads
  <1>2. Opens(q, state)
    BY DEF LoginReads
  <1> HIDE DEF state
  <1> QED BY <1>1, <1>2, OpensKeeps

LEMMA SessionReadsKeeps ==
  ASSUME AccountInv, NEW q \in Requests, NEW s \in Sessions,
         TouchReads(q, s) \/ LogoutReads(q, s)
  PROVE  AccountInv'
  <1>1. PICK pc \in {"touch", "logout"} :
          Opens(q, [pc |-> pc, session |-> s, read |-> session[s]])
    BY DEF TouchReads, LogoutReads
  <1>2. session[s] \in Session /\ session[s] # Unopened
    BY DEF AccountInv, AccountTypeOK, TouchReads, LogoutReads, Live
  <1> DEFINE state == [pc |-> pc, session |-> s, read |-> session[s]]
  <1>3. state \in RequestSet /\ Sound(state)
    BY <1>2 DEF RequestSet, Sound
  <1>4. Opens(q, state)
    BY <1>1
  <1> HIDE DEF state
  <1> QED BY <1>3, <1>4, OpensKeeps

LEMMA ReviseReadsKeeps ==
  ASSUME AccountInv, NEW q \in Requests,
         \/ \E p \in Passwords : ChangePassword(q, p)
         \/ \E x \in Roles : ChangeRole(q, x)
         \/ \E b \in BOOLEAN : SetActive(q, b)
  PROVE  AccountInv'
  <1>1. PICK write \in Account, revokes \in BOOLEAN :
          /\ Revision(q, write, revokes)
          /\ ~revokes => write = [account EXCEPT !.active = TRUE]
    <2>1. CASE \E p \in Passwords : ChangePassword(q, p)
      <3>1. PICK p \in Passwords : Revision(q, Repassworded(account, p), TRUE)
        BY <2>1 DEF ChangePassword
      <3>2. Repassworded(account, p) \in Account
        BY DEF AccountInv, AccountTypeOK, Repassworded, Account
      <3> QED BY <3>1, <3>2
    <2>2. CASE \E x \in Roles : ChangeRole(q, x)
      <3>1. PICK x \in Roles : Revision(q, [account EXCEPT !.role = x], TRUE)
        BY <2>2 DEF ChangeRole
      <3>2. [account EXCEPT !.role = x] \in Account
        BY DEF AccountInv, AccountTypeOK, Account
      <3> QED BY <3>1, <3>2
    <2>3. CASE \E b \in BOOLEAN : SetActive(q, b)
      <3>1. PICK b \in BOOLEAN : Revision(q, [account EXCEPT !.active = b], ~b)
        BY <2>3 DEF SetActive
      <3>2. [account EXCEPT !.active = b] \in Account
        BY DEF AccountInv, AccountTypeOK, Account
      <3> QED BY <3>1, <3>2
    <2> QED BY <2>1, <2>2, <2>3
  <1> DEFINE state == [pc |-> "revise", read |-> account, write |-> write,
                       revokes |-> revokes]
  <1>2. state \in RequestSet /\ Sound(state)
    BY <1>1 DEF AccountInv, AccountTypeOK, RequestSet, Sound
  <1>3. Opens(q, state)
    BY <1>1 DEF Revision
  <1> HIDE DEF state
  <1> QED BY <1>2, <1>3, OpensKeeps

LEMMA ResetReadsKeeps ==
  ASSUME AccountInv, NEW q \in Requests, NEW k \in Tokens, NEW p \in Passwords,
         ResetReads(q, k, p)
  PROVE  AccountInv'
  <1> DEFINE state == [pc |-> "reset", read |-> account,
                       write |-> Repassworded(account, p), token |-> k]
  <1>1. Repassworded(account, p) \in Account /\ account \in Account
    BY DEF AccountInv, AccountTypeOK, Repassworded, Account
  <1>2. state \in RequestSet /\ Sound(state)
    BY <1>1 DEF RequestSet, Sound
  <1>3. Opens(q, state)
    BY DEF ResetReads
  <1> HIDE DEF state
  <1> QED BY <1>2, <1>3, OpensKeeps

-----------------------------------------------------------------------------
(* The requests that commit. *)

\* What the step does to the revocations that have settled.
SettledKept == \A s \in Sessions : Lapsed(s) => Lapsed(s)'

\* They stay so when the request that ends leaves them alone.
LEMMA EndsSettles ==
  ASSUME AccountInv, NEW q \in Requests, Ends(q),
         \A s \in Sessions : Lapsed(s) => session'[s] = session[s]
  PROVE  SettledKept
  <1>1. \A p \in Requests : request'[p] = request[p] \/ request'[p] = Idle
    BY DEF AccountInv, AccountTypeOK, Ends
  <1> QED BY <1>1 DEF SettledKept, Lapsed, Idle

LEMMA LoginCommitsKeeps ==
  ASSUME AccountInv, NEW q \in Requests, NEW s \in Sessions, LoginCommits(q, s)
  PROVE  AccountInv' /\ SettledKept
  <1> DEFINE read == request[q].read
             new == [password |-> read.password, role |-> read.role,
                     revoked |-> FALSE]
  <1>1. read \in Account /\ read.active
    BY DEF AccountInv, AccountTypeOK, LoginsSound, LoginCommits, Idle
  <1>2. new \in Session /\ new.password = read.password /\ new.role = read.role
    BY <1>1 DEF Session, Account
  <1>3. /\ session[s] = Unopened
        /\ session' = [session EXCEPT ![s] = new]
    BY DEF LoginCommits
  <1> HIDE DEF new
  <1>4. session' \in [Sessions -> Session \cup {Unopened}]
    BY <1>2, <1>3 DEF AccountInv, AccountTypeOK
  <1>5. SettledKept
    <2>1. \A t \in Sessions : Lapsed(t) => session'[t] = session[t]
      BY <1>3 DEF AccountInv, AccountTypeOK, Lapsed
    <2> QED BY <2>1, EndsSettles DEF LoginCommits
  <1>rehash. Repassworded(read, read.password) \in Account
        /\ Repassworded(read, read.password).password = read.password
        /\ Repassworded(read, read.password).role = read.role
        /\ Repassworded(read, read.password).active = read.active
    BY <1>1 DEF Account, Repassworded
  <1>6. account' \in Account
    BY <1>1, <1>rehash, UpdatedAccount DEF AccountInv, AccountTypeOK, LoginCommits
  <1>7. /\ request' \in [Requests -> RequestSet]
        /\ LoginsSound' /\ SessionRequestsSound' /\ RevisionsSound'
    BY <1>2, <1>3, EndsKeeps, UnopenedOutside DEF AccountInv, AccountTypeOK, LoginCommits
  <1>8. AccountTypeOK'
    BY <1>4, <1>6, <1>7 DEF AccountInv, AccountTypeOK, LoginCommits, RequestSet
  <1>9. ASSUME ~overtaken'
        PROVE  /\ ~overtaken
               /\ account'.password = account.password /\ account'.role = account.role
               /\ account'.active = account.active
               /\ account.password = read.password /\ account.role = read.role
               /\ account.active = read.active
    <2>1. ~overtaken /\ Credentials(account) = Credentials(read)
      BY <1>9 DEF LoginCommits, AccountInv, AccountTypeOK
    <2>2. account.password = read.password /\ account.role = read.role
          /\ account.active = read.active
      BY <1>1, <2>1 DEF Credentials, AccountInv, AccountTypeOK, Account
    <2>3. \/ account' = account
          \/ account' \in Updated(account, read, Repassworded(read, read.password))
      BY DEF LoginCommits
    <2>4. account \in Account
      BY DEF AccountInv, AccountTypeOK
    <2>5. CASE account' \in Updated(account, read, Repassworded(read, read.password))
      <3>1. PICK w \in Account :
              /\ account' \in Updated(account, read, w)
              /\ w.password = read.password /\ w.role = read.role
              /\ w.active = read.active
        BY <1>rehash, <2>5
      <3>2. /\ account'.password = account.password /\ account'.role = account.role
            /\ account'.active = account.active
        BY <1>1, <2>2, <2>4, <3>1, UpdatedAccount
      <3> QED BY <2>1, <2>2, <3>2
    <2> QED BY <2>1, <2>2, <2>3, <2>5
  <1>10. LiveSessionsAreCurrent'
    <2> SUFFICES ASSUME ~overtaken', NEW t \in Sessions, Live(t)'
                 PROVE  /\ account'.active
                        /\ session'[t].password = account'.password
                        /\ session'[t].role = account'.role
      BY DEF LiveSessionsAreCurrent
    <2>1. CASE t = s
      BY <1>1, <1>2, <1>3, <1>9, <2>1 DEF AccountInv, AccountTypeOK
    <2>2. CASE t # s
      <3>1. session'[t] = session[t] /\ Live(t)
        BY <1>3, <2>2 DEF Live
      <3> QED BY <1>9, <3>1 DEF AccountInv, LiveSessionsAreCurrent
    <2> QED BY <2>1, <2>2
  <1> QED BY <1>5, <1>7, <1>8, <1>10 DEF AccountInv

LEMMA SessionCommitsKeeps ==
  ASSUME AccountInv, NEW q \in Requests, SessionCommits(q)
  PROVE  AccountInv' /\ SettledKept
  <1> DEFINE s == request[q].session
             read == request[q].read
             write == SessionWrite(q)
  <1>1. /\ s \in Sessions /\ read \in Session /\ session[s] \in Session
        /\ read.password = session[s].password /\ read.role = session[s].role
        /\ request[q].pc \in {"touch", "logout"}
    BY DEF AccountInv, AccountTypeOK, SessionRequestsSound, SessionCommits, Idle
  <1>2. /\ write \in Session
        /\ write.password = read.password /\ write.role = read.role
        /\ request[q].pc = "logout" => write.revoked
    BY <1>1 DEF SessionWrite, Session
  <1>3. PICK new \in Updated(session[s], read, write) :
          session' = [session EXCEPT ![s] = new]
    BY DEF SessionCommits
  <1> HIDE DEF write
  <1>4. /\ new \in Session
        /\ new.password = session[s].password /\ new.role = session[s].role
        /\ request[q].pc = "logout" => new.revoked \/ new.revoked = session[s].revoked
    BY <1>1, <1>2, <1>3, UpdatedSession
  <1>5. session' \in [Sessions -> Session \cup {Unopened}] /\ session'[s] = new
    BY <1>1, <1>3, <1>4 DEF AccountInv, AccountTypeOK
  <1>6. SettledKept
    <2>1. \A t \in Sessions : Lapsed(t) => session'[t] = session[t]
      BY <1>1, <1>3 DEF AccountInv, AccountTypeOK, Lapsed
    <2> QED BY <2>1, EndsSettles DEF SessionCommits
  <1>7. /\ request' \in [Requests -> RequestSet]
        /\ LoginsSound' /\ SessionRequestsSound' /\ RevisionsSound'
    <2>1. \A t \in Sessions : session[t] # Unopened =>
            /\ session'[t] # Unopened
            /\ session'[t].password = session[t].password
            /\ session'[t].role = session[t].role
      BY <1>1, <1>3, <1>4, <1>5, UnopenedOutside DEF AccountInv, AccountTypeOK
    <2> QED BY <2>1, EndsKeeps DEF SessionCommits
  <1>8. AccountTypeOK'
    BY <1>5, <1>7 DEF AccountInv, AccountTypeOK, SessionCommits, RequestSet
  <1>9. LiveSessionsAreCurrent'
    <2> SUFFICES ASSUME ~overtaken', NEW t \in Sessions, Live(t)'
                 PROVE  /\ account.active
                        /\ session'[t].password = account.password
                        /\ session'[t].role = account.role
      BY DEF LiveSessionsAreCurrent, SessionCommits
    <2>1. ~overtaken /\ (request[q].pc = "touch" => ~session[s].revoked)
      BY DEF SessionCommits, AccountInv, AccountTypeOK
    <2>2. /\ Live(t)
          /\ session'[t].password = session[t].password
          /\ session'[t].role = session[t].role
      <3>1. CASE t = s
        BY <1>1, <1>4, <1>5, <2>1, <3>1, UnopenedOutside DEF Live
      <3>2. CASE t # s
        BY <1>1, <1>3, <3>2 DEF Live, AccountInv, AccountTypeOK
      <3> QED BY <3>1, <3>2
    <2> QED BY <2>1, <2>2 DEF AccountInv, LiveSessionsAreCurrent
  <1> QED BY <1>6, <1>7, <1>8, <1>9 DEF AccountInv

LEMMA RevisesKeeps ==
  ASSUME AccountInv, NEW q \in Requests, NEW revokes \in BOOLEAN,
         request[q].read \in Account, request[q].write \in Account,
         ~revokes => request[q].write = [request[q].read EXCEPT !.active = TRUE],
         token' \in [Tokens -> {"unissued", "issued", "used"}],
         Revises(q, revokes)
  PROVE  AccountInv' /\ SettledKept
  <1> DEFINE read == request[q].read
             write == request[q].write
  <1>1. account' \in Updated(account, read, write) /\ account' \in Account
    BY UpdatedAccount DEF Revises, AccountInv, AccountTypeOK
  <1>2. /\ session' \in [Sessions -> Session \cup {Unopened}]
        /\ \A s \in Sessions : session[s] # Unopened =>
             /\ session'[s] # Unopened
             /\ session'[s].password = session[s].password
             /\ session'[s].role = session[s].role
        /\ \A s \in Sessions : session'[s] = session[s] \/ ~Live(s)'
        /\ revokes => \A s \in Sessions : ~Live(s)'
    <2> SUFFICES ASSUME NEW s \in Sessions
                 PROVE  /\ session'[s] \in Session \cup {Unopened}
                        /\ session[s] # Unopened =>
                             /\ session'[s] # Unopened
                             /\ session'[s].password = session[s].password
                             /\ session'[s].role = session[s].role
                        /\ session'[s] = session[s] \/ ~Live(s)'
                        /\ revokes => ~Live(s)'
      BY DEF Revises
    <2>1. CASE revokes /\ Live(s)
      <3>1. session[s] \in Session
        BY <2>1 DEF Live, AccountInv, AccountTypeOK
      <3>2. session'[s] = [session[s] EXCEPT !.revoked = TRUE]
        BY <2>1 DEF Revises
      <3>3. /\ session'[s] \in Session /\ session'[s].revoked
            /\ session'[s].password = session[s].password
            /\ session'[s].role = session[s].role
        BY <3>1, <3>2 DEF Session
      <3> QED BY <3>3, UnopenedOutside DEF Live
    <2>2. CASE ~(revokes /\ Live(s))
      <3>1. session'[s] = session[s]
        BY <2>2 DEF Revises
      <3> QED BY <2>2, <3>1 DEF Live, AccountInv, AccountTypeOK
    <2> QED BY <2>1, <2>2
  <1>3. SettledKept
    <2>1. \A t \in Sessions : Lapsed(t) => session'[t] = session[t]
      BY DEF Revises, Live, Lapsed
    <2> QED BY <2>1, EndsSettles DEF Revises
  <1>4. /\ request' \in [Requests -> RequestSet]
        /\ LoginsSound' /\ SessionRequestsSound' /\ RevisionsSound'
    BY <1>2, EndsKeeps DEF Revises
  <1>5. AccountTypeOK'
    BY <1>1, <1>2, <1>4 DEF AccountInv, AccountTypeOK, Revises, RequestSet
  <1>6. LiveSessionsAreCurrent'
    <2> SUFFICES ASSUME ~overtaken', NEW s \in Sessions, Live(s)'
                 PROVE  /\ account'.active
                        /\ session'[s].password = account'.password
                        /\ session'[s].role = account'.role
      BY DEF LiveSessionsAreCurrent
    <2>1. ~revokes /\ session'[s] = session[s] /\ Live(s)
      BY <1>2 DEF Live
    <2>2. ~overtaken /\ Credentials(account) = Credentials(read)
      BY <2>1 DEF Revises, AccountInv, AccountTypeOK
    <2>3. account.password = read.password /\ account.role = read.role
      BY <2>2 DEF Credentials, AccountInv, AccountTypeOK, Account
    <2>4. /\ write.password = read.password /\ write.role = read.role /\ write.active
      BY <2>1 DEF Account
    <2>5. /\ account'.password = account.password /\ account'.role = account.role
          /\ account.active => account'.active
      BY <1>1, <2>3, <2>4, UpdatedAccount DEF AccountInv, AccountTypeOK
    <2> QED BY <2>1, <2>2, <2>5 DEF AccountInv, LiveSessionsAreCurrent
  <1> QED BY <1>3, <1>4, <1>5, <1>6 DEF AccountInv

LEMMA RevisionCommitsKeeps ==
  ASSUME AccountInv, NEW q \in Requests, ReviseCommits(q) \/ ResetCommits(q)
  PROVE  AccountInv' /\ SettledKept
  <1>1. CASE ReviseCommits(q)
    <2>1. /\ request[q].read \in Account /\ request[q].write \in Account
          /\ request[q].revokes \in BOOLEAN
      BY <1>1 DEF AccountInv, AccountTypeOK, ReviseCommits, Idle
    <2>2. ~request[q].revokes => request[q].write = [request[q].read EXCEPT !.active = TRUE]
      BY <1>1 DEF AccountInv, RevisionsSound, ReviseCommits
    <2>3. token' \in [Tokens -> {"unissued", "issued", "used"}]
      BY <1>1 DEF AccountInv, AccountTypeOK, ReviseCommits
    <2> QED BY <1>1, <2>1, <2>2, <2>3, RevisesKeeps DEF ReviseCommits
  <1>2. CASE ResetCommits(q)
    <2>1. request[q].read \in Account /\ request[q].write \in Account
      BY <1>2 DEF AccountInv, AccountTypeOK, ResetCommits, Idle
    <2>2. token' \in [Tokens -> {"unissued", "issued", "used"}]
      BY <1>2 DEF AccountInv, AccountTypeOK, ResetCommits
    <2> QED BY <1>2, <2>1, <2>2, RevisesKeeps DEF ResetCommits
  <1> QED BY <1>1, <1>2

-----------------------------------------------------------------------------
(* The theorems. *)

LEMMA AccountInitially == AccountInit => AccountInv
  <1> SUFFICES ASSUME AccountInit PROVE AccountInv
    OBVIOUS
  <1>1. AccountTypeOK
    BY DEF AccountInit, AccountTypeOK
  <1>2. LiveSessionsAreCurrent
    BY DEF AccountInit, LiveSessionsAreCurrent, Live
  <1>3. LoginsSound /\ SessionRequestsSound /\ RevisionsSound
    BY DEF AccountInit, LoginsSound, SessionRequestsSound, RevisionsSound, Idle
  <1> QED BY <1>1, <1>2, <1>3 DEF AccountInv

\* A request of a session begins only on one that is live.
LEMMA ReadsSettle ==
  ASSUME AccountInv, NEW q \in Requests,
         \/ LoginReads(q)
         \/ \E s \in Sessions : TouchReads(q, s) \/ LogoutReads(q, s)
         \/ \E p \in Passwords : ChangePassword(q, p)
         \/ \E x \in Roles : ChangeRole(q, x)
         \/ \E b \in BOOLEAN : SetActive(q, b)
         \/ \E k \in Tokens, p \in Passwords : ResetReads(q, k, p)
  PROVE  SettledKept
  <1>1. session' = session
    BY DEF LoginReads, TouchReads, LogoutReads, ChangePassword, ChangeRole, SetActive,
           ResetReads, Revision, Opens
  <1>2. /\ \A p \in Requests \ {q} : request'[p] = request[p]
        /\ request'[q].pc \in {"touch", "logout"} => Live(request'[q].session)
    BY DEF LoginReads, TouchReads, LogoutReads, ChangePassword, ChangeRole, SetActive,
           ResetReads, Revision, Opens, AccountInv, AccountTypeOK
  <1>3. SUFFICES ASSUME NEW s \in Sessions, Lapsed(s), NEW p \in Requests,
                        request'[p].pc \in {"touch", "logout"}, request'[p].session = s
                 PROVE  FALSE
    BY <1>1 DEF SettledKept, Lapsed
  <1>4. CASE p = q
    BY <1>2, <1>3, <1>4 DEF Lapsed, Live
  <1>5. CASE p # q
    BY <1>2, <1>3, <1>5 DEF Lapsed
  <1> QED BY <1>4, <1>5

LEMMA AccountStep ==
  AccountInv /\ [AccountNext]_accountVars => AccountInv' /\ SettledKept
  <1> SUFFICES ASSUME AccountInv, [AccountNext]_accountVars
               PROVE  AccountInv' /\ SettledKept
    OBVIOUS
  <1>1. CASE \E k \in Tokens : IssueToken(k)
    <2>1. SettledKept
      BY <1>1 DEF IssueToken, SettledKept, Lapsed
    <2> QED BY <1>1, <2>1, IssueTokenKeeps
  <1>2. ASSUME NEW q \in Requests,
               \/ LoginReads(q) \/ Refuse(q)
               \/ \E s \in Sessions : TouchReads(q, s) \/ LogoutReads(q, s)
               \/ \E p \in Passwords : ChangePassword(q, p)
               \/ \E x \in Roles : ChangeRole(q, x)
               \/ \E b \in BOOLEAN : SetActive(q, b)
               \/ \E k \in Tokens, p \in Passwords : ResetReads(q, k, p)
        PROVE  AccountInv' /\ SettledKept
    <2>1. SettledKept
      <3>1. CASE Refuse(q)
        BY <3>1, EndsSettles DEF Refuse
      <3>2. CASE ~Refuse(q)
        BY <1>2, <3>2, ReadsSettle
      <3> QED BY <3>1, <3>2
    <2>2. AccountInv'
      BY <1>2, LoginReadsKeeps, RefuseKeeps, SessionReadsKeeps, ReviseReadsKeeps,
         ResetReadsKeeps
    <2> QED BY <2>1, <2>2
  <1>3. ASSUME NEW q \in Requests,
               \/ SessionCommits(q) \/ ReviseCommits(q) \/ ResetCommits(q)
               \/ \E s \in Sessions : LoginCommits(q, s)
        PROVE  AccountInv' /\ SettledKept
    BY <1>3, LoginCommitsKeeps, SessionCommitsKeeps, RevisionCommitsKeeps
  <1>4. CASE UNCHANGED accountVars
    BY <1>4 DEF accountVars, AccountInv, AccountTypeOK, LiveSessionsAreCurrent, Live,
                LoginsSound, SessionRequestsSound, RevisionsSound, SettledKept, Lapsed
  <1> QED BY <1>1, <1>2, <1>3, <1>4 DEF AccountNext

\* Accounts, sessions, tokens and requests keep their types.
THEOREM AccountTypes == AccountSpec => []AccountTypeOK
  <1>1. AccountInv => AccountTypeOK
    BY DEF AccountInv
  <1> QED BY <1>1, AccountInitially, AccountStep, PTL DEF AccountSpec

\* However requests overlap, a live session has the present credentials of an active
\* account, unless a request has overtaken their change.
THEOREM SessionsAreCurrent == AccountSpec => []LiveSessionsAreCurrent
  <1>1. AccountInv => LiveSessionsAreCurrent
    BY DEF AccountInv
  <1> QED BY <1>1, AccountInitially, AccountStep, PTL DEF AccountSpec

\* A revocation that no request of the session was under way at is never undone.
THEOREM RevocationsSettle == AccountSpec => RevocationSettles
  <1>1. AccountInv /\ [AccountNext]_accountVars =>
          [\A s \in Sessions : Lapsed(s) => Lapsed(s)']_accountVars
    BY AccountStep DEF SettledKept
  <1> QED BY <1>1, AccountInitially, AccountStep, PTL DEF AccountSpec, RevocationSettles
=============================================================================
