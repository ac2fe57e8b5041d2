------------------------ MODULE InteropGatewayProofs ------------------------
(***************************************************************************)
(* Theorems about InteropGateway, for any number of threads, applications, *)
(* records, masters and consents.                                          *)
(***************************************************************************)
EXTENDS InteropGateway, TLAPS

-----------------------------------------------------------------------------
(* Type correctness. *)

\* What a step makes of a request's record is such a record.
LEMMA RequestParts ==
  ASSUME NEW q \in Request \cup {Idle}, q.pc # "idle"
  PROVE  /\ q \in Request /\ q # Idle
         /\ q.app \in Apps /\ q.master \in Masters \cup {None} /\ q.new \subseteq Records
         /\ BenOf[q.app] \in Bens
         /\ q.grant \in GrantIds \cup {0}
<1>1. q \in Request /\ q # Idle
  BY DEF Idle, Request
<1>2. /\ q.app \in Apps /\ q.master \in Masters \cup {None} /\ q.new \subseteq Records
      /\ q.grant \in GrantIds \cup {0}
  BY <1>1 DEF Request
<1> QED
  BY <1>1, <1>2, RecordsAssumption

RequestSteps == {"flush", "resolve", "read_granted", "read_pending", "create", "exchange"}

LEMMA IdlePc == Idle.pc = "idle"
BY DEF Idle

\* A sequence whose elements are replaced one by one is as long as it was.
LEMMA Rewritten ==
  ASSUME NEW S, NEW s \in Seq(S), NEW f \in [DOMAIN s -> S]
  PROVE  f \in Seq(S) /\ Len(f) = Len(s)
OBVIOUS

\* Links as a transaction sees them.
LEMMA SightTyping ==
  ASSUME TypeOK, NEW r \in Requests, req[r].pc # "idle"
  PROVE  Sight(r) \in [Records -> Masters \cup {None}]
BY RequestParts DEF Sight, TypeOK

LEMMA EndTyping ==
  ASSUME TypeOK, NEW r \in Requests, End(r)
  PROVE  /\ req' \in [Requests -> Request \cup {Idle}]
         /\ locker' \in Requests \cup {Nobody}
BY DEF End, Become, TypeOK

\* The resolver names masters that exist.
LEMMA VerdictTyping ==
  ASSUME NEW rec \in Records, NEW lk \in [Records -> Masters \cup {None}],
         NEW v \in Verdicts(rec, lk)
  PROVE  /\ v.kind \in {"known", "link", "new", "queue", "asked"}
         /\ v.master \in Masters \cup {None}
         /\ v.kind # "new" => v.master \in Masters
         /\ v.kind # "known" => lk[rec] = None
         /\ v.kind = "known" => lk[rec] = v.master
<1>1. OtherSide(rec) \subseteq Records
  BY DEF OtherSide, Records
<1>2. {lk[x] : x \in OtherSide(rec)} \ {None} \subseteq Masters
  BY <1>1
<1> QED
  BY <1>2, NullsAssumption DEF Verdicts

LEMMA GrantsRewritten ==
  ASSUME TypeOK, NEW d, NEW to \in {"granted", "denied", "revoked"},
         WriteConsents(d, to)
  PROVE  grants' \in Seq(Grant) /\ Len(grants') = Len(grants)
<1>1. \A g \in DOMAIN grants : grants[g] \in Grant
  BY DEF TypeOK
<1>2. \A g \in DOMAIN grants :
        [grants[g] EXCEPT !.status = to,
           !.expires = IF to = "granted" THEN "ahead" ELSE @] \in Grant
  BY <1>1 DEF Grant
<1>3. grants' \in [DOMAIN grants -> Grant]
  BY <1>1, <1>2 DEF WriteConsents
<1> QED
  BY <1>3, Rewritten DEF TypeOK

\* Only a request that is to create its master has none yet, and one that
\* transfers has read a consent.
Named(q) ==
  /\ (q.pc = "flush" /\ q.verdict = "new") \/ q.master \in Masters
  /\ q.pc = "exchange" => q.grant \in GrantIds
NamedInv == \A r \in Requests : req[r].pc # "idle" => Named(req[r])

TypeInv == TypeOK /\ NamedInv

LEMMA TypeInit == Init => TypeInv
<1> SUFFICES ASSUME Init PROVE TypeInv
  OBVIOUS
<1>1. grants \in Seq(Grant) /\ Len(grants) <= MaxGrants
  BY NullsAssumption DEF Init
<1> QED
  BY <1>1, IdlePc DEF Init, TypeOK, TypeInv, NamedInv

LEMMA EndNamed ==
  ASSUME TypeInv, NEW r \in Requests, End(r)
  PROVE  NamedInv'
BY IdlePc DEF End, Become, TypeInv, TypeOK, NamedInv

LEMMA BecomeTyping ==
  ASSUME TypeInv, NEW r \in Requests, NEW q \in Request, Named(q), Become(r, q)
  PROVE  req' \in [Requests -> Request \cup {Idle}] /\ NamedInv' /\ req'[r] = q
BY DEF Become, TypeInv, TypeOK, NamedInv

LEMMA TypeBegin ==
  ASSUME TypeInv, NEW r \in Requests, Begin(r)
  PROVE  TypeInv'
<1>0. PICK a \in Apps : \E v \in Verdicts(BenOf[a], links) :
        Become(r, [pc |-> "flush", app |-> a, verdict |-> v.kind,
                   master |-> v.master, new |-> {}, grant |-> 0])
  BY DEF Begin
<1>1. PICK v \in Verdicts(BenOf[a], links) :
        Become(r, [pc |-> "flush", app |-> a, verdict |-> v.kind,
                   master |-> v.master, new |-> {}, grant |-> 0])
  BY <1>0
<1> DEFINE q == [pc |-> "flush", app |-> a, verdict |-> v.kind, master |-> v.master,
                 new |-> {}, grant |-> 0]
<1>2. BenOf[a] \in Records /\ links \in [Records -> Masters \cup {None}]
  BY RecordsAssumption DEF Records, TypeInv, TypeOK
<1>3. q \in Request /\ Named(q)
  BY <1>2, VerdictTyping DEF Request, Named
<1>4. req' \in [Requests -> Request \cup {Idle}] /\ NamedInv'
  BY <1>1, <1>3, BecomeTyping DEF TypeInv, Become
<1> QED
  BY <1>4 DEF Begin, TypeInv, TypeOK

LEMMA TypeFlush ==
  ASSUME TypeInv, NEW r \in Requests, Flush(r)
  PROVE  TypeInv'
<1> USE DEF TypeInv, TypeOK
<1>1. /\ req[r] \in Request /\ req[r].pc = "flush" /\ BenOf[req[r].app] \in Records
      /\ Named(req[r])
  BY RequestParts DEF Flush, NamedInv, Records
<1>2. CASE FlushLink(r)
  <2>1. /\ req' \in [Requests -> Request \cup {Idle}] /\ NamedInv'
        /\ locker' = r /\ cands' = cands
    <3>1. CASE req[r].verdict = "known"
      <4> DEFINE q == [req[r] EXCEPT !.pc = "resolve"]
      <4>1. q \in Request /\ q.master = req[r].master
        BY <1>1 DEF Request
      <4>2. Become(r, q) /\ Named(q)
        BY <1>1, <1>2, <3>1, <4>1 DEF FlushLink, Named
      <4> QED
        BY <1>2, <4>1, <4>2, BecomeTyping DEF FlushLink
    <3>2. CASE req[r].verdict = "link"
      <4> DEFINE q == [req[r] EXCEPT !.pc = "resolve", !.new = {BenOf[req[r].app]}]
      <4>1. q \in Request /\ q.master = req[r].master
        BY <1>1 DEF Request
      <4>2. Become(r, q) /\ Named(q)
        BY <1>1, <1>2, <3>2, <4>1 DEF FlushLink, Named
      <4> QED
        BY <1>2, <4>1, <4>2, BecomeTyping DEF FlushLink
    <3>3. CASE req[r].verdict = "new"
      <4> DEFINE q(m) == [req[r] EXCEPT !.pc = "resolve", !.new = {BenOf[req[r].app]},
                                        !.master = m]
      <4>1. PICK m \in Masters : Become(r, q(m))
        BY <1>2, <3>3 DEF FlushLink, FreshMasters
      <4>2. q(m) \in Request /\ Named(q(m))
        BY <1>1 DEF Request, Named
      <4> QED
        BY <1>2, <4>1, <4>2, BecomeTyping DEF FlushLink
    <3> QED
      BY <1>2, <3>1, <3>2, <3>3 DEF FlushLink
  <2> QED
    BY <2>1 DEF Flush
<1>3. CASE FlushQuestion(r)
  <2>1. cands' \subseteq Cand
    BY <1>1, <1>3 DEF FlushQuestion, FreshCands, Question, Cand, Named
  <2> QED
    BY <1>3, <2>1, EndTyping, EndNamed DEF Flush, FlushQuestion
<1> QED
  BY <1>2, <1>3 DEF Flush

LEMMA TypeResolve ==
  ASSUME TypeInv, NEW r \in Requests, ResolveResident(r)
  PROVE  TypeInv'
<1> USE DEF TypeInv, TypeOK
<1> DEFINE res == ResOf[BenOf[req[r].app]]
<1>1. /\ req[r] \in Request /\ req[r].pc = "resolve" /\ Named(req[r]) /\ res \in Residents
  BY RequestParts, RecordsAssumption DEF ResolveResident, NamedInv
<1>2. Sight(r) \in [Records -> Masters \cup {None}] /\ res \in Records
  BY <1>1, SightTyping DEF Records
<1>3. PICK v \in Verdicts(res, Sight(r)) : StopAtResident(r, res, v) \/ PassResident(r, res, v)
  BY DEF ResolveResident
<1>4. v.master \in Masters \cup {None} /\ (v.kind # "new" => v.master \in Masters)
  BY <1>2, VerdictTyping
<1>5. CASE StopAtResident(r, res, v)
  <2>1. End(r) /\ links' \in [Records -> Masters \cup {None}] /\ cands' \subseteq Cand
    BY <1>1, <1>2, <1>4, <1>5
       DEF StopAtResident, Commit, FreshMasters, FreshCands, Question, Cand
  <2> QED
    BY <2>1, EndTyping, EndNamed DEF ResolveResident
<1>6. CASE PassResident(r, res, v)
  <2>1. req' \in [Requests -> Request \cup {Idle}] /\ NamedInv'
    <3> DEFINE n == IF v.kind = "link" THEN req[r].new \cup {res} ELSE req[r].new
               q == [req[r] EXCEPT !.pc = "read_granted", !.new = n]
    <3>1. Become(r, q)
      BY <1>6 DEF PassResident
    <3>2. n \in SUBSET Records
      BY <1>1, <1>2, RequestParts
    <3>3. q \in Request /\ q.master = req[r].master
      BY <1>1, <3>2 DEF Request
    <3>4. Named(q)
      BY <1>1, <3>3 DEF Named
    <3> QED
      BY <3>1, <3>3, <3>4, BecomeTyping
  <2> QED
    BY <1>6, <2>1 DEF ResolveResident, PassResident
<1> QED
  BY <1>3, <1>5, <1>6

LEMMA TypeEnding ==
  ASSUME TypeInv, NEW r \in Requests, NoResident(r) \/ Exchange(r) \/ Rollback(r)
  PROVE  TypeInv'
<1> USE DEF TypeInv, TypeOK
<1>1. CASE NoResident(r)
  <2>1. End(r) /\ links' \in [Records -> Masters \cup {None}]
    BY <1>1, SightTyping DEF NoResident, Commit
  <2> QED
    BY <1>1, <2>1, EndTyping, EndNamed DEF NoResident
<1>2. CASE Rollback(r)
  BY <1>2, EndTyping, EndNamed DEF Rollback
<1>3. CASE Exchange(r)
  <2>1. End(r) /\ links' \in [Records -> Masters \cup {None}]
    BY <1>3, SightTyping DEF Exchange, Commit
  <2>2. req[r].app \in Apps /\ req[r].grant \in GrantIds
    BY <1>3, RequestParts DEF Exchange, NamedInv, Named
  <2>3. /\ appDoc' \in [Apps -> {"missing", "verified"}]
        /\ unified' \in [Apps -> {"none", "in_progress", "completed"}]
        /\ transferred' \subseteq [app : Apps, grant : GrantIds]
    BY <1>3, <2>2 DEF Exchange
  <2> QED
    BY <1>3, <2>1, <2>3, EndTyping, EndNamed DEF Exchange
<1> QED
  BY <1>1, <1>2, <1>3

\* A consent is appended or asked for again, or the request goes on.
LEMMA TypeConsentSteps ==
  ASSUME TypeInv, NEW r \in Requests, ReadGranted(r) \/ ReadPending(r) \/ CreateConsent(r)
  PROVE  TypeInv'
<1> USE DEF TypeInv, TypeOK
<1>1. /\ req[r] \in Request /\ req[r].pc \in RequestSteps \ {"flush"}
      /\ req[r].master \in Masters /\ req[r].app \in Apps
  BY RequestParts DEF ReadGranted, ReadPending, CreateConsent, NamedInv, Named, RequestSteps
<1>2. Sight(r) \in [Records -> Masters \cup {None}]
  BY <1>1, SightTyping DEF RequestSteps
<1>3. CASE ReadGranted(r)
  <2>1. req' \in [Requests -> Request \cup {Idle}] /\ NamedInv'
    <3>1. CASE Become(r, [req[r] EXCEPT !.pc = "read_pending"])
      <4> DEFINE q == [req[r] EXCEPT !.pc = "read_pending"]
      <4>1. q \in Request /\ Named(q)
        BY <1>1 DEF Request, Named
      <4> QED
        BY <3>1, <4>1, BecomeTyping
    <3>2. ASSUME NEW g \in DOMAIN grants,
                 Become(r, [req[r] EXCEPT !.pc = "exchange", !.grant = g])
          PROVE  req' \in [Requests -> Request \cup {Idle}] /\ NamedInv'
      <4> DEFINE q == [req[r] EXCEPT !.pc = "exchange", !.grant = g]
      <4>1. g \in GrantIds
        BY NullsAssumption DEF GrantIds
      <4>2. q \in Request /\ Named(q)
        BY <1>1, <4>1 DEF Request, Named
      <4> QED
        BY <3>2, <4>2, BecomeTyping
    <3> QED
      BY <1>3, <3>1, <3>2 DEF ReadGranted, Consents
  <2> QED
    BY <1>3, <2>1 DEF ReadGranted
<1>4. CASE ReadPending(r)
  <2>1. CASE Commit(r)
    BY <1>2, <1>4, <2>1, EndTyping, EndNamed DEF ReadPending, Commit
  <2>2. CASE UNCHANGED <<links, locker>> /\ Become(r, [req[r] EXCEPT !.pc = "create"])
    <3> DEFINE q == [req[r] EXCEPT !.pc = "create"]
    <3>1. q \in Request /\ Named(q)
      BY <1>1 DEF Request, Named
    <3>2. req' \in [Requests -> Request \cup {Idle}] /\ NamedInv'
      BY <2>2, <3>1, BecomeTyping
    <3> QED
      BY <1>4, <2>2, <3>2 DEF ReadPending
  <2> QED
    BY <1>4, <2>1, <2>2 DEF ReadPending
<1>5. CASE CreateConsent(r)
  <2>1. [master |-> req[r].master, app |-> req[r].app, status |-> "pending",
         expires |-> "none"] \in Grant
    BY <1>1 DEF Grant
  <2>2. grants' \in Seq(Grant) /\ Len(grants') <= MaxGrants
    BY <1>5, <2>1, NullsAssumption DEF CreateConsent
  <2> QED
    BY <1>2, <1>5, <2>2, EndTyping, EndNamed DEF CreateConsent, Commit
<1> QED
  BY <1>3, <1>4, <1>5

LEMMA TypeRequestStep ==
  ASSUME TypeInv, NEW r \in Requests, RequestStep(r)
  PROVE  TypeInv'
BY TypeBegin, TypeFlush, TypeResolve, TypeEnding, TypeConsentSteps DEF RequestStep

LEMMA TypeDeciderStep ==
  ASSUME TypeInv, NEW d \in Deciders, DeciderStep(d)
  PROVE  TypeInv'
<1> USE DEF TypeInv, TypeOK
<1>1. ASSUME NEW op \in {"grant", "deny", "revoke"}, NEW from, ReadConsent(d, op, from)
      PROVE  TypeInv'
  <2>1. PICK g \in DOMAIN grants :
          dec' = [dec EXCEPT ![d] = [pc |-> op, ids |-> {g}, reopen |-> {}]]
    BY <1>1 DEF ReadConsent, InStatus
  <2>2. [pc |-> op, ids |-> {g}, reopen |-> {}] \in Decision
    BY NullsAssumption DEF Decision, GrantIds
  <2> QED
    BY <1>1, <2>1, <2>2 DEF ReadConsent, NamedInv
<1>2. ASSUME NEW op, NEW to \in {"granted", "denied", "revoked"}, CommitConsent(d, op, to)
      PROVE  TypeInv'
  BY <1>2, GrantsRewritten DEF CommitConsent, NamedInv
<1>3. CASE ReadReset(d)
  <2>1. InStatus("granted") \cup InStatus("pending") \subseteq GrantIds
    BY NullsAssumption DEF InStatus, GrantIds
  <2>2. dec'[d] \in Decision
    BY <1>3, <2>1 DEF ReadReset, Decision
  <2> QED
    BY <1>3, <2>2 DEF ReadReset, NamedInv
<1>4. CASE CommitReset(d)
  BY <1>4, GrantsRewritten DEF CommitReset, NamedInv
<1> QED
  BY <1>1, <1>2, <1>3, <1>4 DEF DeciderStep, GrantConsent, DenyConsent, RevokeConsent

LEMMA TypeOfficerStep ==
  ASSUME TypeInv, NEW o \in Officers, OfficerStep(o)
  PROVE  TypeInv'
<1> USE DEF TypeInv, TypeOK
<1>1. CASE ReadCandidate(o)
  BY <1>1 DEF ReadCandidate, Ruling, NamedInv
<1>2. ASSUME NEW yes \in BOOLEAN, CommitCandidate(o, yes)
      PROVE  TypeInv'
  <2>1. off[o].cand \in Cand
    BY <1>2 DEF CommitCandidate, Ruling
  <2>2. links' \in [Records -> Masters \cup {None}]
    BY <1>2, <2>1 DEF CommitCandidate, FreshMasters, Cand
  <2>3. \A row \in cands :
          [row EXCEPT !.status = IF yes THEN "confirmed" ELSE "rejected"] \in Cand
    BY DEF Cand
  <2>4. cands' \subseteq Cand
    BY <1>2, <2>3 DEF CommitCandidate
  <2> QED
    BY <1>2, <2>2, <2>4 DEF CommitCandidate, NamedInv
<1>3. CASE FailCandidate(o)
  BY <1>3 DEF FailCandidate, NamedInv
<1> QED
  BY <1>1, <1>2, <1>3 DEF OfficerStep

LEMMA TypeOtherStep ==
  ASSUME TypeInv, Lapse \/ (\E s \in Switched : SetConnectorEnabled(s))
  PROVE  TypeInv'
<1> USE DEF TypeInv, TypeOK
<1>1. CASE Lapse
  <2>1. PICK g \in DOMAIN grants : grants' = [grants EXCEPT ![g].expires = "past"]
    BY <1>1 DEF Lapse
  <2>2. grants[g] \in Grant /\ [grants[g] EXCEPT !.expires = "past"] \in Grant
    <3>1. grants[g] \in Grant
      BY <2>1
    <3> QED
      BY <3>1 DEF Grant
  <2>3. grants' \in [DOMAIN grants -> Grant]
    BY <2>1, <2>2
  <2>4. grants' \in Seq(Grant) /\ Len(grants') <= MaxGrants
    BY <2>3, Rewritten
  <2> QED
    BY <1>1, <2>4 DEF Lapse, NamedInv
<1>2. ASSUME NEW s \in Switched, SetConnectorEnabled(s)
      PROVE  TypeInv'
  BY <1>2, RecordsAssumption DEF SetConnectorEnabled, NamedInv
<1> QED
  BY <1>1, <1>2

LEMMA TypeStep == TypeInv /\ [Next]_vars => TypeInv'
<1> SUFFICES ASSUME TypeInv, [Next]_vars PROVE TypeInv'
  OBVIOUS
<1>1. CASE UNCHANGED vars
  BY <1>1 DEF vars, TypeInv, TypeOK, NamedInv
<1> QED
  BY <1>1, TypeRequestStep, TypeDeciderStep, TypeOfficerStep, TypeOtherStep DEF Next

LEMMA TypeAlways == Spec => []TypeInv
BY TypeInit, TypeStep, PTL DEF Spec

\* Every row, consent, candidate and transaction is of its kind in every reachable
\* state.
THEOREM TypeCorrect == Spec => []TypeOK
<1>1. TypeInv => TypeOK
  BY DEF TypeInv
<1> QED
  BY <1>1, TypeAlways, PTL

-----------------------------------------------------------------------------
(* A person is asked once.  The lock of the registry row is what carries it:  *)
(* past its flush a request holds the row, so that nobody else appends a      *)
(* consent between the moment it finds none pending and its commit.           *)

PastFlush(r) == req[r].pc \notin {"idle", "flush"}

LockInv == \A r \in Requests : PastFlush(r) => locker = r

CreateInv ==
  \A r \in Requests : req[r].pc = "create" => Consents(req[r].master, "pending") = {}

PendingInv == TypeInv /\ LockInv /\ CreateInv /\ AtMostOnePending

\* No consent becomes pending or changes its master.
KeepsPending ==
  /\ DOMAIN grants' = DOMAIN grants
  /\ \A g \in DOMAIN grants :
       /\ grants'[g].master = grants[g].master
       /\ grants'[g].status = "pending" => grants[g].status = "pending"

LEMMA WritesKeepPending ==
  ASSUME TypeOK, NEW d, NEW to \in {"granted", "denied", "revoked"},
         WriteConsents(d, to)
  PROVE  KeepsPending
<1>1. DOMAIN grants' = DOMAIN grants
  BY DEF WriteConsents
<1>2. ASSUME NEW g \in DOMAIN grants
      PROVE  /\ grants'[g].master = grants[g].master
             /\ grants'[g].status = "pending" => grants[g].status = "pending"
  <2>1. grants[g] \in Grant
    BY DEF TypeOK
  <2>2. CASE g \notin dec[d].ids
    BY <2>2 DEF WriteConsents
  <2>3. CASE g \in dec[d].ids
    <3>1. grants'[g] = [grants[g] EXCEPT !.status = to,
                          !.expires = IF to = "granted" THEN "ahead" ELSE @]
      BY <2>3 DEF WriteConsents
    <3>2. grants'[g].master = grants[g].master /\ grants'[g].status = to
      BY <2>1, <3>1 DEF Grant
    <3> QED
      BY <3>2
  <2> QED
    BY <2>2, <2>3
<1> QED
  BY <1>1, <1>2 DEF KeepsPending

LEMMA LapseKeepsPending == ASSUME TypeOK, Lapse PROVE KeepsPending
<1>1. PICK g \in DOMAIN grants : grants' = [grants EXCEPT ![g].expires = "past"]
  BY DEF Lapse
<1>2. grants[g] \in Grant
  BY <1>1 DEF TypeOK
<1>3. /\ [grants[g] EXCEPT !.expires = "past"].master = grants[g].master
      /\ [grants[g] EXCEPT !.expires = "past"].status = grants[g].status
  BY <1>2 DEF Grant
<1> QED
  BY <1>1, <1>3 DEF KeepsPending, TypeOK

\* What the consents' rows say of pending ones is enough when they are kept.
LEMMA PendingKept ==
  ASSUME AtMostOnePending, KeepsPending
  PROVE  /\ AtMostOnePending'
         /\ \A m : Consents(m, "pending")' \subseteq Consents(m, "pending")
BY DEF AtMostOnePending, KeepsPending, InStatus, Consents

\* A request that ends gives the row back, one that holds it keeps it.
LEMMA LockStep ==
  ASSUME PendingInv, NEW r \in Requests,
         \/ End(r)
         \/ (\E q : Become(r, q) /\ q.pc = "flush") /\ locker' = locker
         \/ (\E q : Become(r, q)) /\ locker' = r /\ (locker = Nobody \/ PastFlush(r))
  PROVE  LockInv'
<1> USE DEF PendingInv, TypeInv, TypeOK, LockInv, PastFlush
<1>1. \A p \in Requests \ {r} : req'[p] = req[p]
  BY DEF End, Become
<1>2. CASE End(r)
  BY <1>2, <1>1, IdlePc DEF End, Become
<1>3. CASE (\E q : Become(r, q) /\ q.pc = "flush") /\ locker' = locker
  BY <1>3, <1>1 DEF Become
<1>4. CASE (\E q : Become(r, q)) /\ locker' = r /\ (locker = Nobody \/ PastFlush(r))
  BY <1>4, <1>1, NullsAssumption DEF Become
<1> QED
  BY <1>2, <1>3, <1>4

LEMMA LockRequest ==
  ASSUME PendingInv, NEW r \in Requests, RequestStep(r)
  PROVE  LockInv'
<1>1. CASE Begin(r)
  BY <1>1, LockStep DEF Begin
<1>2. CASE Flush(r)
  <2>1. CASE FlushQuestion(r)
    BY <2>1, LockStep DEF FlushQuestion
  <2>2. CASE FlushLink(r)
    <3>1. \E q : Become(r, q)
      BY <2>2 DEF FlushLink
    <3> QED
      BY <1>2, <2>2, <3>1, LockStep DEF Flush, FlushLink
  <2> QED
    BY <1>2, <2>1, <2>2 DEF Flush
<1>3. CASE NoResident(r) \/ CreateConsent(r) \/ Exchange(r) \/ Rollback(r)
  <2>1. End(r)
    BY <1>3 DEF NoResident, CreateConsent, Exchange, Rollback, Commit
  <2> QED
    BY <2>1, LockStep
<1>4. CASE ResolveResident(r) \/ ReadGranted(r) \/ ReadPending(r)
  <2>1. PastFlush(r) /\ locker = r
    BY <1>4 DEF PastFlush, ResolveResident, ReadGranted, ReadPending, PendingInv, LockInv
  <2>2. End(r) \/ ((\E q : Become(r, q)) /\ locker' = locker)
    BY <1>4 DEF ResolveResident, ReadGranted, ReadPending, StopAtResident,
                PassResident, Commit
  <2> QED
    BY <2>1, <2>2, LockStep
<1> QED
  BY <1>1, <1>2, <1>3, <1>4 DEF RequestStep

\* A request appends its consent while it alone is past its flush.
LEMMA PendingCreate ==
  ASSUME PendingInv, NEW r \in Requests, CreateConsent(r)
  PROVE  AtMostOnePending' /\ CreateInv'
<1> USE DEF PendingInv, TypeInv, TypeOK
<1> DEFINE n == Len(grants) + 1
<1>1. /\ DOMAIN grants' = DOMAIN grants \cup {n} /\ n \notin DOMAIN grants
      /\ \A g \in DOMAIN grants : grants'[g] = grants[g]
      /\ grants'[n].master = req[r].master
  BY DEF CreateConsent
<1>2. Consents(req[r].master, "pending") = {}
  BY DEF CreateConsent, CreateInv
<1>3. AtMostOnePending'
  <2> SUFFICES ASSUME NEW g \in InStatus("pending")', NEW h \in InStatus("pending")',
                      grants'[g].master = grants'[h].master
               PROVE  g = h
    BY DEF AtMostOnePending
  <2>1. CASE g \in DOMAIN grants /\ h \in DOMAIN grants
    BY <1>1, <2>1 DEF AtMostOnePending, InStatus
  <2>2. CASE g = n /\ h \in DOMAIN grants
    BY <1>1, <1>2, <2>2 DEF InStatus, Consents
  <2>3. CASE h = n /\ g \in DOMAIN grants
    BY <1>1, <1>2, <2>3 DEF InStatus, Consents
  <2> QED
    BY <1>1, <2>1, <2>2, <2>3 DEF InStatus
<1>4. CreateInv'
  <2>1. \A p \in Requests \ {r} : req'[p] = req[p]
    BY DEF CreateConsent, Commit, End, Become
  <2>2. req'[r] = Idle /\ req[r].pc = "create"
    BY DEF CreateConsent, Commit, End, Become
  <2>3. \A p \in Requests : req'[p].pc # "create"
    BY <2>1, <2>2, IdlePc DEF LockInv, PastFlush
  <2> QED
    BY <2>3 DEF CreateInv
<1> QED
  BY <1>3, <1>4

\* The other steps of a request leave the consents alone.
LEMMA PendingRequest ==
  ASSUME PendingInv, NEW r \in Requests, RequestStep(r), ~CreateConsent(r)
  PROVE  AtMostOnePending' /\ CreateInv'
<1> USE DEF PendingInv, TypeInv, TypeOK
<1>1. grants' = grants
  BY DEF RequestStep, Begin, Flush, NoResident, ResolveResident, ReadGranted,
         ReadPending, Exchange, Rollback
<1>2. AtMostOnePending' /\ \A m, s : Consents(m, s)' = Consents(m, s)
  BY <1>1 DEF AtMostOnePending, InStatus, Consents
<1>3. CASE ReadPending(r) /\ Become(r, [req[r] EXCEPT !.pc = "create"])
  <2> DEFINE q == [req[r] EXCEPT !.pc = "create"]
  <2>1. q.master = req[r].master
    BY <1>3, RequestParts DEF ReadPending, Request
  <2>2. req'[r].pc = "create" => Consents(req[r].master, "pending") = {}
    <3>1. CASE Consents(req[r].master, "pending") = {}
      BY <3>1
    <3>2. CASE Consents(req[r].master, "pending") # {}
      BY <1>3, <3>2, IdlePc DEF ReadPending, Commit, End, Become
    <3> QED
      BY <3>1, <3>2
  <2>3. req' = [req EXCEPT ![r] = q]
    BY <1>3 DEF Become
  <2> QED
    BY <1>2, <2>1, <2>2, <2>3 DEF CreateInv
<1>4. CASE \E q : Become(r, q) /\ q.pc # "create"
  BY <1>2, <1>4 DEF CreateInv, Become
<1>5. (\E q : Become(r, q) /\ q.pc # "create")
      \/ (ReadPending(r) /\ Become(r, [req[r] EXCEPT !.pc = "create"]))
  <2>1. CASE Begin(r)
    BY <2>1 DEF Begin
  <2>2. CASE End(r)
    BY <2>2, IdlePc DEF End
  <2>3. CASE Flush(r) \/ ResolveResident(r) \/ ReadGranted(r)
    <3>1. req[r] \in Request
      BY <2>3, RequestParts DEF Flush, ResolveResident, ReadGranted
    <3> DEFINE q1(p) == [req[r] EXCEPT !.pc = p]
               q2(p, x) == [req[r] EXCEPT !.pc = p, !.new = x]
               q3(p, x, m) == [req[r] EXCEPT !.pc = p, !.new = x, !.master = m]
               q4(p, g) == [req[r] EXCEPT !.pc = p, !.grant = g]
    <3>2. \A x, m, g, p : /\ q1(p).pc = p /\ q2(p, x).pc = p
                         /\ q3(p, x, m).pc = p /\ q4(p, g).pc = p
      BY <3>1 DEF Request
    <3> HIDE DEF q1, q2, q3, q4
    <3>3. CASE Flush(r)
      <4>1. End(r) \/ Become(r, q1("resolve"))
            \/ (\E x : Become(r, q2("resolve", x)))
            \/ (\E x, m : Become(r, q3("resolve", x, m)))
        BY <3>3 DEF Flush, FlushLink, FlushQuestion, q1, q2, q3
      <4> QED
        BY <2>2, <3>2, <4>1
    <3>4. CASE ResolveResident(r)
      <4>1. End(r) \/ \E x : Become(r, q2("read_granted", x))
        BY <3>4 DEF ResolveResident, StopAtResident, PassResident, Commit, q2
      <4> QED
        BY <2>2, <3>2, <4>1
    <3>5. CASE ReadGranted(r)
      <4>1. Become(r, q1("read_pending")) \/ \E g : Become(r, q4("exchange", g))
        BY <3>5 DEF ReadGranted, q1, q4
      <4> QED
        BY <3>2, <4>1
    <3> QED
      BY <2>3, <3>3, <3>4, <3>5
  <2> QED
    BY <2>1, <2>2, <2>3 DEF RequestStep, NoResident, ReadPending, Exchange, Rollback, Commit
<1> QED
  BY <1>3, <1>4, <1>5

LEMMA PendingInit == Init => PendingInv
BY TypeInit, IdlePc
   DEF Init, PendingInv, LockInv, PastFlush, CreateInv, AtMostOnePending, InStatus

LEMMA PendingStep == PendingInv /\ [Next]_vars => PendingInv'
<1> SUFFICES ASSUME PendingInv, [Next]_vars PROVE PendingInv'
  OBVIOUS
<1>1. TypeInv'
  BY TypeStep DEF PendingInv
<1>2. ASSUME UNCHANGED <<req, locker>>, KeepsPending
      PROVE  LockInv' /\ CreateInv' /\ AtMostOnePending'
  BY <1>2, PendingKept DEF PendingInv, LockInv, PastFlush, CreateInv
<1>3. ASSUME UNCHANGED <<req, locker, grants>>
      PROVE  LockInv' /\ CreateInv' /\ AtMostOnePending'
  BY <1>2, <1>3 DEF KeepsPending
<1>4. CASE UNCHANGED vars
  BY <1>1, <1>3, <1>4 DEF vars, PendingInv
<1>5. ASSUME NEW r \in Requests, RequestStep(r) PROVE PendingInv'
  BY <1>1, <1>5, LockRequest, PendingCreate, PendingRequest DEF PendingInv
<1>6. ASSUME NEW d \in Deciders, DeciderStep(d) PROVE PendingInv'
  <2>1. UNCHANGED <<req, locker>>
    BY <1>6 DEF DeciderStep, GrantConsent, DenyConsent, RevokeConsent, ReadConsent,
                CommitConsent, ReadReset, CommitReset
  <2>2. UNCHANGED grants
        \/ \E to \in {"granted", "denied", "revoked"} : WriteConsents(d, to)
    BY <1>6 DEF DeciderStep, GrantConsent, DenyConsent, RevokeConsent, ReadConsent,
                CommitConsent, ReadReset, CommitReset
  <2>3. CASE UNCHANGED grants
    BY <1>1, <1>3, <2>1, <2>3 DEF PendingInv
  <2>4. ASSUME NEW to \in {"granted", "denied", "revoked"}, WriteConsents(d, to)
        PROVE  PendingInv'
    BY <1>1, <1>2, <2>1, <2>4, WritesKeepPending DEF PendingInv, TypeInv
  <2> QED
    BY <2>2, <2>3, <2>4
<1>7. ASSUME NEW o \in Officers, OfficerStep(o) PROVE PendingInv'
  BY <1>1, <1>3, <1>7
     DEF OfficerStep, ReadCandidate, CommitCandidate, FailCandidate, PendingInv
<1>8. CASE Lapse
  BY <1>1, <1>2, <1>8, LapseKeepsPending DEF PendingInv, TypeInv, Lapse
<1>9. ASSUME NEW s \in Switched, SetConnectorEnabled(s) PROVE PendingInv'
  BY <1>1, <1>3, <1>9 DEF SetConnectorEnabled, PendingInv
<1> QED
  BY <1>4, <1>5, <1>6, <1>7, <1>8, <1>9 DEF Next

\* However many exchange requests find no consent at the same time, a person is
\* asked once.
THEOREM AskedOnce == Spec => []AtMostOnePending
<1>1. PendingInv => AtMostOnePending
  BY DEF PendingInv
<1> QED
  BY <1>1, PendingInit, PendingStep, PTL DEF Spec

-----------------------------------------------------------------------------
(* A document moves under a consent that was granted.  A consent keeps, in    *)
(* whatever status, the mark that it has been granted; a request carries such *)
(* a consent to its transfer.                                                 *)

Allowed == {g \in DOMAIN grants : grants[g].expires # "none"}

GrantInv ==
  /\ InStatus("granted") \subseteq Allowed
  /\ \A r \in Requests : req[r].pc = "exchange" => req[r].grant \in Allowed
  /\ \A t \in transferred : t.grant \in Allowed

ConsentInv == TypeInv /\ GrantInv

\* No consent loses its mark, and none is granted without one.
KeepsAllowed ==
  /\ Allowed \subseteq Allowed'
  /\ InStatus("granted")' \subseteq Allowed'

LEMMA WritesKeepAllowed ==
  ASSUME ConsentInv, NEW d, NEW to \in {"granted", "denied", "revoked"},
         WriteConsents(d, to)
  PROVE  KeepsAllowed
<1>1. DOMAIN grants' = DOMAIN grants
  BY DEF WriteConsents
<1>2. ASSUME NEW g \in DOMAIN grants
      PROVE  /\ grants[g].expires # "none" => grants'[g].expires # "none"
             /\ grants'[g].status = "granted" => grants'[g].expires # "none"
  <2>1. grants[g] \in Grant
    BY DEF TypeOK, ConsentInv, TypeInv
  <2>2. grants[g].status = "granted" => grants[g].expires # "none"
    BY <1>2 DEF ConsentInv, GrantInv, InStatus, Allowed
  <2>3. CASE g \notin dec[d].ids
    BY <2>2, <2>3 DEF WriteConsents
  <2>4. CASE g \in dec[d].ids
    <3>1. grants'[g] = [grants[g] EXCEPT !.status = to,
                          !.expires = IF to = "granted" THEN "ahead" ELSE @]
      BY <2>4 DEF WriteConsents
    <3>2. /\ grants'[g].status = to
          /\ grants'[g].expires = IF to = "granted" THEN "ahead" ELSE grants[g].expires
      BY <2>1, <3>1 DEF Grant
    <3> QED
      BY <3>2
  <2> QED
    BY <2>3, <2>4
<1> QED
  BY <1>1, <1>2 DEF KeepsAllowed, Allowed, InStatus

LEMMA LapseKeepsAllowed == ASSUME ConsentInv, Lapse PROVE KeepsAllowed
<1>1. PICK g \in DOMAIN grants : grants' = [grants EXCEPT ![g].expires = "past"]
  BY DEF Lapse
<1>2. grants[g] \in Grant
  BY <1>1 DEF TypeOK, ConsentInv, TypeInv
<1>3. /\ [grants[g] EXCEPT !.expires = "past"].expires = "past"
      /\ [grants[g] EXCEPT !.expires = "past"].status = grants[g].status
  BY <1>2 DEF Grant
<1>4. DOMAIN grants' = DOMAIN grants /\ \A h \in DOMAIN grants \ {g} : grants'[h] = grants[h]
  BY <1>1 DEF TypeOK, ConsentInv, TypeInv
<1> QED
  BY <1>1, <1>3, <1>4 DEF KeepsAllowed, Allowed, InStatus, ConsentInv, GrantInv

LEMMA CreateKeepsAllowed ==
  ASSUME ConsentInv, NEW r \in Requests, CreateConsent(r)
  PROVE  KeepsAllowed
<1> DEFINE n == Len(grants) + 1
<1>1. /\ DOMAIN grants' = DOMAIN grants \cup {n}
      /\ \A g \in DOMAIN grants : grants'[g] = grants[g]
      /\ grants'[n].status = "pending"
  BY DEF CreateConsent, TypeOK, ConsentInv, TypeInv
<1> QED
  BY <1>1 DEF KeepsAllowed, Allowed, InStatus, ConsentInv, GrantInv

\* A request comes to its transfer from reading a granted consent of its master.
LEMMA ExchangeStarts ==
  ASSUME TypeInv, NEW r \in Requests, RequestStep(r), NEW p \in Requests,
         req'[p].pc = "exchange"
  PROVE  \/ req'[p] = req[p]
         \/ /\ req'[p].grant \in Consents(req[p].master, "granted")
            /\ req'[p].master = req[p].master
<1> USE DEF TypeInv, TypeOK
<1>1. CASE p = r /\ Begin(r)
  BY <1>1 DEF Begin, Become
<1>2. CASE p = r /\ End(r)
  BY <1>2, IdlePc DEF End, Become
<1>3. ASSUME p = r, ~Begin(r), ~End(r)
      PROVE  /\ req'[p].grant \in Consents(req[p].master, "granted")
             /\ req'[p].master = req[p].master
  <2>1. req[r] \in Request
    <3>1. req[r].pc # "idle"
      BY <1>3 DEF RequestStep, Flush, NoResident, ResolveResident, ReadGranted,
                  ReadPending, CreateConsent, Exchange, Rollback
    <3> QED
      BY <3>1, RequestParts
  <2> DEFINE q1(s) == [req[r] EXCEPT !.pc = s]
             q2(s, x) == [req[r] EXCEPT !.pc = s, !.new = x]
             q3(s, x, m) == [req[r] EXCEPT !.pc = s, !.new = x, !.master = m]
             q4(g) == [req[r] EXCEPT !.pc = "exchange", !.grant = g]
  <2>2. \A s, x, m, g : /\ q1(s).pc = s /\ q2(s, x).pc = s /\ q3(s, x, m).pc = s
                        /\ q4(g).grant = g /\ q4(g).master = req[r].master
    BY <2>1 DEF Request
  <2> HIDE DEF q1, q2, q3, q4
  <2>3. CASE Flush(r)
    <3>1. \/ Become(r, q1("resolve")) \/ (\E x : Become(r, q2("resolve", x)))
          \/ (\E x, m : Become(r, q3("resolve", x, m)))
      BY <1>3, <2>3 DEF Flush, FlushLink, FlushQuestion, q1, q2, q3
    <3> QED
      BY <1>3, <2>2, <3>1 DEF Become
  <2>4. CASE ResolveResident(r)
    <3>1. \E x : Become(r, q2("read_granted", x))
      BY <1>3, <2>4 DEF ResolveResident, StopAtResident, PassResident, Commit, q2
    <3> QED
      BY <1>3, <2>2, <3>1 DEF Become
  <2>5. CASE ReadPending(r)
    <3>1. Become(r, q1("create"))
      BY <1>3, <2>5 DEF ReadPending, Commit, q1
    <3> QED
      BY <1>3, <2>2, <3>1 DEF Become
  <2>6. CASE ReadGranted(r)
    <3>1. Become(r, q1("read_pending"))
          \/ \E g \in Consents(req[r].master, "granted") : Become(r, q4(g))
      BY <2>6 DEF ReadGranted, q1, q4
    <3>2. ASSUME NEW g \in Consents(req[r].master, "granted"), Become(r, q4(g))
          PROVE  req'[p].grant = g /\ req'[p].master = req[p].master
      BY <1>3, <2>2, <3>2 DEF Become
    <3> QED
      BY <1>3, <2>2, <3>1, <3>2 DEF Become
  <2> QED
    BY <1>3, <2>3, <2>4, <2>5, <2>6
       DEF RequestStep, NoResident, CreateConsent, Exchange, Rollback, Commit
<1>4. req'[p] = req[p] \/ p = r
  BY DEF RequestStep, Begin, Flush, FlushLink, FlushQuestion, NoResident, ResolveResident,
         StopAtResident, PassResident, ReadGranted, ReadPending, CreateConsent, Exchange,
         Rollback, Commit, End, Become
<1> QED
  BY <1>1, <1>2, <1>3, <1>4

LEMMA ExchangeAllowed ==
  ASSUME ConsentInv, NEW r \in Requests, RequestStep(r), NEW p \in Requests,
         req'[p].pc = "exchange"
  PROVE  req'[p].grant \in Allowed
BY ExchangeStarts DEF ConsentInv, GrantInv, Consents, InStatus

LEMMA ConsentInit == Init => ConsentInv
BY TypeInit, IdlePc DEF Init, ConsentInv, GrantInv, InStatus

\* Kept consents keep what refers to them.
LEMMA ConsentKept ==
  ASSUME ConsentInv, KeepsAllowed, UNCHANGED <<req, transferred>>
  PROVE  GrantInv'
BY DEF ConsentInv, GrantInv, KeepsAllowed

LEMMA ConsentRequest ==
  ASSUME ConsentInv, NEW r \in Requests, RequestStep(r)
  PROVE  GrantInv'
<1>1. KeepsAllowed
  <2>1. CASE CreateConsent(r)
    BY <2>1, CreateKeepsAllowed
  <2>2. CASE UNCHANGED grants
    BY <2>2 DEF KeepsAllowed, Allowed, InStatus, ConsentInv, GrantInv
  <2> QED
    BY <2>1, <2>2 DEF RequestStep, Begin, Flush, NoResident, ResolveResident,
                      ReadGranted, ReadPending, Exchange, Rollback
<1>2. \A p \in Requests : req'[p].pc = "exchange" => req'[p].grant \in Allowed'
  BY <1>1, ExchangeAllowed DEF KeepsAllowed
<1>3. \A t \in transferred' : t.grant \in Allowed
  <2>1. CASE Exchange(r)
    <3>1. \A t \in transferred' \ transferred : t.grant = req[r].grant
      BY <2>1 DEF Exchange
    <3> QED
      BY <2>1, <3>1 DEF Exchange, ConsentInv, GrantInv
  <2>2. CASE UNCHANGED transferred
    BY <2>2 DEF ConsentInv, GrantInv
  <2> QED
    BY <2>1, <2>2 DEF RequestStep, Begin, Flush, NoResident, ResolveResident,
                      ReadGranted, ReadPending, CreateConsent, Rollback
<1> QED
  BY <1>1, <1>2, <1>3 DEF KeepsAllowed, GrantInv

LEMMA ConsentStep == ConsentInv /\ [Next]_vars => ConsentInv'
<1> SUFFICES ASSUME ConsentInv, [Next]_vars PROVE GrantInv'
  BY TypeStep DEF ConsentInv
<1>1. ASSUME UNCHANGED <<grants, req, transferred>>
      PROVE  GrantInv'
  BY <1>1 DEF ConsentInv, GrantInv, Allowed, InStatus
<1>2. CASE UNCHANGED vars
  BY <1>1, <1>2 DEF vars
<1>3. ASSUME NEW d \in Deciders, DeciderStep(d) PROVE GrantInv'
  <2>1. UNCHANGED <<req, transferred>>
    BY <1>3 DEF DeciderStep, GrantConsent, DenyConsent, RevokeConsent, ReadConsent,
                CommitConsent, ReadReset, CommitReset
  <2>2. UNCHANGED grants
        \/ \E to \in {"granted", "denied", "revoked"} : WriteConsents(d, to)
    BY <1>3 DEF DeciderStep, GrantConsent, DenyConsent, RevokeConsent, ReadConsent,
                CommitConsent, ReadReset, CommitReset
  <2> QED
    BY <1>1, <2>1, <2>2, WritesKeepAllowed, ConsentKept
<1>4. ASSUME NEW o \in Officers, OfficerStep(o) PROVE GrantInv'
  BY <1>1, <1>4 DEF OfficerStep, ReadCandidate, CommitCandidate, FailCandidate
<1>5. CASE Lapse
  BY <1>5, LapseKeepsAllowed, ConsentKept DEF Lapse
<1>6. ASSUME NEW s \in Switched, SetConnectorEnabled(s) PROVE GrantInv'
  BY <1>1, <1>6 DEF SetConnectorEnabled
<1> QED
  BY <1>2, <1>3, <1>4, <1>5, <1>6, ConsentRequest DEF Next

\* A document moves only under a consent that was granted once.
THEOREM MovesWithConsent == Spec => []TransferHadConsent
<1>1. ConsentInv => TransferHadConsent
  BY DEF ConsentInv, GrantInv, Allowed, TransferHadConsent
<1> QED
  BY <1>1, ConsentInit, ConsentStep, PTL DEF Spec

-----------------------------------------------------------------------------
(* An officer's word holds.  A record that has a link keeps it until a reset, *)
(* which deletes the candidates of the records it clears; a candidate that an *)
(* officer has read keeps its record and its master.                          *)

CandInv ==
  /\ \A c, k \in cands : c.id = k.id => c = k
  /\ \A o \in Officers : off[o] # Idle =>
       \A k \in cands : k.id = off[o].cand.id =>
         k.rec = off[o].cand.rec /\ k.master = off[o].cand.master

RulingInv == TypeInv /\ CandInv /\ RulingsHold

KeepsLinks == \A x \in Records : links[x] # None => links'[x] = links[x]

AddsQuestion ==
  \/ UNCHANGED cands
  \/ \E id \in FreshCands, rec \in Records, m \in Masters :
       cands' = cands \cup {Question(id, rec, m)}

\* A step that keeps the links there are and only asks questions overturns nothing.
LEMMA RulingsKept ==
  ASSUME RulingInv, KeepsLinks, AddsQuestion, UNCHANGED off
  PROVE  CandInv' /\ RulingsHold'
<1> USE DEF RulingInv, TypeInv, TypeOK
<1>1. \A c \in cands : /\ c \in Cand /\ c.rec \in Records /\ c.master \in Masters
                       /\ c.master # None
  BY NullsAssumption DEF Cand
<1>2. \A c \in cands :
        /\ c.status = "confirmed" => links'[c.rec] = c.master
        /\ c.status = "rejected" => links'[c.rec] \notin {c.master, None}
  BY <1>1 DEF RulingsHold, KeepsLinks
<1>3. CASE UNCHANGED cands
  BY <1>2, <1>3 DEF CandInv, RulingsHold
<1>4. ASSUME NEW id \in FreshCands, NEW rec \in Records, NEW m \in Masters,
             cands' = cands \cup {Question(id, rec, m)}
      PROVE  CandInv' /\ RulingsHold'
  <2> DEFINE n == Question(id, rec, m)
  <2>1. n.id = id /\ n.status = "pending"
    BY DEF Question
  <2>2. (\A c \in cands : c.id # id) /\ \A o \in Officers : off[o] # Idle => off[o].cand.id # id
    BY DEF FreshCands
  <2> HIDE DEF n
  <2>3. cands' = cands \cup {n}
    BY <1>4 DEF n
  <2>4. CandInv'
    BY <2>1, <2>2, <2>3 DEF CandInv
  <2>5. RulingsHold'
    BY <1>2, <2>1, <2>3 DEF RulingsHold
  <2> QED
    BY <2>4, <2>5
<1> QED
  BY <1>3, <1>4 DEF AddsQuestion

\* Without a conflict the links a transaction inserts replace none.
LEMMA SightKeeps ==
  ASSUME NEW r \in Requests, ~Conflict(r), req[r].new \subseteq Records
  PROVE  \A x \in Records : links[x] # None => Sight(r)[x] = links[x]
BY DEF Sight, Conflict

LEMMA RequestKeepsRulings ==
  ASSUME RulingInv, NEW r \in Requests, RequestStep(r)
  PROVE  KeepsLinks /\ AddsQuestion
<1> USE DEF RulingInv, TypeInv, TypeOK
<1>1. ASSUME Commit(r), req[r].pc # "idle"
      PROVE  KeepsLinks
  BY <1>1, RequestParts, SightKeeps DEF Commit, KeepsLinks
<1>2. CASE Begin(r) \/ ReadGranted(r) \/ Rollback(r)
  BY <1>2 DEF Begin, ReadGranted, Rollback, KeepsLinks, AddsQuestion
<1>3. CASE NoResident(r) \/ CreateConsent(r) \/ Exchange(r)
  BY <1>1, <1>3 DEF NoResident, CreateConsent, Exchange, AddsQuestion
<1>4. CASE ReadPending(r)
  <2>1. KeepsLinks
    <3>1. CASE Commit(r)
      BY <1>1, <1>4, <3>1 DEF ReadPending
    <3>2. CASE UNCHANGED links
      BY <3>2 DEF KeepsLinks
    <3> QED
      BY <1>4, <3>1, <3>2 DEF ReadPending
  <2> QED
    BY <1>4, <2>1 DEF ReadPending, AddsQuestion
<1>5. CASE Flush(r)
  <2>1. BenOf[req[r].app] \in Records
    BY <1>5, RequestParts DEF Flush, Records
  <2>2. req[r].verdict = "queue" => req[r].master \in Masters
    BY <1>5 DEF Flush, NamedInv, Named
  <2> QED
    BY <1>5, <2>1, <2>2 DEF Flush, FlushLink, FlushQuestion, KeepsLinks, AddsQuestion
<1>6. CASE ResolveResident(r)
  <2> DEFINE res == ResOf[BenOf[req[r].app]]
  <2>1. /\ req[r] \in Request /\ req[r].new \subseteq Records /\ res \in Records
        /\ Sight(r) \in [Records -> Masters \cup {None}] /\ req[r].pc # "idle"
        /\ req[r].master \in Masters
    BY <1>6, RequestParts, RecordsAssumption, SightTyping
       DEF ResolveResident, Records, NamedInv, Named
  <2>2. PICK v \in Verdicts(res, Sight(r)) : StopAtResident(r, res, v) \/ PassResident(r, res, v)
    BY <1>6 DEF ResolveResident
  <2>3. /\ v.kind # "new" => v.master \in Masters
        /\ v.kind # "known" => Sight(r)[res] = None
        /\ v.kind = "known" => Sight(r)[res] = v.master
    BY <2>1, VerdictTyping
  <2>4. CASE PassResident(r, res, v)
    BY <2>4 DEF PassResident, KeepsLinks, AddsQuestion
  <2>5. CASE StopAtResident(r, res, v) /\ Commit(r)
    <3>1. AddsQuestion
      BY <2>1, <2>3, <2>5 DEF StopAtResident, AddsQuestion
    <3> QED
      BY <1>1, <2>1, <2>5, <3>1
  <2>6. CASE StopAtResident(r, res, v) /\ ~Commit(r)
    <3>1. ~Conflict(r) /\ UNCHANGED cands
      BY <2>6 DEF StopAtResident
    <3>2. PICK m : /\ links' = [Sight(r) EXCEPT ![res] = m]
                   /\ v.kind \in {"known", "link"} => m = v.master
      BY <2>6 DEF StopAtResident
    <3>3. \A x \in Records : links[x] # None => Sight(r)[x] = links[x]
      BY <2>1, <3>1, SightKeeps
    <3>4. KeepsLinks
      BY <2>1, <2>3, <2>6, <3>2, <3>3 DEF StopAtResident, KeepsLinks
    <3> QED
      BY <3>1, <3>4 DEF AddsQuestion
  <2> QED
    BY <2>2, <2>4, <2>5, <2>6
<1> QED
  BY <1>2, <1>3, <1>4, <1>5, <1>6 DEF RequestStep

\* The link goes to a record that has none, so that no other ruling is touched,
\* and says of this one what the officer said.
LEMMA RulingsCommit ==
  ASSUME RulingInv, NEW o \in Officers, NEW yes \in BOOLEAN, CommitCandidate(o, yes)
  PROVE  CandInv' /\ RulingsHold'
<1> USE DEF RulingInv, TypeInv, TypeOK
<1> DEFINE c == off[o].cand
<1>1. c \in Cand /\ links[c.rec] = None /\ c.rec \in Records
  <2>1. off[o] \in Ruling
    BY DEF CommitCandidate
  <2> QED
    BY <2>1 DEF CommitCandidate, LinkIsFree, Ruling, Cand
<1>2. PICK m \in IF yes THEN {c.master} ELSE FreshMasters : links' = [links EXCEPT ![c.rec] = m]
  BY DEF CommitCandidate
<1>3. PICK row \in cands :
        /\ row.id = c.id
        /\ cands' = (cands \ {row}) \cup
                    {[row EXCEPT !.status = IF yes THEN "confirmed" ELSE "rejected"]}
  BY DEF CommitCandidate
<1> DEFINE n == [row EXCEPT !.status = IF yes THEN "confirmed" ELSE "rejected"]
<1>4. row.rec = c.rec /\ row.master = c.master
  BY <1>3 DEF CandInv, CommitCandidate
<1>5. /\ n.id = row.id /\ n.rec = row.rec /\ n.master = row.master
      /\ n.status = IF yes THEN "confirmed" ELSE "rejected"
  BY <1>3 DEF Cand
<1> HIDE DEF n, c
<1>6. cands' = (cands \ {row}) \cup {n}
  BY <1>3 DEF n
<1>7. off' = [off EXCEPT ![o] = Idle]
  BY DEF CommitCandidate
<1>8. CandInv'
  <2>1. \A k, l \in cands' : k.id = l.id => k = l
    BY <1>3, <1>5, <1>6 DEF CandInv
  <2>2. \A p \in Officers : off'[p] # Idle => off'[p] = off[p]
    BY <1>7
  <2>3. ASSUME NEW p \in Officers, off'[p] # Idle, NEW k \in cands',
               k.id = off'[p].cand.id
        PROVE  k.rec = off'[p].cand.rec /\ k.master = off'[p].cand.master
    <3>1. off'[p] = off[p]
      BY <2>2, <2>3
    <3>2. CASE k \in cands
      BY <2>3, <3>1, <3>2 DEF CandInv
    <3>3. CASE k = n
      BY <1>3, <1>5, <2>3, <3>1, <3>3 DEF CandInv
    <3> QED
      BY <1>6, <3>2, <3>3
  <2> QED
    BY <2>1, <2>3 DEF CandInv
<1>9. RulingsHold'
  <2>1. \A k \in cands : k.master # None /\ k.rec \in Records
    BY NullsAssumption DEF Cand
  <2>2. \A k \in cands : k.status \in {"confirmed", "rejected"} =>
          k.rec # c.rec /\ links'[k.rec] = links[k.rec]
    BY <1>1, <1>2, <2>1 DEF RulingsHold
  <2>3. links'[c.rec] = m
    BY <1>1, <1>2
  <2>4. CASE yes
    BY <1>2, <1>4, <1>5, <1>6, <2>2, <2>3, <2>4 DEF RulingsHold
  <2>5. CASE ~yes
    <3>1. m \in FreshMasters
      BY <1>2, <2>5
    <3>2. m # row.master /\ m # None
      BY <1>3, <3>1, NullsAssumption DEF FreshMasters
    <3> QED
      BY <1>4, <1>5, <1>6, <2>2, <2>3, <2>5, <3>2 DEF RulingsHold
  <2> QED
    BY <2>4, <2>5
<1> QED
  BY <1>8, <1>9

\* The reset deletes the candidates of every record whose link it clears.
LEMMA RulingsReset ==
  ASSUME RulingInv, NEW d \in Deciders, CommitReset(d)
  PROVE  CandInv' /\ RulingsHold'
<1>1. /\ cands' = {c \in cands : c.rec \notin Ambiguous} /\ off' = off
      /\ links' = [x \in Records |-> IF x \in Ambiguous THEN None ELSE links[x]]
  BY DEF CommitReset
<1>2. \A c \in cands' : c \in cands /\ links'[c.rec] = links[c.rec]
  BY <1>1 DEF RulingInv, TypeInv, TypeOK, Cand
<1>3. CandInv'
  BY <1>1 DEF CandInv, RulingInv
<1>4. RulingsHold'
  BY <1>2 DEF RulingsHold, RulingInv
<1> QED
  BY <1>3, <1>4

LEMMA RulingInit == Init => RulingInv
BY TypeInit DEF Init, RulingInv, CandInv, RulingsHold

LEMMA RulingStep == RulingInv /\ [Next]_vars => RulingInv'
<1> SUFFICES ASSUME RulingInv, [Next]_vars PROVE CandInv' /\ RulingsHold'
  BY TypeStep DEF RulingInv
<1>1. ASSUME UNCHANGED <<links, cands, off>>
      PROVE  CandInv' /\ RulingsHold'
  BY <1>1 DEF RulingInv, CandInv, RulingsHold
<1>2. ASSUME NEW r \in Requests, RequestStep(r) PROVE CandInv' /\ RulingsHold'
  <2>1. UNCHANGED off
    BY <1>2 DEF RequestStep, Begin, Flush, NoResident, ResolveResident, ReadGranted,
                ReadPending, CreateConsent, Exchange, Rollback
  <2> QED
    BY <1>2, <2>1, RequestKeepsRulings, RulingsKept
<1>3. ASSUME NEW d \in Deciders, DeciderStep(d) PROVE CandInv' /\ RulingsHold'
  BY <1>1, <1>3, RulingsReset
     DEF DeciderStep, GrantConsent, DenyConsent, RevokeConsent, ReadConsent,
         CommitConsent, ReadReset
<1>4. ASSUME NEW o \in Officers, OfficerStep(o) PROVE CandInv' /\ RulingsHold'
  <2>1. CASE ReadCandidate(o)
    <3>1. PICK c \in cands : off' = [off EXCEPT ![o] = [pc |-> "rule", cand |-> c]]
      BY <2>1 DEF ReadCandidate
    <3>2. \A p \in Officers : off'[p] = off[p] \/ off'[p].cand = c
      BY <3>1 DEF RulingInv, TypeInv, TypeOK
    <3> QED
      BY <2>1, <3>2 DEF ReadCandidate, RulingInv, CandInv, RulingsHold
  <2>2. CASE FailCandidate(o)
    <3>1. \A p \in Officers : off'[p] = off[p] \/ off'[p] = Idle
      BY <2>2 DEF FailCandidate, RulingInv, TypeInv, TypeOK
    <3> QED
      BY <2>2, <3>1 DEF FailCandidate, RulingInv, CandInv, RulingsHold
  <2> QED
    BY <1>4, <2>1, <2>2, RulingsCommit DEF OfficerStep
<1>5. ASSUME NEW s \in Switched, SetConnectorEnabled(s) PROVE CandInv' /\ RulingsHold'
  BY <1>1, <1>5 DEF SetConnectorEnabled
<1> QED
  BY <1>1, <1>2, <1>3, <1>4, <1>5 DEF Next, Lapse, vars

\* An officer's word on a candidate is what the links say, whatever two officers,
\* the requests and a reset do at the same time.
THEOREM OfficersWord == Spec => []RulingsHold
<1>1. RulingInv => RulingsHold
  BY DEF RulingInv
<1> QED
  BY <1>1, RulingInit, RulingStep, PTL DEF Spec

-----------------------------------------------------------------------------
(* A verified document says where it came from. *)

TrackedInv == TypeInv /\ VerifiedIsTracked

LEMMA TrackedStep == TrackedInv /\ [Next]_vars => TrackedInv'
<1> SUFFICES ASSUME TrackedInv, [Next]_vars PROVE VerifiedIsTracked'
  BY TypeStep DEF TrackedInv
<1> USE DEF TrackedInv, TypeInv, TypeOK
<1>1. ASSUME UNCHANGED <<appDoc, unified, transferred>>
      PROVE  VerifiedIsTracked'
  BY <1>1 DEF VerifiedIsTracked
<1>2. ASSUME NEW r \in Requests, Exchange(r) PROVE VerifiedIsTracked'
  <2>1. req[r].app \in Apps
    BY <1>2, RequestParts DEF Exchange
  <2>2. \A a \in Apps : appDoc'[a] = "verified" =>
          unified'[a] = "completed" /\ \E t \in transferred' : t.app = a
    <3> SUFFICES ASSUME NEW a \in Apps, appDoc'[a] = "verified"
                 PROVE  unified'[a] = "completed" /\ \E t \in transferred' : t.app = a
      OBVIOUS
    <3>1. CASE /\ appDoc' = [appDoc EXCEPT ![req[r].app] = "verified"]
               /\ unified' = [unified EXCEPT ![req[r].app] = "completed"]
               /\ transferred' = transferred \cup
                                 {[app |-> req[r].app, grant |-> req[r].grant]}
      <4>1. CASE a = req[r].app
        <5>1. [app |-> req[r].app, grant |-> req[r].grant] \in transferred'
          BY <3>1
        <5>2. [app |-> req[r].app, grant |-> req[r].grant].app = a
          BY <4>1
        <5>3. unified'[a] = "completed"
          BY <2>1, <3>1, <4>1
        <5> QED
          BY <5>1, <5>2, <5>3
      <4>2. CASE a # req[r].app
        BY <2>1, <3>1, <4>2 DEF VerifiedIsTracked
      <4> QED
        BY <4>1, <4>2
    <3>2. CASE /\ UNCHANGED <<appDoc, transferred>>
               /\ unified' = [unified EXCEPT ![req[r].app] =
                               IF @ = "none" THEN "in_progress" ELSE @]
      BY <2>1, <3>2 DEF VerifiedIsTracked
    <3> QED
      BY <1>2, <3>1, <3>2 DEF Exchange
  <2> QED
    BY <2>2 DEF VerifiedIsTracked
<1>3. ASSUME NEW r \in Requests, RequestStep(r) PROVE VerifiedIsTracked'
  BY <1>1, <1>2, <1>3 DEF RequestStep, Begin, Flush, NoResident, ResolveResident,
     ReadGranted, ReadPending, CreateConsent, Rollback
<1>4. ASSUME NEW d \in Deciders, CommitReset(d) PROVE VerifiedIsTracked'
  BY <1>4 DEF CommitReset, VerifiedIsTracked
<1>5. ASSUME NEW d \in Deciders, DeciderStep(d) PROVE VerifiedIsTracked'
  BY <1>1, <1>4, <1>5 DEF DeciderStep, GrantConsent, DenyConsent, RevokeConsent,
     ReadConsent, CommitConsent, ReadReset
<1>6. ASSUME NEW o \in Officers, OfficerStep(o) PROVE VerifiedIsTracked'
  BY <1>1, <1>6 DEF OfficerStep, ReadCandidate, CommitCandidate, FailCandidate
<1>7. ASSUME NEW s \in Switched, SetConnectorEnabled(s) PROVE VerifiedIsTracked'
  BY <1>1, <1>7 DEF SetConnectorEnabled
<1> QED
  BY <1>1, <1>3, <1>5, <1>6, <1>7 DEF Next, Lapse, vars

\* A verified document has its successful transaction and its completed unified
\* application in every reachable state.
THEOREM VerifiedIsTrackedAlways == Spec => []VerifiedIsTracked
<1>1. Init => TrackedInv
  BY TypeInit DEF Init, TrackedInv, VerifiedIsTracked
<1>2. TrackedInv => VerifiedIsTracked
  BY DEF TrackedInv
<1> QED
  BY <1>1, <1>2, TrackedStep, PTL DEF Spec

-----------------------------------------------------------------------------
(* A transfer joins the records of one person.  What a request has learned    *)
(* stays true to its commit: a beneficiary's link is kept, and where a reset  *)
(* clears the resident's it deletes the candidates from which an officer      *)
(* could link the resident to somebody else, while the lock keeps every other *)
(* request from asking anew.                                                  *)

BenJoined(q, lk) ==
  LET b == BenOf[q.app] IN b \notin Ambiguous => b \in q.new \/ lk[b] = q.master

ResJoined(q, lk, cs) ==
  LET e == ResOf[BenOf[q.app]] IN
  /\ e \in Residents
  /\ \/ e \in q.new \/ lk[e] = q.master
     \/ lk[e] = None /\ \A c \in cs : c.rec # e

\* The steps at which a request has resolved both records.
Resolved == {"read_granted", "read_pending", "create", "exchange"}

Joins(q, lk, cs) ==
  /\ q.pc # "idle" /\ (q.pc = "flush" => q.verdict = "known") => BenJoined(q, lk)
  /\ q.pc \in Resolved => ResJoined(q, lk, cs)

JoinInv == PendingInv /\ RulingInv /\ \A r \in Requests : Joins(req[r], links, cands)

\* A record that a reset does not clear keeps its link; a resident keeps its link or
\* loses it with its candidates, and one without both stays without both.
KeepsSure == \A x \in Records \ Ambiguous : links[x] # None => links'[x] = links[x]

KeepsPersons ==
  \A x \in Residents :
    \/ links'[x] = links[x] /\ \A c \in cands' : c.rec = x => \E k \in cands : k.rec = x
    \/ links'[x] = None /\ \A c \in cands' : c.rec # x
    \/ links[x] = None /\ \E k \in cands : k.rec = x

LEMMA JoinsKept ==
  ASSUME JoinInv, NEW r \in Requests, req'[r] = req[r], KeepsSure,
         PastFlush(r) => KeepsPersons
  PROVE  Joins(req'[r], links', cands')
<1> USE DEF JoinInv, PendingInv, TypeInv, TypeOK
<1> DEFINE q == req[r]
<1>1. CASE q.pc = "idle"
  BY <1>1 DEF Joins, Resolved
<1>2. CASE q.pc # "idle"
  <2>1. /\ q \in Request /\ BenOf[q.app] \in Records
        /\ q.pc # "flush" \/ q.verdict = "known" => q.master # None
    <3>1. Named(q)
      BY <1>2 DEF NamedInv
    <3> QED
      BY <1>2, <3>1, RequestParts, NullsAssumption DEF Named, Records
  <2>2. BenJoined(q, links) /\ (q.pc # "flush" \/ q.verdict = "known") => BenJoined(q, links')
    BY <2>1 DEF BenJoined, KeepsSure
  <2>3. q.pc # "flush" /\ ResJoined(q, links, cands) => ResJoined(q, links', cands')
    BY <1>2, <2>1 DEF ResJoined, KeepsPersons, PastFlush
  <2> QED
    BY <2>2, <2>3 DEF Joins, Resolved
<1> QED
  BY <1>1, <1>2

\* A request decides on what it sees.
LEMMA JoinsOwn ==
  ASSUME JoinInv, NEW r \in Requests, RequestStep(r)
  PROVE  Joins(req'[r], links', cands')
<1> USE DEF JoinInv, PendingInv, TypeInv, TypeOK
<1>1. CASE End(r)
  BY <1>1, IdlePc DEF End, Become, Joins, Resolved
<1>2. CASE Begin(r)
  <2>1. PICK a \in Apps : \E v \in Verdicts(BenOf[a], links) :
          Become(r, [pc |-> "flush", app |-> a, verdict |-> v.kind,
                     master |-> v.master, new |-> {}, grant |-> 0])
    BY <1>2 DEF Begin
  <2>2. PICK v \in Verdicts(BenOf[a], links) :
          req'[r] = [pc |-> "flush", app |-> a, verdict |-> v.kind,
                     master |-> v.master, new |-> {}, grant |-> 0]
    BY <2>1 DEF Become
  <2>3. BenOf[a] \in Records
    BY RecordsAssumption DEF Records
  <2>4. v.kind = "known" => links[BenOf[a]] = v.master
    BY <2>3, VerdictTyping
  <2>5. links' = links
    BY <1>2 DEF Begin
  <2> QED
    BY <2>2, <2>4, <2>5 DEF Joins, BenJoined, Resolved
<1>3. CASE Flush(r) /\ FlushLink(r)
  <2>1. req[r] \in Request /\ req[r].pc = "flush"
    BY <1>3, RequestParts DEF Flush
  <2> DEFINE b == BenOf[req[r].app]
  <2>2. /\ req'[r].pc = "resolve" /\ req'[r].app = req[r].app
        /\ \/ b \in req'[r].new
           \/ /\ req[r].verdict = "known"
              /\ req'[r].new = req[r].new /\ req'[r].master = req[r].master
    <3>1. CASE req[r].verdict = "known"
      <4>1. req'[r] = [req[r] EXCEPT !.pc = "resolve"]
        BY <1>3, <3>1 DEF FlushLink, Become
      <4> QED
        BY <2>1, <3>1, <4>1 DEF Request
    <3>2. CASE req[r].verdict = "link"
      <4>1. req'[r] = [req[r] EXCEPT !.pc = "resolve", !.new = {b}]
        BY <1>3, <3>2 DEF FlushLink, Become
      <4> QED
        BY <2>1, <4>1 DEF Request
    <3>3. CASE req[r].verdict = "new"
      <4>1. PICK m \in FreshMasters :
              req'[r] = [req[r] EXCEPT !.pc = "resolve", !.new = {b}, !.master = m]
        BY <1>3, <3>3 DEF FlushLink, Become
      <4> QED
        BY <2>1, <4>1 DEF Request
    <3> QED
      BY <1>3, <3>1, <3>2, <3>3 DEF FlushLink
  <2>3. links' = links
    BY <1>3 DEF Flush
  <2>4. req[r].verdict = "known" => BenJoined(req[r], links)
    BY <2>1 DEF Joins
  <2> QED
    BY <2>2, <2>3, <2>4 DEF Joins, BenJoined, Resolved
<1>4. ASSUME ResolveResident(r), ~End(r)
      PROVE  Joins(req'[r], links', cands')
  <2> DEFINE e == ResOf[BenOf[req[r].app]]
  <2>1. /\ req[r] \in Request /\ req[r].pc = "resolve" /\ e \in Residents /\ e \in Records
        /\ Sight(r) \in [Records -> Masters \cup {None}]
    BY <1>4, RequestParts, RecordsAssumption, SightTyping DEF ResolveResident, Records
  <2>2. PICK v \in Verdicts(e, Sight(r)) : PassResident(r, e, v)
    BY <1>4 DEF ResolveResident, StopAtResident, Commit
  <2>3. v.kind = "known" => e \in req[r].new \/ links[e] = req[r].master
    <3>1. v.kind = "known" => Sight(r)[e] = v.master
      BY <2>1, VerdictTyping
    <3>2. Sight(r)[e] = IF e \in req[r].new THEN req[r].master ELSE links[e]
      BY <2>1 DEF Sight
    <3>3. v.master = req[r].master
      BY <2>2 DEF PassResident
    <3> QED
      BY <3>1, <3>2, <3>3
  <2> DEFINE n == IF v.kind = "link" THEN req[r].new \cup {e} ELSE req[r].new
  <2>4. req'[r] = [req[r] EXCEPT !.pc = "read_granted", !.new = n]
    BY <2>2 DEF PassResident, Become
  <2>5. /\ req'[r].pc = "read_granted" /\ req'[r].app = req[r].app
        /\ req'[r].master = req[r].master /\ req'[r].new = n
    BY <2>1, <2>4 DEF Request
  <2>6. links' = links /\ v.kind \in {"known", "link"}
    BY <2>2 DEF PassResident
  <2>7. BenJoined(req[r], links)
    BY <2>1 DEF Joins
  <2>8. BenJoined(req'[r], links')
    BY <2>5, <2>6, <2>7 DEF BenJoined
  <2>9. ResJoined(req'[r], links', cands')
    BY <2>1, <2>3, <2>5, <2>6 DEF ResJoined
  <2> QED
    BY <2>5, <2>8, <2>9 DEF Joins
<1>5. ASSUME ReadGranted(r) \/ ReadPending(r), ~End(r)
      PROVE  Joins(req'[r], links', cands')
  <2>1. req[r] \in Request /\ req[r].pc \in {"read_granted", "read_pending"}
    BY <1>5, RequestParts DEF ReadGranted, ReadPending
  <2>2. /\ UNCHANGED <<links, cands>>
        /\ \/ \E g : req'[r] = [req[r] EXCEPT !.pc = "exchange", !.grant = g]
           \/ req'[r] = [req[r] EXCEPT !.pc = "read_pending"]
           \/ req'[r] = [req[r] EXCEPT !.pc = "create"]
    <3>1. CASE ReadGranted(r)
      <4> DEFINE w(g) == [req[r] EXCEPT !.pc = "exchange", !.grant = g]
      <4>1. \/ \E g : Become(r, w(g))
            \/ Become(r, [req[r] EXCEPT !.pc = "read_pending"])
        BY <3>1 DEF ReadGranted
      <4>2. ASSUME NEW g, Become(r, w(g))
            PROVE  req'[r] = w(g)
        BY <4>2 DEF Become
      <4>3. Become(r, [req[r] EXCEPT !.pc = "read_pending"]) =>
              req'[r] = [req[r] EXCEPT !.pc = "read_pending"]
        BY DEF Become
      <4> QED
        BY <3>1, <4>1, <4>2, <4>3 DEF ReadGranted
    <3>2. CASE ReadPending(r)
      <4>1. Become(r, [req[r] EXCEPT !.pc = "create"]) /\ UNCHANGED links
        BY <1>5, <3>2 DEF ReadPending, Commit
      <4> QED
        BY <3>2, <4>1 DEF ReadPending, Become
    <3> QED
      BY <1>5, <3>1, <3>2
  <2>3. /\ req'[r].pc \in Resolved /\ req'[r].app = req[r].app
        /\ req'[r].master = req[r].master /\ req'[r].new = req[r].new
    BY <2>1, <2>2 DEF Request, Resolved
  <2>4. BenJoined(req[r], links) /\ ResJoined(req[r], links, cands)
    BY <2>1 DEF Joins, Resolved
  <2> QED
    BY <2>2, <2>3, <2>4 DEF Joins, BenJoined, ResJoined
<1> QED
  BY <1>1, <1>2, <1>3, <1>4, <1>5
     DEF RequestStep, Flush, FlushQuestion, NoResident, CreateConsent, Exchange, Rollback, Commit

LEMMA JoinRequest ==
  ASSUME JoinInv, NEW p \in Requests, RequestStep(p), NEW r \in Requests, r # p
  PROVE  Joins(req'[r], links', cands')
<1>1. req'[r] = req[r]
  BY DEF RequestStep, Begin, Flush, FlushLink, FlushQuestion, NoResident, ResolveResident,
         StopAtResident, PassResident, ReadGranted, ReadPending, CreateConsent, Exchange,
         Rollback, Commit, End, Become, JoinInv, PendingInv, TypeInv, TypeOK
<1>2. KeepsSure
  BY RequestKeepsRulings DEF JoinInv, KeepsLinks, KeepsSure
<1>3. ASSUME PastFlush(r)
      PROVE  KeepsPersons
  <2>1. locker = r /\ locker # Nobody
    BY <1>3, NullsAssumption DEF JoinInv, PendingInv, LockInv
  <2>2. ~PastFlush(p)
    BY <2>1 DEF JoinInv, PendingInv, LockInv
  <2>3. Begin(p) \/ Rollback(p)
    BY <2>1, <2>2 DEF RequestStep, Flush, PastFlush, NoResident, ResolveResident,
                      ReadGranted, ReadPending, CreateConsent, Exchange
  <2>4. UNCHANGED <<links, cands>>
    BY <2>3 DEF Begin, Rollback
  <2> QED
    BY <2>4 DEF KeepsPersons
<1> QED
  BY <1>1, <1>2, <1>3, JoinsKept

LEMMA JoinStep == JoinInv /\ [Next]_vars => JoinInv'
<1> SUFFICES ASSUME JoinInv, [Next]_vars, NEW r \in Requests
             PROVE  Joins(req'[r], links', cands')
  BY PendingStep, RulingStep DEF JoinInv
<1>1. ASSUME UNCHANGED <<req, links, cands>>
      PROVE  Joins(req'[r], links', cands')
  BY <1>1 DEF JoinInv
<1>2. ASSUME NEW p \in Requests, RequestStep(p) PROVE Joins(req'[r], links', cands')
  BY <1>2, JoinsOwn, JoinRequest
<1>3. ASSUME NEW d \in Deciders, CommitReset(d) PROVE Joins(req'[r], links', cands')
  <2>1. /\ cands' = {c \in cands : c.rec \notin Ambiguous} /\ req' = req
        /\ \A x \in Records : links'[x] = IF x \in Ambiguous THEN None ELSE links[x]
    BY <1>3 DEF CommitReset
  <2>2. KeepsSure
    BY <2>1 DEF KeepsSure
  <2>3. KeepsPersons
    BY <2>1 DEF KeepsPersons, Records
  <2> QED
    BY <2>1, <2>2, <2>3, JoinsKept
<1>4. ASSUME NEW d \in Deciders, DeciderStep(d) PROVE Joins(req'[r], links', cands')
  BY <1>1, <1>3, <1>4 DEF DeciderStep, GrantConsent, DenyConsent, RevokeConsent,
     ReadConsent, CommitConsent, ReadReset
<1>5. ASSUME NEW o \in Officers, NEW yes \in BOOLEAN, CommitCandidate(o, yes)
      PROVE  Joins(req'[r], links', cands')
  <2> DEFINE c == off[o].cand
  <2>1. /\ links[c.rec] = None /\ \E m : links' = [links EXCEPT ![c.rec] = m]
        /\ req' = req
    BY <1>5 DEF CommitCandidate, LinkIsFree
  <2>2. PICK row \in {k \in cands : k.id = c.id} :
          cands' = (cands \ {row}) \cup
                   {[row EXCEPT !.status = IF yes THEN "confirmed" ELSE "rejected"]}
    BY <1>5 DEF CommitCandidate
  <2>3. /\ row \in Cand /\ row.rec = c.rec
        /\ [row EXCEPT !.status = IF yes THEN "confirmed" ELSE "rejected"].rec = row.rec
    <3>1. row \in Cand
      BY <2>2 DEF JoinInv, PendingInv, TypeInv, TypeOK
    <3>2. row.rec = c.rec
      BY <1>5, <2>2 DEF CommitCandidate, JoinInv, RulingInv, CandInv
    <3> QED
      BY <3>1, <3>2 DEF Cand
  <2>4. KeepsSure
    BY <2>1 DEF KeepsSure, JoinInv, PendingInv, TypeInv, TypeOK
  <2>5. KeepsPersons
    <3> SUFFICES ASSUME NEW x \in Residents
                 PROVE  \/ links'[x] = links[x]
                           /\ \A k \in cands' : k.rec = x => \E h \in cands : h.rec = x
                        \/ links[x] = None /\ \E k \in cands : k.rec = x
      BY DEF KeepsPersons
    <3>1. CASE x = c.rec
      BY <2>1, <2>2, <2>3, <3>1
    <3>2. CASE x # c.rec
      <4>1. links'[x] = links[x]
        BY <2>1, <3>2 DEF JoinInv, PendingInv, TypeInv, TypeOK, Records
      <4>2. \A k \in cands' : k.rec = x => k \in cands
        BY <2>2, <2>3, <3>2
      <4> QED
        BY <4>1, <4>2
    <3> QED
      BY <3>1, <3>2
  <2> QED
    BY <2>1, <2>4, <2>5, JoinsKept
<1>6. ASSUME NEW o \in Officers, OfficerStep(o) PROVE Joins(req'[r], links', cands')
  BY <1>1, <1>5, <1>6 DEF OfficerStep, ReadCandidate, FailCandidate
<1>7. ASSUME NEW s \in Switched, SetConnectorEnabled(s) PROVE Joins(req'[r], links', cands')
  BY <1>1, <1>7 DEF SetConnectorEnabled
<1> QED
  BY <1>1, <1>2, <1>4, <1>6, <1>7 DEF Next, Lapse, vars

\* Only an exchange moves a document, and with the links that its request sees.
LEMMA TransferJoins ==
  ASSUME JoinInv, [Next]_vars, NEW a \in Apps, BenOf[a] \notin Ambiguous,
         appDoc[a] = "missing", appDoc'[a] = "verified"
  PROVE  links'[ResOf[BenOf[a]]] \in {links'[BenOf[a]], None}
<1> USE DEF JoinInv, PendingInv, TypeInv, TypeOK
<1>1. PICK r \in Requests : Exchange(r) /\ req[r].app = a
  BY DEF Next, RequestStep, Begin, Flush, NoResident, ResolveResident, ReadGranted,
         ReadPending, CreateConsent, Exchange, Rollback, DeciderStep, GrantConsent,
         DenyConsent, RevokeConsent, ReadConsent, CommitConsent, ReadReset, CommitReset,
         OfficerStep, ReadCandidate, CommitCandidate, FailCandidate, SetConnectorEnabled,
         Lapse, vars
<1>2. links' = Sight(r) /\ ~Conflict(r) /\ req[r].pc = "exchange"
  BY <1>1 DEF Exchange, Commit
<1>3. BenJoined(req[r], links) /\ ResJoined(req[r], links, cands)
  BY <1>2 DEF Joins, Resolved
<1>4. BenOf[a] \in Records /\ ResOf[BenOf[a]] \in Records
  BY <1>1, <1>3, RecordsAssumption DEF ResJoined, Records
<1>5. links'[BenOf[a]] = req[r].master
  BY <1>1, <1>2, <1>3, <1>4 DEF BenJoined, Sight
<1>6. links'[ResOf[BenOf[a]]] \in {req[r].master, None}
  BY <1>1, <1>2, <1>3, <1>4 DEF ResJoined, Sight
<1> QED
  BY <1>5, <1>6

\* However requests, officers and resets overlap, a document never moves between the
\* records of two persons.
THEOREM OnePersonIsJoined == Spec => TransferJoinsOnePerson
<1>1. Init => JoinInv
  BY PendingInit, RulingInit, IdlePc DEF Init, JoinInv, Joins, Resolved
<1>2. JoinInv /\ [Next]_vars =>
        [\A a \in {x \in Apps : BenOf[x] \notin Ambiguous} :
           appDoc[a] = "missing" /\ appDoc'[a] = "verified" =>
             links'[ResOf[BenOf[a]]] \in {links'[BenOf[a]], None}]_vars
  BY TransferJoins
<1> QED
  BY <1>1, <1>2, JoinStep, PTL DEF Spec, TransferJoinsOnePerson

-----------------------------------------------------------------------------
(* A refusal settles once no grant under way has read the consent before it. *)

\* No consent changes its status.
KeepsStatus ==
  \A g \in DOMAIN grants : g \in DOMAIN grants' /\ grants'[g].status = grants[g].status

LEMMA OthersKeepStatus ==
  ASSUME TypeInv, [Next]_vars, \A d \in Deciders : ~DeciderStep(d)
  PROVE  KeepsStatus /\ dec' = dec
<1> USE DEF TypeInv, TypeOK
<1>1. ASSUME NEW r \in Requests, CreateConsent(r)
      PROVE  KeepsStatus /\ dec' = dec
  BY <1>1 DEF CreateConsent, KeepsStatus
<1>2. CASE Lapse
  <2>1. PICK g \in DOMAIN grants : grants' = [grants EXCEPT ![g].expires = "past"]
    BY <1>2 DEF Lapse
  <2>2. [grants[g] EXCEPT !.expires = "past"].status = grants[g].status
    BY <2>1 DEF Grant
  <2> QED
    BY <1>2, <2>1, <2>2 DEF Lapse, KeepsStatus
<1>3. UNCHANGED <<grants, dec>> \/ Lapse \/ \E r \in Requests : CreateConsent(r)
  BY DEF Next, RequestStep, Begin, Flush, NoResident, ResolveResident, ReadGranted,
         ReadPending, Exchange, Rollback, OfficerStep, ReadCandidate, CommitCandidate,
         FailCandidate, SetConnectorEnabled, vars
<1> QED
  BY <1>1, <1>2, <1>3 DEF KeepsStatus

\* What a decision writes.
LEMMA WrittenStatus ==
  ASSUME TypeInv, NEW d \in Deciders, NEW to, WriteConsents(d, to), NEW g \in DOMAIN grants
  PROVE  /\ g \in DOMAIN grants'
         /\ grants'[g].status = IF g \in dec[d].ids THEN to ELSE grants[g].status
<1>1. grants[g] \in Grant
  BY DEF TypeInv, TypeOK
<1> QED
  BY <1>1 DEF WriteConsents, Grant

\* A decision that is begun puts no settled refusal among the consents to grant.
LEMMA BegunSettles ==
  ASSUME TypeInv, NEW d \in Deciders, dec[d] = Idle, NEW q,
         dec' = [dec EXCEPT ![d] = q], UNCHANGED grants,
         q.pc = "grant" => q.ids \subseteq InStatus("pending")
  PROVE  SettledRefusals \subseteq SettledRefusals'
<1> SUFFICES ASSUME NEW g \in SettledRefusals PROVE g \in SettledRefusals'
  OBVIOUS
<1>1. dec'[d] = q /\ \A e \in Deciders \ {d} : dec'[e] = dec[e]
  BY DEF TypeInv, TypeOK
<1>2. g \notin InStatus("pending")
  BY DEF SettledRefusals, InStatus
<1>3. q.pc = "grant" => g \notin q.ids
  BY <1>2
<1>4. g \in InStatus("denied")' \cup InStatus("revoked")'
  BY DEF SettledRefusals, InStatus
<1>5. \A e \in Deciders : dec'[e] # Idle /\ dec'[e].pc = "grant" => g \notin dec'[e].ids
  BY <1>1, <1>3 DEF SettledRefusals
<1> QED
  BY <1>4, <1>5 DEF SettledRefusals

\* A decision that commits leaves the settled refusals: a grant does not write them, and
\* whoever else does writes a refusal.
LEMMA CommittedSettles ==
  ASSUME TypeInv, NEW d \in Deciders, dec[d] # Idle, NEW to \in {"granted", "denied", "revoked"},
         to = "granted" => dec[d].pc = "grant",
         WriteConsents(d, to), dec' = [dec EXCEPT ![d] = Idle]
  PROVE  SettledRefusals \subseteq SettledRefusals'
<1> SUFFICES ASSUME NEW g \in SettledRefusals PROVE g \in SettledRefusals'
  OBVIOUS
<1>1. dec'[d] = Idle /\ \A e \in Deciders \ {d} : dec'[e] = dec[e]
  BY DEF TypeInv, TypeOK
<1>2. g \in DOMAIN grants /\ grants[g].status \in {"denied", "revoked"}
  BY DEF SettledRefusals, InStatus
<1>3. /\ g \in DOMAIN grants'
      /\ grants'[g].status = IF g \in dec[d].ids THEN to ELSE grants[g].status
  BY <1>2, WrittenStatus
<1>4. to = "granted" => g \notin dec[d].ids
  BY DEF SettledRefusals
<1>5. grants'[g].status \in {"denied", "revoked"}
  BY <1>2, <1>3, <1>4
<1>6. g \in InStatus("denied")' \cup InStatus("revoked")'
  BY <1>3, <1>5 DEF InStatus
<1>7. \A e \in Deciders : dec'[e] # Idle /\ dec'[e].pc = "grant" => g \notin dec'[e].ids
  BY <1>1 DEF SettledRefusals
<1> QED
  BY <1>6, <1>7 DEF SettledRefusals

LEMMA SettledStep ==
  ASSUME TypeInv, [Next]_vars
  PROVE  SettledRefusals \subseteq SettledRefusals'
<1>1. CASE \A d \in Deciders : ~DeciderStep(d)
  <2>1. KeepsStatus /\ dec' = dec
    BY <1>1, OthersKeepStatus
  <2> QED
    BY <2>1 DEF KeepsStatus, SettledRefusals, InStatus
<1>2. ASSUME NEW d \in Deciders, DeciderStep(d)
      PROVE  SettledRefusals \subseteq SettledRefusals'
  <2>1. ASSUME NEW op, NEW from, ReadConsent(d, op, from), op = "grant" => from = "pending"
        PROVE  SettledRefusals \subseteq SettledRefusals'
    <3>1. PICK g \in InStatus(from) :
            dec' = [dec EXCEPT ![d] = [pc |-> op, ids |-> {g}, reopen |-> {}]]
      BY <2>1 DEF ReadConsent
    <3>2. dec[d] = Idle /\ UNCHANGED grants
      BY <2>1 DEF ReadConsent
    <3> QED
      BY <2>1, <3>1, <3>2, BegunSettles
  <2>2. ASSUME NEW op \in {"grant", "deny", "revoke"},
               NEW to \in {"granted", "denied", "revoked"}, CommitConsent(d, op, to),
               to = "granted" => op = "grant"
        PROVE  SettledRefusals \subseteq SettledRefusals'
    <3>1. dec[d].pc = op /\ WriteConsents(d, to) /\ dec' = [dec EXCEPT ![d] = Idle]
      BY <2>2 DEF CommitConsent
    <3>2. dec[d] # Idle
      BY <3>1, IdlePc
    <3> QED
      BY <2>2, <3>1, <3>2, CommittedSettles
  <2>3. CASE ReadReset(d)
    BY <2>3, BegunSettles DEF ReadReset
  <2>4. CASE CommitReset(d)
    <3>1. dec[d].pc = "reset" /\ WriteConsents(d, "revoked") /\ dec' = [dec EXCEPT ![d] = Idle]
      BY <2>4 DEF CommitReset
    <3>2. dec[d] # Idle
      BY <3>1, IdlePc
    <3> QED
      BY <3>1, <3>2, CommittedSettles
  <2> QED
    BY <1>2, <2>1, <2>2, <2>3, <2>4
       DEF DeciderStep, GrantConsent, DenyConsent, RevokeConsent
<1> QED
  BY <1>1, <1>2

\* Whoever decides at the same time, and whatever the requests do: a consent that was
\* denied or revoked stays so, unless a grant had read it before.  (A grant that had can
\* undo the refusal: that is a run's counterexample.)
THEOREM RefusalsSettleAlways == Spec => RefusalsSettle
<1>1. TypeInv /\ [Next]_vars => [SettledRefusals \subseteq SettledRefusals']_vars
  BY SettledStep
<1> QED
  BY <1>1, TypeAlways, PTL DEF Spec, RefusalsSettle

-----------------------------------------------------------------------------
(* InteropGateway implements ConsentLedger.  Every step is a step of the      *)
(* ledger: the consents are asked for and answered as they are here, and a    *)
(* transfer is a move because the request carries a consent of the master     *)
(* that its beneficiary is linked to when it commits.                         *)

\* The consent that a request carries is its master's.
OwnInv ==
  \A r \in Requests : req[r].pc = "exchange" => grants[req[r].grant].master = req[r].master

KeepInv == JoinInv /\ ConsentInv /\ OwnInv

KeepsMasters ==
  \A g \in DOMAIN grants : g \in DOMAIN grants' /\ grants'[g].master = grants[g].master

LEMMA MastersStep ==
  ASSUME TypeInv, [Next]_vars
  PROVE  KeepsMasters
<1> USE DEF TypeInv, TypeOK
<1>1. ASSUME NEW d \in Deciders, DeciderStep(d) PROVE KeepsMasters
  <2>1. UNCHANGED grants
        \/ \E to \in {"granted", "denied", "revoked"} : WriteConsents(d, to)
    BY <1>1 DEF DeciderStep, GrantConsent, DenyConsent, RevokeConsent, ReadConsent,
                CommitConsent, ReadReset, CommitReset
  <2> QED
    BY <2>1, WritesKeepPending DEF KeepsPending, KeepsMasters
<1>2. CASE Lapse
  BY <1>2, LapseKeepsPending DEF KeepsPending, KeepsMasters
<1>3. ASSUME NEW r \in Requests, CreateConsent(r) PROVE KeepsMasters
  BY <1>3 DEF CreateConsent, KeepsMasters
<1>4. UNCHANGED grants \/ Lapse \/ (\E r \in Requests : CreateConsent(r))
      \/ (\E d \in Deciders : DeciderStep(d))
  BY DEF Next, RequestStep, Begin, Flush, NoResident, ResolveResident, ReadGranted,
         ReadPending, Exchange, Rollback, OfficerStep, ReadCandidate, CommitCandidate,
         FailCandidate, SetConnectorEnabled, vars
<1> QED
  BY <1>1, <1>2, <1>3, <1>4 DEF KeepsMasters

LEMMA OwnStep == KeepInv /\ [Next]_vars => OwnInv'
<1> SUFFICES ASSUME KeepInv, [Next]_vars, NEW p \in Requests, req'[p].pc = "exchange"
             PROVE  grants'[req'[p].grant].master = req'[p].master
  BY DEF OwnInv
<1> USE DEF KeepInv, ConsentInv
<1>1. KeepsMasters
  BY MastersStep
<1>2. CASE req'[p] = req[p]
  BY <1>1, <1>2 DEF KeepsMasters, OwnInv, GrantInv, Allowed
<1>3. ASSUME NEW r \in Requests, RequestStep(r), req'[p] # req[p]
      PROVE  grants'[req'[p].grant].master = req'[p].master
  BY <1>1, <1>3, ExchangeStarts DEF KeepsMasters, Consents
<1>4. UNCHANGED req \/ \E r \in Requests : RequestStep(r)
  BY DEF Next, DeciderStep, GrantConsent, DenyConsent, RevokeConsent, ReadConsent,
         CommitConsent, ReadReset, CommitReset, OfficerStep, ReadCandidate,
         CommitCandidate, FailCandidate, SetConnectorEnabled, Lapse, vars
<1> QED
  BY <1>2, <1>3, <1>4

LEMMA KeepStep == KeepInv /\ [Next]_vars => KeepInv'
BY JoinStep, ConsentStep, OwnStep DEF KeepInv

\* Who a person is, where no reset forgets it, stays.
LEMMA OwnersStay ==
  ASSUME JoinInv, [Next]_vars
  PROVE  Ledger!Identify
<1>1. KeepsSure
  <2>1. ASSUME NEW r \in Requests, RequestStep(r) PROVE KeepsSure
    BY <2>1, RequestKeepsRulings DEF JoinInv, KeepsLinks, KeepsSure
  <2>2. ASSUME NEW d \in Deciders, CommitReset(d) PROVE KeepsSure
    BY <2>2 DEF CommitReset, KeepsSure
  <2>3. ASSUME NEW o \in Officers, NEW yes \in BOOLEAN, CommitCandidate(o, yes)
        PROVE  KeepsSure
    <3>1. /\ links[off[o].cand.rec] = None
          /\ \E m : links' = [links EXCEPT ![off[o].cand.rec] = m]
      BY <2>3 DEF CommitCandidate, LinkIsFree
    <3> QED
      BY <3>1 DEF KeepsSure, JoinInv, PendingInv, TypeInv, TypeOK
  <2>4. UNCHANGED links \/ (\E r \in Requests : RequestStep(r))
        \/ (\E d \in Deciders : CommitReset(d))
        \/ (\E o \in Officers : \E yes \in BOOLEAN : CommitCandidate(o, yes))
    BY DEF Next, DeciderStep, GrantConsent, DenyConsent, RevokeConsent, ReadConsent,
           CommitConsent, ReadReset, OfficerStep, ReadCandidate, FailCandidate,
           SetConnectorEnabled, Lapse, vars
  <2> QED
    BY <2>1, <2>2, <2>3, <2>4 DEF KeepsSure
<1> QED
  BY <1>1, RecordsAssumption DEF Ledger!Identify, KeepsSure, Records

\* The ledger's steps: consents, transfers and documents are left alone, some consents
\* get an answer, or a document moves.
LEMMA LedgerRests ==
  ASSUME Ledger!Identify, UNCHANGED <<grants, transferred, appDoc>>
  PROVE  Ledger!Next
BY DEF Ledger!Next

LEMMA LedgerAnswered ==
  ASSUME Ledger!Identify, NEW some \in SUBSET DOMAIN grants, NEW back \in SUBSET Apps,
         Ledger!Give(some) \/ Ledger!Refuse(some, back)
  PROVE  Ledger!Next
BY Zenon DEF Ledger!Next

LEMMA LedgerMoved ==
  ASSUME Ledger!Identify, NEW a \in Apps, NEW g \in Allowed, Ledger!Move(a, g)
  PROVE  Ledger!Next
BY Zenon DEF Ledger!Next, Allowed

LEMMA LedgerAsks ==
  ASSUME KeepInv, Ledger!Identify, NEW r \in Requests, CreateConsent(r)
  PROVE  Ledger!Next
<1> USE DEF KeepInv, JoinInv, PendingInv, TypeInv, TypeOK
<1> DEFINE n == Len(grants) + 1
           c == [master |-> req[r].master, app |-> req[r].app,
                 status |-> "pending", expires |-> "none"]
<1>1. grants' = Append(grants, c) /\ UNCHANGED <<transferred, appDoc>>
  BY DEF CreateConsent
<1>2. /\ Len(grants') = n /\ DOMAIN grants' = DOMAIN grants \cup {n}
      /\ n \notin DOMAIN grants /\ grants'[n] = c
      /\ \A g \in DOMAIN grants : grants'[g] = grants[g]
  BY <1>1
<1>3. \A g \in DOMAIN grants : grants[g].status = "pending" => grants[g].master # c.master
  BY DEF CreateConsent, CreateInv, Consents
<1>4. Allowed' = Allowed
  BY <1>2 DEF Allowed
<1>5. Ledger!Ask
  BY <1>1, <1>2, <1>3, <1>4 DEF Ledger!Ask, Allowed
<1> QED
  BY <1>5 DEF Ledger!Next

LEMMA LedgerMoves ==
  ASSUME KeepInv, Ledger!Identify, NEW r \in Requests, Exchange(r)
  PROVE  Ledger!Next
<1> USE DEF KeepInv, JoinInv, PendingInv, TypeInv, TypeOK
<1>1. grants' = grants /\ req[r].pc = "exchange" /\ links' = Sight(r)
  BY DEF Exchange, Commit
<1>2. req[r].app \in Apps /\ req[r].grant \in Allowed
  BY <1>1, RequestParts DEF ConsentInv, GrantInv
<1> PICK a \in Apps, g \in Allowed : a = req[r].app /\ g = req[r].grant
  BY <1>2
<1>3. CASE UNCHANGED <<appDoc, transferred>>
  BY <1>1, <1>3, LedgerRests
<1>4. CASE /\ appDoc' = [appDoc EXCEPT ![a] = "verified"]
           /\ transferred' = transferred \cup {[app |-> a, grant |-> g]}
  <2>1. grants[g].master = req[r].master
    BY <1>1 DEF OwnInv
  <2>2. BenOf[a] \notin Ambiguous => links'[BenOf[a]] = req[r].master
    BY <1>1, RecordsAssumption DEF Joins, Resolved, BenJoined, Sight, Records
  <2>3. {x \in Apps : appDoc'[x] = "verified"} = {x \in Apps : appDoc[x] = "verified"} \cup {a}
    BY <1>4
  <2>4. Ledger!Move(a, g)
    BY <1>1, <1>4, <2>1, <2>2, <2>3 DEF Ledger!Move, Allowed
  <2> QED
    BY <2>4, LedgerMoved
<1> QED
  BY <1>3, <1>4 DEF Exchange

\* What is written on the consents is the answer to those that were read.
LEMMA LedgerAnswers ==
  ASSUME TypeInv, NEW d, NEW to \in {"granted", "denied", "revoked"}, WriteConsents(d, to)
  PROVE  /\ Ledger!Answered(dec[d].ids \cap DOMAIN grants, to)
         /\ Allowed' = IF to = "granted" THEN Allowed \cup (dec[d].ids \cap DOMAIN grants)
                       ELSE Allowed
<1>1. DOMAIN grants' = DOMAIN grants
  BY DEF WriteConsents
<1>2. ASSUME NEW g \in DOMAIN grants
      PROVE  /\ grants'[g].master = grants[g].master
             /\ grants'[g].status = IF g \in dec[d].ids THEN to ELSE grants[g].status
             /\ grants'[g].expires = IF g \in dec[d].ids /\ to = "granted" THEN "ahead"
                                     ELSE grants[g].expires
  <2>1. grants[g] \in Grant
    BY DEF TypeInv, TypeOK
  <2> QED
    BY <2>1 DEF WriteConsents, Grant
<1>3. Ledger!Answered(dec[d].ids \cap DOMAIN grants, to)
  BY <1>1, <1>2 DEF Ledger!Answered
<1> QED
  BY <1>1, <1>2, <1>3 DEF Allowed

LEMMA LedgerDecides ==
  ASSUME KeepInv, Ledger!Identify, NEW d \in Deciders, DeciderStep(d)
  PROVE  Ledger!Next
<1> USE DEF KeepInv, ConsentInv
<1> PICK some \in SUBSET DOMAIN grants : some = dec[d].ids \cap DOMAIN grants
  OBVIOUS
<1> PICK back \in SUBSET Apps : back = dec[d].reopen \cap Apps
  OBVIOUS
<1>1. CASE CommitConsent(d, "grant", "granted")
  <2>1. Ledger!Give(some)
    BY <1>1, LedgerAnswers DEF CommitConsent, Ledger!Give, Allowed
  <2> QED
    BY <2>1, LedgerAnswered
<1>2. ASSUME NEW op, NEW to \in {"denied", "revoked"}, CommitConsent(d, op, to)
      PROVE  Ledger!Next
  <2>1. Ledger!Refuse(some, {})
    BY <1>2, LedgerAnswers DEF CommitConsent, Ledger!Refuse, Allowed
  <2> QED
    BY <2>1, LedgerAnswered
<1>3. CASE CommitReset(d)
  <2>1. {a \in Apps : appDoc'[a] = "verified"}
          = {a \in Apps : appDoc[a] = "verified"} \ back
    BY <1>3 DEF CommitReset
  <2>2. Ledger!Refuse(some, back)
    BY <1>3, <2>1, LedgerAnswers DEF CommitReset, Ledger!Refuse, Allowed
  <2> QED
    BY <2>2, LedgerAnswered
<1>4. CASE UNCHANGED <<grants, transferred, appDoc>>
  BY <1>4, LedgerRests
<1> QED
  BY <1>1, <1>2, <1>3, <1>4
     DEF DeciderStep, GrantConsent, DenyConsent, RevokeConsent, ReadConsent, ReadReset

\* When a consent lapses nobody answers.
LEMMA LedgerLapses ==
  ASSUME KeepInv, Ledger!Identify, Lapse
  PROVE  Ledger!Next
<1> USE DEF KeepInv, ConsentInv, TypeInv, TypeOK
<1>1. PICK g \in DOMAIN grants :
        grants[g].expires = "ahead" /\ grants' = [grants EXCEPT ![g].expires = "past"]
  BY DEF Lapse
<1>2. grants[g] \in Grant
  BY <1>1
<1>3. /\ [grants[g] EXCEPT !.expires = "past"].expires = "past"
      /\ [grants[g] EXCEPT !.expires = "past"].status = grants[g].status
      /\ [grants[g] EXCEPT !.expires = "past"].master = grants[g].master
  BY <1>2 DEF Grant
<1>4. DOMAIN grants' = DOMAIN grants /\ \A h \in DOMAIN grants \ {g} : grants'[h] = grants[h]
  BY <1>1
<1>5. Ledger!Answered({}, "denied")
  BY <1>1, <1>3, <1>4 DEF Ledger!Answered
<1>6. Allowed' = Allowed
  BY <1>1, <1>3, <1>4 DEF Allowed
<1>7. Ledger!Refuse({}, {})
  BY <1>5, <1>6 DEF Lapse, Ledger!Refuse, Allowed
<1>8. {} \in SUBSET DOMAIN grants /\ {} \in SUBSET Apps
  OBVIOUS
<1> QED
  BY <1>7, <1>8, LedgerAnswered

LEMMA LedgerStep ==
  ASSUME KeepInv, [Next]_vars
  PROVE  Ledger!Next
<1>1. Ledger!Identify
  BY OwnersStay DEF KeepInv
<1>2. CASE \E r \in Requests : CreateConsent(r)
  BY <1>1, <1>2, LedgerAsks
<1>3. CASE \E r \in Requests : Exchange(r)
  BY <1>1, <1>3, LedgerMoves
<1>4. CASE \E d \in Deciders : DeciderStep(d)
  BY <1>1, <1>4, LedgerDecides
<1>5. CASE Lapse
  BY <1>1, <1>5, LedgerLapses
<1>6. CASE UNCHANGED <<grants, transferred, appDoc>>
  BY <1>1, <1>6, LedgerRests
<1> QED
  BY <1>2, <1>3, <1>4, <1>5, <1>6
     DEF Next, RequestStep, Begin, Flush, NoResident, ResolveResident, ReadGranted,
         ReadPending, Rollback, OfficerStep, ReadCandidate, CommitCandidate,
         FailCandidate, SetConnectorEnabled, vars

\* The gateway keeps the ledger's promises: a person is asked once at a time, and a
\* document moves only under a consent that the person it belongs to once gave,
\* however requests, decisions, officers and resets overlap.
THEOREM GatewayImplementsLedger == Spec => ConsentsAreKept
<1>1. Init => KeepInv
  BY PendingInit, RulingInit, ConsentInit, IdlePc
     DEF Init, KeepInv, JoinInv, Joins, Resolved, OwnInv
<1>2. Init => Ledger!Init
  <2> SUFFICES ASSUME Init PROVE Ledger!Init
    OBVIOUS
  <2>1. links \in [Records -> Masters \cup {None}] /\ BenOf \in [Apps -> Records]
    BY RecordsAssumption DEF Init, Records
  <2> QED
    BY <2>1 DEF Init, Ledger!Init
<1>3. KeepInv /\ [Next]_vars => [Ledger!Next]_(Ledger!vars)
  BY LedgerStep
<1> QED
  BY <1>1, <1>2, <1>3, KeepStep, PTL DEF Spec, ConsentsAreKept, Ledger!Spec
=============================================================================
