--------------------------- MODULE InteropGateway ---------------------------
(***************************************************************************)
(* The document exchange between departments                               *)
(* (app/services/interop_gateway_service.py): Department B's application   *)
(* needs a document that Department A already holds.  An exchange request  *)
(* resolves both records to one master identity                            *)
(* (app/interop/identity_resolution.py), requires a consent and moves the  *)
(* document.  Citizens and administrators decide consents, officers decide *)
(* identity candidates, and the demo can be reset.                         *)
(*                                                                         *)
(* Every operation is one READ COMMITTED transaction on an ORM session     *)
(* without autoflush.  An UPDATE carries the columns that differ from the  *)
(* values the session read, finds its row by primary key and compares      *)
(* nothing else.  Consent, candidate and reset operations are therefore a  *)
(* read and a commit.                                                      *)
(*                                                                         *)
(* An exchange request has more steps, and one accident: every connector   *)
(* call counts itself in the connector's registry row, so the flush after  *)
(* the identity of Department B's record writes dept_b's row and holds     *)
(* its lock to the end.  Requests run one at a time from there on.         *)
(*                                                                         *)
(* The similarity score is abstracted to a free choice of verdict, the     *)
(* document's presence and quality to a free choice of outcome.            *)
(***************************************************************************)
EXTENDS Naturals, Sequences, FiniteSets

CONSTANTS
  Requests,   \* threads that serve exchange requests
  Deciders,   \* threads that decide consents or reset the demo
  Officers,   \* threads that decide identity candidates
  Apps,       \* Department B's applications
  Bens,       \* Department B's beneficiaries
  Residents,  \* Department A's residents
  BenOf,      \* the beneficiary of each application
  ResOf,      \* the resident Department A finds for a beneficiary, or None
  Known,      \* the records that earlier exchanges have linked to one master
  Ambiguous,  \* the records whose identity decision a reset clears
  Switched,   \* the connectors an administrator switches off and on
  Masters,    \* master identities
  CandIds,    \* identities of candidates
  MaxGrants,  \* bound on the consent rows ever created
  None,       \* no master, no resident
  Nobody      \* holder of a free registry row

Records == Bens \cup Residents
Systems == {"dept_a", "dept_b"}

ASSUME RecordsAssumption ==
  /\ BenOf \in [Apps -> Bens]
  /\ ResOf \in [Bens -> Residents \cup {None}]
  /\ Known \subseteq Records /\ Ambiguous \subseteq Records
  /\ Bens \cap Residents = {}
  /\ Switched \subseteq Systems

ASSUME NullsAssumption ==
  /\ None \notin Masters \cup Records
  /\ Nobody \notin Requests
  /\ MaxGrants \in Nat

VARIABLES
  enabled,      \* interop_connector_registry.enabled
  appDoc,       \* document_status of Department B's applications
  unified,      \* status of the unified application of each application
  links,        \* interop_master_identifiers: the master of each record
  cands,        \* interop_identity_match_candidates
  grants,       \* interop_consent_grants in the order of their creation
  transferred,  \* the transactions with status "success"
  locker,       \* the request that holds dept_b's registry row
  req,          \* the transaction of each exchange request
  dec,          \* the transaction of each consent decision or reset
  off           \* the transaction of each candidate decision

vars == <<enabled, appDoc, unified, links, cands, grants, transferred,
          locker, req, dec, off>>

GrantIds == 1..MaxGrants

\* expires: "none" until granted, then "ahead" of the clock or "past".
Grant == [master : Masters, app : Apps,
          status : {"pending", "granted", "denied", "revoked"},
          expires : {"none", "ahead", "past"}]

Cand == [id : CandIds, rec : Records, master : Masters,
         status : {"pending", "confirmed", "rejected"}]

\* A thread with no transaction.
Idle == [pc |-> "idle"]

\* pc: the next step.  verdict: what the resolver said of the beneficiary.
\* new: the records the transaction links to master when it commits.
Request == [pc : {"flush", "resolve", "read_granted", "read_pending",
                  "create", "exchange"},
            app : Apps, verdict : {"known", "link", "new", "queue", "asked"},
            master : Masters \cup {None}, new : SUBSET Records,
            grant : GrantIds \cup {0}]

\* ids: the consents the transaction read to change.  reopen: the applications a
\* reset read as verified.
Decision == [pc : {"grant", "deny", "revoke", "reset"},
             ids : SUBSET GrantIds, reopen : SUBSET Apps]

\* The candidate an officer's decision has read.
Ruling == [pc : {"rule"}, cand : Cand]

Init ==
  /\ enabled = [s \in Systems |-> TRUE]
  /\ appDoc = [a \in Apps |-> "missing"]
  /\ unified = [a \in Apps |-> "none"]
  /\ \E m \in Masters : links = [x \in Records |-> IF x \in Known THEN m ELSE None]
  /\ cands = {}
  /\ grants = <<>>
  /\ transferred = {}
  /\ locker = Nobody
  /\ req = [r \in Requests |-> Idle]
  /\ dec = [d \in Deciders |-> Idle]
  /\ off = [o \in Officers |-> Idle]

-----------------------------------------------------------------------------
(* Identity resolution. *)

OtherSide(rec) == IF rec \in Bens THEN Residents ELSE Bens

OpenQuestions(rec, m) ==
  {c \in cands : c.rec = rec /\ c.master = m /\ c.status = "pending"}

\* What resolve_person may say of a record, with the links lk in its sight: the
\* link it has; else a match with a master some record of another system is
\* linked to, good enough to link or only to ask an officer; else a new master.
\* Asking finds the open question, adds one, or fails when there are several.
Verdicts(rec, lk) ==
  LET near == {lk[x] : x \in OtherSide(rec)} \ {None}
      asks(m) == IF OpenQuestions(rec, m) = {} THEN "queue" ELSE "asked"
  IN IF lk[rec] # None THEN {[kind |-> "known", master |-> lk[rec]]}
     ELSE {[kind |-> "link", master |-> m] : m \in near}
          \cup {[kind |-> asks(m), master |-> m] :
                  m \in {n \in near : Cardinality(OpenQuestions(rec, n)) <= 1}}
          \cup {[kind |-> "new", master |-> None]}

\* Identities that nothing refers to: what uuid4() may return.
FreshMasters ==
  Masters \ ({links[x] : x \in Records} \cup {c.master : c \in cands}
             \cup {grants[g].master : g \in DOMAIN grants}
             \cup {req[r].master : r \in {q \in Requests : req[q] # Idle}})

FreshCands ==
  CandIds \ ({c.id : c \in cands}
             \cup {off[o].cand.id : o \in {p \in Officers : off[p] # Idle}})

Question(id, rec, m) == [id |-> id, rec |-> rec, master |-> m, status |-> "pending"]

-----------------------------------------------------------------------------
(* The exchange request. *)

\* The links a transaction sees: the committed ones and its own.
Sight(r) == [x \in Records |-> IF x \in req[r].new THEN req[r].master ELSE links[x]]

\* A record the transaction links has been linked by another: its INSERT fails on
\* uq_interop_master_identifiers_system_type_value.
Conflict(r) == \E x \in req[r].new : links[x] # None

Become(r, q) == req' = [req EXCEPT ![r] = q]

End(r) ==
  /\ Become(r, Idle)
  /\ locker' = IF locker = r THEN Nobody ELSE locker

Commit(r) == ~Conflict(r) /\ links' = Sight(r) /\ End(r)

\* The request reads the application and resolves its beneficiary.  It ends here
\* when dept_b is switched off or the application has its document.
Begin(r) ==
  /\ req[r] = Idle
  /\ enabled["dept_b"]
  /\ \E a \in {b \in Apps : appDoc[b] # "verified"} :
       \E v \in Verdicts(BenOf[a], links) :
         Become(r, [pc |-> "flush", app |-> a, verdict |-> v.kind,
                    master |-> v.master, new |-> {}, grant |-> 0])
  /\ UNCHANGED <<enabled, appDoc, unified, links, cands, grants, transferred,
                 locker, dec, off>>

\* The flush takes dept_b's registry row and inserts the link; an ambiguous
\* beneficiary is put to an officer and the request ends.
FlushLink(r) ==
  LET b == BenOf[req[r].app] IN
  /\ \/ /\ req[r].verdict = "known"
        /\ Become(r, [req[r] EXCEPT !.pc = "resolve"])
     \/ /\ req[r].verdict = "link"
        /\ links[b] = None
        /\ Become(r, [req[r] EXCEPT !.pc = "resolve", !.new = {b}])
     \/ /\ req[r].verdict = "new"
        /\ links[b] = None
        /\ \E m \in FreshMasters :
             Become(r, [req[r] EXCEPT !.pc = "resolve", !.new = {b}, !.master = m])
  /\ locker' = r
  /\ UNCHANGED cands

FlushQuestion(r) ==
  /\ \/ /\ req[r].verdict = "queue"
        /\ \E id \in FreshCands :
             cands' = cands \cup {Question(id, BenOf[req[r].app], req[r].master)}
     \/ /\ req[r].verdict = "asked"
        /\ UNCHANGED cands
  /\ End(r)

\* Fault seeded to test AtMostOnePending: connector calls are not counted, so the
\* flush takes no lock.
FlushUnlocked(r) ==
  /\ req[r].pc = "flush"
  /\ FlushLink(r) \/ FlushQuestion(r)
  /\ UNCHANGED <<enabled, appDoc, unified, links, grants, transferred, dec, off>>

Flush(r) ==
  /\ req[r].pc = "flush"
  /\ locker = Nobody
  /\ FlushLink(r) \/ FlushQuestion(r)
  /\ UNCHANGED <<enabled, appDoc, unified, links, grants, transferred, dec, off>>

\* Department A is switched off or knows no such resident: the request ends and
\* what it learned of the beneficiary is committed.
NoResident(r) ==
  /\ req[r].pc = "resolve"
  /\ ~enabled["dept_a"] \/ ResOf[BenOf[req[r].app]] = None
  /\ Commit(r)
  /\ UNCHANGED <<enabled, appDoc, unified, cands, grants, transferred, dec, off>>

\* The resident is put to an officer, or belongs to another master: the request
\* ends and is committed.
StopAtResident(r, res, v) ==
  \/ /\ v.kind \in {"queue", "asked"}
     /\ Commit(r)
     /\ IF v.kind = "asked" THEN UNCHANGED cands
        ELSE \E id \in FreshCands :
               cands' = cands \cup {Question(id, res, v.master)}
  \/ /\ v.kind \in {"known", "link"} /\ v.master # req[r].master
     /\ ~Conflict(r)
     /\ links' = [Sight(r) EXCEPT ![res] = v.master]
     /\ End(r)
     /\ UNCHANGED cands
  \/ /\ v.kind = "new"
     /\ ~Conflict(r)
     /\ \E m \in FreshMasters : links' = [Sight(r) EXCEPT ![res] = m]
     /\ End(r)
     /\ UNCHANGED cands

\* Fault seeded to test TransferJoinsOnePerson: the masters are not compared.
PassResidentOfAnyone(r, res, v) ==
  /\ v.kind \in {"known", "link"}
  /\ Become(r, [req[r] EXCEPT !.pc = "read_granted"])
  /\ UNCHANGED <<links, cands, locker>>

\* Both records belong to one master: on to the consent.
PassResident(r, res, v) ==
  /\ v.kind \in {"known", "link"} /\ v.master = req[r].master
  /\ Become(r, [req[r] EXCEPT !.pc = "read_granted",
                             !.new = IF v.kind = "link" THEN @ \cup {res} ELSE @])
  /\ UNCHANGED <<links, cands, locker>>

ResolveResident(r) ==
  LET res == ResOf[BenOf[req[r].app]] IN
  /\ req[r].pc = "resolve"
  /\ enabled["dept_a"] /\ res # None
  /\ \E v \in Verdicts(res, Sight(r)) : StopAtResident(r, res, v) \/ PassResident(r, res, v)
  /\ UNCHANGED <<enabled, appDoc, unified, grants, transferred, dec, off>>

\* Fault seeded to test ConsentsAreKept: the status is not in the query.
ConsentsInAnyStatus(m, status) == {g \in DOMAIN grants : grants[g].master = m}

\* _find_consent takes the newest of these.
Consents(m, status) ==
  {g \in DOMAIN grants : grants[g].master = m /\ grants[g].status = status}

ReadGranted(r) ==
  LET granted == Consents(req[r].master, "granted")
      live == {g \in granted : grants[g].expires # "past" /\ \A h \in granted : h <= g}
  IN
  /\ req[r].pc = "read_granted"
  /\ \/ \E g \in live : Become(r, [req[r] EXCEPT !.pc = "exchange", !.grant = g])
     \/ /\ live = {}
        /\ Become(r, [req[r] EXCEPT !.pc = "read_pending"])
  /\ UNCHANGED <<enabled, appDoc, unified, links, cands, grants, transferred,
                 locker, dec, off>>

\* No consent that holds: the request asks again if a request is pending.
ReadPending(r) ==
  /\ req[r].pc = "read_pending"
  /\ IF Consents(req[r].master, "pending") # {}
     THEN Commit(r)
     ELSE /\ Become(r, [req[r] EXCEPT !.pc = "create"])
          /\ UNCHANGED <<links, locker>>
  /\ UNCHANGED <<enabled, appDoc, unified, cands, grants, transferred, dec, off>>

CreateConsent(r) ==
  /\ req[r].pc = "create"
  /\ Len(grants) < MaxGrants
  /\ grants' = Append(grants, [master |-> req[r].master, app |-> req[r].app,
                               status |-> "pending", expires |-> "none"])
  /\ Commit(r)
  /\ UNCHANGED <<enabled, appDoc, unified, cands, transferred, dec, off>>

\* The document is fetched, checked and applied, or one of the three fails.
Exchange(r) ==
  LET a == req[r].app IN
  /\ req[r].pc = "exchange"
  /\ \/ /\ appDoc' = [appDoc EXCEPT ![a] = "verified"]
        /\ unified' = [unified EXCEPT ![a] = "completed"]
        /\ transferred' = transferred \cup {[app |-> a, grant |-> req[r].grant]}
     \/ /\ unified' = [unified EXCEPT ![a] = IF @ = "none" THEN "in_progress" ELSE @]
        /\ UNCHANGED <<appDoc, transferred>>
  /\ Commit(r)
  /\ UNCHANGED <<enabled, cands, grants, dec, off>>

\* An error, a constraint or the process ends the transaction uncommitted.
Rollback(r) ==
  /\ req[r] # Idle
  /\ End(r)
  /\ UNCHANGED <<enabled, appDoc, unified, links, cands, grants, transferred,
                 dec, off>>

-----------------------------------------------------------------------------
(* Consent decisions, time and the reset. *)

InStatus(s) == {g \in DOMAIN grants : grants[g].status = s}

\* Fault seeded to test RefusalsSettle: the status is not checked.
ReadConsentUnchecked(d, op, from) ==
  /\ dec[d] = Idle
  /\ \E g \in DOMAIN grants :
       dec' = [dec EXCEPT ![d] = [pc |-> op, ids |-> {g}, reopen |-> {}]]
  /\ UNCHANGED <<enabled, appDoc, unified, links, cands, grants, transferred,
                 locker, req, off>>

\* A decision reads its consent and checks its status.
ReadConsent(d, op, from) ==
  /\ dec[d] = Idle
  /\ \E g \in InStatus(from) :
       dec' = [dec EXCEPT ![d] = [pc |-> op, ids |-> {g}, reopen |-> {}]]
  /\ UNCHANGED <<enabled, appDoc, unified, links, cands, grants, transferred,
                 locker, req, off>>

\* Fault seeded to test TypeOK: the operation's name is written.
WriteConsentsMisnamed(d, to) ==
  grants' = [g \in DOMAIN grants |->
               IF g \notin dec[d].ids THEN grants[g]
               ELSE [grants[g] EXCEPT !.status = dec[d].pc]]

\* The status columns of the consents that were read are written.
WriteConsents(d, to) ==
  grants' = [g \in DOMAIN grants |->
               IF g \notin dec[d].ids THEN grants[g]
               ELSE [grants[g] EXCEPT !.status = to,
                       !.expires = IF to = "granted" THEN "ahead" ELSE @]]

CommitConsent(d, op, to) ==
  /\ dec[d].pc = op
  /\ WriteConsents(d, to)
  /\ dec' = [dec EXCEPT ![d] = Idle]
  /\ UNCHANGED <<enabled, appDoc, unified, links, cands, transferred, locker,
                 req, off>>

GrantConsent(d) == ReadConsent(d, "grant", "pending") \/ CommitConsent(d, "grant", "granted")
DenyConsent(d) == ReadConsent(d, "deny", "pending") \/ CommitConsent(d, "deny", "denied")
RevokeConsent(d) == ReadConsent(d, "revoke", "granted") \/ CommitConsent(d, "revoke", "revoked")

ReadReset(d) ==
  /\ dec[d] = Idle
  /\ dec' = [dec EXCEPT ![d] =
               [pc |-> "reset", ids |-> InStatus("granted") \cup InStatus("pending"),
                reopen |-> {a \in Apps : appDoc[a] = "verified"}]]
  /\ UNCHANGED <<enabled, appDoc, unified, links, cands, grants, transferred,
                 locker, req, off>>

\* Fault seeded to test VerifiedIsTracked: every unified application is reopened
\* too, whatever was read.
CommitResetUnified(d) ==
  /\ dec[d].pc = "reset"
  /\ appDoc' = [a \in Apps |-> IF a \in dec[d].reopen THEN "missing" ELSE appDoc[a]]
  /\ unified' = [a \in Apps |-> "in_progress"]
  /\ WriteConsents(d, "revoked")
  /\ dec' = [dec EXCEPT ![d] = Idle]
  /\ UNCHANGED <<enabled, links, cands, transferred, locker, req, off>>

\* Only an application read as verified is reopened: for the others the columns
\* do not change and are not written.
CommitReset(d) ==
  /\ dec[d].pc = "reset"
  /\ appDoc' = [a \in Apps |-> IF a \in dec[d].reopen THEN "missing" ELSE appDoc[a]]
  /\ WriteConsents(d, "revoked")
  /\ cands' = {c \in cands : c.rec \notin Ambiguous}
  /\ links' = [x \in Records |-> IF x \in Ambiguous THEN None ELSE links[x]]
  /\ dec' = [dec EXCEPT ![d] = Idle]
  /\ UNCHANGED <<enabled, unified, transferred, locker, req, off>>

\* The 30 days of a consent pass.
Lapse ==
  /\ \E g \in DOMAIN grants :
       /\ grants[g].expires = "ahead"
       /\ grants' = [grants EXCEPT ![g].expires = "past"]
  /\ UNCHANGED <<enabled, appDoc, unified, links, cands, transferred, locker,
                 req, dec, off>>

SetConnectorEnabled(s) ==
  /\ locker = Nobody \/ s # "dept_b"
  /\ enabled' = [enabled EXCEPT ![s] = ~@]
  /\ UNCHANGED <<appDoc, unified, links, cands, grants, transferred, locker,
                 req, dec, off>>

-----------------------------------------------------------------------------
(* Officers' decisions on candidates. *)

ReadCandidate(o) ==
  /\ off[o] = Idle
  /\ \E c \in cands :
       /\ c.status = "pending"
       /\ off' = [off EXCEPT ![o] = [pc |-> "rule", cand |-> c]]
  /\ UNCHANGED <<enabled, appDoc, unified, links, cands, grants, transferred,
                 locker, req, dec>>

\* Fault seeded to test RulingsHold: the unique constraint is dropped.
LinkIsFreeAlways(rec) == TRUE

\* The INSERT of the link waits for a request that has inserted one for the record.
LinkIsFree(rec) ==
  links[rec] = None /\ (locker # Nobody => rec \notin req[locker].new \cap Bens)

\* Approved, the record is linked to the proposed master, rejected, to a new one;
\* the link and the candidate's status commit together.
CommitCandidate(o, approve) ==
  LET c == off[o].cand IN
  /\ off[o] # Idle
  /\ LinkIsFree(c.rec)
  /\ \E m \in IF approve THEN {c.master} ELSE FreshMasters :
       links' = [links EXCEPT ![c.rec] = m]
  /\ \E row \in {k \in cands : k.id = c.id} :
       cands' = (cands \ {row}) \cup
                {[row EXCEPT !.status = IF approve THEN "confirmed" ELSE "rejected"]}
  /\ off' = [off EXCEPT ![o] = Idle]
  /\ UNCHANGED <<enabled, appDoc, unified, grants, transferred, locker, req, dec>>

\* The record is linked already, the candidate was deleted, or another error.
FailCandidate(o) ==
  /\ off[o] # Idle
  /\ off' = [off EXCEPT ![o] = Idle]
  /\ UNCHANGED <<enabled, appDoc, unified, links, cands, grants, transferred,
                 locker, req, dec>>

-----------------------------------------------------------------------------
RequestStep(r) ==
  \/ Begin(r) \/ Flush(r) \/ NoResident(r) \/ ResolveResident(r)
  \/ ReadGranted(r) \/ ReadPending(r) \/ CreateConsent(r) \/ Exchange(r) \/ Rollback(r)

DeciderStep(d) ==
  \/ GrantConsent(d) \/ DenyConsent(d) \/ RevokeConsent(d)
  \/ ReadReset(d) \/ CommitReset(d)

OfficerStep(o) ==
  ReadCandidate(o) \/ (\E yes \in BOOLEAN : CommitCandidate(o, yes)) \/ FailCandidate(o)

Next ==
  \/ \E r \in Requests : RequestStep(r)
  \/ \E d \in Deciders : DeciderStep(d)
  \/ \E o \in Officers : OfficerStep(o)
  \/ \E s \in Switched : SetConnectorEnabled(s)
  \/ Lapse

Spec == Init /\ [][Next]_vars

-----------------------------------------------------------------------------
(* Properties. *)

\* Type correctness: every row, consent, candidate and transaction is of its kind.
TypeOK ==
  /\ enabled \in [Systems -> BOOLEAN]
  /\ appDoc \in [Apps -> {"missing", "verified"}]
  /\ unified \in [Apps -> {"none", "in_progress", "completed"}]
  /\ links \in [Records -> Masters \cup {None}]
  /\ cands \subseteq Cand
  /\ grants \in Seq(Grant) /\ Len(grants) <= MaxGrants
  /\ transferred \subseteq [app : Apps, grant : GrantIds]
  /\ locker \in Requests \cup {Nobody}
  /\ req \in [Requests -> Request \cup {Idle}]
  /\ dec \in [Deciders -> Decision \cup {Idle}]
  /\ off \in [Officers -> Ruling \cup {Idle}]

\* A person is asked once: no two consent requests of one master are pending,
\* however many exchange requests find none at the same time.  Nothing in the
\* gateway says so; the lock on the registry row makes it hold.
AtMostOnePending ==
  \A g, h \in InStatus("pending") : grants[g].master = grants[h].master => g = h

\* An officer's word on a candidate is what the links say: a confirmed record is
\* linked to the proposed master, a rejected one to a different one, whatever
\* two officers and the requests do at the same time.
RulingsHold ==
  \A c \in cands :
    /\ c.status = "confirmed" => links[c.rec] = c.master
    /\ c.status = "rejected" => links[c.rec] \notin {c.master, None}

\* A document moves only under a consent that was granted.  It may have been
\* revoked since the request read it, but it never was only asked for or denied.
TransferHadConsent == \A t \in transferred : grants[t.grant].expires # "none"

\* Department B counts a document as verified only when a successful transaction
\* and a completed unified application say where it came from; neither a reset
\* nor a second request takes them apart.
VerifiedIsTracked ==
  \A a \in Apps : appDoc[a] = "verified" =>
    unified[a] = "completed" /\ \E t \in transferred : t.app = a

\* A transfer joins records of one person: when a document moves, the beneficiary
\* and the resident it comes from do not belong to two masters, at most the
\* resident's link has been cleared by a reset since the request read it.  (A
\* beneficiary whose own link is cleared can even have a new one by then: the
\* request goes on with the old.  Those are left out.)
TransferJoinsOnePerson ==
  [][\A a \in {x \in Apps : BenOf[x] \notin Ambiguous} :
       appDoc[a] = "missing" /\ appDoc'[a] = "verified" =>
         links'[ResOf[BenOf[a]]] \in {links'[BenOf[a]], None}]_vars

\* "Nothing here auto-approves, and an admin does not silently override a
\* citizen's decision": a consent denied or revoked is never granted again.
RefusalIsFinal ==
  [][\A g \in InStatus("denied") \cup InStatus("revoked") :
       grants'[g].status # "granted"]_vars

\* The consents that were denied or revoked, and that no grant under way has read before.
SettledRefusals ==
  {g \in InStatus("denied") \cup InStatus("revoked") :
     \A d \in Deciders : dec[d] # Idle /\ dec[d].pc = "grant" => g \notin dec[d].ids}

\* What is left of that promise when citizens and administrators decide at once: a
\* consent that was denied or revoked, by a decision or a reset, stays so, unless a
\* grant read it before (grant_consent, deny_consent, revoke_consent, reset_demo).
RefusalsSettle == [][SettledRefusals \subseteq SettledRefusals']_vars

\* What the gateway promises: a consent is given once it has an expiry, and keeps it;
\* whose an application is, is known where no reset forgets it.
Ledger == INSTANCE ConsentLedger WITH
  consents <- grants,
  given <- {g \in DOMAIN grants : grants[g].expires # "none"},
  moved <- transferred,
  verified <- {a \in Apps : appDoc[a] = "verified"},
  owner <- [a \in Apps |-> IF BenOf[a] \in Ambiguous THEN None ELSE links[BenOf[a]]]

\* The gateway implements the consent ledger: a person is asked once at a time, and a
\* document moves only under a consent that the person it belongs to once gave.  The
\* consent may have been revoked since the request read it, but it never was only
\* asked for, denied, or somebody else's.
ConsentsAreKept == Ledger!Spec
=============================================================================
