------------------------- MODULE ComplaintLifecycle -------------------------
(***************************************************************************)
(* The life of one complaint of CivicLens: filing and routing              *)
(* (app/services/complaint_service.py), the officers' work                 *)
(* (officer_service.py), the citizen's rating and reopening, the SLA scan  *)
(* (sla_workflow.py), the enrichment job (app/workers/handlers.py) and the *)
(* workflow rules (workflow_service.py).                                   *)
(*                                                                         *)
(* Every operation is a READ COMMITTED transaction: it copies the row into *)
(* a record, decides on the record, writes the record back and commits.    *)
(* There is no version column and no lock at the read; the write takes the *)
(* row's lock until the transaction ends.  The steps of a transaction are  *)
(* therefore the read, the write, one for each workflow rule that fires,   *)
(* and the commit.  A process stands for a thread of any of the programs:  *)
(* a citizen's or an officer's request, a scheduled task, a worker's job.  *)
(*                                                                         *)
(* Who may call what is not modelled: for every operation some account may *)
(* make it on any complaint it can see.                                    *)
(***************************************************************************)
EXTENDS Naturals, FiniteSets

CONSTANTS
  Procs,        \* threads with a transaction on the complaint
  Nobody,       \* holder of a free row lock
  Depts,        \* active departments
  Officers,     \* their officers
  OfficerDept,  \* the department of each officer
  None,         \* no department, no officer
  MaxLevel,     \* the last level of officers and rules, MAX_ESCALATION_LEVEL
  PolicyLevel,  \* the last level that any SLA policy sets for the scan
  NumRules,     \* active workflow rules, numbered in their order
  Trigger,      \* the trigger of each rule
  RuleAction    \* the action of each rule

Rules == 1..NumRules
Triggers == {"created", "status_changed", "scheduled"}

ASSUME StaffAssumption ==
  /\ None \notin Depts \cup Officers
  /\ OfficerDept \in [Officers -> Depts]
  /\ Nobody \notin Procs

ASSUME RulesAssumption ==
  /\ MaxLevel \in Nat /\ PolicyLevel \in Nat /\ NumRules \in Nat
  /\ Trigger \in [Rules -> Triggers]
  /\ RuleAction \in [Rules -> {"notify", "escalate", "auto_close", "assign_least_loaded"}]

VARIABLES
  row,      \* the committed row of the complaint
  locker,   \* the transaction that has written the row and not yet ended
  draft,    \* the row as the locker will leave it
  txn,      \* the transaction of each process
  fired,    \* workflow_executions: rules with an execution row
  rated,    \* whether there is a feedback row
  traced,   \* history: every status an event says the complaint reached
  filed,    \* history: how often the complaint was filed
  applied,  \* history: how often each rule was applied
  crossed   \* history: has a transaction written over a row it had not read?

store == <<row, locker, draft, crossed>>
history == <<traced, filed, applied>>
vars == <<row, locker, draft, txn, fired, rated, traced, filed, applied, crossed>>

Transitions ==
  [submitted            |-> {"ai_routed", "rejected"},
   ai_routed            |-> {"assigned", "rejected"},
   assigned             |-> {"under_review", "ai_routed", "rejected"},
   under_review         |-> {"inspection_scheduled", "in_progress", "resolved",
                             "rejected", "assigned"},
   inspection_scheduled |-> {"under_review", "in_progress", "resolved"},
   in_progress          |-> {"under_review", "inspection_scheduled", "resolved"},
   resolved             |-> {"closed", "in_progress"},
   closed               |-> {},
   rejected             |-> {}]

Statuses == DOMAIN Transitions
Finished == {"resolved", "closed", "rejected"}

\* An administrator gives a policy any limit, above that of the officers or below it.
TopLevel == IF PolicyLevel > MaxLevel THEN PolicyLevel ELSE MaxLevel

\* A complaint's row, and the record a transaction copies it into.
Row == [status : Statuses \cup {"absent"},
        dept : Depts \cup {None},
        officer : Officers \cup {None},
        level : 0..TopLevel,
        stamped : BOOLEAN]       \* resolved_at is set
NoRow == [status |-> "absent", dept |-> None, officer |-> None, level |-> 0,
          stamped |-> FALSE]

\* A transaction: its next step, its record, the row as it read it, the statuses
\* of the events it has added, the trigger it fires, the rule it looks at next and
\* the execution rows it has inserted.
Txn == [at : {"idle", "insert", "update", "rewrite", "rules", "rate"},
        c : Row, seen : Row, events : SUBSET Statuses,
        trigger : Triggers \cup {"none"}, next : Nat, claims : SUBSET Rules]
Begun(label, c, seen, events, trigger) ==
  [at |-> label, c |-> c, seen |-> seen, events |-> events, trigger |-> trigger,
   next |-> 1, claims |-> {}]
NoTxn == Begun("idle", NoRow, NoRow, {}, "none")

TypeOK ==
  /\ row \in Row /\ draft \in Row
  /\ locker \in Procs \cup {Nobody}
  /\ txn \in [Procs -> Txn]
  /\ fired \in SUBSET Rules
  /\ rated \in BOOLEAN
  /\ traced \in SUBSET Statuses
  /\ filed \in Nat
  /\ applied \in [Rules -> Nat]
  /\ crossed \in BOOLEAN

Init ==
  /\ row = NoRow /\ draft = NoRow /\ locker = Nobody
  /\ txn = [p \in Procs |-> NoTxn]
  /\ fired = {} /\ rated = FALSE
  /\ traced = {} /\ filed = 0
  /\ applied = [k \in Rules |-> 0]
  /\ crossed = FALSE

-----------------------------------------------------------------------------
(* How an operation begins: it reads the row and decides. *)

Become(p, t) == txn' = [txn EXCEPT ![p] = t]

\* The operation goes on to write the record c, having added the events.
Begin(p, c, events, trigger) ==
  /\ txn[p] = NoTxn
  /\ Become(p, Begun("update", c, row, events, trigger))
  /\ UNCHANGED <<store, fired, rated, history>>

\* The record after a transition of _transition.
Moved(c, target) ==
  [c EXCEPT !.status = target,
            !.stamped = IF target = "resolved" THEN TRUE
                        ELSE IF c.status = "resolved" THEN FALSE ELSE @]

\* Fault seeded to test EndIsFinal and WorkPrecedesResolution: a status may be set to
\* any other.
CanTransitionAnywhere(current, target) == target # current

CanTransition(current, target) == target \in Transitions[current]

\* _transition: the move, its event, and the rules on status changes.
Transition(p, c, target) ==
  /\ CanTransition(c.status, target)
  /\ Begin(p, Moved(c, target), {target}, "status_changed")

Exists == row.status # "absent"

\* apply_routing: the records that routing c to department d may give, and the
\* statuses it adds events for.
Routed(c, d) ==
  LET staff == {o \in Officers : OfficerDept[o] = d} IN
  IF staff = {} THEN {[c EXCEPT !.status = "ai_routed", !.dept = d]}
  ELSE {[c EXCEPT !.status = "assigned", !.dept = d, !.officer = o] : o \in staff}
RoutedEvents(c) == IF c.status = "assigned" THEN {"ai_routed", "assigned"}
                   ELSE {"ai_routed"} \cap {c.status}

\* create: no complaint with this client_request_id is seen; the rules route the
\* new one to a department, or leave it for manual triage.
Create(p) ==
  /\ txn[p] = NoTxn
  /\ ~Exists
  /\ LET new == [NoRow EXCEPT !.status = "submitted"] IN
     \E c \in {new} \cup UNION {Routed(new, d) : d \in Depts} :
       Become(p, Begun("insert", c, row, {"submitted"} \cup RoutedEvents(c), "created"))
  /\ UNCHANGED <<store, fired, rated, history>>

\* update_status, and resolve.
UpdateStatus(p) ==
  /\ Exists
  /\ \E target \in Statuses : Transition(p, row, target)

\* assign: an officer of the complaint's department; a routed complaint becomes
\* assigned.
Assign(p) ==
  /\ Exists
  /\ row.status \notin Finished
  /\ \E o \in Officers :
       /\ OfficerDept[o] = row.dept
       /\ LET c == [row EXCEPT !.officer = o] IN
          IF row.status = "ai_routed" THEN Transition(p, c, "assigned")
          ELSE Begin(p, c, {}, "none")

\* triage: an administrator routes what the rules could not.  The record is written
\* once more after the transition, which leaves nothing of another's commit.
Triage(p) ==
  /\ txn[p] = NoTxn
  /\ row.status = "submitted" /\ row.dept = None
  /\ \E d \in Depts :
       Become(p, Begun("rewrite", Moved([row EXCEPT !.dept = d], "ai_routed"), row,
                       {"ai_routed"}, "status_changed"))
  /\ UNCHANGED <<store, fired, rated, history>>

\* _typed_event: remarks, inspections, work orders, progress; some of them move
\* the complaint when the graph has the transition.
TypedEvent(p) ==
  /\ Exists
  /\ row.status \notin Finished
  /\ \/ Begin(p, row, {}, "none")
     \/ \E target \in {"inspection_scheduled", "in_progress"} : Transition(p, row, target)

\* correct_category, and an enrichment that routes nothing: columns that are not
\* modelled change, and the whole record is written back.
Annotate(p) == Exists /\ Begin(p, row, {}, "none")

\* enrich_complaint: the model's verdict routes a complaint without department.
Enrich(p) ==
  /\ row.status = "submitted" /\ row.dept = None
  /\ \E d \in Depts : \E c \in Routed(row, d) : Begin(p, c, RoutedEvents(c), "none")

\* Fault seeded to test RoutingFits: the officer stays.
TransferWithOfficer(p) ==
  /\ row.status \in {"ai_routed", "assigned"}
  /\ \E d \in Depts \ {row.dept} :
       LET c == [row EXCEPT !.dept = d] IN
       IF row.status = "assigned" THEN Transition(p, c, "ai_routed")
       ELSE Begin(p, c, {}, "none")

\* transfer: to another department, before work starts, and without the officer.
Transfer(p) ==
  /\ row.status \in {"ai_routed", "assigned"}
  /\ \E d \in Depts \ {row.dept} :
       LET c == [row EXCEPT !.dept = d, !.officer = None] IN
       IF row.status = "assigned" THEN Transition(p, c, "ai_routed")
       ELSE Begin(p, c, {}, "none")

\* escalate, by an officer.
Escalate(p) ==
  /\ Exists
  /\ row.status \notin Finished
  /\ row.level < MaxLevel
  /\ Begin(p, [row EXCEPT !.level = @ + 1], {}, "none")

\* Fault seeded to test TypeOK: the policy's last level is not the last.
ScanOnceMore(p) ==
  /\ Exists
  /\ row.status \notin Finished
  /\ row.level <= PolicyLevel
  /\ Begin(p, [row EXCEPT !.level = @ + 1], {}, "none")

\* The SLA scan raises the level of an open complaint that is overdue, up to the limit
\* of its policy; whether it is overdue is left open, and which limit it has.
SlaScan(p) ==
  /\ Exists
  /\ row.status \notin Finished
  /\ row.level < PolicyLevel
  /\ Begin(p, [row EXCEPT !.level = @ + 1], {}, "none")

\* Fault seeded to test StampMeansResolved: resolved_at is kept.
ReopenStamped(p) ==
  /\ row.status = "resolved" /\ ~rated
  /\ Begin(p, [row EXCEPT !.status = "in_progress"], {"in_progress"}, "none")

\* reopen_by_citizen: a resolved complaint that is not rated; whether it is within
\* thirty days is left open.
Reopen(p) ==
  /\ row.status = "resolved" /\ ~rated
  /\ Begin(p, [row EXCEPT !.status = "in_progress", !.stamped = FALSE],
           {"in_progress"}, "none")

\* add_feedback: nothing of the complaint is written.
Feedback(p) ==
  /\ txn[p] = NoTxn
  /\ row.status \in {"resolved", "closed"} /\ ~rated
  /\ Become(p, Begun("rate", row, row, {}, "none"))
  /\ UNCHANGED <<store, fired, rated, history>>

\* sweep: it lists open and resolved complaints and goes to their rules.
Sweep(p) ==
  /\ txn[p] = NoTxn
  /\ row.status \in Statuses \ {"closed", "rejected"}
  /\ Become(p, Begun("rules", row, row, {}, "scheduled"))
  /\ UNCHANGED <<store, fired, rated, history>>

-----------------------------------------------------------------------------
(* The write, the rules, the end. *)

\* What writing the record c leaves of the row.  The row is read again and the
\* columns in which c differs from that are written: a commit just before the
\* second read is overwritten by the whole record, one just after it keeps the
\* columns in which c is as it was first read.
Saved(c, seen) ==
  {c, [f \in DOMAIN c |-> IF c[f] = seen[f] THEN row[f] ELSE c[f]]}

\* The write takes the row's lock, and waits for it.
Write(p) ==
  /\ txn[p].at \in {"update", "rewrite"}
  /\ locker = Nobody
  /\ locker' = p
  /\ draft' \in IF txn[p].at = "rewrite" THEN {txn[p].c}
                ELSE Saved(txn[p].c, txn[p].seen)
  /\ crossed' = (crossed \/ row # txn[p].seen)
  /\ Become(p, [txn[p] EXCEPT !.at = "rules", !.seen = NoRow])
  /\ UNCHANGED <<row, fired, rated, history>>

\* Fault seeded to test FiledOnce: without the unique constraint on the citizen
\* and the client_request_id.
InsertAnyway(p) ==
  /\ txn[p].at = "insert"
  /\ locker = Nobody
  /\ locker' = p
  /\ draft' = txn[p].c
  /\ Become(p, [txn[p] EXCEPT !.at = "rules", !.seen = NoRow])
  /\ UNCHANGED <<row, crossed, fired, rated, history>>

\* The insert waits for another one of the same client_request_id, and fails if
\* that one has committed.
Insert(p) ==
  /\ txn[p].at = "insert"
  /\ locker = Nobody
  /\ ~Exists
  /\ locker' = p
  /\ draft' = txn[p].c
  /\ Become(p, [txn[p] EXCEPT !.at = "rules", !.seen = NoRow])
  /\ UNCHANGED <<row, crossed, fired, rated, history>>

\* Fault seeded to test SpentCloseRuleClosed: the statuses of a rule are ignored.
MatchesAnyStatus(k, t) == Trigger[k] = t.trigger

\* matches: the trigger is the rule's and its conditions hold; only those of
\* auto_close are fixed, the others are left open.
Matches(k, t) ==
  /\ Trigger[k] = t.trigger
  /\ RuleAction[k] = "auto_close" => t.c.status = "resolved"

\* _apply: the records a rule may make of c.  An action that does not apply is
\* skipped, and so is an assignment where nobody can take it.
Ruled(k, c) ==
  LET staff == {o \in Officers : OfficerDept[o] = c.dept} IN
  IF RuleAction[k] = "escalate" /\ c.status \notin Finished /\ c.level < MaxLevel
    THEN {[c EXCEPT !.level = @ + 1]}
  ELSE IF RuleAction[k] = "auto_close" /\ c.status = "resolved"
    THEN {[c EXCEPT !.status = "closed"]}
  ELSE IF /\ RuleAction[k] = "assign_least_loaded"
          /\ c.officer = None /\ c.status \notin Finished /\ staff # {}
    THEN {[c EXCEPT !.officer = o] : o \in staff}
  ELSE {c}

\* Fault seeded to test StatusIsTracedUnlessLost: auto_close adds no event.
RuleEventsNone(c, new) == {}

\* The status events a rule adds.
RuleEvents(c, new) == {new.status} \ {c.status}

\* The store after a rule has made new of the record of p: nothing is written when
\* nothing changed, and a second write of a transaction is one of the whole record.
RuleWrites(p, new) ==
  IF new = txn[p].c THEN UNCHANGED store
  ELSE /\ locker \in {p, Nobody}
       /\ locker' = p
       /\ draft' \in IF locker = p THEN {new} ELSE Saved(new, txn[p].seen)
       /\ crossed' = (crossed \/ (locker # p /\ row # txn[p].seen))
       /\ UNCHANGED row

\* Fault seeded to test RuleRunsOnce: the executions are looked up instead of the
\* row being claimed by an insert.
RunRuleUnclaimed(p, k) ==
  LET t == txn[p] IN
  /\ t.at = "rules" /\ k >= t.next
  /\ Matches(k, t)
  /\ k \notin fired
  /\ \E new \in Ruled(k, t.c) :
       /\ RuleWrites(p, new)
       /\ Become(p, [t EXCEPT !.c = new, !.next = k + 1, !.claims = @ \cup {k},
                              !.events = @ \cup RuleEvents(t.c, new)])
  /\ UNCHANGED <<fired, rated, history>>

\* The next rule of run_for_complaint that fires; those before it do not match or
\* have fired.  Its execution row is inserted first: that waits for another open
\* transaction that has inserted it, and a committed one is a conflict.
RunRule(p, k) ==
  LET t == txn[p] IN
  /\ t.at = "rules" /\ k >= t.next
  /\ Matches(k, t)
  /\ k \notin fired
  /\ \A q \in Procs : k \notin txn[q].claims
  /\ \E new \in Ruled(k, t.c) :
       /\ RuleWrites(p, new)
       /\ Become(p, [t EXCEPT !.c = new, !.next = k + 1, !.claims = @ \cup {k},
                              !.events = @ \cup RuleEvents(t.c, new)])
  /\ UNCHANGED <<fired, rated, history>>

Unlock(p) ==
  IF locker = p THEN locker' = Nobody /\ draft' = NoRow ELSE UNCHANGED <<locker, draft>>

Commit(p) ==
  LET t == txn[p] IN
  /\ t.at = "rules"
  /\ row' = IF locker = p THEN draft ELSE row
  /\ Unlock(p)
  /\ fired' = fired \cup t.claims
  /\ applied' = [k \in Rules |-> applied[k] + IF k \in t.claims THEN 1 ELSE 0]
  /\ traced' = traced \cup t.events
  /\ filed' = filed + IF t.trigger = "created" THEN 1 ELSE 0
  /\ Become(p, NoTxn)
  /\ UNCHANGED <<rated, crossed>>

\* The feedback row's key is the complaint's: a second one fails.
CommitRating(p) ==
  /\ txn[p].at = "rate"
  /\ ~rated
  /\ rated' = TRUE
  /\ Become(p, NoTxn)
  /\ UNCHANGED <<store, fired, history>>

\* A database error, a constraint, a deadlock the database resolves or the death
\* of the process rolls the transaction back.
Rollback(p) ==
  /\ txn[p] # NoTxn
  /\ Unlock(p)
  /\ Become(p, NoTxn)
  /\ UNCHANGED <<row, crossed, fired, rated, history>>

-----------------------------------------------------------------------------
Read(p) ==
  \/ Create(p) \/ UpdateStatus(p) \/ Assign(p) \/ Triage(p) \/ TypedEvent(p)
  \/ Annotate(p) \/ Enrich(p) \/ Transfer(p) \/ Escalate(p) \/ SlaScan(p)
  \/ Reopen(p) \/ Feedback(p) \/ Sweep(p)

Next == \E p \in Procs :
  \/ Read(p) \/ Write(p) \/ Insert(p) \/ Commit(p) \/ CommitRating(p) \/ Rollback(p)
  \/ \E k \in Rules : RunRule(p, k)

Spec == Init /\ [][Next]_vars

-----------------------------------------------------------------------------
(* Properties that hold however the transactions interleave. *)

\* "A rule runs at most once per complaint" (workflow_service.py): however many
\* sweeps and status changes overlap, a rule is applied once, and an execution row
\* stands for a rule that was applied.
RuleRunsOnce ==
  \A k \in Rules : applied[k] = (IF k \in fired THEN 1 ELSE 0)

\* Submitting twice, or an offline client that sends its draft again, files one
\* complaint.
FiledOnce == filed <= 1

\* A complaint is never in a status, nor is one about to be written, that no
\* committed event records: a lost update can bring an old status back and never
\* one the citizen's timeline cannot show.
StatusWasRecorded == Exists => row.status \in traced

\* No resolution without the work before it: when an event says that the complaint
\* was resolved, events say that it was routed, assigned and under review; and only
\* a complaint that was resolved is rated.
WorkPrecedesResolution ==
  /\ "resolved" \in traced =>
       {"submitted", "ai_routed", "assigned", "under_review"} \subseteq traced
  /\ rated => "resolved" \in traced

-----------------------------------------------------------------------------
(* Properties that the operations keep as long as none of them overwrites a row that it *)
(* has not read.  With no version column and no lock at the read nothing prevents that, *)
(* and then each of them can be lost; that no other interleaving loses one is what the  *)
(* properties say, so that overlapping operations are serial but for lost updates.      *)

\* A change of the status is that of a transaction with an event for the new one.
StatusChangeIsTraced ==
  row'.status # row.status =>
    \E p \in Procs : txn'[p] = NoTxn /\ row'.status \in txn[p].events

\* "Nothing changes without a trace" (complaint_status.py): a transaction that
\* changes the status adds an event for the new one.
StatusIsTraced == [][StatusChangeIsTraced]_vars

\* It does unless an update has been lost.
StatusIsTracedUnlessLost == [][~crossed => StatusChangeIsTraced]_vars

\* Whatever moves a complaint between departments (routing, triage, transfer,
\* assignment, the rules), an assigned officer works for the one that has it, and while
\* it is submitted it has none, so that the triage queue is all there is to route.
RoutingFits == ~crossed =>
  /\ row.officer # None => OfficerDept[row.officer] = row.dept
  /\ row.status = "submitted" => row.dept = None

\* resolved_at, from which the reopening window and the age of auto_close count,
\* is set while the complaint is resolved, and not while it is being worked on.
StampMeansResolved == ~crossed =>
  /\ row.status = "resolved" => row.stamped
  /\ row.stamped => row.status \in {"resolved", "closed"}

\* An auto_close rule is not used up before it has closed the complaint, be a sweep
\* under way while the citizen reopens it.
SpentCloseRuleClosed == ~crossed =>
  \A k \in fired : RuleAction[k] = "auto_close" => row.status = "closed"

\* A closed or rejected complaint stays so.
EndIsFinal ==
  [][~crossed /\ row.status \in {"closed", "rejected"} => row'.status = row.status]_vars
=============================================================================
