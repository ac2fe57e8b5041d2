-------------------------- MODULE ComplaintProofs --------------------------
(***************************************************************************)
(* Theorems about ComplaintLifecycle, for any number of processes,         *)
(* departments, officers and workflow rules.                               *)
(***************************************************************************)
EXTENDS ComplaintLifecycle, TLAPS

-----------------------------------------------------------------------------
(* Type correctness. *)

LEMMA StatusList ==
  Statuses = {"submitted", "ai_routed", "assigned", "under_review",
              "inspection_scheduled", "in_progress", "resolved", "closed", "rejected"}
BY DEF Statuses, Transitions

LEMMA NoRowTyping == NoRow \in Row
BY RulesAssumption DEF NoRow, Row, TopLevel

\* What the operations make of a record is a record.
LEMMA RowUpdates ==
  ASSUME NEW c \in Row
  PROVE  /\ c.status \in Statuses \cup {"absent"} /\ c.dept \in Depts \cup {None}
         /\ c.officer \in Officers \cup {None} /\ c.level \in 0..TopLevel
         /\ c.stamped \in BOOLEAN
         /\ \A d \in Depts : [c EXCEPT !.dept = d] \in Row
         /\ \A o \in Officers : [c EXCEPT !.officer = o] \in Row
         /\ \A d \in Depts : [c EXCEPT !.dept = d, !.officer = None] \in Row
         /\ c.level < MaxLevel \/ c.level < PolicyLevel => [c EXCEPT !.level = @ + 1] \in Row
         /\ \A s \in Statuses : Moved(c, s) \in Row
         /\ [c EXCEPT !.status = "in_progress", !.stamped = FALSE] \in Row
         /\ [c EXCEPT !.status = "closed"] \in Row
         /\ [c EXCEPT !.status = "submitted"] \in Row
         /\ \A d \in Depts : [c EXCEPT !.status = "ai_routed", !.dept = d] \in Row
         /\ \A d \in Depts, o \in Officers :
              [c EXCEPT !.status = "assigned", !.dept = d, !.officer = o] \in Row
<1>1. c.level < MaxLevel \/ c.level < PolicyLevel => c.level + 1 \in 0..TopLevel
  BY RulesAssumption DEF Row, TopLevel
<1>2. /\ c.status \in Statuses \cup {"absent"} /\ c.dept \in Depts \cup {None}
      /\ c.officer \in Officers \cup {None} /\ c.level \in 0..TopLevel
      /\ c.stamped \in BOOLEAN
  BY DEF Row
<1>3. \A d \in Depts : [c EXCEPT !.dept = d] \in Row
  BY DEF Row
<1>4. \A o \in Officers : [c EXCEPT !.officer = o] \in Row
  BY DEF Row
<1>5. \A d \in Depts : [c EXCEPT !.dept = d, !.officer = None] \in Row
  BY DEF Row
<1>6. c.level < MaxLevel \/ c.level < PolicyLevel => [c EXCEPT !.level = @ + 1] \in Row
  BY <1>1 DEF Row
<1>7. \A s \in Statuses : Moved(c, s) \in Row
  BY DEF Row, Moved
<1>8. [c EXCEPT !.status = "in_progress", !.stamped = FALSE] \in Row
  BY StatusList DEF Row
<1>9. [c EXCEPT !.status = "closed"] \in Row
  BY StatusList DEF Row
<1>10. [c EXCEPT !.status = "submitted"] \in Row
  BY StatusList DEF Row
<1>11. \A d \in Depts : [c EXCEPT !.status = "ai_routed", !.dept = d] \in Row
  BY StatusList DEF Row
<1>12. \A d \in Depts, o \in Officers :
          [c EXCEPT !.status = "assigned", !.dept = d, !.officer = o] \in Row
  BY StatusList DEF Row
<1> QED BY <1>2, <1>3, <1>4, <1>5, <1>6, <1>7, <1>8, <1>9, <1>10, <1>11, <1>12

LEMMA SavedTyping ==
  ASSUME row \in Row, NEW c \in Row, NEW seen \in Row, NEW r \in Saved(c, seen)
  PROVE  /\ r \in Row
         /\ r.status \in {c.status, row.status}
<1>1. CASE r = c
  BY <1>1
<1>2. CASE r = [f \in DOMAIN c |-> IF c[f] = seen[f] THEN row[f] ELSE c[f]]
  BY <1>2 DEF Row
<1> QED BY <1>1, <1>2 DEF Saved

LEMMA RoutedTyping ==
  ASSUME NEW c \in Row, NEW d \in Depts, NEW r \in Routed(c, d)
  PROVE  /\ r \in Row
         /\ RoutedEvents(r) \in SUBSET Statuses
         /\ r.status \in RoutedEvents(r)
<1>1. \/ r = [c EXCEPT !.status = "ai_routed", !.dept = d]
      \/ \E o \in Officers : r = [c EXCEPT !.status = "assigned", !.dept = d, !.officer = o]
  BY DEF Routed
<1>2. r \in Row
  <2>1. CASE r = [c EXCEPT !.status = "ai_routed", !.dept = d]
    BY <2>1, RowUpdates
  <2>2. ASSUME NEW o \in Officers,
               r = [c EXCEPT !.status = "assigned", !.dept = d, !.officer = o]
        PROVE  r \in Row
    <3>1. [c EXCEPT !.status = "assigned", !.dept = d, !.officer = o] \in Row
      BY RowUpdates
    <3> QED BY <2>2, <3>1
  <2> QED BY <1>1, <2>1, <2>2
<1>3. r.status \in {"ai_routed", "assigned"}
  BY <1>1 DEF Row
<1> QED BY <1>2, <1>3, StatusList DEF RoutedEvents

LEMMA RuledTyping ==
  ASSUME NEW c \in Row, NEW k \in Rules, NEW r \in Ruled(k, c)
  PROVE  /\ r \in Row
         /\ RuleEvents(c, r) \in SUBSET Statuses
         /\ r.status \in {c.status} \cup RuleEvents(c, r)
<1>1. \/ r = c
      \/ c.level < MaxLevel /\ r = [c EXCEPT !.level = @ + 1]
      \/ c.status = "resolved" /\ r = [c EXCEPT !.status = "closed"]
      \/ \E o \in Officers : r = [c EXCEPT !.officer = o]
  BY DEF Ruled
<1>2. r \in Row
  BY <1>1, RowUpdates
<1>3. r.status \in {c.status, "closed"}
  BY <1>1 DEF Row
<1> QED BY <1>2, <1>3, StatusList DEF RuleEvents

LEMMA BegunTyping ==
  ASSUME NEW at \in {"idle", "insert", "update", "rewrite", "rules", "rate"}, NEW c \in Row,
         NEW seen \in Row, NEW events \in SUBSET Statuses,
         NEW trigger \in Triggers \cup {"none"}
  PROVE  /\ Begun(at, c, seen, events, trigger) \in Txn
         /\ Begun(at, c, seen, events, trigger).at = at
         /\ Begun(at, c, seen, events, trigger).c = c
         /\ Begun(at, c, seen, events, trigger).seen = seen
         /\ Begun(at, c, seen, events, trigger).events = events
         /\ Begun(at, c, seen, events, trigger).claims = {}
BY DEF Begun, Txn

LEMMA NoTxnTyping ==
  /\ NoTxn \in Txn /\ NoTxn.at = "idle" /\ NoTxn.claims = {} /\ NoTxn.events = {}
  /\ NoTxn.c = NoRow /\ NoTxn.seen = NoRow
BY NoRowTyping DEF NoTxn, Begun, Txn

\* The transaction after its write.
LEMMA TxnUpdates ==
  ASSUME NEW t \in Txn
  PROVE  LET u == [t EXCEPT !.at = "rules", !.seen = NoRow]
         IN /\ u \in Txn /\ u.at = "rules" /\ u.c = t.c /\ u.seen = NoRow
            /\ u.events = t.events /\ u.claims = t.claims
BY NoRowTyping DEF Txn

\* The transaction after a rule.
TxnRuled(t, c, k, e) ==
  [t EXCEPT !.c = c, !.next = k + 1, !.claims = @ \cup {k}, !.events = @ \cup e]

LEMMA TxnRuledTyping ==
  ASSUME NEW t \in Txn, NEW c \in Row, NEW k \in Rules, NEW e \in SUBSET Statuses
  PROVE  /\ TxnRuled(t, c, k, e) \in Txn
         /\ TxnRuled(t, c, k, e).at = t.at /\ TxnRuled(t, c, k, e).c = c
         /\ TxnRuled(t, c, k, e).events = t.events \cup e
         /\ TxnRuled(t, c, k, e).claims = t.claims \cup {k}
<1>1. k + 1 \in Nat
  BY RulesAssumption DEF Rules
<1> QED BY <1>1 DEF Txn, TxnRuled

-----------------------------------------------------------------------------
(* The read of a transaction. *)

\* p opens a transaction whose record has a status that the row has or that an event
\* of it records.
Opens(p) ==
  \E at \in {"insert", "update", "rewrite", "rules", "rate"}, c \in Row, events \in SUBSET Statuses,
     trigger \in Triggers \cup {"none"} :
    /\ Become(p, Begun(at, c, row, events, trigger))
    /\ c.status \in events \/ (Exists /\ c.status = row.status)
    /\ at # "insert" => Exists
    /\ at = "insert" => c.status \in events

LEMMA BeginOpens ==
  ASSUME NEW p \in Procs, NEW c \in Row, NEW events \in SUBSET Statuses,
         NEW trigger \in Triggers \cup {"none"},
         Begin(p, c, events, trigger), Exists,
         c.status \in events \/ c.status = row.status
  PROVE  Opens(p)
BY DEF Begin, Opens

LEMMA TransitionOpens ==
  ASSUME NEW p \in Procs, NEW c \in Row, NEW target \in Statuses,
         Transition(p, c, target), Exists
  PROVE  Opens(p)
<1>1. Moved(c, target) \in Row
  BY RowUpdates
<1>2. Moved(c, target).status = target
  BY DEF Moved, Row
<1>3. Begin(p, Moved(c, target), {target}, "status_changed")
  BY DEF Transition
<1> QED BY <1>1, <1>2, <1>3, BeginOpens DEF Triggers

LEMMA ReadOpens ==
  ASSUME TypeOK, NEW p \in Procs, Read(p)
  PROVE  /\ Opens(p)
         /\ txn[p] = NoTxn
         /\ UNCHANGED <<store, fired, rated, history>>
<1> USE DEF TypeOK
<1>0. row \in Row /\ NoRow \in Row
  BY NoRowTyping
<1>a. \A d \in Depts : [row EXCEPT !.dept = d] \in Row
                      /\ [row EXCEPT !.dept = d].status = row.status
                      /\ [row EXCEPT !.dept = d, !.officer = None] \in Row
                      /\ [row EXCEPT !.dept = d, !.officer = None].status = row.status
  BY <1>0, RowUpdates DEF Row
<1>b. \A o \in Officers : [row EXCEPT !.officer = o] \in Row
                         /\ [row EXCEPT !.officer = o].status = row.status
  BY <1>0, RowUpdates DEF Row
<1>1. CASE Create(p)
  <2> DEFINE new == [NoRow EXCEPT !.status = "submitted"]
  <2>1. PICK c \in {new} \cup UNION {Routed(new, d) : d \in Depts} :
          Become(p, Begun("insert", c, row, {"submitted"} \cup RoutedEvents(c), "created"))
    BY <1>1 DEF Create
  <2>2. new \in Row /\ new.status = "submitted"
    BY <1>0, RowUpdates DEF Row
  <2>3. /\ c \in Row /\ RoutedEvents(c) \in SUBSET Statuses
        /\ c.status \in {"submitted"} \cup RoutedEvents(c)
    <3>1. CASE c = new
      BY <2>2, <3>1, StatusList DEF RoutedEvents
    <3>2. CASE c \in UNION {Routed(new, d) : d \in Depts}
      BY <2>2, <3>2, RoutedTyping
    <3> QED BY <2>1, <3>1, <3>2
  <2>4. {"submitted"} \cup RoutedEvents(c) \in SUBSET Statuses
    BY <2>3, StatusList
  <2>5. Opens(p)
    BY <2>1, <2>3, <2>4 DEF Opens, Triggers
  <2> QED BY <1>1, <2>5 DEF Create
<1>2. CASE UpdateStatus(p)
  <2>1. PICK target \in Statuses : Transition(p, row, target)
    BY <1>2 DEF UpdateStatus
  <2> QED BY <1>0, <1>2, <2>1, TransitionOpens DEF UpdateStatus, Transition, Begin
<1>3. CASE Assign(p)
  <2>1. PICK o \in Officers :
          IF row.status = "ai_routed" THEN Transition(p, [row EXCEPT !.officer = o], "assigned")
          ELSE Begin(p, [row EXCEPT !.officer = o], {}, "none")
    BY <1>3 DEF Assign
  <2>2. CASE row.status = "ai_routed"
    BY <1>3, <1>b, <2>1, <2>2, TransitionOpens, StatusList DEF Assign, Transition, Begin
  <2>3. CASE row.status # "ai_routed"
    BY <1>3, <1>b, <2>1, <2>3, BeginOpens DEF Assign, Begin
  <2> QED BY <2>2, <2>3
<1>4. CASE Triage(p)
  <2>1. PICK d \in Depts :
          Become(p, Begun("rewrite", Moved([row EXCEPT !.dept = d], "ai_routed"), row,
                          {"ai_routed"}, "status_changed"))
    BY <1>4 DEF Triage
  <2> DEFINE c == Moved([row EXCEPT !.dept = d], "ai_routed")
  <2>2. c \in Row
    BY <1>a, RowUpdates, StatusList
  <2>3. c.status = "ai_routed"
    BY <1>0 DEF Moved, Row
  <2>4. Become(p, Begun("rewrite", c, row, {"ai_routed"}, "status_changed"))
    BY <2>1
  <2> HIDE DEF c
  <2>5. {"ai_routed"} \in SUBSET Statuses
    BY StatusList
  <2>6. Exists
    BY <1>4 DEF Triage, Exists
  <2>7. Opens(p)
    BY <2>2, <2>3, <2>4, <2>5, <2>6 DEF Opens, Triggers
  <2> QED BY <1>4, <2>7 DEF Triage
<1>5. CASE TypedEvent(p)
  <2>1. CASE Begin(p, row, {}, "none")
    BY <1>0, <1>5, <2>1, BeginOpens DEF TypedEvent, Begin
  <2>2. ASSUME NEW target \in {"inspection_scheduled", "in_progress"},
               Transition(p, row, target)
        PROVE  Opens(p) /\ txn[p] = NoTxn /\ UNCHANGED <<store, fired, rated, history>>
    BY <1>0, <1>5, <2>2, TransitionOpens, StatusList DEF TypedEvent, Transition, Begin
  <2> QED BY <1>5, <2>1, <2>2 DEF TypedEvent
<1>6. CASE Annotate(p)
  BY <1>0, <1>6, BeginOpens DEF Annotate, Begin
<1>7. CASE Enrich(p)
  <2>1. PICK d \in Depts :
          \E c \in Routed(row, d) : Begin(p, c, RoutedEvents(c), "none")
    BY <1>7 DEF Enrich
  <2>a. PICK c \in Routed(row, d) : Begin(p, c, RoutedEvents(c), "none")
    BY <2>1
  <2>2. Exists
    BY <1>7 DEF Enrich, Exists
  <2>3. /\ c \in Row /\ RoutedEvents(c) \in SUBSET Statuses
        /\ c.status \in RoutedEvents(c)
    BY <1>0, RoutedTyping
  <2> QED BY <2>a, <2>2, <2>3, BeginOpens DEF Begin
<1>8. CASE Transfer(p)
  <2>1. PICK d \in Depts :
          IF row.status = "assigned"
            THEN Transition(p, [row EXCEPT !.dept = d, !.officer = None], "ai_routed")
            ELSE Begin(p, [row EXCEPT !.dept = d, !.officer = None], {}, "none")
    BY <1>8 DEF Transfer
  <2>2. Exists
    BY <1>8 DEF Transfer, Exists
  <2>3. CASE row.status = "assigned"
    BY <1>a, <2>1, <2>2, <2>3, TransitionOpens, StatusList DEF Transition, Begin
  <2>4. CASE row.status # "assigned"
    BY <1>a, <2>1, <2>2, <2>4, BeginOpens DEF Begin
  <2> QED BY <2>3, <2>4
<1>9. CASE Escalate(p)
  <2>1. /\ [row EXCEPT !.level = @ + 1] \in Row
        /\ [row EXCEPT !.level = @ + 1].status = row.status
    BY <1>0, <1>9, RowUpdates DEF Row, Escalate
  <2> QED BY <1>9, <2>1, BeginOpens DEF Escalate, Begin
<1>13. CASE SlaScan(p)
  <2>1. /\ [row EXCEPT !.level = @ + 1] \in Row
        /\ [row EXCEPT !.level = @ + 1].status = row.status
    BY <1>0, <1>13, RowUpdates DEF Row, SlaScan
  <2> QED BY <1>13, <2>1, BeginOpens DEF SlaScan, Begin
<1>10. CASE Reopen(p)
  <2>1. /\ [row EXCEPT !.status = "in_progress", !.stamped = FALSE] \in Row
        /\ [row EXCEPT !.status = "in_progress", !.stamped = FALSE].status = "in_progress"
    BY <1>0, RowUpdates DEF Row
  <2>2. Exists
    BY <1>10 DEF Reopen, Exists
  <2> QED BY <1>10, <2>1, <2>2, BeginOpens, StatusList DEF Reopen, Begin
<1>11. CASE Feedback(p)
  <2>1. Exists
    BY <1>11 DEF Feedback, Exists
  <2> QED BY <1>0, <1>11, <2>1 DEF Feedback, Opens
<1>12. CASE Sweep(p)
  <2>1. Exists
    BY <1>12, StatusList DEF Sweep, Exists
  <2> QED BY <1>0, <1>12, <2>1 DEF Sweep, Opens, Triggers
<1> QED BY <1>1, <1>2, <1>3, <1>4, <1>5, <1>6, <1>7, <1>8, <1>9, <1>10, <1>11, <1>12, <1>13
    DEF Read

-----------------------------------------------------------------------------
(* Type correctness of each step. *)

\* Only the transaction of the process that steps changes.
LEMMA TxnAfter ==
  ASSUME txn \in [Procs -> Txn], NEW p \in Procs, NEW t \in Txn, Become(p, t)
  PROVE  /\ txn' \in [Procs -> Txn]
         /\ txn'[p] = t
         /\ \A q \in Procs : q # p => txn'[q] = txn[q]
BY DEF Become

\* What a read does, in the terms of the invariants.
LEMMA ReadStep ==
  ASSUME TypeOK, NEW p \in Procs, Read(p)
  PROVE  /\ UNCHANGED <<row, locker, draft, crossed, fired, rated, traced, filed, applied>>
         /\ txn[p] = NoTxn
         /\ \E t \in Txn :
              /\ Become(p, t)
              /\ t.at \in {"insert", "update", "rewrite", "rules", "rate"}
              /\ t.c.status \in t.events \/ (Exists /\ t.c.status = row.status)
              /\ t.at # "insert" => Exists
              /\ t.at = "insert" => t.c.status \in t.events
              /\ t.claims = {}
<1>1. Opens(p) /\ txn[p] = NoTxn /\ UNCHANGED <<store, fired, rated, history>>
  BY ReadOpens
<1>2. PICK at \in {"insert", "update", "rewrite", "rules", "rate"}, c \in Row,
           events \in SUBSET Statuses, trigger \in Triggers \cup {"none"} :
        /\ Become(p, Begun(at, c, row, events, trigger))
        /\ c.status \in events \/ (Exists /\ c.status = row.status)
        /\ at # "insert" => Exists
        /\ at = "insert" => c.status \in events
  BY <1>1 DEF Opens
<1>3. row \in Row
  BY DEF TypeOK
<1> DEFINE t == Begun(at, c, row, events, trigger)
<1>4. /\ t \in Txn /\ t.at = at /\ t.c = c /\ t.events = events /\ t.claims = {}
  BY <1>3 DEF Begun, Txn
<1>5. Become(p, t)
  BY <1>2
<1> HIDE DEF t
<1> QED BY <1>1, <1>2, <1>4, <1>5 DEF store, history

\* What RunRule does, in the terms of the invariants.
LEMMA RuleStep ==
  ASSUME TypeOK, NEW p \in Procs, NEW k \in Rules, RunRule(p, k)
  PROVE  \E new \in Row, e \in SUBSET Statuses, t \in Txn :
           /\ RuleWrites(p, new)
           /\ new.status \in {txn[p].c.status} \cup e
           /\ Become(p, t)
           /\ t.at = "rules" /\ t.c = new
           /\ t.events = txn[p].events \cup e
           /\ t.claims = txn[p].claims \cup {k}
<1>1. PICK new \in Ruled(k, txn[p].c) :
        /\ RuleWrites(p, new)
        /\ Become(p, [txn[p] EXCEPT !.c = new, !.next = k + 1, !.claims = @ \cup {k},
                                    !.events = @ \cup RuleEvents(txn[p].c, new)])
  BY DEF RunRule
<1>2. txn[p] \in Txn /\ txn[p].c \in Row
  BY DEF TypeOK, Txn
<1>3. /\ new \in Row /\ new.status \in {txn[p].c.status} \cup RuleEvents(txn[p].c, new)
      /\ RuleEvents(txn[p].c, new) \in SUBSET Statuses
  BY <1>2, RuledTyping
<1>4. txn[p].at = "rules"
  BY DEF RunRule
<1> DEFINE e == RuleEvents(txn[p].c, new)
           t == TxnRuled(txn[p], new, k, e)
<1>5. Become(p, t)
  BY <1>1 DEF TxnRuled
<1>6. e \in SUBSET Statuses /\ new.status \in {txn[p].c.status} \cup e
  BY <1>3
<1>7. /\ t \in Txn /\ t.at = "rules" /\ t.c = new
      /\ t.events = txn[p].events \cup e
      /\ t.claims = txn[p].claims \cup {k}
  <2> HIDE DEF e
  <2> QED BY <1>2, <1>3, <1>4, <1>6, TxnRuledTyping
<1> HIDE DEF e, t
<1> QED BY <1>1, <1>3, <1>5, <1>6, <1>7

LEMMA UnlockTyping ==
  ASSUME TypeOK, NEW p \in Procs, Unlock(p)
  PROVE  draft' \in Row /\ locker' \in Procs \cup {Nobody}
BY NoRowTyping DEF Unlock, TypeOK

LEMMA TypeStep ==
  ASSUME TypeOK, [Next]_vars
  PROVE  TypeOK'
<1> USE DEF TypeOK
<1>1. ASSUME NEW p \in Procs, Read(p) PROVE TypeOK'
  <2>1. UNCHANGED <<row, locker, draft, crossed, fired, rated, traced, filed, applied>>
    BY <1>1, ReadStep
  <2>2. txn' \in [Procs -> Txn]
    BY <1>1, ReadStep, TxnAfter
  <2> QED BY <2>1, <2>2
<1>2. ASSUME NEW p \in Procs, Write(p) PROVE TypeOK'
  <2>1. txn[p].c \in Row /\ txn[p].seen \in Row
    BY DEF Txn
  <2>2. draft' \in Row
    BY <1>2, <2>1, SavedTyping DEF Write
  <2>4. crossed' \in BOOLEAN
    BY <1>2, Zenon DEF Write
  <2>3. txn' \in [Procs -> Txn]
    BY <1>2, TxnUpdates, TxnAfter DEF Write
  <2> QED BY <1>2, <2>2, <2>3, <2>4 DEF Write, history
<1>3. ASSUME NEW p \in Procs, Insert(p) PROVE TypeOK'
  <2>1. draft' \in Row
    BY <1>3 DEF Insert, Txn
  <2>2. txn' \in [Procs -> Txn]
    BY <1>3, TxnUpdates, TxnAfter DEF Insert
  <2> QED BY <1>3, <2>1, <2>2 DEF Insert, history
<1>4. ASSUME NEW p \in Procs, NEW k \in Rules, RunRule(p, k) PROVE TypeOK'
  <2>1. PICK new \in Row, e \in SUBSET Statuses, t \in Txn :
          RuleWrites(p, new) /\ Become(p, t)
    BY <1>4, RuleStep
  <2>2. txn' \in [Procs -> Txn]
    BY <2>1, TxnAfter
  <2>3. /\ row' \in Row /\ draft' \in Row
        /\ locker' \in Procs \cup {Nobody}
    <3>1. txn[p].seen \in Row
      BY DEF Txn
    <3> QED BY <2>1, <3>1, SavedTyping DEF RuleWrites, store
  <2>4. crossed' \in BOOLEAN
    BY <2>1, Zenon DEF RuleWrites, store
  <2> QED BY <1>4, <2>2, <2>3, <2>4 DEF RunRule, history
<1>5. ASSUME NEW p \in Procs, Commit(p) PROVE TypeOK'
  <2>1. txn' \in [Procs -> Txn]
    BY <1>5, NoTxnTyping, TxnAfter DEF Commit
  <2>2. txn[p].claims \in SUBSET Rules /\ txn[p].events \in SUBSET Statuses
    BY DEF Txn
  <2>3. applied' \in [Rules -> Nat] /\ filed' \in Nat
    BY <1>5 DEF Commit
  <2> QED BY <1>5, <2>1, <2>2, <2>3, UnlockTyping DEF Commit
<1>6. ASSUME NEW p \in Procs, CommitRating(p) PROVE TypeOK'
  <2>1. txn' \in [Procs -> Txn]
    BY <1>6, NoTxnTyping, TxnAfter DEF CommitRating
  <2> QED BY <1>6, <2>1 DEF CommitRating, store, history
<1>7. ASSUME NEW p \in Procs, Rollback(p) PROVE TypeOK'
  <2>1. txn' \in [Procs -> Txn]
    BY <1>7, NoTxnTyping, TxnAfter DEF Rollback
  <2> QED BY <1>7, <2>1, UnlockTyping DEF Rollback, history
<1>8. CASE UNCHANGED vars
  BY <1>8 DEF vars
<1> QED BY <1>1, <1>2, <1>3, <1>4, <1>5, <1>6, <1>7, <1>8 DEF Next

LEMMA InitTyping == Init => TypeOK
<1>1. NoRow \in Row /\ NoTxn \in Txn
  BY NoRowTyping, NoTxnTyping
<1>2. Init => applied \in [Rules -> Nat] /\ filed \in Nat
  BY DEF Init
<1>3. Init => txn \in [Procs -> Txn]
  BY <1>1 DEF Init
<1> QED BY <1>1, <1>2, <1>3 DEF Init, TypeOK

\* The variables keep their types, whatever the processes, departments and rules; no
\* complaint is raised above the higher one of the limits of the officers and of the scan.
THEOREM ComplaintTypeCorrect == Spec => []TypeOK
<1>1. TypeOK /\ [Next]_vars => TypeOK'
  BY TypeStep
<1> QED BY <1>1, InitTyping, PTL DEF Spec

-----------------------------------------------------------------------------
(* A rule runs once. *)

\* An execution row that a transaction has inserted is neither committed nor another
\* transaction's, which is what lets the commit count it.
ClaimInv ==
  /\ RuleRunsOnce
  /\ \A p \in Procs : txn[p].claims \cap fired = {}
  /\ \A p, q \in Procs : p # q => txn[p].claims \cap txn[q].claims = {}

LEMMA ClaimStep ==
  ASSUME TypeOK, ClaimInv, [Next]_vars
  PROVE  ClaimInv'
<1> USE DEF ClaimInv, RuleRunsOnce
<1>t. txn \in [Procs -> Txn] /\ applied \in [Rules -> Nat]
  BY DEF TypeOK
\* Where the committed executions stay and the stepping transaction's claims are the
\* same or none, nothing is to show.
<1>0. ASSUME NEW p \in Procs, UNCHANGED <<fired, applied>>,
             txn'[p].claims \in {{}, txn[p].claims},
             \A q \in Procs : q # p => txn'[q] = txn[q]
      PROVE  ClaimInv'
  BY <1>0
<1>1. ASSUME NEW p \in Procs, Read(p) PROVE ClaimInv'
  <2>1. UNCHANGED <<fired, applied>>
    BY <1>1, ReadStep
  <2>2. PICK t \in Txn : Become(p, t) /\ t.claims = {}
    BY <1>1, ReadStep
  <2>3. txn'[p] = t /\ \A q \in Procs : q # p => txn'[q] = txn[q]
    BY <1>t, <2>2, TxnAfter
  <2> QED BY <1>0, <2>1, <2>2, <2>3
<1>2. ASSUME NEW p \in Procs, Write(p) \/ Insert(p) PROVE ClaimInv'
  <2>1. txn[p] \in Txn
    BY <1>t
  <2>2. PICK t \in Txn : Become(p, t) /\ t.claims = txn[p].claims
    BY <1>2, <2>1, TxnUpdates DEF Write, Insert
  <2>3. txn'[p] = t /\ \A q \in Procs : q # p => txn'[q] = txn[q]
    BY <1>t, <2>2, TxnAfter
  <2> QED BY <1>0, <1>2, <2>2, <2>3 DEF Write, Insert, history
<1>3. ASSUME NEW p \in Procs, NEW k \in Rules, RunRule(p, k) PROVE ClaimInv'
  <2>1. PICK t \in Txn : Become(p, t) /\ t.claims = txn[p].claims \cup {k}
    BY <1>3, RuleStep
  <2>2. txn'[p] = t /\ \A q \in Procs : q # p => txn'[q] = txn[q]
    BY <1>t, <2>1, TxnAfter
  <2>3. k \notin fired /\ \A q \in Procs : k \notin txn[q].claims
    BY <1>3 DEF RunRule
  <2>4. UNCHANGED <<fired, applied>>
    BY <1>3 DEF RunRule, history
  <2>5. \A q \in Procs : txn'[q].claims \cap fired' = {}
    BY <2>1, <2>2, <2>3, <2>4
  <2>6. \A q, r \in Procs : q # r => txn'[q].claims \cap txn'[r].claims = {}
    BY <2>1, <2>2, <2>3
  <2> QED BY <2>4, <2>5, <2>6
<1>4. ASSUME NEW p \in Procs, Commit(p) PROVE ClaimInv'
  <2>1. txn'[p].claims = {} /\ \A q \in Procs : q # p => txn'[q] = txn[q]
    BY <1>t, <1>4, NoTxnTyping, TxnAfter DEF Commit
  <2>2. fired' = fired \cup txn[p].claims
    BY <1>4 DEF Commit
  <2>3. \A k \in Rules : applied'[k] = applied[k] + IF k \in txn[p].claims THEN 1 ELSE 0
    BY <1>4 DEF Commit
  <2>4. ASSUME NEW k \in Rules
        PROVE  applied'[k] = (IF k \in fired' THEN 1 ELSE 0)
    <3>1. applied[k] = (IF k \in fired THEN 1 ELSE 0)
      OBVIOUS
    <3>2. ~(k \in txn[p].claims /\ k \in fired)
      OBVIOUS
    <3>3. k \in fired' <=> k \in fired \/ k \in txn[p].claims
      BY <2>2
    <3>4. applied'[k] = applied[k] + IF k \in txn[p].claims THEN 1 ELSE 0
      BY <2>3
    <3> QED BY ONLY <3>1, <3>2, <3>3, <3>4, SMT
  <2>5. \A q \in Procs : txn'[q].claims \cap fired' = {}
    BY <2>1, <2>2
  <2>6. \A q, r \in Procs : q # r => txn'[q].claims \cap txn'[r].claims = {}
    BY <2>1
  <2> QED BY <2>4, <2>5, <2>6
<1>5. ASSUME NEW p \in Procs, CommitRating(p) \/ Rollback(p) PROVE ClaimInv'
  <2>1. txn'[p].claims = {} /\ \A q \in Procs : q # p => txn'[q] = txn[q]
    BY <1>t, <1>5, NoTxnTyping, TxnAfter DEF CommitRating, Rollback
  <2> QED BY <1>0, <1>5, <2>1 DEF CommitRating, Rollback, history
<1>6. CASE UNCHANGED vars
  BY <1>6 DEF vars
<1> QED BY <1>1, <1>2, <1>3, <1>4, <1>5, <1>6 DEF Next

\* "A rule runs at most once per complaint" (workflow_service.py): with any number of
\* sweeps, status changes and rules under way, every rule is applied as often as it
\* has a committed execution row, once or not at all.
THEOREM RulesRunOnce == Spec => []RuleRunsOnce
<1>1. Init => TypeOK /\ ClaimInv
  <2>1. Init => ClaimInv
    BY NoTxnTyping DEF Init, ClaimInv, RuleRunsOnce
  <2> QED BY <2>1, InitTyping
<1>2. (TypeOK /\ ClaimInv) /\ [Next]_vars => (TypeOK /\ ClaimInv)'
  BY TypeStep, ClaimStep
<1>3. ClaimInv => RuleRunsOnce
  BY DEF ClaimInv
<1> QED BY <1>1, <1>2, <1>3, PTL DEF Spec

-----------------------------------------------------------------------------
(* Every status was recorded. *)

\* The statuses whose events p has committed or will commit.
Known(p) == traced \cup txn[p].events

\* What a transaction is about to write, and what it has written, is in a status of an
\* event that is committed or will be committed with it; and a transaction that is to
\* write, or runs rules, has a row to write, be it only its own.
RecordInv ==
  /\ StatusWasRecorded
  /\ \A p \in Procs : txn[p].at # "idle" => txn[p].c.status \in Known(p)
  /\ \A p \in Procs : locker = p => txn[p].at = "rules" /\ draft.status \in Known(p)
  /\ \A p \in Procs : txn[p].at \in {"update", "rewrite", "rules"} => Exists \/ locker = p

LEMMA KnownIsNotAbsent ==
  ASSUME TypeOK, NEW p \in Procs, NEW s \in Known(p)
  PROVE  s # "absent"
BY StatusList DEF Known, TypeOK, Txn

\* A step that commits nothing and leaves the row alone: what is to show is about the
\* transaction of the process that steps, and about the lock.
LEMMA RecordKept ==
  ASSUME TypeOK, RecordInv, NEW p \in Procs, NEW t \in Txn, Become(p, t),
         UNCHANGED <<row, traced>>,
         t.at # "idle" => t.c.status \in traced \cup t.events,
         locker' \in {locker, p, Nobody},
         locker' = p => t.at = "rules" /\ draft'.status \in traced \cup t.events,
         t.at \in {"update", "rewrite", "rules"} => Exists \/ locker' = p,
         locker # p /\ locker # Nobody => UNCHANGED <<locker, draft>>
  PROVE  RecordInv'
<1>1. /\ txn'[p] = t
      /\ \A q \in Procs : q # p => txn'[q] = txn[q]
  BY TxnAfter DEF TypeOK
<1>2. StatusWasRecorded'
  BY DEF RecordInv, StatusWasRecorded, Exists
<1>3. ASSUME NEW q \in Procs, txn'[q].at # "idle"
      PROVE  txn'[q].c.status \in Known(q)'
  BY <1>1, <1>3 DEF RecordInv, Known
<1>4. ASSUME NEW q \in Procs, locker' = q
      PROVE  txn'[q].at = "rules" /\ draft'.status \in Known(q)'
  <2>1. CASE q = p
    BY <1>1, <1>4, <2>1 DEF Known
  <2>2. CASE q # p
    <3>1. locker = q
      BY <1>4, <2>2, StaffAssumption
    <3>2. draft' = draft
      BY <2>2, <3>1, StaffAssumption
    <3> QED BY <1>1, <2>2, <3>1, <3>2 DEF RecordInv, Known
  <2> QED BY <2>1, <2>2
<1>5. ASSUME NEW q \in Procs, txn'[q].at \in {"update", "rewrite", "rules"}
      PROVE  Exists' \/ locker' = q
  <2>1. CASE q = p
    BY <1>1, <1>5, <2>1 DEF Exists
  <2>2. CASE q # p
    <3>1. Exists \/ locker = q
      BY <1>1, <1>5, <2>2 DEF RecordInv
    <3> QED BY <2>2, <3>1, StaffAssumption DEF Exists
  <2> QED BY <2>1, <2>2
<1> QED BY <1>2, <1>3, <1>4, <1>5 DEF RecordInv

LEMMA RecordStep ==
  ASSUME TypeOK, RecordInv, [Next]_vars
  PROVE  RecordInv'
<1>1. ASSUME NEW p \in Procs, Read(p) PROVE RecordInv'
  <2>1. UNCHANGED <<row, locker, draft, traced>> /\ txn[p] = NoTxn
    BY <1>1, ReadStep
  <2>2. PICK t \in Txn :
          /\ Become(p, t)
          /\ t.c.status \in t.events \/ (Exists /\ t.c.status = row.status)
          /\ t.at # "insert" => Exists
    BY <1>1, ReadStep
  <2>3. locker # p
    BY <2>1, NoTxnTyping DEF RecordInv
  <2>4. t.c.status \in traced \cup t.events
    BY <2>2 DEF RecordInv, StatusWasRecorded
  <2> QED BY <2>1, <2>2, <2>3, <2>4, RecordKept
<1>2. ASSUME NEW p \in Procs, Write(p) PROVE RecordInv'
  <2> DEFINE t == [txn[p] EXCEPT !.at = "rules", !.seen = NoRow]
  <2>1. txn[p] \in Txn /\ txn[p].c \in Row /\ txn[p].seen \in Row /\ row \in Row
    BY DEF TypeOK, Txn
  <2>2. /\ t \in Txn /\ t.at = "rules" /\ t.c = txn[p].c /\ t.events = txn[p].events
    BY <2>1, TxnUpdates
  <2>3. /\ Become(p, t) /\ locker = Nobody /\ locker' = p
        /\ draft' \in Saved(txn[p].c, txn[p].seen)
        /\ UNCHANGED <<row, traced>> /\ txn[p].at \in {"update", "rewrite"}
    BY <1>2 DEF Write, Saved, history
  <2>4. txn[p].c.status \in traced \cup txn[p].events /\ Exists
    BY <2>3, StaffAssumption DEF RecordInv, Known
  <2>5. draft'.status \in traced \cup txn[p].events
    <3>1. draft'.status \in {txn[p].c.status, row.status}
      BY <2>1, <2>3, SavedTyping
    <3> QED BY <2>4, <3>1 DEF RecordInv, StatusWasRecorded
  <2> HIDE DEF t
  <2> QED BY <2>2, <2>3, <2>4, <2>5, RecordKept
<1>3. ASSUME NEW p \in Procs, Insert(p) PROVE RecordInv'
  <2> DEFINE t == [txn[p] EXCEPT !.at = "rules", !.seen = NoRow]
  <2>1. txn[p] \in Txn
    BY DEF TypeOK
  <2>2. /\ t \in Txn /\ t.at = "rules" /\ t.c = txn[p].c /\ t.events = txn[p].events
    BY <2>1, TxnUpdates
  <2>3. /\ Become(p, t) /\ locker = Nobody /\ locker' = p /\ draft' = txn[p].c
        /\ UNCHANGED <<row, traced>> /\ txn[p].at = "insert"
    BY <1>3 DEF Insert, history
  <2>4. txn[p].c.status \in traced \cup txn[p].events
    BY <2>3 DEF RecordInv, Known
  <2> HIDE DEF t
  <2> QED BY <2>2, <2>3, <2>4, RecordKept
<1>4. ASSUME NEW p \in Procs, NEW k \in Rules, RunRule(p, k) PROVE RecordInv'
  <2>1. PICK new \in Row, e \in SUBSET Statuses, t \in Txn :
          /\ RuleWrites(p, new)
          /\ new.status \in {txn[p].c.status} \cup e
          /\ Become(p, t)
          /\ t.at = "rules" /\ t.c = new
          /\ t.events = txn[p].events \cup e
    BY <1>4, RuleStep
  <2>2. txn[p].at = "rules" /\ UNCHANGED traced
    BY <1>4 DEF RunRule, history
  <2>3. /\ txn[p].c.status \in traced \cup txn[p].events
        /\ Exists \/ locker = p
        /\ locker = p => draft.status \in traced \cup txn[p].events
    BY <2>2 DEF RecordInv, Known
  <2>4. t.c.status \in traced \cup t.events
    BY <2>1, <2>3
  <2>5. CASE new = txn[p].c
    <3>1. UNCHANGED <<row, locker, draft>>
      BY <2>1, <2>5 DEF RuleWrites, store
    <3> QED BY <2>1, <2>2, <2>3, <2>4, <3>1, RecordKept
  <2>6. CASE new # txn[p].c
    <3>1. /\ locker \in {p, Nobody} /\ locker' = p /\ UNCHANGED row
          /\ draft' \in IF locker = p THEN {new} ELSE Saved(new, txn[p].seen)
      BY <2>1, <2>6 DEF RuleWrites
    <3>2. draft'.status \in traced \cup t.events
      <4>1. CASE locker = p
        BY <2>1, <2>4, <3>1, <4>1
      <4>2. CASE locker # p
        <5>1. row \in Row /\ txn[p].seen \in Row
          BY DEF TypeOK, Txn
        <5>2. draft'.status \in {new.status, row.status}
          BY <3>1, <4>2, <5>1, SavedTyping
        <5>3. row.status \in traced
          BY <2>3, <4>2 DEF RecordInv, StatusWasRecorded
        <5> QED BY <2>1, <2>4, <5>2, <5>3
      <4> QED BY <4>1, <4>2
    <3> QED BY <2>1, <2>2, <2>4, <3>1, <3>2, RecordKept
  <2> QED BY <2>5, <2>6
<1>5. ASSUME NEW p \in Procs, Commit(p) PROVE RecordInv'
  <2>1. /\ txn'[p] = NoTxn
        /\ \A q \in Procs : q # p => txn'[q] = txn[q]
    BY <1>5, NoTxnTyping, TxnAfter DEF Commit, TypeOK
  <2>2. /\ txn[p].at = "rules" /\ traced' = traced \cup txn[p].events
        /\ row' = IF locker = p THEN draft ELSE row
        /\ Unlock(p)
    BY <1>5 DEF Commit
  <2>3. row'.status \in traced' /\ Exists'
    <3>1. CASE locker = p
      <4>1. draft.status \in Known(p)
        BY <3>1 DEF RecordInv
      <4> QED BY <2>2, <3>1, <4>1, KnownIsNotAbsent DEF Known, Exists
    <3>2. CASE locker # p
      BY <2>2, <3>2 DEF RecordInv, StatusWasRecorded, Exists
    <3> QED BY <3>1, <3>2
  <2>4. ASSUME NEW q \in Procs, txn'[q].at # "idle"
        PROVE  txn'[q].c.status \in Known(q)'
    BY <2>1, <2>2, <2>4, NoTxnTyping DEF RecordInv, Known
  <2>5. ASSUME NEW q \in Procs, locker' = q
        PROVE  txn'[q].at = "rules" /\ draft'.status \in Known(q)'
    <3>1. locker = q /\ q # p /\ draft' = draft
      BY <2>2, <2>5, StaffAssumption DEF Unlock
    <3> QED BY <2>1, <2>2, <3>1 DEF RecordInv, Known
  <2> QED BY <2>3, <2>4, <2>5 DEF RecordInv, StatusWasRecorded
<1>6. ASSUME NEW p \in Procs, CommitRating(p) \/ Rollback(p) PROVE RecordInv'
  <2>1. /\ Become(p, NoTxn) /\ UNCHANGED <<row, traced>>
        /\ UNCHANGED <<locker, draft>> \/ Unlock(p)
    BY <1>6 DEF CommitRating, Rollback, store, history
  <2>2. CommitRating(p) => locker # p
    BY DEF CommitRating, RecordInv
  <2>3. locker' \in {locker, Nobody} /\ locker' # p
    BY <1>6, <2>1, <2>2, StaffAssumption DEF Unlock, Rollback
  <2>4. locker # p /\ locker # Nobody => UNCHANGED <<locker, draft>>
    BY <2>1 DEF Unlock
  <2> QED BY <2>1, <2>3, <2>4, NoTxnTyping, RecordKept
<1>7. CASE UNCHANGED vars
  BY <1>7 DEF vars, RecordInv, StatusWasRecorded, Known, Exists
<1> QED BY <1>1, <1>2, <1>3, <1>4, <1>5, <1>6, <1>7 DEF Next

\* A lost update never invents a status: with any number of whole-record writes under
\* way, the status a complaint has is one that a committed event records.
THEOREM StatusesAreRecorded == Spec => []StatusWasRecorded
<1>1. Init => TypeOK /\ RecordInv
  <2>1. Init => RecordInv
    BY NoTxnTyping, StaffAssumption
    DEF Init, RecordInv, StatusWasRecorded, Exists, NoRow
  <2> QED BY <2>1, InitTyping
<1>2. (TypeOK /\ RecordInv) /\ [Next]_vars => (TypeOK /\ RecordInv)'
  BY TypeStep, RecordStep
<1>3. RecordInv => StatusWasRecorded
  BY DEF RecordInv
<1> QED BY <1>1, <1>2, <1>3, PTL DEF Spec

-----------------------------------------------------------------------------
(* What a read decides. *)

\* The statuses that come before a status on every way through the graph, and itself.
Needs(s) ==
  IF s = "absent" THEN {}
  ELSE {s, "submitted"} \cup
       (IF s \in {"submitted", "rejected"} THEN {} ELSE {"ai_routed"}) \cup
       (IF s \in {"submitted", "rejected", "ai_routed"} THEN {} ELSE {"assigned"}) \cup
       (IF s \in {"submitted", "rejected", "ai_routed", "assigned"} THEN {}
        ELSE {"under_review"}) \cup
       (IF s = "closed" THEN {"resolved"} ELSE {})

\* The officer and the stamp of a record fit its department and status.
Fits(c) ==
  /\ c.officer # None => OfficerDept[c.officer] = c.dept
  /\ c.status = "submitted" => c.dept = None
  /\ c.status = "resolved" => c.stamped
  /\ c.stamped => c.status \in {"resolved", "closed"}

\* No move of the graph leaves out what the target needs, leads back to the start or
\* leaves the end.
LEMMA Moves ==
  ASSUME NEW s \in Statuses, NEW target \in Transitions[s]
  PROVE  /\ target \in Statuses \ {"submitted"} /\ s \notin {"closed", "rejected"}
         /\ Needs(target) \subseteq {target} \cup Needs(s)
<1>1. CASE s \in {"submitted", "ai_routed", "assigned"}
  BY <1>1, StatusList DEF Transitions, Needs
<1>2. CASE s \in {"under_review", "inspection_scheduled", "in_progress"}
  BY <1>2, StatusList DEF Transitions, Needs
<1>3. CASE s \in {"resolved", "closed", "rejected"}
  BY <1>3, StatusList DEF Transitions, Needs
<1> QED BY <1>1, <1>2, <1>3, StatusList

LEMMA MovedFits ==
  ASSUME NEW c \in Row, c.status \in Statuses, NEW target \in Transitions[c.status], Fits(c)
  PROVE  Fits(Moved(c, target))
<1>1. target # "submitted" /\ c.status # "closed"
  BY Moves
<1>2. /\ Moved(c, target).officer = c.officer /\ Moved(c, target).dept = c.dept
      /\ Moved(c, target).status = target
      /\ Moved(c, target).stamped = IF target = "resolved" THEN TRUE
                                    ELSE IF c.status = "resolved" THEN FALSE ELSE c.stamped
  BY DEF Moved, Row
<1> QED BY <1>1, <1>2 DEF Fits

\* What a record that a read has decided on has to do with the row: a sound one gives a
\* sound one, an event says which status is new, and events leave out nothing.
Decides(p) ==
  LET t == txn'[p] IN
  /\ t.at = "insert" <=> t.trigger = "created"
  /\ t.at = "insert" => ~Exists
  /\ t.seen = row
  /\ t.at = "rules" => t.c = row
  /\ t.at = "rate" => row.status \in {"resolved", "closed"}
  /\ \A s \in t.events : Needs(s) \subseteq t.events \cup Needs(row.status)
  /\ t.c.status # row.status => t.c.status \in t.events
  /\ row.status \in {"closed", "rejected"} => t.c.status = row.status
  /\ Fits(row) => Fits(t.c)

LEMMA BeginDecides ==
  ASSUME TypeOK, NEW p \in Procs, NEW c \in Row, NEW events \in SUBSET Statuses,
         NEW trigger \in Triggers \cup {"none"}, trigger # "created",
         Begin(p, c, events, trigger),
         \A s \in events : Needs(s) \subseteq events \cup Needs(row.status),
         c.status # row.status => c.status \in events,
         row.status \in {"closed", "rejected"} => c.status = row.status,
         Fits(row) => Fits(c)
  PROVE  Decides(p)
<1>1. txn'[p] = Begun("update", c, row, events, trigger)
  BY DEF Begin, Become, TypeOK
<1> QED BY <1>1 DEF Begun, Decides

LEMMA TransitionDecides ==
  ASSUME TypeOK, NEW p \in Procs, NEW c \in Row, NEW target \in Statuses,
         Transition(p, c, target), Exists, c.status = row.status,
         Fits(row) => Fits(c)
  PROVE  Decides(p)
<1>1. row.status \in Statuses /\ target \in Transitions[row.status]
  BY DEF TypeOK, Row, Exists, Transition, CanTransition
<1>2. /\ row.status \notin {"closed", "rejected"}
      /\ Needs(target) \subseteq {target} \cup Needs(row.status)
  BY <1>1, Moves
<1>3. Moved(c, target) \in Row /\ Moved(c, target).status = target
  <2>1. Moved(c, target) \in Row
    BY RowUpdates
  <2>2. Moved(c, target).status = target
    BY DEF Moved, Row
  <2> QED BY <2>1, <2>2
<1>4. Fits(row) => Fits(Moved(c, target))
  BY <1>1, MovedFits
<1>5. Begin(p, Moved(c, target), {target}, "status_changed")
  BY DEF Transition
<1> QED BY <1>2, <1>3, <1>4, <1>5, BeginDecides DEF Triggers

\* An officer works for a department, so a complaint without department has no officer.
LEMMA NoDeptNoOfficer ==
  ASSUME NEW c \in Row, Fits(c), c.dept = None
  PROVE  c.officer = None
BY StaffAssumption DEF Row, Fits

LEMMA RoutedFits ==
  ASSUME NEW c \in Row, c.status = "submitted", NEW d \in Depts, NEW r \in Routed(c, d)
  PROVE  /\ r.status \in {"ai_routed", "assigned"}
         /\ \A s \in RoutedEvents(r) : Needs(s) \subseteq RoutedEvents(r) \cup {"submitted"}
         /\ c.dept = None /\ Fits(c) => Fits(r)
<1>1. \/ r = [c EXCEPT !.status = "ai_routed", !.dept = d]
      \/ \E o \in Officers : OfficerDept[o] = d /\
           r = [c EXCEPT !.status = "assigned", !.dept = d, !.officer = o]
  BY DEF Routed
<1>2. CASE r = [c EXCEPT !.status = "ai_routed", !.dept = d]
  <2>1. /\ r.status = "ai_routed" /\ r.dept = d /\ r.officer = c.officer
        /\ r.stamped = c.stamped
    BY <1>2 DEF Row
  <2>2. RoutedEvents(r) = {"ai_routed"}
    BY <2>1 DEF RoutedEvents
  <2> QED BY <2>1, <2>2, NoDeptNoOfficer DEF Fits, Needs
<1>3. ASSUME NEW o \in Officers, OfficerDept[o] = d,
             r = [c EXCEPT !.status = "assigned", !.dept = d, !.officer = o]
      PROVE  /\ r.status \in {"ai_routed", "assigned"}
             /\ \A s \in RoutedEvents(r) : Needs(s) \subseteq RoutedEvents(r) \cup {"submitted"}
             /\ c.dept = None /\ Fits(c) => Fits(r)
  <2>1. r.status = "assigned" /\ r.dept = d /\ r.officer = o /\ r.stamped = c.stamped
    BY <1>3 DEF Row
  <2>2. RoutedEvents(r) = {"ai_routed", "assigned"}
    BY <2>1 DEF RoutedEvents
  <2> QED BY <1>3, <2>1, <2>2 DEF Fits, Needs
<1> QED BY <1>1, <1>2, <1>3

LEMMA ReadDecides ==
  ASSUME TypeOK, NEW p \in Procs, Read(p)
  PROVE  Decides(p)
<1>0. row \in Row /\ NoRow \in Row /\ txn \in [Procs -> Txn]
  BY NoRowTyping DEF TypeOK
<1>1. CASE Create(p)
  <2> DEFINE new == [NoRow EXCEPT !.status = "submitted"]
  <2>1. PICK c \in {new} \cup UNION {Routed(new, d) : d \in Depts} :
          Become(p, Begun("insert", c, row, {"submitted"} \cup RoutedEvents(c), "created"))
    BY <1>1 DEF Create
  <2>2. /\ new \in Row /\ new.status = "submitted" /\ new.dept = None
        /\ new.officer = None /\ new.stamped = FALSE
    BY <1>0, RowUpdates DEF NoRow, Row
  <2>3. Fits(new)
    BY <2>2 DEF Fits
  <2> HIDE DEF new
  <2>4. /\ Fits(c) /\ c.status \in {"submitted"} \cup RoutedEvents(c)
        /\ \A s \in RoutedEvents(c) : Needs(s) \subseteq RoutedEvents(c) \cup {"submitted"}
    <3>1. CASE c = new
      <4>1. RoutedEvents(c) = {}
        BY <2>2, <3>1 DEF RoutedEvents
      <4> QED BY <2>2, <2>3, <3>1, <4>1
    <3>2. CASE c \in UNION {Routed(new, d) : d \in Depts}
      <4>1. PICK d \in Depts : c \in Routed(new, d)
        BY <3>2
      <4> QED BY <2>2, <2>3, <4>1, RoutedFits, RoutedTyping
    <3> QED BY <2>1, <3>1, <3>2
  <2>5. txn'[p] = Begun("insert", c, row, {"submitted"} \cup RoutedEvents(c), "created")
    BY <1>0, <2>1 DEF Become
  <2>6. row.status = "absent" /\ ~Exists
    BY <1>1 DEF Create, Exists
  <2>7. Needs("submitted") = {"submitted"}
    BY DEF Needs
  <2> QED BY <2>4, <2>5, <2>6, <2>7 DEF Decides, Begun
<1>2. CASE UpdateStatus(p)
  BY <1>0, <1>2, TransitionDecides DEF UpdateStatus
<1>3. CASE Assign(p)
  <2>1. PICK o \in Officers :
          /\ OfficerDept[o] = row.dept
          /\ IF row.status = "ai_routed" THEN Transition(p, [row EXCEPT !.officer = o], "assigned")
             ELSE Begin(p, [row EXCEPT !.officer = o], {}, "none")
    BY <1>3 DEF Assign
  <2> DEFINE c == [row EXCEPT !.officer = o]
  <2>2. /\ c \in Row /\ c.status = row.status
        /\ c.officer = o /\ c.dept = row.dept /\ c.stamped = row.stamped
    BY <1>0, RowUpdates DEF Row
  <2>3. IF row.status = "ai_routed" THEN Transition(p, c, "assigned")
        ELSE Begin(p, c, {}, "none")
    BY <2>1
  <2> HIDE DEF c
  <2>4. Fits(row) => Fits(c)
    BY <2>1, <2>2 DEF Fits
  <2> QED BY <1>3, <2>2, <2>3, <2>4, TransitionDecides, BeginDecides, StatusList DEF Assign
<1>4. CASE Triage(p)
  <2>1. PICK d \in Depts :
          Become(p, Begun("rewrite", Moved([row EXCEPT !.dept = d], "ai_routed"), row,
                          {"ai_routed"}, "status_changed"))
    BY <1>4 DEF Triage
  <2> DEFINE c == Moved([row EXCEPT !.dept = d], "ai_routed")
  <2>2. row.status = "submitted" /\ row.dept = None
    BY <1>4 DEF Triage
  <2>3. /\ c.status = "ai_routed" /\ c.dept = d
        /\ c.officer = row.officer /\ c.stamped = row.stamped
    BY <1>0, <2>2 DEF Moved, Row
  <2>4. txn'[p] = Begun("rewrite", c, row, {"ai_routed"}, "status_changed")
    BY <1>0, <2>1 DEF Become
  <2> HIDE DEF c
  <2>5. Fits(row) => Fits(c)
    BY <1>0, <2>2, <2>3, NoDeptNoOfficer DEF Fits
  <2>6. Needs("ai_routed") \subseteq {"ai_routed"} \cup Needs(row.status)
    BY <2>2 DEF Needs
  <2> QED BY <2>2, <2>3, <2>4, <2>5, <2>6 DEF Decides, Begun
<1>5. CASE TypedEvent(p)
  BY <1>0, <1>5, TransitionDecides, BeginDecides, StatusList DEF TypedEvent
<1>6. CASE Annotate(p)
  BY <1>0, <1>6, BeginDecides DEF Annotate
<1>7. CASE Enrich(p)
  <2>1. PICK d \in Depts : \E c \in Routed(row, d) : Begin(p, c, RoutedEvents(c), "none")
    BY <1>7 DEF Enrich
  <2>2. PICK c \in Routed(row, d) : Begin(p, c, RoutedEvents(c), "none")
    BY <2>1
  <2>3. row.status = "submitted" /\ row.dept = None
    BY <1>7 DEF Enrich
  <2>4. /\ c \in Row /\ RoutedEvents(c) \in SUBSET Statuses /\ c.status \in RoutedEvents(c)
    BY <1>0, RoutedTyping
  <2>5. /\ Fits(row) => Fits(c)
        /\ \A s \in RoutedEvents(c) : Needs(s) \subseteq RoutedEvents(c) \cup {"submitted"}
    BY <1>0, <2>3, RoutedFits
  <2>6. "submitted" \in Needs(row.status)
    BY <2>3 DEF Needs
  <2> QED BY <2>2, <2>3, <2>4, <2>5, <2>6, BeginDecides
<1>8. CASE Transfer(p)
  <2>1. PICK d \in Depts :
          IF row.status = "assigned"
            THEN Transition(p, [row EXCEPT !.dept = d, !.officer = None], "ai_routed")
            ELSE Begin(p, [row EXCEPT !.dept = d, !.officer = None], {}, "none")
    BY <1>8 DEF Transfer
  <2> DEFINE c == [row EXCEPT !.dept = d, !.officer = None]
  <2>2. c \in Row /\ c.status = row.status /\ c.officer = None /\ c.stamped = row.stamped
    BY <1>0, RowUpdates DEF Row
  <2>3. IF row.status = "assigned" THEN Transition(p, c, "ai_routed")
        ELSE Begin(p, c, {}, "none")
    BY <2>1
  <2>4. row.status \in {"ai_routed", "assigned"} /\ Exists
    BY <1>8 DEF Transfer, Exists
  <2> HIDE DEF c
  <2>5. Fits(row) => Fits(c)
    BY <2>2, <2>4 DEF Fits
  <2> QED BY <2>2, <2>3, <2>4, <2>5, TransitionDecides, BeginDecides, StatusList
<1>9. CASE Escalate(p)
  <2> DEFINE c == [row EXCEPT !.level = @ + 1]
  <2>1. /\ c \in Row /\ c.status = row.status /\ c.dept = row.dept
        /\ c.officer = row.officer /\ c.stamped = row.stamped
    BY <1>0, <1>9, RowUpdates DEF Row, Escalate
  <2>2. Begin(p, c, {}, "none")
    BY <1>9 DEF Escalate
  <2> HIDE DEF c
  <2>3. Fits(row) => Fits(c)
    BY <2>1 DEF Fits
  <2>4. Decides(p)
    BY <2>1, <2>2, <2>3, BeginDecides, StatusList
  <2> QED BY <2>4
<1>13. CASE SlaScan(p)
  <2> DEFINE c == [row EXCEPT !.level = @ + 1]
  <2>1. /\ c \in Row /\ c.status = row.status /\ c.dept = row.dept
        /\ c.officer = row.officer /\ c.stamped = row.stamped
    BY <1>0, <1>13, RowUpdates DEF Row, SlaScan
  <2>2. Begin(p, c, {}, "none")
    BY <1>13 DEF SlaScan
  <2> HIDE DEF c
  <2>3. Fits(row) => Fits(c)
    BY <2>1 DEF Fits
  <2>4. Decides(p)
    BY <2>1, <2>2, <2>3, BeginDecides, StatusList
  <2> QED BY <2>4
<1>10. CASE Reopen(p)
  <2> DEFINE c == [row EXCEPT !.status = "in_progress", !.stamped = FALSE]
  <2>1. /\ c \in Row /\ c.status = "in_progress" /\ c.dept = row.dept
        /\ c.officer = row.officer /\ c.stamped = FALSE
    BY <1>0, RowUpdates DEF Row
  <2>2. Begin(p, c, {"in_progress"}, "none") /\ row.status = "resolved"
    BY <1>10 DEF Reopen
  <2> HIDE DEF c
  <2>3. Fits(row) => Fits(c)
    BY <2>1 DEF Fits
  <2>4. Needs("in_progress") \subseteq {"in_progress"} \cup Needs(row.status)
    BY <2>2 DEF Needs
  <2> QED BY <2>1, <2>2, <2>3, <2>4, BeginDecides, StatusList
<1>11. CASE Feedback(p)
  <2>1. txn'[p] = Begun("rate", row, row, {}, "none")
    BY <1>0, <1>11 DEF Feedback, Become
  <2> QED BY <1>11, <2>1 DEF Decides, Begun, Feedback
<1>12. CASE Sweep(p)
  <2>1. txn'[p] = Begun("rules", row, row, {}, "scheduled")
    BY <1>0, <1>12 DEF Sweep, Become
  <2> QED BY <2>1 DEF Decides, Begun
<1> QED BY <1>1, <1>2, <1>3, <1>4, <1>5, <1>6, <1>7, <1>8, <1>9, <1>10, <1>11, <1>12, <1>13
    DEF Read

\* What a rule makes of a record.
LEMMA RuledFits ==
  ASSUME NEW c \in Row, NEW k \in Rules, NEW new \in Ruled(k, c)
  PROVE  /\ new \in Row
         /\ Fits(c) => Fits(new)
         /\ new.status # c.status => c.status = "resolved" /\ new.status = "closed"
         /\ RuleAction[k] = "auto_close" /\ c.status = "resolved" => new.status = "closed"
<1>0. new \in Row
  BY RuledTyping
<1>1. CASE RuleAction[k] = "escalate" /\ c.status \notin Finished /\ c.level < MaxLevel
  <2>1. new = [c EXCEPT !.level = @ + 1]
    BY <1>1 DEF Ruled
  <2>2. /\ new.status = c.status /\ new.dept = c.dept /\ new.officer = c.officer
        /\ new.stamped = c.stamped
    BY <2>1 DEF Row
  <2> QED BY <1>0, <1>1, <2>2 DEF Fits
<1>2. CASE RuleAction[k] = "auto_close" /\ c.status = "resolved"
  <2>1. new = [c EXCEPT !.status = "closed"]
    BY <1>2 DEF Ruled
  <2>2. /\ new.status = "closed" /\ new.dept = c.dept /\ new.officer = c.officer
        /\ new.stamped = c.stamped
    BY <2>1 DEF Row
  <2> QED BY <1>0, <1>2, <2>2 DEF Fits
<1>3. ASSUME NEW o \in Officers, OfficerDept[o] = c.dept, new = [c EXCEPT !.officer = o],
             RuleAction[k] = "assign_least_loaded"
      PROVE  /\ Fits(c) => Fits(new)
             /\ new.status # c.status => c.status = "resolved" /\ new.status = "closed"
             /\ RuleAction[k] = "auto_close" /\ c.status = "resolved" => new.status = "closed"
  <2>1. /\ new.status = c.status /\ new.dept = c.dept /\ new.officer = o
        /\ new.stamped = c.stamped
    BY <1>3 DEF Row
  <2> QED BY <1>3, <2>1 DEF Fits
<1>4. CASE new = c /\ ~(RuleAction[k] = "auto_close" /\ c.status = "resolved")
  BY <1>0, <1>4
<1>5. \/ RuleAction[k] = "escalate" /\ c.status \notin Finished /\ c.level < MaxLevel
      \/ RuleAction[k] = "auto_close" /\ c.status = "resolved"
      \/ /\ RuleAction[k] = "assign_least_loaded"
         /\ \E o \in Officers : OfficerDept[o] = c.dept /\ new = [c EXCEPT !.officer = o]
      \/ new = c /\ ~(RuleAction[k] = "auto_close" /\ c.status = "resolved")
  BY DEF Ruled
<1> QED BY <1>0, <1>1, <1>2, <1>3, <1>4, <1>5

-----------------------------------------------------------------------------
(* One complaint is filed, and work precedes its resolution, in any interleaving. *)

\* The complaint is there when it was filed, once; the transaction that files it holds
\* the place of the row, and no other is past its read before there is a row.
FiledInv ==
  /\ filed = IF Exists THEN 1 ELSE 0
  /\ \A p \in Procs :
       /\ txn[p].at = "insert" => txn[p].trigger = "created"
       /\ txn[p].at \in {"update", "rewrite", "rate"} => txn[p].trigger # "created"
       /\ txn[p].at = "rules" /\ txn[p].trigger = "created" => locker = p /\ ~Exists
       /\ txn[p].at = "rules" /\ txn[p].trigger # "created" => Exists

\* A transaction opens with its read, goes on with its write, its insert or its rules,
\* each of which keeps its trigger, and ends.
LEMMA StepEffects ==
  ASSUME TypeOK, NEW p \in Procs
  PROVE  /\ Write(p) \/ Insert(p) =>
              /\ txn'[p].at = "rules" /\ txn'[p].trigger = txn[p].trigger
              /\ txn'[p].events = txn[p].events /\ txn'[p].claims = txn[p].claims
              /\ txn'[p].c = txn[p].c
         /\ \A k \in Rules : RunRule(p, k) =>
              /\ txn[p].at = "rules"
              /\ txn'[p].at = "rules" /\ txn'[p].trigger = txn[p].trigger
              /\ txn'[p].seen = txn[p].seen
         /\ Commit(p) \/ CommitRating(p) \/ Rollback(p) => txn'[p] = NoTxn
         /\ Read(p) \/ Write(p) \/ Insert(p) \/ (\E k \in Rules : RunRule(p, k))
              \/ Commit(p) \/ CommitRating(p) \/ Rollback(p) =>
                \A q \in Procs : q # p => txn'[q] = txn[q]
<1> USE DEF Become
<1>0. txn \in [Procs -> Txn] /\ txn[p] \in Txn
  BY DEF TypeOK
<1>1. ASSUME Write(p) \/ Insert(p)
      PROVE  /\ txn'[p].at = "rules" /\ txn'[p].trigger = txn[p].trigger
             /\ txn'[p].events = txn[p].events /\ txn'[p].claims = txn[p].claims
             /\ txn'[p].c = txn[p].c
  <2>1. txn'[p] = [txn[p] EXCEPT !.at = "rules", !.seen = NoRow]
    BY <1>0, <1>1 DEF Write, Insert
  <2> QED BY <1>0, <2>1 DEF Txn
<1>2. ASSUME NEW k \in Rules, RunRule(p, k)
      PROVE  /\ txn[p].at = "rules"
             /\ txn'[p].at = "rules" /\ txn'[p].trigger = txn[p].trigger
             /\ txn'[p].seen = txn[p].seen
  <2>1. PICK new \in Ruled(k, txn[p].c) :
          txn'[p] = [txn[p] EXCEPT !.c = new, !.next = k + 1, !.claims = @ \cup {k},
                                   !.events = @ \cup RuleEvents(txn[p].c, new)]
    BY <1>0, <1>2 DEF RunRule
  <2> QED BY <1>0, <1>2, <2>1 DEF Txn, RunRule
<1>3. Commit(p) \/ CommitRating(p) \/ Rollback(p) => txn'[p] = NoTxn
  BY <1>0 DEF Commit, CommitRating, Rollback
<1>4. ASSUME Read(p), NEW q \in Procs, q # p
      PROVE  txn'[q] = txn[q]
  BY <1>0, <1>4, ReadStep
<1>5. ASSUME Write(p) \/ Insert(p) \/ (\E k \in Rules : RunRule(p, k))
              \/ Commit(p) \/ CommitRating(p) \/ Rollback(p),
             NEW q \in Procs, q # p
      PROVE  txn'[q] = txn[q]
  BY <1>0, <1>5 DEF Write, Insert, RunRule, Commit, CommitRating, Rollback
<1> QED BY <1>1, <1>2, <1>3, <1>4, <1>5

\* A step after which the row is there as before: what is to show is about the process
\* that steps.
LEMMA FiledKept ==
  ASSUME TypeOK, FiledInv, NEW p \in Procs, UNCHANGED <<row, filed>>,
         \A q \in Procs : q # p => txn'[q] = txn[q],
         locker' \in {locker, p, Nobody}, locker \notin {p, Nobody} => locker' = locker,
         txn'[p].at = "insert" => txn'[p].trigger = "created",
         txn'[p].at \in {"update", "rewrite", "rate"} => txn'[p].trigger # "created",
         txn'[p].at = "rules" /\ txn'[p].trigger = "created" => locker' = p /\ ~Exists,
         txn'[p].at = "rules" /\ txn'[p].trigger # "created" => Exists
  PROVE  FiledInv'
<1>1. Exists' = Exists
  BY DEF Exists
<1>2. ASSUME NEW q \in Procs, q # p, locker = q
      PROVE  locker' = q
  BY <1>2, StaffAssumption
<1> QED BY <1>1, <1>2 DEF FiledInv

LEMMA FiledStep ==
  ASSUME TypeOK, RecordInv, FiledInv, [Next]_vars
  PROVE  FiledInv'
<1>0. NoTxn.at = "idle"
  BY NoTxnTyping
<1>1. ASSUME NEW p \in Procs, Read(p) PROVE FiledInv'
  <2>1. /\ UNCHANGED <<row, filed, locker>> /\ txn[p] = NoTxn
        /\ \A q \in Procs : q # p => txn'[q] = txn[q]
    BY <1>1, ReadStep, StepEffects
  <2>2. txn'[p].at = "insert" <=> txn'[p].trigger = "created"
    BY <1>1, ReadDecides DEF Decides
  <2>3. txn'[p].at # "insert" => Exists
    BY <1>1, ReadStep, TxnAfter DEF TypeOK
  <2> QED BY <2>1, <2>2, <2>3, FiledKept
<1>2. ASSUME NEW p \in Procs, Write(p) PROVE FiledInv'
  <2>1. /\ UNCHANGED <<row, filed>> /\ locker' = p /\ locker = Nobody
        /\ txn[p].at \in {"update", "rewrite"}
    BY <1>2 DEF Write, history
  <2>2. /\ txn'[p].at = "rules" /\ txn'[p].trigger = txn[p].trigger
        /\ \A q \in Procs : q # p => txn'[q] = txn[q]
    BY <1>2, StepEffects
  <2>3. Exists /\ txn[p].trigger # "created"
    BY <2>1, StaffAssumption DEF RecordInv, FiledInv
  <2> QED BY <2>1, <2>2, <2>3, FiledKept
<1>3. ASSUME NEW p \in Procs, Insert(p) PROVE FiledInv'
  <2>1. /\ UNCHANGED <<row, filed>> /\ locker' = p /\ locker = Nobody
        /\ txn[p].at = "insert" /\ ~Exists
    BY <1>3 DEF Insert, history
  <2>2. /\ txn'[p].at = "rules" /\ txn'[p].trigger = txn[p].trigger
        /\ \A q \in Procs : q # p => txn'[q] = txn[q]
    BY <1>3, StepEffects
  <2>3. txn[p].trigger = "created"
    BY <2>1 DEF FiledInv
  <2> QED BY <2>1, <2>2, <2>3, FiledKept
<1>4. ASSUME NEW p \in Procs, NEW k \in Rules, RunRule(p, k) PROVE FiledInv'
  <2>1. /\ txn[p].at = "rules" /\ txn'[p].at = "rules"
        /\ txn'[p].trigger = txn[p].trigger
        /\ \A q \in Procs : q # p => txn'[q] = txn[q]
    BY <1>4, StepEffects
  <2>2. UNCHANGED <<row, filed>> /\ locker' \in {locker, p}
        /\ (locker' = locker \/ locker = Nobody)
    BY <1>4 DEF RunRule, RuleWrites, store, history
  <2> QED BY <2>1, <2>2, FiledKept, StaffAssumption DEF FiledInv
<1>5. ASSUME NEW p \in Procs, Commit(p) PROVE FiledInv'
  <2>1. txn'[p] = NoTxn /\ \A q \in Procs : q # p => txn'[q] = txn[q]
    BY <1>5, StepEffects
  <2>2. /\ txn[p].at = "rules" /\ row' = IF locker = p THEN draft ELSE row
        /\ Unlock(p)
        /\ filed' = filed + IF txn[p].trigger = "created" THEN 1 ELSE 0
    BY <1>5 DEF Commit
  <2>3. Exists'
    <3>1. CASE locker = p
      <4>1. draft.status \in Known(p)
        BY <3>1 DEF RecordInv
      <4> QED BY <2>2, <3>1, <4>1, KnownIsNotAbsent DEF Exists
    <3>2. CASE locker # p
      BY <2>2, <3>2 DEF FiledInv, Exists
    <3> QED BY <3>1, <3>2
  <2>4. filed' = 1
    BY <2>2 DEF FiledInv
  <2>5. ASSUME NEW q \in Procs, q # p
        PROVE  ~(txn[q].at = "rules" /\ txn[q].trigger = "created")
    \* q would hold the place of the row, and p would not have got past its read.
    BY <2>2, <2>5 DEF FiledInv
  <2> QED BY <1>0, <2>1, <2>3, <2>4, <2>5 DEF FiledInv
<1>6. ASSUME NEW p \in Procs, CommitRating(p) \/ Rollback(p) PROVE FiledInv'
  <2>1. txn'[p] = NoTxn /\ \A q \in Procs : q # p => txn'[q] = txn[q]
    BY <1>6, StepEffects
  <2>2. UNCHANGED <<row, filed>> /\ (UNCHANGED locker \/ Unlock(p))
    BY <1>6 DEF CommitRating, Rollback, store, history
  <2>3. locker' \in {locker, Nobody} /\ (locker # p => locker' = locker)
    BY <2>2 DEF Unlock
  <2> QED BY <1>0, <2>1, <2>2, <2>3, FiledKept
<1>7. CASE UNCHANGED vars
  BY <1>7 DEF vars, FiledInv, Exists
<1> QED BY <1>1, <1>2, <1>3, <1>4, <1>5, <1>6, <1>7 DEF Next

LEMMA RecordInit == Init => RecordInv
BY NoTxnTyping, StaffAssumption DEF Init, RecordInv, StatusWasRecorded, Exists, NoRow

\* Submitting twice, or an offline client that sends its draft again, files one
\* complaint, however many requests have found none.
THEOREM ComplaintsAreFiledOnce == Spec => []FiledOnce
<1>1. Init => TypeOK /\ RecordInv /\ FiledInv
  <2>1. Init => FiledInv
    BY NoTxnTyping DEF Init, FiledInv, Exists, NoRow
  <2> QED BY <2>1, InitTyping, RecordInit
<1>2. (TypeOK /\ RecordInv /\ FiledInv) /\ [Next]_vars => (TypeOK /\ RecordInv /\ FiledInv)'
  BY TypeStep, RecordStep, FiledStep
<1>3. FiledInv => FiledOnce
  BY DEF FiledInv, FiledOnce
<1> QED BY <1>1, <1>2, <1>3, PTL DEF Spec

\* What the committed events say happened includes what it needs, and so do the events
\* of a transaction together with them; only a resolved complaint is being rated.
WorkInv ==
  /\ rated => "resolved" \in traced
  /\ \A s \in traced : Needs(s) \subseteq traced
  /\ \A p \in Procs :
       /\ \A s \in txn[p].events : Needs(s) \subseteq Known(p)
       /\ txn[p].at = "rate" => "resolved" \in traced

\* A step that commits no event: what is to show is about the process that steps.
LEMMA WorkKept ==
  ASSUME WorkInv, NEW p \in Procs, UNCHANGED <<traced, rated>>,
         \A q \in Procs : q # p => txn'[q] = txn[q],
         \A s \in txn'[p].events : Needs(s) \subseteq traced \cup txn'[p].events,
         txn'[p].at = "rate" => "resolved" \in traced
  PROVE  WorkInv'
BY DEF WorkInv, Known

LEMMA WorkStep ==
  ASSUME TypeOK, RecordInv, WorkInv, [Next]_vars
  PROVE  WorkInv'
<1>0. NoTxn.at = "idle" /\ NoTxn.events = {}
  BY NoTxnTyping
<1>1. ASSUME NEW p \in Procs, Read(p) PROVE WorkInv'
  <2>1. /\ UNCHANGED <<traced, rated>>
        /\ \A q \in Procs : q # p => txn'[q] = txn[q]
    BY <1>1, ReadStep, StepEffects
  <2>2. Needs(row.status) \subseteq traced
    <3>1. CASE Exists
      BY <3>1 DEF WorkInv, RecordInv, StatusWasRecorded
    <3>2. CASE ~Exists
      BY <3>2 DEF Exists, Needs
    <3> QED BY <3>1, <3>2
  <2>3. /\ \A s \in txn'[p].events : Needs(s) \subseteq txn'[p].events \cup Needs(row.status)
        /\ txn'[p].at = "rate" => row.status \in {"resolved", "closed"}
    BY <1>1, ReadDecides DEF Decides
  <2>4. row.status \in {"resolved", "closed"} => "resolved" \in Needs(row.status)
    BY DEF Needs
  <2> QED BY <2>1, <2>2, <2>3, <2>4, WorkKept
<1>2. ASSUME NEW p \in Procs, Write(p) \/ Insert(p) PROVE WorkInv'
  <2>1. UNCHANGED <<traced, rated>>
    BY <1>2 DEF Write, Insert, history
  <2>2. /\ txn'[p].at = "rules" /\ txn'[p].events = txn[p].events
        /\ \A q \in Procs : q # p => txn'[q] = txn[q]
    BY <1>2, StepEffects
  <2> QED BY <2>1, <2>2, WorkKept DEF WorkInv, Known
<1>3. ASSUME NEW p \in Procs, NEW k \in Rules, RunRule(p, k) PROVE WorkInv'
  <2>1. /\ txn[p].at = "rules" /\ txn'[p].at = "rules"
        /\ \A q \in Procs : q # p => txn'[q] = txn[q]
    BY <1>3, StepEffects
  <2>2. txn[p] \in Txn /\ txn[p].c \in Row
    BY DEF TypeOK, Txn
  <2>3. PICK new \in Ruled(k, txn[p].c) :
          txn'[p] = TxnRuled(txn[p], new, k, RuleEvents(txn[p].c, new))
    BY <1>3 DEF RunRule, Become, TypeOK, TxnRuled
  <2> DEFINE e == RuleEvents(txn[p].c, new)
  <2>4. /\ new \in Row /\ e \in SUBSET Statuses
        /\ e # {} => txn[p].c.status = "resolved" /\ e = {"closed"}
    BY <2>2, RuledTyping, RuledFits DEF RuleEvents
  <2>5. txn'[p].events = txn[p].events \cup e
    <3> HIDE DEF e
    <3> QED BY <2>2, <2>3, <2>4, TxnRuledTyping DEF e
  <2> HIDE DEF e
  <2>6. txn[p].c.status \in Known(p)
    BY <2>1 DEF RecordInv
  <2>7. \A s \in Known(p) : Needs(s) \subseteq Known(p)
    BY DEF WorkInv, Known
  <2>8. Needs("closed") = {"closed"} \cup Needs("resolved")
    BY DEF Needs
  <2>9. \A s \in e : Needs(s) \subseteq Known(p) \cup e
    BY <2>4, <2>6, <2>7, <2>8
  <2>10. \A s \in txn'[p].events : Needs(s) \subseteq traced \cup txn'[p].events
    BY <2>5, <2>7, <2>9 DEF Known
  <2>11. UNCHANGED <<traced, rated>>
    BY <1>3 DEF RunRule, history
  <2> QED BY <2>1, <2>10, <2>11, WorkKept
<1>4. ASSUME NEW p \in Procs, Commit(p) PROVE WorkInv'
  <2>1. txn'[p] = NoTxn /\ \A q \in Procs : q # p => txn'[q] = txn[q]
    BY <1>4, StepEffects
  <2>2. traced' = Known(p) /\ UNCHANGED rated
    BY <1>4 DEF Commit, Known
  <2>3. \A s \in traced' : Needs(s) \subseteq traced'
    BY <2>2 DEF WorkInv, Known
  <2>4. traced \subseteq traced'
    BY <2>2 DEF Known
  <2> QED BY <1>0, <2>1, <2>2, <2>3, <2>4 DEF WorkInv, Known
<1>5. ASSUME NEW p \in Procs, CommitRating(p) PROVE WorkInv'
  <2>1. txn'[p] = NoTxn /\ \A q \in Procs : q # p => txn'[q] = txn[q]
    BY <1>5, StepEffects
  <2>2. txn[p].at = "rate" /\ UNCHANGED traced
    BY <1>5 DEF CommitRating, history
  <2> QED BY <1>0, <2>1, <2>2 DEF WorkInv, Known
<1>6. ASSUME NEW p \in Procs, Rollback(p) PROVE WorkInv'
  <2>1. txn'[p] = NoTxn /\ \A q \in Procs : q # p => txn'[q] = txn[q]
    BY <1>6, StepEffects
  <2>2. UNCHANGED <<traced, rated>>
    BY <1>6 DEF Rollback, history
  <2> QED BY <1>0, <2>1, <2>2, WorkKept
<1>7. CASE UNCHANGED vars
  BY <1>7 DEF vars, WorkInv, Known
<1> QED BY <1>1, <1>2, <1>3, <1>4, <1>5, <1>6, <1>7 DEF Next

\* Nothing is resolved before it was routed, assigned and under review, nor rated before
\* it was resolved, by the events that were committed, however many updates are lost.
THEOREM WorkIsRecorded == Spec => []WorkPrecedesResolution
<1>1. Init => TypeOK /\ RecordInv /\ WorkInv
  <2>1. Init => WorkInv
    BY NoTxnTyping DEF Init, WorkInv, Known
  <2> QED BY <2>1, InitTyping, RecordInit
<1>2. (TypeOK /\ RecordInv /\ WorkInv) /\ [Next]_vars => (TypeOK /\ RecordInv /\ WorkInv)'
  BY TypeStep, RecordStep, WorkStep
<1>3. WorkInv => WorkPrecedesResolution
  BY DEF WorkInv, WorkPrecedesResolution, Needs
<1> QED BY <1>1, <1>2, <1>3, PTL DEF Spec

-----------------------------------------------------------------------------
(* Overlapping transactions are serial as long as no update is lost. *)

\* The row that the record of p was decided on: the one it has read, which is the
\* stored one once p has the lock.
Base(p) == IF locker = p THEN row ELSE txn[p].seen

\* The record of a transaction is sound.  What it has written is the record, what it
\* has not written is the row it read, an event says what status is new, and an
\* auto_close rule it has used up has closed the record and holds the lock.
SoundTxn(p) ==
  LET t == txn[p] IN
  /\ locker = p => t.at = "rules" /\ draft = t.c
  /\ t.at # "idle" =>
       /\ Fits(t.c)
       /\ t.c.status # Base(p).status => t.c.status \in t.events
       /\ Base(p).status \in {"closed", "rejected"} => t.c.status = Base(p).status
  /\ t.at = "insert" => t.seen.status = "absent"
  /\ t.at = "rules" /\ locker # p => t.c = t.seen
  /\ t.at # "rules" => t.claims = {}
  /\ \A k \in t.claims : RuleAction[k] = "auto_close" => locker = p /\ t.c.status = "closed"

CloseRulesSpent == \A k \in fired : RuleAction[k] = "auto_close" => row.status = "closed"

SoundInv == ~crossed => Fits(row) /\ CloseRulesSpent /\ \A p \in Procs : SoundTxn(p)

\* A record that was decided on the row as it is now is written as it is.
LEMMA SavedAsDecided ==
  ASSUME NEW c \in Row
  PROVE  Saved(c, row) = {c}
<1>1. c = [f \in DOMAIN c |-> c[f]]
  BY DEF Row
<1>2. [f \in DOMAIN c |-> IF c[f] = row[f] THEN row[f] ELSE c[f]] = [f \in DOMAIN c |-> c[f]]
  OBVIOUS
<1> QED BY <1>1, <1>2 DEF Saved

\* The other transactions are as sound as before when the lock of one, and what it
\* protects, is left alone.
LEMMA OthersSound ==
  ASSUME NEW q \in Procs, SoundTxn(q), txn'[q] = txn[q],
         locker = q => UNCHANGED <<row, locker, draft>>,
         locker' = q => locker = q
  PROVE  SoundTxn(q)'
<1>1. Base(q)' = Base(q)
  BY DEF Base
<1>2. Fits(txn[q].c)' <=> Fits(txn[q].c)
  BY DEF Fits
<1> QED BY <1>1, <1>2 DEF SoundTxn

\* A step that commits nothing: what is to show is about the process that steps.
LEMMA SoundKept ==
  ASSUME SoundInv, ~crossed, NEW p \in Procs, UNCHANGED <<row, fired>>,
         \A q \in Procs : q # p => txn'[q] = txn[q],
         \/ UNCHANGED <<locker, draft>>
         \/ locker \in {p, Nobody} /\ locker' \in {p, Nobody},
         SoundTxn(p)'
  PROVE  SoundInv'
<1>1. ASSUME NEW q \in Procs, q # p PROVE SoundTxn(q)'
  BY <1>1, OthersSound, StaffAssumption DEF SoundInv
<1>2. Fits(row)' /\ CloseRulesSpent'
  BY DEF SoundInv, Fits, CloseRulesSpent
<1> QED BY <1>1, <1>2 DEF SoundInv

\* A transaction that has ended, and no longer has the lock, is sound.
LEMMA EndedSound ==
  ASSUME NEW p \in Procs, txn'[p] = NoTxn, locker' # p
  PROVE  SoundTxn(p)'
BY NoTxnTyping DEF SoundTxn

\* What a commit does to the row.
LEMMA SoundCommit ==
  ASSUME SoundInv, ~crossed, NEW p \in Procs, Commit(p)
  PROVE  /\ locker = p => row' = txn[p].c
         /\ locker # p => row' = row
         /\ Fits(row')
         /\ row'.status # row.status => row'.status \in txn[p].events
         /\ row.status \in {"closed", "rejected"} => row'.status = row.status
<1>1. SoundTxn(p) /\ Fits(row) /\ txn[p].at = "rules" /\ row' = IF locker = p THEN draft ELSE row
  BY DEF SoundInv, Commit
<1>2. CASE locker = p
  BY <1>1, <1>2 DEF SoundTxn, Base
<1>3. CASE locker # p
  BY <1>1, <1>3
<1> QED BY <1>2, <1>3

LEMMA SoundStep ==
  ASSUME TypeOK, SoundInv, [Next]_vars
  PROVE  SoundInv'
<1> SUFFICES ASSUME ~crossed' PROVE SoundInv'
  BY DEF SoundInv
<1>0. /\ Nobody \notin Procs /\ row \in Row /\ crossed \in BOOLEAN
      /\ \A p \in Procs : txn[p] \in Txn /\ txn[p].c \in Row
      /\ NoTxn.at = "idle" /\ NoTxn.claims = {}
  BY StaffAssumption, NoTxnTyping DEF TypeOK, Txn
<1>1. ASSUME NEW p \in Procs, Read(p) PROVE SoundInv'
  <2>1. /\ UNCHANGED <<row, fired, locker, draft, crossed>> /\ txn[p] = NoTxn
        /\ \A q \in Procs : q # p => txn'[q] = txn[q]
    BY <1>1, ReadStep, StepEffects
  <2>2. Decides(p) /\ txn'[p].claims = {}
    BY <1>1, ReadDecides, ReadStep, TxnAfter DEF TypeOK
  <2>3. Fits(row) /\ SoundTxn(p) /\ ~crossed
    BY <2>1 DEF SoundInv
  <2>4. locker # p
    BY <1>0, <2>1, <2>3 DEF SoundTxn
  <2>5. Fits(txn'[p].c)
    BY <2>2, <2>3 DEF Decides
  <2>6. Base(p)' = row
    BY <2>1, <2>2, <2>4 DEF Base, Decides
  <2>7. SoundTxn(p)'
    BY <2>1, <2>2, <2>4, <2>5, <2>6 DEF SoundTxn, Decides, Exists, Fits
  <2> QED BY <2>1, <2>3, <2>7, SoundKept
<1>2. ASSUME NEW p \in Procs, Write(p) PROVE SoundInv'
  <2>1. /\ UNCHANGED <<row, fired>> /\ locker = Nobody /\ locker' = p
        /\ txn[p].at \in {"update", "rewrite"}
        /\ draft' \in IF txn[p].at = "rewrite" THEN {txn[p].c}
                      ELSE Saved(txn[p].c, txn[p].seen)
    BY <1>2 DEF Write
  <2>2. ~crossed /\ row = txn[p].seen
    <3>1. crossed' = (crossed \/ row # txn[p].seen)
      BY <1>2 DEF Write
    <3> QED BY <3>1, Zenon
  <2>3. /\ txn'[p].at = "rules" /\ txn'[p].events = txn[p].events
        /\ txn'[p].claims = txn[p].claims /\ txn'[p].c = txn[p].c
        /\ \A q \in Procs : q # p => txn'[q] = txn[q]
    BY <1>2, StepEffects
  <2>4. draft' = txn[p].c
    BY <1>0, <2>1, <2>2, SavedAsDecided
  <2>5. Base(p) = row /\ Base(p)' = row
    BY <1>0, <2>1, <2>2 DEF Base
  <2>6. SoundTxn(p)
    BY <2>2 DEF SoundInv
  <2>7. SoundTxn(p)'
    BY <2>1, <2>3, <2>4, <2>5, <2>6 DEF SoundTxn, Fits
  <2> QED BY <2>1, <2>2, <2>3, <2>7, SoundKept
<1>3. ASSUME NEW p \in Procs, Insert(p) PROVE SoundInv'
  <2>1. /\ UNCHANGED <<row, fired, crossed>> /\ locker = Nobody /\ locker' = p
        /\ txn[p].at = "insert" /\ draft' = txn[p].c /\ row.status = "absent"
    BY <1>3 DEF Insert, Exists
  <2>2. /\ txn'[p].at = "rules" /\ txn'[p].events = txn[p].events
        /\ txn'[p].claims = txn[p].claims /\ txn'[p].c = txn[p].c
        /\ \A q \in Procs : q # p => txn'[q] = txn[q]
    BY <1>3, StepEffects
  <2>3. SoundTxn(p) /\ ~crossed
    BY <2>1 DEF SoundInv
  <2>4. Base(p).status = "absent" /\ Base(p)' = row
    BY <1>0, <2>1, <2>3 DEF Base, SoundTxn
  <2>5. SoundTxn(p)'
    BY <2>1, <2>2, <2>3, <2>4 DEF SoundTxn, Fits
  <2> QED BY <2>1, <2>2, <2>3, <2>5, SoundKept
<1>4. ASSUME NEW p \in Procs, NEW k \in Rules, RunRule(p, k) PROVE SoundInv'
  <2>1. /\ txn[p].at = "rules" /\ txn'[p].at = "rules" /\ txn'[p].seen = txn[p].seen
        /\ \A q \in Procs : q # p => txn'[q] = txn[q]
    BY <1>4, StepEffects
  <2>2. PICK new \in Ruled(k, txn[p].c) :
          /\ RuleWrites(p, new)
          /\ txn'[p] = TxnRuled(txn[p], new, k, RuleEvents(txn[p].c, new))
    BY <1>4 DEF RunRule, Become, TypeOK, TxnRuled
  <2> DEFINE e == RuleEvents(txn[p].c, new)
  <2>3. new \in Row /\ e \in SUBSET Statuses
    BY <1>0, RuledTyping
  <2>4. /\ txn'[p].c = new /\ txn'[p].events = txn[p].events \cup e
        /\ txn'[p].claims = txn[p].claims \cup {k}
    <3> HIDE DEF e
    <3> QED BY <1>0, <2>2, <2>3, TxnRuledTyping DEF e
  <2>5. /\ Fits(txn[p].c) => Fits(new)
        /\ new.status # txn[p].c.status => txn[p].c.status = "resolved" /\ new.status = "closed"
        /\ RuleAction[k] = "auto_close" /\ txn[p].c.status = "resolved" => new.status = "closed"
    BY <1>0, RuledFits
  <2>6. ~crossed /\ (new # txn[p].c /\ locker # p => row = txn[p].seen)
    <3>1. CASE new = txn[p].c
      BY <2>2, <3>1, Zenon DEF RuleWrites, store
    <3>2. CASE new # txn[p].c
      <4>1. crossed' = (crossed \/ (locker # p /\ row # txn[p].seen))
        BY <2>2, <3>2 DEF RuleWrites
      <4> QED BY <4>1, Zenon
    <3> QED BY <3>1, <3>2
  <2>7. SoundTxn(p)
    BY <2>6 DEF SoundInv
  <2>8. /\ UNCHANGED <<row, fired>>
        /\ \/ new = txn[p].c /\ UNCHANGED <<locker, draft>>
           \/ new # txn[p].c /\ locker \in {p, Nobody} /\ locker' = p /\ draft' = new
    <3>1. CASE new = txn[p].c
      BY <1>4, <2>2, <3>1 DEF RuleWrites, RunRule, store
    <3>2. CASE new # txn[p].c
      <4>1. /\ locker \in {p, Nobody} /\ locker' = p /\ UNCHANGED <<row, fired>>
            /\ draft' \in IF locker = p THEN {new} ELSE Saved(new, txn[p].seen)
        BY <1>4, <2>2, <3>2 DEF RuleWrites, RunRule
      <4>2. locker # p => Saved(new, txn[p].seen) = {new}
        BY <2>3, <2>6, <3>2, SavedAsDecided
      <4> QED BY <3>2, <4>1, <4>2
    <3> QED BY <3>1, <3>2
  <2>9. Base(p)' = Base(p)
    BY <2>1, <2>6, <2>8 DEF Base
  <2>10. /\ new.status # Base(p).status => new.status \in txn[p].events \cup e
         /\ Base(p).status \in {"closed", "rejected"} => new.status = Base(p).status
    BY <2>1, <2>5, <2>7 DEF SoundTxn, RuleEvents
  <2>11. RuleAction[k] = "auto_close" => txn[p].c.status = "resolved"
    BY <1>4 DEF RunRule, Matches
  <2>12. \A j \in txn'[p].claims :
           RuleAction[j] = "auto_close" => locker' = p /\ new.status = "closed"
    BY <2>4, <2>5, <2>7, <2>8, <2>11 DEF SoundTxn
  <2> HIDE DEF e
  <2>13. locker' = p => draft' = new
    BY <2>7, <2>8 DEF SoundTxn
  <2>14. locker' # p => new = txn[p].seen
    BY <2>1, <2>7, <2>8 DEF SoundTxn
  <2>15. Fits(new)
    BY <2>1, <2>5, <2>7 DEF SoundTxn
  <2>16. SoundTxn(p)'
    BY <2>1, <2>4, <2>9, <2>10, <2>12, <2>13, <2>14, <2>15 DEF SoundTxn, Fits
  <2> QED BY <2>1, <2>6, <2>8, <2>16, SoundKept
<1>5. ASSUME NEW p \in Procs, Commit(p) PROVE SoundInv'
  <2>1. ~crossed /\ SoundTxn(p) /\ CloseRulesSpent
    BY <1>5 DEF Commit, SoundInv
  <2>2. /\ txn'[p] = NoTxn /\ fired' = fired \cup txn[p].claims /\ locker' # p
        /\ locker # p => UNCHANGED <<row, locker, draft>>
        /\ locker = p => locker' = Nobody
        /\ \A q \in Procs : q # p => txn'[q] = txn[q]
    BY <1>0, <1>5, StepEffects DEF Commit, Unlock
  <2>3. Fits(row)'
    BY <1>5, <2>1, SoundCommit DEF Fits
  <2>4. CloseRulesSpent'
    <3>1. /\ locker = p => row' = txn[p].c
          /\ row.status \in {"closed", "rejected"} => row'.status = row.status
      BY <1>5, <2>1, SoundCommit
    <3> QED BY <2>1, <2>2, <3>1 DEF SoundTxn, CloseRulesSpent
  <2>5. ASSUME NEW q \in Procs, q # p PROVE SoundTxn(q)'
    BY <1>0, <2>1, <2>2, <2>5, OthersSound DEF SoundInv
  <2>6. SoundTxn(p)'
    BY <2>2, EndedSound
  <2> QED BY <2>3, <2>4, <2>5, <2>6 DEF SoundInv
<1>6. ASSUME NEW p \in Procs, CommitRating(p) \/ Rollback(p) PROVE SoundInv'
  <2>1. txn'[p] = NoTxn /\ \A q \in Procs : q # p => txn'[q] = txn[q]
    BY <1>6, StepEffects
  <2>2. /\ UNCHANGED <<row, fired, crossed>>
        /\ \/ UNCHANGED <<locker, draft>>
           \/ locker = p /\ locker' = Nobody
    BY <1>6 DEF CommitRating, Rollback, Unlock, store
  <2>3. ~crossed /\ SoundTxn(p)
    BY <2>2 DEF SoundInv
  <2>4. locker' # p
    <3>1. CASE CommitRating(p)
      BY <2>3, <3>1 DEF CommitRating, SoundTxn, store
    <3>2. CASE Rollback(p)
      BY <1>0, <3>2 DEF Rollback, Unlock
    <3> QED BY <1>6, <3>1, <3>2
  <2>5. SoundTxn(p)'
    BY <2>1, <2>4, EndedSound
  <2> QED BY <2>1, <2>2, <2>3, <2>5, SoundKept
<1>7. CASE UNCHANGED vars
  BY <1>7 DEF vars, SoundInv, SoundTxn, Base, CloseRulesSpent, Fits
<1> QED BY <1>1, <1>2, <1>3, <1>4, <1>5, <1>6, <1>7 DEF Next

LEMMA SoundInit == Init => SoundInv
BY NoTxnTyping, StaffAssumption
DEF Init, SoundInv, SoundTxn, CloseRulesSpent, Base, Fits, NoRow

LEMMA SoundAlways == Spec => [](TypeOK /\ SoundInv)
<1>1. (TypeOK /\ SoundInv) /\ [Next]_vars => (TypeOK /\ SoundInv)'
  BY TypeStep, SoundStep
<1> QED BY <1>1, InitTyping, SoundInit, PTL DEF Spec

\* With any number of requests, runs and jobs on a complaint, and as long as none of them
\* has written over a row it had not read, its officer works for the department that has
\* it, and while it is submitted no department has it, whatever routes, transfers,
\* escalates and reassigns it.
THEOREM RoutingAlwaysFits == Spec => []RoutingFits
<1>1. TypeOK /\ SoundInv => RoutingFits
  BY DEF SoundInv, Fits, RoutingFits
<1> QED BY <1>1, SoundAlways, PTL

\* The same for resolved_at: it is set while the complaint is resolved, and never while
\* it is being worked on.
THEOREM StampsMeanResolved == Spec => []StampMeansResolved
<1>1. TypeOK /\ SoundInv => StampMeansResolved
  BY DEF SoundInv, Fits, StampMeansResolved
<1> QED BY <1>1, SoundAlways, PTL

\* And for auto_close: a rule that has its execution row has closed the complaint.  A
\* sweep that has found it resolved does not use up the rule when the citizen reopens it
\* in the meantime without the sweep writing over that.
THEOREM CloseRulesClose == Spec => []SpentCloseRuleClosed
<1>1. TypeOK /\ SoundInv => SpentCloseRuleClosed
  BY DEF SoundInv, CloseRulesSpent, SpentCloseRuleClosed
<1> QED BY <1>1, SoundAlways, PTL

\* A step that changes the row is a commit.
LEMMA RowChangesAtCommit ==
  ASSUME TypeOK, [Next]_vars, row' # row
  PROVE  \E p \in Procs : Commit(p)
BY ReadStep DEF Next, Write, Insert, RunRule, RuleWrites, CommitRating, Rollback, vars, store

\* "Nothing changes without a trace" (complaint_status.py): however many operations
\* overlap, until one of them overwrites what it has not read, the status changes only
\* with an event for the new one.
THEOREM StatusChangesAreTraced == Spec => StatusIsTracedUnlessLost
<1>1. TypeOK /\ SoundInv /\ [Next]_vars => [~crossed => StatusChangeIsTraced]_vars
  <2> SUFFICES ASSUME TypeOK, SoundInv, [Next]_vars, ~crossed, row'.status # row.status
               PROVE  StatusChangeIsTraced
    BY DEF StatusChangeIsTraced
  <2>1. PICK p \in Procs : Commit(p)
    BY RowChangesAtCommit
  <2> QED BY <2>1, SoundCommit, StepEffects DEF StatusChangeIsTraced
<1> QED BY <1>1, SoundAlways, PTL DEF Spec, StatusIsTracedUnlessLost

\* Until an update is lost, a closed or rejected complaint stays so, whatever overlaps.
THEOREM EndsAreFinal == Spec => EndIsFinal
<1>1. TypeOK /\ SoundInv /\ [Next]_vars =>
        [~crossed /\ row.status \in {"closed", "rejected"} => row'.status = row.status]_vars
  <2> SUFFICES ASSUME TypeOK, SoundInv, [Next]_vars, row' # row, ~crossed,
                      row.status \in {"closed", "rejected"}
               PROVE  row'.status = row.status
    OBVIOUS
  <2>1. PICK p \in Procs : Commit(p)
    BY RowChangesAtCommit
  <2> QED BY <2>1, SoundCommit
<1> QED BY <1>1, SoundAlways, PTL DEF Spec, EndIsFinal
=============================================================================
