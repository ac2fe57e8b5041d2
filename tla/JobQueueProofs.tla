--------------------------- MODULE JobQueueProofs ---------------------------
(***************************************************************************)
(* Theorems about JobQueue, for any number of jobs, processes and attempts *)
(* and any number of aborts, outages and revivals.                         *)
(***************************************************************************)
EXTENDS JobQueue, TLAPS

-----------------------------------------------------------------------------
(* The inductive invariant. *)

\* The worker that wrote "running" last has not re-read the row yet, or re-read
\* it as "running" and will therefore write something else.
Owner(w, j) ==
  /\ call[w].job = j
  /\ \/ call[w].at \in {"handling", "finishRead"}
     \/ call[w].at = "finishCommit" /\ call[w].row.status = "running"

OwnerInv ==
  \A j \in Jobs : db[j].status = "running" =>
    j \in abandoned \/ \E w \in Workers : Owner(w, j)

\* What a call holds agrees with the ledger: its jobs have rows, the copy of a row it
\* is about to write back counts no more attempts than runs were made, and a run it is
\* about to record was made and ended as it says.
CallInv(k) ==
  /\ \A j \in k.todo : db[j].status # "absent"
  /\ k.at \notin {"idle", "push"} => db[k.job].status # "absent"
  /\ k.at \in {"markCommit", "claimCommit", "finishCommit"} =>
       k.row.attempts <= runs[k.job]
  /\ k.at \in {"handling", "finishRead", "finishCommit"} => runs[k.job] > 0
  /\ k.at \in {"finishRead", "finishCommit"} => k.outcome \in returned[k.job]

WorkInv ==
  /\ \A p \in Procs : CallInv(call[p])
  /\ AttemptsNeverOvercount
  /\ \A j \in transport : db[j].status # "absent"

-----------------------------------------------------------------------------
(* Type correctness. *)

LEMMA NoRowTyping == NoRow \in Row
BY DEF NoRow, Row, Status

LEMMA CallTyping ==
  /\ NoCall \in Call /\ NoCall.at = "idle" /\ NoCall.todo = {}
  /\ \A js \in SUBSET Jobs :
       /\ Dispatching(js) \in Call
       /\ Dispatching(js).at \in {"idle", "push"}
       /\ Dispatching(js).todo = js
  /\ \A at \in DispatchAt, j \in Jobs, js \in SUBSET Jobs :
       /\ Dispatch(at, j, js) \in Call
       /\ Dispatch(at, j, js).at = at
       /\ Dispatch(at, j, js).job = j
       /\ Dispatch(at, j, js).todo = js
  /\ \A at \in DispatchAt, j \in Jobs, js \in SUBSET Jobs, r \in Row :
       /\ Marking(at, j, js, r) \in Call
       /\ Marking(at, j, js, r).at = at
       /\ Marking(at, j, js, r).job = j
  /\ \A at \in RunAt \cup {"reviveCommit"}, j \in Jobs, r \in Row,
       o \in Outcome \cup {"none"} :
       /\ Work(at, j, r, o) \in Call
       /\ Work(at, j, r, o).at = at
       /\ Work(at, j, r, o).job = j
       /\ Work(at, j, r, o).todo = {}
       /\ Work(at, j, r, o).row = r
       /\ Work(at, j, r, o).outcome = o
BY DEF NoCall, Call, Dispatch, Marking, Work, NoRow, Row, Status, Dispatching, DispatchAt,
       RunAt, Outcome

\* A step that gives one process a well-formed call keeps CallOK.
LEMMA CallStep ==
  ASSUME CallOK, NEW p \in Procs, NEW k \in Call,
         Become(p, k),
         k.at \notin {"idle", "push"} => k.job \in Jobs,
         k.at \in RunAt => p \in Workers
  PROVE  CallOK'
BY DEF CallOK, Become

LEMMA WorkStep ==
  ASSUME CallOK, NEW p \in Procs, NEW at \in RunAt \cup {"reviveCommit"}, NEW j \in Jobs,
         NEW r \in Row, NEW o \in Outcome \cup {"none"},
         Become(p, Work(at, j, r, o)),
         at \in RunAt => p \in Workers
  PROVE  CallOK'
<1>1. Work(at, j, r, o) \in Call /\ Work(at, j, r, o).at = at /\ Work(at, j, r, o).job = j
  BY CallTyping
<1> QED BY <1>1, CallStep

LEMMA MarkStep ==
  ASSUME CallOK, NEW p \in Procs, NEW at \in DispatchAt, NEW j \in Jobs,
         NEW js \in SUBSET Jobs, NEW r \in Row, Become(p, Marking(at, j, js, r))
  PROVE  CallOK'
<1>1. /\ Marking(at, j, js, r) \in Call
      /\ Marking(at, j, js, r).at = at
      /\ Marking(at, j, js, r).job = j
      /\ at \notin RunAt
  BY CallTyping DEF DispatchAt, RunAt
<1> QED BY <1>1, CallStep

LEMMA DispatchingStep ==
  ASSUME CallOK, NEW p \in Procs, NEW js \in SUBSET Jobs,
         Become(p, Dispatching(js))
  PROVE  CallOK'
<1>1. Dispatching(js) \in Call /\ Dispatching(js).at \in {"idle", "push"}
  BY CallTyping
<1> QED BY <1>1, CallStep DEF RunAt

LEMMA EndStep ==
  ASSUME CallOK, NEW p \in Procs, Become(p, NoCall)
  PROVE  CallOK'
<1>1. NoCall \in Call /\ NoCall.at = "idle"
  BY CallTyping
<1> QED BY <1>1, CallStep DEF RunAt

\* Saving a record touches one row: its status ends up as the record has it when
\* the transaction changed it, and is otherwise the record's or the row's.
LEMMA SaveTyping ==
  ASSUME NEW j \in Jobs, NEW rec \in Row, NEW seen \in Row,
         db \in [Jobs -> Row], Save(j, rec, seen)
  PROVE  /\ db' \in [Jobs -> Row]
         /\ \A i \in Jobs : i # j => db'[i] = db[i]
         /\ db'[j].status \in {rec.status, db[j].status}
         /\ rec.status # seen.status => db'[j].status = rec.status
<1> DEFINE new == [status |-> IF rec.status = seen.status THEN db[j].status ELSE rec.status,
                   attempts |-> IF rec.attempts = seen.attempts THEN db[j].attempts
                                ELSE rec.attempts]
<1>1. new \in Row
  BY DEF Row
<1>2. PICK r \in Row : db' = [db EXCEPT ![j] = r] /\ (r = rec \/ r = new)
  BY <1>1 DEF Save
<1>3. /\ db' \in [Jobs -> Row]
      /\ db'[j] = r
      /\ \A i \in Jobs : i # j => db'[i] = db[i]
  BY <1>2
<1>4. /\ r.status \in {rec.status, db[j].status}
      /\ rec.status # seen.status => r.status = rec.status
  BY <1>2
<1> QED BY <1>3, <1>4

\* The record a dispatch marks, and the one a finished run leaves.
LEMMA SavedRecord ==
  ASSUME NEW st \in Status, NEW r \in Row
  PROVE  /\ [status |-> st, attempts |-> r.attempts] \in Row
         /\ [status |-> st, attempts |-> r.attempts].status = st
BY DEF Row

LEMMA UseTyping ==
  ASSUME NEW k \in FaultKind, faults \in [FaultKind -> Nat], Use(k)
  PROVE  faults' \in [FaultKind -> Nat]
BY DEF Use

LEMMA VerdictTyping == \A w \in Workers : Verdict(w) \in {"succeeded", "dead", "retrying"}
BY DEF Verdict

\* The type invariant is kept by each step.
LEMMA TypeStep ==
  ASSUME TypeOK, [Next]_vars
  PROVE  TypeOK'
<1> USE ProcessesAssumption DEF TypeOK, Procs
<1>1. ASSUME NEW c \in Clients, NEW j \in Jobs, Enqueue(c, j) PROVE TypeOK'
  <2>1. db' \in [Jobs -> Row]
    BY <1>1 DEF Enqueue, Row, Status, Live
  <2>2. PICK js \in SUBSET Jobs : Become(c, Dispatching(js))
    BY ONLY <1>1 DEF Enqueue
  <2>3. CallOK'
    BY <2>2, DispatchingStep
  <2> QED BY <1>1, <2>1, <2>3 DEF Enqueue, redis, history
<1>2. ASSUME NEW c \in Clients, NEW j \in Jobs, ReviveRead(c, j) PROVE TypeOK'
  <2>1. CallOK'
    BY <1>2, WorkStep, NoRowTyping DEF ReviveRead, RunAt
  <2> QED BY <1>2, <2>1, UseTyping DEF ReviveRead, FaultKind, redis, history
<1>3. ASSUME NEW c \in Clients, ReviveCommit(c) PROVE TypeOK'
  <2>1. call[c].job \in Jobs
    BY <1>3 DEF ReviveCommit, CallOK
  <2>2. CallOK'
    BY <1>3, <2>1, DispatchingStep DEF ReviveCommit
  <2> QED BY <1>3, <2>1, <2>2 DEF ReviveCommit, redis, history, Row, Status, Live
<1>4. ASSUME NEW s \in Sweepers, NEW js \in SUBSET Jobs, Sweep(s, js) PROVE TypeOK'
  <2>1. CallOK'
    BY <1>4, DispatchingStep DEF Sweep
  <2> QED BY <1>4, <2>1 DEF Sweep, redis, history
<1>5. ASSUME NEW p \in Procs, Push(p) PROVE TypeOK'
  <2>1. call[p].todo \in SUBSET Jobs
    BY DEF CallOK, Call
  <2>2. CASE redisUp
    <3>1. PICK j \in call[p].todo :
            /\ transport' = transport \cup {j}
            /\ Become(p, Dispatch("markRead", j, call[p].todo \ {j}))
      BY <1>5, <2>2 DEF Push
    <3>2. CallOK'
      BY <2>1, <3>1, MarkStep, NoRowTyping DEF Dispatch, DispatchAt
    <3> QED BY <1>5, <2>1, <3>1, <3>2 DEF Push, history
  <2>3. CASE ~redisUp
    <3>1. CallOK'
      BY <1>5, <2>3, EndStep DEF Push
    <3> QED BY <1>5, <2>3, <3>1 DEF Push, history
  <2> QED BY <2>2, <2>3
<1>6. ASSUME NEW p \in Procs, MarkRead(p) PROVE TypeOK'
  <2>1. call[p].todo \in SUBSET Jobs /\ call[p].job \in Jobs
    BY <1>6 DEF CallOK, Call, MarkRead
  <2>2. db[call[p].job] \in Row
    BY <2>1
  <2>3. CallOK'
    BY <1>6, <2>1, <2>2, MarkStep, DispatchingStep DEF MarkRead, DispatchAt
  <2> QED BY <1>6, <2>3 DEF MarkRead, redis, history
<1>7. ASSUME NEW p \in Procs, MarkCommit(p) PROVE TypeOK'
  <2>1. call[p].todo \in SUBSET Jobs /\ call[p].job \in Jobs /\ call[p].row \in Row
    BY <1>7 DEF CallOK, Call, MarkCommit
  <2>2. CallOK'
    BY <1>7, <2>1, DispatchingStep DEF MarkCommit
  <2>3. db' \in [Jobs -> Row]
    BY <1>7, <2>1, SavedRecord, SaveTyping DEF MarkCommit, Status, Live
  <2> QED BY <1>7, <2>2, <2>3 DEF MarkCommit, redis, history
<1>8. ASSUME NEW w \in Workers, NEW j \in Jobs, Pop(w, j) PROVE TypeOK'
  <2>1. CallOK'
    BY <1>8, WorkStep, NoRowTyping DEF Pop, RunAt
  <2> QED BY <1>8, <2>1 DEF Pop, history
<1>9. ASSUME NEW w \in Workers, ClaimRead(w) PROVE TypeOK'
  <2>1. call[w].job \in Jobs /\ call[w].outcome \in Outcome \cup {"none"}
    BY <1>9 DEF CallOK, Call, ClaimRead
  <2>2. CallOK'
    BY <1>9, <2>1, WorkStep, EndStep DEF ClaimRead, ReadRow, RunAt
  <2> QED BY <1>9, <2>2 DEF ClaimRead, redis, history
<1>10. ASSUME NEW w \in Workers, ClaimCommit(w) PROVE TypeOK'
  <2>1. call[w].job \in Jobs /\ call[w].row \in Row
    BY <1>10 DEF CallOK, Call, ClaimCommit
  <2>2. CallOK'
    BY <1>10, <2>1, WorkStep, NoRowTyping DEF ClaimCommit, RunAt
  <2>3. db' \in [Jobs -> Row]
    BY <1>10, <2>1 DEF ClaimCommit, Row, Status
  <2> QED BY <1>10, <2>1, <2>2, <2>3 DEF ClaimCommit, redis
<1>11. ASSUME NEW w \in Workers, NEW o \in Outcome, Handle(w, o) PROVE TypeOK'
  <2>1. call[w].job \in Jobs
    BY <1>11 DEF CallOK, Handle
  <2>2. CallOK'
    BY <1>11, <2>1, WorkStep, NoRowTyping DEF Handle, RunAt
  <2> QED BY <1>11, <2>1, <2>2 DEF Handle, redis
<1>12. ASSUME NEW w \in Workers, FinishRead(w) PROVE TypeOK'
  <2>1. call[w].job \in Jobs /\ call[w].outcome \in Outcome \cup {"none"}
    BY <1>12 DEF CallOK, Call, FinishRead
  <2>2. CallOK'
    BY <1>12, <2>1, WorkStep DEF FinishRead, ReadRow, RunAt
  <2> QED BY <1>12, <2>2 DEF FinishRead, redis, history
<1>13. ASSUME NEW w \in Workers, FinishCommit(w) PROVE TypeOK'
  <2>1. call[w].job \in Jobs /\ call[w].row \in Row
    BY <1>13 DEF CallOK, Call, FinishCommit
  <2>2. db' \in [Jobs -> Row]
    <3>1. Verdict(w) \in Status
      BY VerdictTyping DEF Status, Live, Terminal
    <3> QED BY <1>13, <2>1, <3>1, SavedRecord, SaveTyping DEF FinishCommit
  <2>3. CallOK'
    BY <1>13, <2>1, DispatchingStep DEF FinishCommit
  <2> QED BY <1>13, <2>2, <2>3 DEF FinishCommit, redis, history
<1>14. ASSUME NEW p \in Procs, Abort(p) PROVE TypeOK'
  <2>1. CallOK'
    BY <1>14, EndStep DEF Abort
  <2> QED BY <1>14, <2>1, UseTyping DEF Abort, FaultKind, redis
<1>15. CASE RedisDown
  BY <1>15, UseTyping DEF RedisDown, FaultKind, history, CallOK
<1>16. CASE RedisRecover
  BY <1>16 DEF RedisRecover, history, CallOK
<1>17. CASE UNCHANGED vars
  BY <1>17 DEF vars, CallOK
<1> QED
  BY <1>1, <1>2, <1>3, <1>4, <1>5, <1>6, <1>7, <1>8, <1>9, <1>10, <1>11, <1>12,
     <1>13, <1>14, <1>15, <1>16, <1>17 DEF Next, DispatchStep, RunStep

\* Type correctness for every instance.
THEOREM TypeCorrect == Spec => []TypeOK
<1>1. Init => TypeOK
  BY CallTyping, NoRowTyping DEF Init, TypeOK, CallOK, RunAt
<1>2. TypeOK /\ [Next]_vars => TypeOK'
  BY TypeStep
<1> QED BY <1>1, <1>2, PTL DEF Spec

-----------------------------------------------------------------------------
(* Every running row has an owner. *)

\* Only the process that steps changes its call.
LEMMA CallAfter ==
  ASSUME CallOK, NEW p \in Procs, NEW k, Become(p, k)
  PROVE  call'[p] = k /\ \A q \in Procs : q # p => call'[q] = call[q]
BY DEF CallOK, Become

\* A step by a process that owns nothing, and that sets no row to running, leaves
\* each running row its owner.
LEMMA OwnerKept ==
  ASSUME TypeOK, OwnerInv, NEW p \in Procs, NEW k, Become(p, k),
         \A j \in Jobs : p \in Workers => ~Owner(p, j),
         \A j \in Jobs : db'[j].status = "running" => db[j].status = "running",
         UNCHANGED abandoned
  PROVE  OwnerInv'
<1> SUFFICES ASSUME NEW j \in Jobs, db'[j].status = "running", j \notin abandoned
             PROVE  \E w \in Workers : Owner(w, j)'
  BY DEF OwnerInv
<1>1. PICK w \in Workers : Owner(w, j)
  BY DEF OwnerInv
<1>2. w # p /\ w \in Procs
  BY <1>1 DEF Procs
<1>3. call'[w] = call[w]
  BY <1>2, CallAfter DEF TypeOK
<1> QED BY <1>1, <1>3 DEF Owner

LEMMA OwnerStep ==
  ASSUME TypeOK, OwnerInv, [Next]_vars
  PROVE  OwnerInv'
<1> USE ProcessesAssumption
<1>1. ASSUME NEW c \in Clients, NEW j \in Jobs, Enqueue(c, j) PROVE OwnerInv'
  <2>1. \A i \in Jobs : db'[i].status = "running" => db[i].status = "running"
    BY <1>1 DEF Enqueue, TypeOK
  <2> QED BY <1>1, <2>1, OwnerKept DEF Enqueue, Procs, history
<1>2. ASSUME NEW c \in Clients, NEW j \in Jobs, ReviveRead(c, j) PROVE OwnerInv'
  BY <1>2, OwnerKept DEF ReviveRead, Procs, history
<1>3. ASSUME NEW c \in Clients, ReviveCommit(c) PROVE OwnerInv'
  <2>1. \A i \in Jobs : db'[i].status = "running" => db[i].status = "running"
    BY <1>3 DEF ReviveCommit, TypeOK
  <2> QED BY <1>3, <2>1, OwnerKept DEF ReviveCommit, Procs, history
<1>4. ASSUME NEW s \in Sweepers, NEW js \in SUBSET Jobs, Sweep(s, js) PROVE OwnerInv'
  BY <1>4, OwnerKept DEF Sweep, Procs, history
<1>5. ASSUME NEW p \in Procs, Push(p) PROVE OwnerInv'
  <2>1. \A j \in Jobs : ~Owner(p, j)
    BY <1>5 DEF Push, Owner
  <2> QED BY <1>5, <2>1, OwnerKept DEF Push, history
<1>6. ASSUME NEW p \in Procs, MarkRead(p) PROVE OwnerInv'
  <2>1. \A j \in Jobs : ~Owner(p, j)
    BY <1>6 DEF MarkRead, Owner
  <2> QED BY <1>6, <2>1, OwnerKept DEF MarkRead, history
<1>7. ASSUME NEW p \in Procs, MarkCommit(p) PROVE OwnerInv'
  <2>1. \A j \in Jobs : ~Owner(p, j)
    BY <1>7 DEF MarkCommit, Owner
  <2>2. call[p].job \in Jobs /\ call[p].row \in Row
    BY <1>7 DEF MarkCommit, TypeOK, CallOK, Call
  <2>3. \A i \in Jobs : db'[i].status = "running" => db[i].status = "running"
    <3>1. PICK rec \in Row : rec.status = "queued" /\ Save(call[p].job, rec, call[p].row)
      BY <1>7, <2>2, SavedRecord DEF MarkCommit, Status, Live
    <3>2. /\ db'[call[p].job].status \in {"queued", db[call[p].job].status}
          /\ \A i \in Jobs : i # call[p].job => db'[i] = db[i]
      BY <2>2, <3>1, SaveTyping DEF TypeOK
    <3> QED BY <3>2
  <2> QED BY <1>7, <2>1, <2>3, OwnerKept DEF MarkCommit, history
<1>8. ASSUME NEW w \in Workers, NEW j \in Jobs, Pop(w, j) PROVE OwnerInv'
  <2>1. \A i \in Jobs : ~Owner(w, i)
    BY <1>8, CallTyping DEF Pop, Owner
  <2> QED BY <1>8, <2>1, OwnerKept DEF Pop, Procs, history
<1>9. ASSUME NEW w \in Workers, ClaimRead(w) PROVE OwnerInv'
  <2>1. \A i \in Jobs : ~Owner(w, i)
    BY <1>9 DEF ClaimRead, Owner
  <2> QED BY <1>9, <2>1, OwnerKept DEF ClaimRead, ReadRow, Procs, history
<1>10. ASSUME NEW w \in Workers, ClaimCommit(w) PROVE OwnerInv'
  <2>1. PICK j \in Jobs : j = call[w].job
    BY <1>10 DEF ClaimCommit, TypeOK, CallOK, Procs
  <2>2. /\ call'[w] = Work("handling", j, NoRow, "none")
        /\ \A q \in Procs : q # w => call'[q] = call[q]
    BY <1>10, <2>1, CallAfter DEF ClaimCommit, TypeOK, Procs
  <2>3. Owner(w, j)'
    BY <1>10, <2>1, <2>2 DEF Owner, Work, ClaimCommit
  <2>4. \A i \in Jobs : i # j => db'[i] = db[i]
    BY <1>10, <2>1 DEF ClaimCommit, TypeOK
  <2>5. \A i \in Jobs : ~Owner(w, i)
    BY <1>10 DEF ClaimCommit, Owner
  <2>6. \A q \in Workers, i \in Jobs : Owner(q, i) => Owner(q, i)'
    BY <2>2, <2>5 DEF Owner, Procs
  <2>7. UNCHANGED abandoned
    BY <1>10 DEF ClaimCommit
  <2>8. SUFFICES ASSUME NEW i \in Jobs, db'[i].status = "running", i \notin abandoned
               PROVE  \E q \in Workers : Owner(q, i)'
    BY <2>7 DEF OwnerInv
  <2>9. CASE i = j
    BY <2>3, <2>9
  <2>10. CASE i # j
    BY <2>4, <2>6, <2>8, <2>10 DEF OwnerInv
  <2> QED BY <2>9, <2>10
<1>11. ASSUME NEW w \in Workers, NEW o \in Outcome, Handle(w, o) PROVE OwnerInv'
  <2>1. /\ call'[w] = Work("finishRead", call[w].job, NoRow, o)
        /\ \A q \in Procs : q # w => call'[q] = call[q]
    BY <1>11, CallAfter DEF Handle, TypeOK, Procs
  <2>2. \A q \in Workers, i \in Jobs : Owner(q, i) => Owner(q, i)'
    BY <1>11, <2>1 DEF Owner, Procs, Work, Handle
  <2> QED BY <1>11, <2>2 DEF OwnerInv, Handle
<1>12. ASSUME NEW w \in Workers, FinishRead(w) PROVE OwnerInv'
  <2>1. /\ call'[w] = Work("finishCommit", call[w].job, db[call[w].job], call[w].outcome)
        /\ \A q \in Procs : q # w => call'[q] = call[q]
    BY <1>12, CallAfter DEF FinishRead, ReadRow, TypeOK, Procs
  <2>2. \A q \in Workers, i \in Jobs :
          Owner(q, i) /\ db[i].status = "running" => Owner(q, i)'
    BY <1>12, <2>1 DEF Owner, Procs, Work, FinishRead
  <2> QED BY <1>12, <2>2 DEF OwnerInv, FinishRead, history
<1>13. ASSUME NEW w \in Workers, FinishCommit(w) PROVE OwnerInv'
  <2> DEFINE j == call[w].job
  <2>1. j \in Jobs /\ call[w].row \in Row
    BY <1>13 DEF FinishCommit, TypeOK, CallOK, Call, Procs
  <2>2. \A q \in Procs : q # w => call'[q] = call[q]
    BY <1>13, CallAfter DEF FinishCommit, TypeOK, Procs
  <2>3. /\ \A i \in Jobs : i # j => db'[i] = db[i]
        /\ call[w].row.status = "running" => db'[j].status # "running"
        /\ db'[j].status = "running" => db[j].status = "running"
    <3>1. Verdict(w) \in Status /\ Verdict(w) # "running"
      BY VerdictTyping DEF Status, Live, Terminal
    <3> QED BY <1>13, <2>1, <3>1, SavedRecord, SaveTyping DEF FinishCommit, TypeOK
  <2>4. \A q \in Workers, i \in Jobs :
          Owner(q, i) /\ db'[i].status = "running" => Owner(q, i)'
    BY <1>13, <2>2, <2>3 DEF Owner, Procs, FinishCommit
  <2> QED BY <1>13, <2>1, <2>3, <2>4 DEF OwnerInv, FinishCommit, history
<1>14. ASSUME NEW p \in Procs, Abort(p) PROVE OwnerInv'
  <2>1. \A q \in Procs : q # p => call'[q] = call[q]
    BY <1>14, CallAfter DEF Abort, TypeOK
  <2>2. \A q \in Workers, i \in Jobs : Owner(q, i) => Owner(q, i)' \/ i \in abandoned'
    BY <1>14, <2>1 DEF Owner, Procs, Abort, Running
  <2> QED BY <1>14, <2>2 DEF OwnerInv, Abort
<1>15. CASE RedisDown
  BY <1>15 DEF RedisDown, OwnerInv, Owner, history
<1>16. CASE RedisRecover
  BY <1>16 DEF RedisRecover, OwnerInv, Owner, history
<1>17. CASE UNCHANGED vars
  BY <1>17 DEF vars, OwnerInv, Owner
<1> QED
  BY <1>1, <1>2, <1>3, <1>4, <1>5, <1>6, <1>7, <1>8, <1>9, <1>10, <1>11, <1>12,
     <1>13, <1>14, <1>15, <1>16, <1>17 DEF Next, DispatchStep, RunStep

\* A row that says "running" has a worker that still has to record how the run
\* ended, unless that worker's call died: with any number of workers claiming and
\* finishing one job at once, whatever stale row each of them read.
THEOREM RunningIsAlwaysOwned == Spec => []RunningIsOwned
<1>1. Init => OwnerInv
  BY DEF Init, OwnerInv, NoRow
<1>2. TypeOK /\ OwnerInv /\ [Next]_vars => OwnerInv'
  BY OwnerStep
<1>3. OwnerInv => RunningIsOwned
  BY DEF OwnerInv, RunningIsOwned, Owner, Running
<1> QED BY <1>1, <1>2, <1>3, TypeCorrect, PTL DEF Spec

-----------------------------------------------------------------------------
(* Verdicts are earned, and attempts are not overcounted. *)

\* Rows do not disappear and the history only grows.
Grows ==
  \A j \in Jobs : /\ db[j].status # "absent" => db'[j].status # "absent"
                  /\ runs[j] <= runs'[j]
                  /\ returned[j] \subseteq returned'[j]

\* The process that steps is the only one there is something to show about.
LEMMA WorkKept ==
  ASSUME TypeOK, TypeOK', WorkInv, NEW p \in Procs, NEW k, Become(p, k), Grows,
         CallInv(call[p])', AttemptsNeverOvercount',
         \A j \in transport' : db'[j].status # "absent"
  PROVE  WorkInv'
<1> SUFFICES ASSUME NEW q \in Procs PROVE CallInv(call[q])'
  BY DEF WorkInv
<1>1. CASE q = p
  BY <1>1
<1>2. CASE q # p
  <2>1. call'[q] = call[q]
    BY <1>2, CallAfter DEF TypeOK
  <2>2. CallInv(call[q])
    BY DEF WorkInv
  <2>3. call[q] \in Call /\ call[q].todo \in SUBSET Jobs /\ call[q].row.attempts \in Nat
    BY DEF TypeOK, CallOK, Call, Row
  <2>4. call[q].at \notin {"idle", "push"} => call[q].job \in Jobs
    BY DEF TypeOK, CallOK
  <2>5. \A j \in Jobs : runs[j] \in Nat /\ runs'[j] \in Nat
    BY DEF TypeOK
  <2> QED BY <2>1, <2>2, <2>3, <2>4, <2>5 DEF CallInv, Grows
<1> QED BY <1>1, <1>2

\* A call that is over, or about to push jobs with rows, holds nothing else.
LEMMA CallOver ==
  ASSUME NEW p \in Procs, NEW js \in SUBSET Jobs, call'[p] \in {NoCall, Dispatching(js)},
         \A j \in js : db'[j].status # "absent"
  PROVE  CallInv(call[p])'
BY CallTyping DEF CallInv

LEMMA WorkInvStep ==
  ASSUME TypeOK, TypeOK', WorkInv, [Next]_vars
  PROVE  WorkInv'
<1> USE ProcessesAssumption DEF Procs
<1>t. /\ db \in [Jobs -> Row] /\ db' \in [Jobs -> Row]
      /\ runs \in [Jobs -> Nat] /\ runs' \in [Jobs -> Nat]
      /\ returned \in [Jobs -> SUBSET Outcome]
      /\ call \in [Procs -> Call]
  BY DEF TypeOK, CallOK
<1>a. \A p \in Procs : /\ call[p].todo \in SUBSET Jobs
                       /\ call[p].row \in Row
                       /\ call[p].outcome \in Outcome \cup {"none"}
                       /\ call[p].at \notin {"idle", "push"} => call[p].job \in Jobs
  BY DEF TypeOK, CallOK, Call
<1>b. \A j \in Jobs : db[j].attempts \in Nat /\ runs[j] \in Nat
  BY <1>t DEF Row
<1>c. /\ \A p \in Procs : CallInv(call[p])
      /\ AttemptsNeverOvercount
      /\ \A j \in transport : db[j].status # "absent"
  BY DEF WorkInv
<1>1. ASSUME NEW c \in Clients, NEW j \in Jobs, Enqueue(c, j) PROVE WorkInv'
  <2>1. PICK js \in SUBSET Jobs : /\ js = {j} \cap {i \in Jobs : db'[i].status \in Live}
                                 /\ Become(c, Dispatching(js))
    BY ONLY <1>1 DEF Enqueue
  <2>2. /\ \A i \in Jobs : i # j => db'[i] = db[i]
        /\ db[j].status # "absent" => db'[j] = db[j]
        /\ db[j].status = "absent" => db'[j] = [status |-> "pending", attempts |-> 0]
    BY <1>1, <1>t DEF Enqueue
  <2>3. Grows
    BY <1>1, <1>b, <2>2 DEF Enqueue, history, Grows
  <2>4. CallInv(call[c])'
    BY <1>t, <2>1, CallAfter, CallOver DEF Live, TypeOK
  <2>5. AttemptsNeverOvercount'
    BY <1>1, <1>b, <1>c, <2>2 DEF Enqueue, history, AttemptsNeverOvercount
  <2>6. \A i \in transport' : db'[i].status # "absent"
    BY <1>1, <1>c, <2>3 DEF Enqueue, redis, Grows, TypeOK
  <2> QED BY <2>1, <2>3, <2>4, <2>5, <2>6, WorkKept
\* A step that commits no row and leaves the history: what is to show is about the
\* call it leaves, and about the transport.
<1>q. ASSUME NEW p \in Procs, NEW k, Become(p, k), UNCHANGED <<db, history>>,
             CallInv(call[p])', \A j \in transport' : db[j].status # "absent"
      PROVE  WorkInv'
  <2>1. Grows
    BY <1>q, <1>b DEF history, Grows
  <2>2. AttemptsNeverOvercount'
    BY <1>q, <1>c DEF history, AttemptsNeverOvercount
  <2> QED BY <1>q, <2>1, <2>2, WorkKept
<1>2. ASSUME NEW c \in Clients, NEW j \in Jobs, ReviveRead(c, j) PROVE WorkInv'
  <2>1. call'[c] = Work("reviveCommit", j, NoRow, "none")
    BY <1>2, CallAfter DEF ReviveRead, TypeOK
  <2>2. CallInv(call[c])'
    BY <1>2, <2>1 DEF CallInv, Work, ReviveRead
  <2> QED BY <1>2, <1>c, <1>q, <2>2 DEF ReviveRead, redis
<1>3. ASSUME NEW c \in Clients, ReviveCommit(c) PROVE WorkInv'
  <2>1. PICK j \in Jobs : j = call[c].job
    BY <1>3, <1>a DEF ReviveCommit
  <2>2. call'[c] = Dispatching({j})
    BY <1>3, <2>1, CallAfter DEF ReviveCommit, TypeOK
  <2>3. /\ db'[j] = [status |-> "pending", attempts |-> 0]
        /\ \A i \in Jobs : i # j => db'[i] = db[i]
    BY <1>3, <1>t, <2>1 DEF ReviveCommit
  <2>4. Grows
    BY <1>3, <1>b, <2>3 DEF ReviveCommit, history, Grows
  <2>5. CallInv(call[c])'
    BY <2>2, <2>3, CallOver
  <2>6. AttemptsNeverOvercount'
    BY <1>3, <1>b, <1>c, <2>3 DEF ReviveCommit, history, AttemptsNeverOvercount
  <2>7. \A i \in transport' : db'[i].status # "absent"
    BY <1>3, <1>c, <2>4 DEF ReviveCommit, redis, Grows, TypeOK
  <2> QED BY <1>3, <2>4, <2>5, <2>6, <2>7, WorkKept DEF ReviveCommit
<1>4. ASSUME NEW s \in Sweepers, NEW js \in SUBSET Jobs, Sweep(s, js) PROVE WorkInv'
  <2>1. call'[s] = Dispatching(js)
    BY <1>4, CallAfter DEF Sweep, TypeOK
  <2>2. CallInv(call[s])'
    BY <1>4, <2>1, CallOver DEF Sweep, Live
  <2> QED BY <1>4, <1>c, <1>q, <2>2 DEF Sweep, redis
<1>5. ASSUME NEW p \in Procs, Push(p) PROVE WorkInv'
  <2>1. CASE redisUp
    <3>1. PICK j \in call[p].todo :
            /\ transport' = transport \cup {j}
            /\ Become(p, Dispatch("markRead", j, call[p].todo \ {j}))
      BY <1>5, <2>1 DEF Push
    <3>2. /\ call'[p] = Dispatch("markRead", j, call[p].todo \ {j})
          /\ j \in Jobs
          /\ \A i \in call[p].todo : db[i].status # "absent"
      BY <1>a, <1>c, <3>1, CallAfter DEF TypeOK, CallInv
    <3>3. CallInv(call[p])'
      BY <1>5, <3>2 DEF CallInv, Dispatch, Marking, Push
    <3> QED BY <1>5, <1>c, <1>q, <3>1, <3>2, <3>3 DEF Push
  <2>2. CASE ~redisUp
    <3>1. Become(p, NoCall) /\ transport' = transport
      BY <1>5, <2>2 DEF Push
    <3>2. CallInv(call[p])'
      BY <3>1, CallAfter, CallOver DEF TypeOK
    <3> QED BY <1>5, <1>c, <1>q, <3>1, <3>2 DEF Push
  <2> QED BY <2>1, <2>2
<1>6. ASSUME NEW p \in Procs, MarkRead(p) PROVE WorkInv'
  <2>1. CallInv(call[p]) /\ call[p].job \in Jobs
    BY <1>6, <1>a, <1>c DEF MarkRead
  <2>2. CASE db[call[p].job].status = "pending"
    <3>1. Become(p, Marking("markCommit", call[p].job, call[p].todo, db[call[p].job]))
      BY <1>6, <2>2 DEF MarkRead
    <3>2. call'[p] = Marking("markCommit", call[p].job, call[p].todo, db[call[p].job])
      BY <3>1, CallAfter DEF TypeOK
    <3>3. CallInv(call[p])'
      BY <1>6, <1>c, <2>1, <2>2, <3>2
      DEF CallInv, Marking, MarkRead, history, AttemptsNeverOvercount
    <3> QED BY <1>6, <1>c, <1>q, <3>1, <3>3 DEF MarkRead, redis
  <2>3. CASE db[call[p].job].status # "pending"
    <3>1. Become(p, Dispatching(call[p].todo))
      BY <1>6, <2>3 DEF MarkRead
    <3>2. CallInv(call[p])'
      <4>1. \A i \in call[p].todo : db'[i].status # "absent"
        BY <1>6, <2>1 DEF MarkRead, CallInv
      <4> QED BY <1>a, <3>1, <4>1, CallAfter, CallOver DEF TypeOK
    <3> QED BY <1>6, <1>c, <1>q, <3>1, <3>2 DEF MarkRead, redis
  <2> QED BY <2>2, <2>3
\* A saved record: the row stays, and counts no more attempts than there were runs.
<1>s. ASSUME NEW p \in Procs, NEW st \in Status, st # "absent", NEW k,
             call[p].at \in {"markCommit", "finishCommit"},
             Save(call[p].job, [status |-> st, attempts |-> call[p].row.attempts],
                  call[p].row),
             Become(p, Dispatching(k)), k \in SUBSET (call[p].todo \cup {call[p].job}),
             UNCHANGED <<redis, history>>
      PROVE  WorkInv'
  <2> DEFINE j == call[p].job
  <2>1. CallInv(call[p]) /\ j \in Jobs
    BY <1>s, <1>a, <1>c
  <2>2. /\ \A i \in Jobs : i # j => db'[i] = db[i]
        /\ db'[j].status \in {st, db[j].status}
        /\ db'[j].attempts \in {call[p].row.attempts, db[j].attempts}
    BY <1>s, <1>t, <2>1 DEF Save
  <2>3. db[j].status # "absent" /\ call[p].row.attempts <= runs[j]
    BY <1>s, <2>1 DEF CallInv
  <2>4. Grows
    BY <1>s, <1>b, <2>2, <2>3 DEF history, Grows
  <2>5. CallInv(call[p])'
    <3>1. \A i \in k : i \in Jobs /\ db'[i].status # "absent"
      BY <1>s, <1>a, <2>1, <2>2, <2>3 DEF CallInv
    <3> QED BY <1>s, <3>1, CallAfter, CallOver DEF TypeOK
  <2>6. AttemptsNeverOvercount'
    BY <1>s, <1>b, <1>c, <2>1, <2>2, <2>3 DEF history, AttemptsNeverOvercount
  <2>7. \A i \in transport' : db'[i].status # "absent"
    BY <1>s, <1>c, <2>4 DEF redis, Grows, TypeOK
  <2> QED BY <1>s, <2>4, <2>5, <2>6, <2>7, WorkKept
<1>7. ASSUME NEW p \in Procs, MarkCommit(p) PROVE WorkInv'
  BY <1>7, <1>s DEF MarkCommit, Status, Live
<1>8. ASSUME NEW w \in Workers, NEW j \in Jobs, Pop(w, j) PROVE WorkInv'
  <2>1. call'[w] = Work("claimRead", j, NoRow, "none")
    BY <1>8, CallAfter DEF Pop, TypeOK
  <2>2. CallInv(call[w])'
    BY <1>8, <1>c, <2>1 DEF CallInv, Work, Pop
  <2> QED BY <1>8, <1>c, <1>q, <2>2 DEF Pop
<1>9. ASSUME NEW w \in Workers, ClaimRead(w) PROVE WorkInv'
  <2>1. CallInv(call[w]) /\ call[w].job \in Jobs
    BY <1>9, <1>a, <1>c DEF ClaimRead
  <2>2. CASE db[call[w].job].status \in Live
    <3>1. Become(w, Work("claimCommit", call[w].job, db[call[w].job], call[w].outcome))
      BY <1>9, <2>2 DEF ClaimRead, ReadRow
    <3>2. call'[w] = Work("claimCommit", call[w].job, db[call[w].job], call[w].outcome)
      BY <3>1, CallAfter DEF TypeOK
    <3>3. CallInv(call[w])'
      BY <1>9, <1>c, <2>1, <2>2, <3>2
      DEF CallInv, Work, ClaimRead, history, Live, AttemptsNeverOvercount
    <3> QED BY <1>9, <1>c, <1>q, <3>1, <3>3 DEF ClaimRead, redis
  <2>3. CASE db[call[w].job].status \notin Live
    <3>1. Become(w, NoCall)
      BY <1>9, <2>3 DEF ClaimRead
    <3>2. CallInv(call[w])'
      BY <3>1, CallAfter, CallOver DEF TypeOK
    <3> QED BY <1>9, <1>c, <1>q, <3>1, <3>2 DEF ClaimRead, redis
  <2> QED BY <2>2, <2>3
<1>10. ASSUME NEW w \in Workers, ClaimCommit(w) PROVE WorkInv'
  <2>1. PICK j \in Jobs : j = call[w].job
    BY <1>10, <1>a DEF ClaimCommit
  <2>2. call'[w] = Work("handling", j, NoRow, "none")
    BY <1>10, <2>1, CallAfter DEF ClaimCommit, TypeOK
  <2>3. call[w].row.attempts \in Nat /\ call[w].row.attempts <= runs[j]
    BY <1>10, <1>a, <1>c, <2>1 DEF ClaimCommit, CallInv, Row
  <2>4. /\ db'[j] = [status |-> "running", attempts |-> call[w].row.attempts + 1]
        /\ \A i \in Jobs : i # j => db'[i] = db[i] /\ runs'[i] = runs[i]
        /\ runs'[j] = runs[j] + 1
    BY <1>10, <1>t, <2>1 DEF ClaimCommit
  <2>5. Grows
    BY <1>10, <1>b, <2>4 DEF ClaimCommit, Grows
  <2>6. CallInv(call[w])'
    BY <1>b, <2>2, <2>4 DEF CallInv, Work
  <2>7. AttemptsNeverOvercount'
    BY <1>b, <1>c, <2>3, <2>4 DEF AttemptsNeverOvercount
  <2>8. \A i \in transport' : db'[i].status # "absent"
    BY <1>10, <1>c, <2>5 DEF ClaimCommit, redis, Grows, TypeOK
  <2> QED BY <1>10, <2>1, <2>5, <2>6, <2>7, <2>8, WorkKept DEF ClaimCommit
<1>11. ASSUME NEW w \in Workers, NEW o \in Outcome, Handle(w, o) PROVE WorkInv'
  <2>1. PICK j \in Jobs : j = call[w].job
    BY <1>11, <1>a DEF Handle
  <2>2. call'[w] = Work("finishRead", j, NoRow, o)
    BY <1>11, <2>1, CallAfter DEF Handle, TypeOK
  <2>3. /\ returned'[j] = returned[j] \cup {o}
        /\ \A i \in Jobs : i # j => returned'[i] = returned[i]
    BY <1>11, <1>t, <2>1 DEF Handle
  <2>4. Grows
    BY <1>11, <1>b, <2>3 DEF Handle, Grows
  <2>5. CallInv(call[w])'
    BY <1>11, <1>c, <2>1, <2>2, <2>3 DEF CallInv, Work, Handle
  <2>6. AttemptsNeverOvercount'
    BY <1>11, <1>c DEF Handle, AttemptsNeverOvercount
  <2>7. \A i \in transport' : db'[i].status # "absent"
    BY <1>11, <1>c DEF Handle, redis
  <2> QED BY <1>11, <2>1, <2>4, <2>5, <2>6, <2>7, WorkKept DEF Handle
<1>12. ASSUME NEW w \in Workers, FinishRead(w) PROVE WorkInv'
  <2>1. /\ Become(w, Work("finishCommit", call[w].job, db[call[w].job], call[w].outcome))
        /\ CallInv(call[w]) /\ call[w].job \in Jobs
    BY <1>12, <1>a, <1>c DEF FinishRead, ReadRow
  <2>2. call'[w] = Work("finishCommit", call[w].job, db[call[w].job], call[w].outcome)
    BY <2>1, CallAfter DEF TypeOK
  <2>3. CallInv(call[w])'
    BY <1>12, <1>c, <2>1, <2>2
    DEF CallInv, Work, FinishRead, history, AttemptsNeverOvercount
  <2> QED BY <1>12, <1>c, <1>q, <2>1, <2>3 DEF FinishRead, redis
<1>13. ASSUME NEW w \in Workers, FinishCommit(w) PROVE WorkInv'
  <2>1. Verdict(w) \in Status /\ Verdict(w) # "absent"
    BY VerdictTyping DEF Status, Live, Terminal
  <2>2. PICK k \in SUBSET (call[w].todo \cup {call[w].job}) : Become(w, Dispatching(k))
    BY ONLY <1>13 DEF FinishCommit
  <2> QED BY <1>13, <1>s, <2>1, <2>2 DEF FinishCommit
<1>14. ASSUME NEW p \in Procs, Abort(p) PROVE WorkInv'
  <2>1. Become(p, NoCall) /\ UNCHANGED <<db, redis, runs, returned>>
    BY <1>14 DEF Abort
  <2>2. CallInv(call[p])'
    BY <2>1, CallAfter, CallOver DEF TypeOK
  <2>3. Grows /\ AttemptsNeverOvercount'
    BY <1>b, <1>c, <2>1 DEF Grows, AttemptsNeverOvercount
  <2> QED BY <1>c, <2>1, <2>2, <2>3, WorkKept DEF redis
<1>15. CASE RedisDown
  BY <1>15, <1>c DEF RedisDown, history, WorkInv, CallInv, AttemptsNeverOvercount
<1>16. CASE RedisRecover
  BY <1>16, <1>c DEF RedisRecover, history, WorkInv, CallInv, AttemptsNeverOvercount
<1>17. CASE UNCHANGED vars
  BY <1>17, <1>c DEF vars, WorkInv, CallInv, AttemptsNeverOvercount
<1> QED
  BY <1>1, <1>2, <1>3, <1>4, <1>5, <1>6, <1>7, <1>8, <1>9, <1>10, <1>11, <1>12,
     <1>13, <1>14, <1>15, <1>16, <1>17 DEF Next, DispatchStep, RunStep

LEMMA WorkInit == Init => WorkInv
BY CallTyping DEF Init, WorkInv, CallInv, AttemptsNeverOvercount, NoRow

\* A stale copy of a row can cost a job extra runs and never one of its attempts, for
\* any number of workers, requests and sweeps that overlap.
THEOREM AttemptsAreNeverOvercounted == Spec => []AttemptsNeverOvercount
<1>1. TypeOK /\ TypeOK' /\ WorkInv /\ [Next]_vars => WorkInv'
  BY WorkInvStep
<1>2. WorkInv => AttemptsNeverOvercount
  BY DEF WorkInv
<1> QED BY <1>1, <1>2, WorkInit, TypeCorrect, PTL DEF Spec

\* The verdict of a run follows from what its worker holds, and is earned.
LEMMA VerdictEarned ==
  ASSUME TypeOK, WorkInv, NEW w \in Workers, NEW j \in Jobs,
         call[w].at = "finishCommit", j = call[w].job
  PROVE  /\ Verdict(w) = "succeeded" => "ok" \in returned[j]
         /\ Verdict(w) = "dead" =>
              \/ "permanent" \in returned[j]
              \/ "failed" \in returned[j] /\ runs[j] >= MaxAttempts
<1>1. /\ call[w].row.attempts <= runs[j] /\ call[w].outcome \in returned[j]
      /\ returned[j] \subseteq Outcome
  BY DEF WorkInv, CallInv, TypeOK, Procs
<1>2. call[w].row.attempts \in Nat /\ runs[j] \in Nat /\ MaxAttempts \in Nat
  BY BoundsAssumption DEF TypeOK, CallOK, Call, Row, Procs
<1> QED BY <1>1, <1>2 DEF Verdict, Outcome

\* What may happen to a row's status: only the end of a run settles it.
Settling(j) ==
  \E w \in Workers : FinishCommit(w) /\ j = call[w].job /\ db'[j].status = Verdict(w)

LEMMA StatusStep ==
  ASSUME TypeOK, WorkInv, [Next]_vars, NEW j \in Jobs
  PROVE  \/ db'[j].status = db[j].status
         \/ db'[j].status \notin Terminal \cup {"absent"}
         \/ Settling(j)
<1> USE ProcessesAssumption DEF Procs, Terminal
<1>t. db \in [Jobs -> Row] /\ call \in [Procs -> Call]
  BY DEF TypeOK, CallOK
<1>a. \A p \in Procs : /\ call[p].row \in Row
                       /\ call[p].at \notin {"idle", "push"} => call[p].job \in Jobs
  BY DEF TypeOK, CallOK, Call
<1>1. ASSUME NEW c \in Clients, NEW i \in Jobs, Enqueue(c, i)
      PROVE  db'[j].status = db[j].status \/ db'[j].status = "pending"
  BY <1>1, <1>t DEF Enqueue
<1>2. ASSUME NEW c \in Clients, ReviveCommit(c)
      PROVE  db'[j].status = db[j].status \/ db'[j].status = "pending"
  BY <1>2, <1>t, <1>a DEF ReviveCommit
<1>3. ASSUME NEW p \in Procs, MarkCommit(p)
      PROVE  db'[j].status = db[j].status \/ db'[j].status = "queued"
  <2>1. call[p].job \in Jobs
    BY <1>3, <1>a DEF MarkCommit
  <2> QED BY <1>3, <1>t, <2>1 DEF MarkCommit, Save
<1>4. ASSUME NEW w \in Workers, ClaimCommit(w)
      PROVE  db'[j].status = db[j].status \/ db'[j].status = "running"
  <2>1. call[w].job \in Jobs
    BY <1>4, <1>a DEF ClaimCommit
  <2> QED BY <1>4, <1>t, <2>1 DEF ClaimCommit
<1>5. ASSUME NEW w \in Workers, FinishCommit(w)
      PROVE  db'[j].status = db[j].status \/ Settling(j)
  <2>1. call[w].job \in Jobs
    BY <1>5, <1>a DEF FinishCommit
  <2>2. \/ db'[j].status = db[j].status
        \/ j = call[w].job /\ db'[j].status = Verdict(w)
    BY <1>5, <1>t, <2>1 DEF FinishCommit, Save
  <2> QED BY <1>5, <2>2 DEF Settling
<1>6. \/ UNCHANGED db
      \/ \E c \in Clients : ReviveCommit(c) \/ \E i \in Jobs : Enqueue(c, i)
      \/ \E p \in Procs : MarkCommit(p)
      \/ \E w \in Workers : ClaimCommit(w) \/ FinishCommit(w)
  BY DEF Next, DispatchStep, RunStep, vars, ReviveRead, Sweep, Push, MarkRead, Pop,
         ClaimRead, Handle, FinishRead, Abort, RedisDown, RedisRecover
<1> QED BY <1>1, <1>2, <1>3, <1>4, <1>5, <1>6

\* The history grows in each step.
LEMMA HistoryGrows ==
  ASSUME TypeOK, [Next]_vars, NEW j \in Jobs
  PROVE  runs[j] <= runs'[j] /\ returned[j] \subseteq returned'[j]
<1>1. runs \in [Jobs -> Nat] /\ returned \in [Jobs -> SUBSET Outcome] /\ runs[j] \in Nat
  BY DEF TypeOK
<1>2. ASSUME NEW w \in Workers, ClaimCommit(w)
      PROVE  runs[j] <= runs'[j] /\ UNCHANGED returned
  BY <1>1, <1>2 DEF ClaimCommit
<1>3. ASSUME NEW w \in Workers, NEW o \in Outcome, Handle(w, o)
      PROVE  UNCHANGED runs /\ returned[j] \subseteq returned'[j]
  BY <1>1, <1>3 DEF Handle
<1>4. \/ UNCHANGED <<runs, returned>>
      \/ \E w \in Workers : ClaimCommit(w) \/ \E o \in Outcome : Handle(w, o)
  BY DEF Next, DispatchStep, RunStep, vars, history, ReviveRead, ReviveCommit, Enqueue,
         Sweep, Push, MarkRead, MarkCommit, Pop, ClaimRead, FinishRead, FinishCommit,
         Abort, RedisDown, RedisRecover
<1> QED BY <1>1, <1>2, <1>3, <1>4

\* The ledger's verdict is earned for every instance: succeeded only if a run
\* returned, dead only after a permanent failure or MaxAttempts real runs.
THEOREM VerdictsAreEarned == Spec => []VerdictIsEarned
<1>1. Init => VerdictIsEarned
  BY DEF Init, VerdictIsEarned, NoRow
<1>2. TypeOK /\ TypeOK' /\ WorkInv /\ VerdictIsEarned /\ [Next]_vars => VerdictIsEarned'
  <2> SUFFICES ASSUME TypeOK, TypeOK', WorkInv, VerdictIsEarned, [Next]_vars, NEW j \in Jobs
               PROVE  /\ db'[j].status = "succeeded" => "ok" \in returned'[j]
                      /\ db'[j].status = "dead" =>
                           \/ "permanent" \in returned'[j]
                           \/ "failed" \in returned'[j] /\ runs'[j] >= MaxAttempts
    BY DEF VerdictIsEarned
  <2>1. /\ runs[j] <= runs'[j] /\ returned[j] \subseteq returned'[j]
        /\ runs[j] \in Nat /\ runs'[j] \in Nat /\ MaxAttempts \in Nat
    BY HistoryGrows, BoundsAssumption DEF TypeOK
  <2>2. CASE db'[j].status = db[j].status
    BY <2>1, <2>2 DEF VerdictIsEarned
  <2>3. CASE Settling(j)
    <3>1. PICK w \in Workers :
            /\ call[w].at = "finishCommit" /\ j = call[w].job
            /\ db'[j].status = Verdict(w)
      BY <2>3 DEF Settling, FinishCommit
    <3> QED BY <2>1, <3>1, VerdictEarned
  <2> QED BY <2>2, <2>3, StatusStep DEF Terminal
<1>3. TypeOK /\ TypeOK' /\ WorkInv /\ [Next]_vars => WorkInv'
  BY WorkInvStep
<1> QED BY <1>1, <1>2, <1>3, WorkInit, TypeCorrect, PTL DEF Spec

-----------------------------------------------------------------------------
(* JobQueue implements JobLedger, for any number of jobs, processes and       *)
(* attempts and any number of aborts, outages and revivals.                  *)

\* What the ledger shows of the rows.
Accepted == {j \in Jobs : db[j].status # "absent"}
Shown == [j \in Jobs |-> IF db[j].status \in Terminal THEN db[j].status ELSE "open"]

\* A step that leaves what the ledger shows is a stutter of it.
LEMMA LedgerStutters ==
  ASSUME UNCHANGED <<runs, returned>>,
         \A j \in Jobs : db'[j].status = db[j].status
  PROVE  UNCHANGED Ledger!vars
BY DEF Ledger!vars

\* A step that writes the status of one row that is there, and keeps it open or opens
\* it again.
LEMMA LedgerReopens ==
  ASSUME NEW j \in Jobs, UNCHANGED <<runs, returned>>,
         \A i \in Jobs : i # j => db'[i] = db[i],
         db[j].status # "absent",
         db'[j].status \notin Terminal \cup {"absent"}
  PROVE  Ledger!Next \/ UNCHANGED Ledger!vars
<1>1. Accepted' = Accepted
  BY DEF Accepted
<1>2. CASE db[j].status \in Terminal
  <2>1. Shown[j] # "open" /\ Shown' = [Shown EXCEPT ![j] = "open"]
    BY <1>2 DEF Shown, Terminal
  <2>2. Ledger!Reopen(j)
    BY <1>1, <2>1 DEF Ledger!Reopen, Accepted, Shown
  <2> QED BY <2>2 DEF Ledger!Next
<1>3. CASE db[j].status \notin Terminal
  <2>1. Shown' = Shown
    BY <1>3 DEF Shown
  <2> QED BY <1>1, <2>1 DEF Ledger!vars, Accepted, Shown
<1> QED BY <1>2, <1>3

LEMMA LedgerStep ==
  ASSUME TypeOK, WorkInv, [Next]_vars
  PROVE  Ledger!Next \/ UNCHANGED Ledger!vars
<1> USE ProcessesAssumption DEF Procs
<1>t. /\ db \in [Jobs -> Row] /\ runs \in [Jobs -> Nat]
      /\ returned \in [Jobs -> SUBSET Outcome] /\ call \in [Procs -> Call]
  BY DEF TypeOK, CallOK
<1>a. \A p \in Procs : /\ call[p].row \in Row
                       /\ call[p].at \notin {"idle", "push"} => call[p].job \in Jobs
  BY DEF TypeOK, CallOK, Call
<1>c. \A p \in Procs : call[p].at \notin {"idle", "push"} =>
                         db[call[p].job].status # "absent"
  BY DEF WorkInv, CallInv
<1>1. ASSUME NEW c \in Clients, NEW j \in Jobs, Enqueue(c, j)
      PROVE  Ledger!Next \/ UNCHANGED Ledger!vars
  <2>1. CASE db[j].status = "absent"
    <3>1. db' = [db EXCEPT ![j] = [status |-> "pending", attempts |-> 0]]
      BY <1>1, <2>1 DEF Enqueue
    <3>2. j \notin Accepted /\ Accepted' = Accepted \cup {j} /\ Shown' = Shown
      BY <1>t, <2>1, <3>1 DEF Accepted, Shown, Terminal
    <3>3. Ledger!Accept(j)
      BY <1>1, <3>2 DEF Ledger!Accept, Accepted, Shown, Enqueue, history
    <3> QED BY <3>3 DEF Ledger!Next
  <2>2. CASE db[j].status # "absent"
    BY <1>1, <2>2, LedgerStutters DEF Enqueue, history
  <2> QED BY <2>1, <2>2
<1>2. ASSUME NEW c \in Clients, ReviveCommit(c)
      PROVE  Ledger!Next \/ UNCHANGED Ledger!vars
  <2>1. call[c].job \in Jobs /\ db[call[c].job].status # "absent"
    BY <1>2, <1>a, <1>c DEF ReviveCommit
  <2> QED BY <1>2, <1>t, <2>1, LedgerReopens DEF ReviveCommit, history, Terminal
\* A saved record leaves the status or writes its own.
<1>s. ASSUME NEW p \in Procs, NEW st, NEW n, call[p].at \in {"markCommit", "finishCommit"},
             Save(call[p].job, [status |-> st, attempts |-> n], call[p].row)
      PROVE  /\ \A i \in Jobs : i # call[p].job => db'[i] = db[i]
             /\ db'[call[p].job].status \in {st, db[call[p].job].status}
  BY <1>s, <1>t, <1>a DEF Save
<1>3. ASSUME NEW p \in Procs, MarkCommit(p)
      PROVE  Ledger!Next \/ UNCHANGED Ledger!vars
  <2>1. call[p].job \in Jobs /\ db[call[p].job].status # "absent"
    BY <1>3, <1>a, <1>c DEF MarkCommit
  <2>2. /\ \A i \in Jobs : i # call[p].job => db'[i] = db[i]
        /\ db'[call[p].job].status \in {"queued", db[call[p].job].status}
    BY <1>3, <1>s DEF MarkCommit
  <2>3. UNCHANGED <<runs, returned>>
    BY <1>3 DEF MarkCommit, history
  <2>4. CASE db'[call[p].job].status = "queued"
    BY <2>1, <2>2, <2>3, <2>4, LedgerReopens DEF Terminal
  <2>5. CASE db'[call[p].job].status = db[call[p].job].status
    BY <2>2, <2>3, <2>5, LedgerStutters
  <2> QED BY <2>2, <2>4, <2>5
<1>4. ASSUME NEW w \in Workers, ClaimCommit(w)
      PROVE  Ledger!Next \/ UNCHANGED Ledger!vars
  <2>1. PICK j \in Jobs : j = call[w].job /\ db[j].status # "absent"
    BY <1>4, <1>a, <1>c DEF ClaimCommit
  <2>2. /\ db'[j].status = "running" /\ \A i \in Jobs : i # j => db'[i] = db[i]
        /\ runs' = [runs EXCEPT ![j] = @ + 1] /\ returned' = returned
    BY <1>4, <1>t, <2>1 DEF ClaimCommit
  <2>3. /\ j \in Accepted /\ Accepted' = Accepted
        /\ Shown' = [Shown EXCEPT ![j] = "open"]
    BY <2>1, <2>2 DEF Accepted, Shown, Terminal
  <2>4. Ledger!Start(j)
    BY <2>2, <2>3 DEF Ledger!Start, Accepted, Shown
  <2> QED BY <2>4 DEF Ledger!Next
<1>5. ASSUME NEW w \in Workers, NEW o \in Outcome, Handle(w, o)
      PROVE  Ledger!Next \/ UNCHANGED Ledger!vars
  <2>1. PICK j \in Jobs : j = call[w].job /\ runs[j] > 0
    BY <1>5, <1>a DEF Handle, WorkInv, CallInv
  <2>2. Ledger!Return(j, o)
    BY <1>5, <2>1 DEF Ledger!Return, Handle
  <2> QED BY <2>2 DEF Ledger!Next, Ledger!Outcome, Outcome
<1>6. ASSUME NEW w \in Workers, FinishCommit(w)
      PROVE  Ledger!Next \/ UNCHANGED Ledger!vars
  <2>1. PICK j \in Jobs : j = call[w].job /\ db[j].status # "absent"
    BY <1>6, <1>a, <1>c DEF FinishCommit
  <2>2. /\ \A i \in Jobs : i # j => db'[i] = db[i]
        /\ db'[j].status \in {Verdict(w), db[j].status}
    BY <1>6, <1>s, <2>1 DEF FinishCommit
  <2>3. UNCHANGED <<runs, returned>>
    BY <1>6 DEF FinishCommit, history
  <2>4. CASE db'[j].status = db[j].status
    BY <2>2, <2>3, <2>4, LedgerStutters
  <2>5. CASE db'[j].status = Verdict(w) /\ Verdict(w) = "retrying"
    BY <2>1, <2>2, <2>3, <2>5, LedgerReopens DEF Terminal
  <2>6. CASE db'[j].status = Verdict(w) /\ Verdict(w) \in {"succeeded", "dead"}
    <3>1. PICK v \in Ledger!Verdict : v = Verdict(w) /\ v \in Terminal
      BY <2>6 DEF Ledger!Verdict, Terminal
    <3>2. Ledger!Earned(j, v)
      BY <1>6, <2>1, <2>6, <3>1, VerdictEarned DEF Ledger!Earned, FinishCommit
    <3>3. Accepted' = Accepted /\ Shown' = [Shown EXCEPT ![j] = v]
      BY <2>1, <2>2, <2>6, <3>1 DEF Accepted, Shown, Terminal
    <3>4. Ledger!Settle(j, v)
      BY <2>3, <3>2, <3>3 DEF Ledger!Settle, Accepted, Shown
    <3> QED BY <3>4 DEF Ledger!Next
  <2> QED BY <2>2, <2>4, <2>5, <2>6, VerdictTyping
<1>7. \/ UNCHANGED <<db, runs, returned>>
      \/ \E c \in Clients : ReviveCommit(c) \/ \E j \in Jobs : Enqueue(c, j)
      \/ \E p \in Procs : MarkCommit(p)
      \/ \E w \in Workers : \/ ClaimCommit(w) \/ FinishCommit(w)
                            \/ \E o \in Outcome : Handle(w, o)
  BY DEF Next, DispatchStep, RunStep, vars, history, ReviveRead, Sweep, Push, MarkRead,
         Pop, ClaimRead, FinishRead, Abort, RedisDown, RedisRecover
<1> QED BY <1>1, <1>2, <1>3, <1>4, <1>5, <1>6, <1>7, LedgerStutters

\* The queue keeps the promise its callers rely on, for every instance: no accepted
\* job is forgotten, no run starts on a job without a row and no verdict appears
\* unearned, whatever workers, sweeps, revivals, deaths and outages do.
THEOREM QueueImplementsLedger == Spec => LedgerIsKept
<1>1. Init => Ledger!Init
  BY DEF Init, Ledger!Init, NoRow, Terminal
<1>2. TypeOK /\ WorkInv /\ [Next]_vars => [Ledger!Next]_(Ledger!vars)
  BY LedgerStep
<1>3. TypeOK /\ TypeOK' /\ WorkInv /\ [Next]_vars => WorkInv'
  BY WorkInvStep
<1> QED
  BY <1>1, <1>2, <1>3, WorkInit, TypeCorrect, PTL DEF Spec, LedgerIsKept, Ledger!Spec
=============================================================================
