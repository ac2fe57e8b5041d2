------------------------------ MODULE JobQueue ------------------------------
(***************************************************************************)
(* The background-job queue of CivicLens (app/workers/queue.py with the    *)
(* repository app/db/repositories/ops.py and the Redis transport           *)
(* app/workers/redis_backend.py).                                          *)
(*                                                                         *)
(* PostgreSQL holds one row per job: its status and its attempt counter.   *)
(* Redis holds a sorted set of job ids, the transport.  Request threads    *)
(* enqueue and revive jobs, the scheduler sweeps orphans back into the     *)
(* transport, worker loops pop ids and run handlers.  Each unit of work is *)
(* a READ COMMITTED transaction that copies the row into a record, changes *)
(* the record and later writes it back, with no row lock between the two:  *)
(* a read and its write are therefore two steps here, and every            *)
(* interleaving between them is one the database allows.                   *)
(*                                                                         *)
(* Time is abstracted: any amount of it may pass between two steps, so a   *)
(* backoff, the age an orphan needs and a due date can always be reached.  *)
(***************************************************************************)
EXTENDS Naturals, FiniteSets

CONSTANTS
  Jobs,         \* jobs, one per idempotency key
  Clients,      \* request threads: enqueue, dispatch, an admin's retry
  Sweepers,     \* scheduler loops running queue.requeue_orphans
  Workers,      \* worker loops calling run_once
  NoJob,        \* no job in hand
  MaxAttempts,  \* JobService's max_attempts
  Abortable,    \* processes that may die or lose the database in mid-call
  MaxAborts,    \* bounds on the environment: aborted calls,
  MaxOutages,   \*   Redis outages (each may lose the transport's contents),
  MaxRevivals,  \*   and admin retries of a dead job
  MaxRuns       \* bounds the runs of a job: stale attempt counts let it have any number

Procs == Clients \cup Sweepers \cup Workers

ASSUME ProcessesAssumption ==
  /\ Clients \cap Workers = {}
  /\ Sweepers \cap Workers = {}
  /\ Clients \cap Sweepers = {}
  /\ Abortable \subseteq Procs
  /\ NoJob \notin Jobs

ASSUME BoundsAssumption ==
  /\ MaxAttempts \in Nat \ {0}
  /\ MaxAborts \in Nat
  /\ MaxOutages \in Nat
  /\ MaxRevivals \in Nat
  /\ MaxRuns \in Nat

VARIABLES
  db,            \* the committed row of each job: jobs.status, jobs.attempts
  transport,     \* the ids in Redis' sorted set
  redisUp,       \* whether Redis answers
  call,          \* where each process is in its call, and its local variables
  runs,          \* history: how often a worker claimed the job and ran it
  returned,      \* history: the ways the job's handler has ended
  abandoned,     \* history: jobs a worker was running when its call died
  faults         \* how much of each environment bound is used up

redis == <<transport, redisUp>>
history == <<runs, returned, abandoned>>
vars == <<db, transport, redisUp, call, runs, returned, abandoned, faults>>

Live == {"pending", "queued", "retrying"}
Terminal == {"succeeded", "dead"}
Status == Live \cup Terminal \cup {"absent", "running"}
Row == [status : Status, attempts : Nat]
NoRow == [status |-> "absent", attempts |-> 0]

\* How a handler ends: it returns, raises, or raises PermanentJobError.
Outcome == {"ok", "failed", "permanent"}

DispatchAt == {"push", "markRead", "markCommit"}
RunAt == {"claimRead", "claimCommit", "handling", "finishRead", "finishCommit"}

\* A call: its next step, the job in hand, the list a dispatch still has to
\* push, the row as the open transaction read it, the handler's outcome.
Call == [at : DispatchAt \cup RunAt \cup {"idle", "reviveCommit"},
         job : Jobs \cup {NoJob},
         todo : SUBSET Jobs,
         row : Row,
         outcome : Outcome \cup {"none"}]

\* The shapes of a call: dispatching a list (the job last pushed is being marked),
\* working on one job, and none.
Marking(label, j, js, r) ==
  [at |-> label, job |-> j, todo |-> js, row |-> r, outcome |-> "none"]
Dispatch(label, j, js) == Marking(label, j, js, NoRow)
Work(label, j, r, o) ==
  [at |-> label, job |-> j, todo |-> {}, row |-> r, outcome |-> o]
NoCall == Dispatch("idle", NoJob, {})

FaultKind == {"abort", "outage", "revival"}
Bound == [k \in FaultKind |-> CASE k = "abort" -> MaxAborts
                                [] k = "outage" -> MaxOutages
                                [] k = "revival" -> MaxRevivals]

\* A worker that has claimed j and not yet recorded how that run ended.
Running(w, j) ==
  /\ call[w].job = j
  /\ call[w].at \in {"handling", "finishRead", "finishCommit"}

CallOK ==
  /\ call \in [Procs -> Call]
  /\ \A p \in Procs : call[p].at \notin {"idle", "push"} => call[p].job \in Jobs
  /\ \A p \in Procs : call[p].at \in RunAt => p \in Workers

\* Every variable in its type; a process past the start of its call has a job in
\* hand, and only workers run handlers.
TypeOK ==
  /\ db \in [Jobs -> Row]
  /\ transport \in SUBSET Jobs
  /\ redisUp \in BOOLEAN
  /\ CallOK
  /\ runs \in [Jobs -> Nat]
  /\ returned \in [Jobs -> SUBSET Outcome]
  /\ abandoned \in SUBSET Jobs
  /\ faults \in [FaultKind -> Nat]

Init ==
  /\ db = [j \in Jobs |-> NoRow]
  /\ transport = {}
  /\ redisUp = TRUE
  /\ call = [p \in Procs |-> NoCall]
  /\ runs = [j \in Jobs |-> 0]
  /\ returned = [j \in Jobs |-> {}]
  /\ abandoned = {}
  /\ faults = [k \in FaultKind |-> 0]

-----------------------------------------------------------------------------
(* The steps a call is made of. *)

\* The next state of a call that is about to dispatch the list js; an empty list
\* ends it.
Dispatching(js) ==
  IF js = {} THEN NoCall ELSE Dispatch("push", NoJob, js)

Become(p, k) == call' = [call EXCEPT ![p] = k]

\* w reads the row of its job and goes on at label.
ReadRow(w, label) ==
  Become(w, Work(label, call[w].job, db[call[w].job], call[w].outcome))

\* Fault seeded to test TypeOK: a misspelt status.
SaveMisspelt(j, rec, seen) ==
  db' = [db EXCEPT ![j] = [status |-> IF rec.status = "retrying" THEN "retry"
                                      ELSE rec.status,
                           attempts |-> rec.attempts]]

\* update: the row is read again, and the columns in which the record differs from
\* that are written.  Another commit may come just before the second read, and is
\* overwritten with the whole record, or just after it, and keeps the columns in
\* which the record is as it was when first read.
Save(j, rec, seen) ==
  \/ db' = [db EXCEPT ![j] = rec]
  \/ db' = [db EXCEPT ![j] =
        [status |-> IF rec.status = seen.status THEN db[j].status ELSE rec.status,
         attempts |-> IF rec.attempts = seen.attempts THEN db[j].attempts
                      ELSE rec.attempts]]

Use(k) ==
  /\ faults[k] < Bound[k]
  /\ faults' = [faults EXCEPT ![k] = @ + 1]

-----------------------------------------------------------------------------
(* Producers. *)

\* A request enqueues j in its own transaction and commits: a new key inserts a
\* pending row, a known key returns the row there is.  The caller dispatches the
\* record it got; dispatch skips one that is not waiting.
Enqueue(c, j) ==
  /\ call[c] = NoCall
  /\ IF db[j].status = "absent"
       THEN db' = [db EXCEPT ![j] = [status |-> "pending", attempts |-> 0]]
       ELSE UNCHANGED db
  /\ Become(c, Dispatching({j} \cap {i \in Jobs : db'[i].status \in Live}))
  /\ UNCHANGED <<redis, history, faults>>

\* retry_dead: read the row, refuse it unless it is dead ...
ReviveRead(c, j) ==
  /\ call[c] = NoCall
  /\ db[j].status = "dead"
  /\ Use("revival")
  /\ Become(c, Work("reviveCommit", j, NoRow, "none"))
  /\ UNCHANGED <<db, redis, history>>

\* ... then commit it as pending with a fresh set of attempts, and dispatch it.
ReviveCommit(c) ==
  /\ call[c].at = "reviveCommit"
  /\ db' = [db EXCEPT ![call[c].job] = [status |-> "pending", attempts |-> 0]]
  /\ Become(c, Dispatching({call[c].job}))
  /\ UNCHANGED <<redis, history, faults>>

\* Fault seeded to test EveryJobSettles: only pending rows are swept, so what an
\* empty transport forgot stays queued.
SweepPendingOnly(s, js) ==
  /\ call[s] = NoCall
  /\ js # {}
  /\ \A j \in js : db[j].status = "pending"
  /\ Become(s, Dispatching(js))
  /\ UNCHANGED <<db, redis, history, faults>>

\* requeue_orphans: list the old rows that are pending, queued or retrying, and
\* dispatch them.  Which of them are old enough is left open.
Sweep(s, js) ==
  /\ call[s] = NoCall
  /\ js # {}
  /\ \A j \in js : db[j].status \in Live
  /\ Become(s, Dispatching(js))
  /\ UNCHANGED <<db, redis, history, faults>>

-----------------------------------------------------------------------------
(* dispatch: push an id, then mark its row queued in a transaction of its own. *)

\* The push; an unreachable Redis abandons the rest of the list.
Push(p) ==
  /\ call[p].at = "push"
  /\ \/ /\ redisUp
        /\ \E j \in call[p].todo :
             /\ transport' = transport \cup {j}
             /\ Become(p, Dispatch("markRead", j, call[p].todo \ {j}))
     \/ /\ ~redisUp
        /\ Become(p, NoCall)
        /\ UNCHANGED transport
  /\ UNCHANGED <<db, redisUp, history, faults>>

MarkRead(p) ==
  /\ call[p].at = "markRead"
  /\ Become(p, IF db[call[p].job].status = "pending"
                 THEN Marking("markCommit", call[p].job, call[p].todo, db[call[p].job])
                 ELSE Dispatching(call[p].todo))
  /\ UNCHANGED <<db, redis, history, faults>>

MarkCommit(p) ==
  /\ call[p].at = "markCommit"
  /\ Save(call[p].job, [status |-> "queued", attempts |-> call[p].row.attempts],
          call[p].row)
  /\ Become(p, Dispatching(call[p].todo))
  /\ UNCHANGED <<redis, history, faults>>

-----------------------------------------------------------------------------
(* Consumers: run_once. *)

\* The Lua script takes one due id out of the sorted set.
Pop(w, j) ==
  /\ call[w] = NoCall
  /\ redisUp
  /\ j \in transport
  /\ runs[j] < MaxRuns
  /\ transport' = transport \ {j}
  /\ Become(w, Work("claimRead", j, NoRow, "none"))
  /\ UNCHANGED <<db, redisUp, history, faults>>

\* Fault seeded to test AttemptsNeverOvercount: a no-op delivery counts as an
\* attempt.
ClaimReadCounting(w) ==
  LET j == call[w].job IN
  /\ call[w].at = "claimRead"
  /\ IF db[j].status \in Live THEN ReadRow(w, "claimCommit") /\ UNCHANGED db
     ELSE /\ Become(w, NoCall)
          /\ db' = [db EXCEPT ![j].attempts = @ + 1]
  /\ UNCHANGED <<redis, history, faults>>

\* A row that is settled or running makes the delivery a no-op.
ClaimRead(w) ==
  /\ call[w].at = "claimRead"
  /\ IF db[call[w].job].status \in Live THEN ReadRow(w, "claimCommit")
     ELSE Become(w, NoCall)
  /\ UNCHANGED <<db, redis, history, faults>>

ClaimCommit(w) ==
  LET j == call[w].job IN
  /\ call[w].at = "claimCommit"
  /\ db' = [db EXCEPT ![j] = [status |-> "running",
                              attempts |-> call[w].row.attempts + 1]]
  /\ runs' = [runs EXCEPT ![j] = @ + 1]
  /\ Become(w, Work("handling", j, NoRow, "none"))
  /\ UNCHANGED <<redis, returned, abandoned, faults>>

\* A kind without a handler ends as PermanentJobError does.
Handle(w, o) ==
  /\ call[w].at = "handling"
  /\ Become(w, Work("finishRead", call[w].job, NoRow, o))
  /\ returned' = [returned EXCEPT ![call[w].job] = @ \cup {o}]
  /\ UNCHANGED <<db, redis, runs, abandoned, faults>>

FinishRead(w) ==
  /\ call[w].at = "finishRead"
  /\ ReadRow(w, "finishCommit")
  /\ UNCHANGED <<db, redis, history, faults>>

\* Faults seeded to test VerdictIsEarned (a comparison off by one) and
\* LedgerIsKept (an exhausted job is reported as done).
VerdictTooEarly(w) ==
  IF call[w].outcome = "ok" THEN "succeeded"
  ELSE IF call[w].outcome = "permanent" \/ call[w].row.attempts + 1 >= MaxAttempts
       THEN "dead"
  ELSE "retrying"

VerdictSwallowed(w) ==
  IF call[w].outcome = "ok" \/ call[w].row.attempts >= MaxAttempts THEN "succeeded"
  ELSE IF call[w].outcome = "permanent" THEN "dead"
  ELSE "retrying"

\* What the second transaction decides from the outcome and the row it re-read.
Verdict(w) ==
  IF call[w].outcome = "ok" THEN "succeeded"
  ELSE IF call[w].outcome = "permanent" \/ call[w].row.attempts >= MaxAttempts
       THEN "dead"
  ELSE "retrying"

\* Fault seeded to test RunningIsOwned: a retry is dispatched but its status is
\* not written.
FinishCommitForgetful(w) ==
  LET j == call[w].job IN
  /\ call[w].at = "finishCommit"
  /\ IF Verdict(w) = "retrying" THEN UNCHANGED db
     ELSE Save(j, [status |-> Verdict(w), attempts |-> call[w].row.attempts],
               call[w].row)
  /\ Become(w, Dispatching(IF Verdict(w) = "retrying" THEN {j} ELSE {}))
  /\ UNCHANGED <<redis, history, faults>>

\* The verdict is saved with the rest of the record; a retrying job is dispatched
\* again.
FinishCommit(w) ==
  LET j == call[w].job IN
  /\ call[w].at = "finishCommit"
  /\ Save(j, [status |-> Verdict(w), attempts |-> call[w].row.attempts], call[w].row)
  /\ Become(w, Dispatching(IF Verdict(w) = "retrying" THEN {j} ELSE {}))
  /\ UNCHANGED <<redis, history, faults>>

-----------------------------------------------------------------------------
(* The environment. *)

\* The process dies, or a database error unwinds its call: what it held is gone,
\* the open transaction is rolled back, the loop starts over.
Abort(p) ==
  /\ p \in Abortable
  /\ call[p] # NoCall
  /\ Use("abort")
  /\ abandoned' = abandoned \cup {j \in Jobs : Running(p, j)}
  /\ Become(p, NoCall)
  /\ UNCHANGED <<db, redis, runs, returned>>

\* Redis becomes unreachable; its volume is ephemeral, so it may come back empty.
RedisDown ==
  /\ redisUp
  /\ Use("outage")
  /\ redisUp' = FALSE
  /\ transport' = {} \/ UNCHANGED transport
  /\ UNCHANGED <<db, call, history>>

RedisRecover ==
  /\ ~redisUp
  /\ redisUp' = TRUE
  /\ UNCHANGED <<db, transport, call, history, faults>>

-----------------------------------------------------------------------------
DispatchStep(p) == Push(p) \/ MarkRead(p) \/ MarkCommit(p)

RunStep(w) ==
  \/ ClaimRead(w) \/ ClaimCommit(w) \/ FinishRead(w) \/ FinishCommit(w)
  \/ \E o \in Outcome : Handle(w, o)

Next ==
  \/ \E p \in Procs : DispatchStep(p) \/ Abort(p)
  \/ \E c \in Clients : ReviveCommit(c) \/ \E j \in Jobs : Enqueue(c, j) \/ ReviveRead(c, j)
  \/ \E s \in Sweepers : \E js \in SUBSET Jobs : Sweep(s, js)
  \/ \E w \in Workers : RunStep(w) \/ \E j \in Jobs : Pop(w, j)
  \/ RedisDown \/ RedisRecover

Spec == Init /\ [][Next]_vars

\* A call that has begun goes on; an idle worker polls every half second; Redis
\* is restarted; and the sweep, which runs every minute and lists every old row,
\* eventually takes up a job that keeps waiting.  Nothing forces a request, a
\* retry by an admin, an abort or an outage.
Fairness ==
  /\ \A p \in Procs : WF_vars(DispatchStep(p))
  /\ \A c \in Clients : WF_vars(ReviveCommit(c))
  /\ \A w \in Workers : WF_vars(RunStep(w)) /\ WF_vars(\E j \in Jobs : Pop(w, j))
  /\ \A s \in Sweepers, j \in Jobs :
       SF_vars(\E js \in SUBSET Jobs : j \in js /\ Sweep(s, js))
  /\ WF_vars(RedisRecover)

FairSpec == Spec /\ Fairness

-----------------------------------------------------------------------------
(* Properties. *)

\* A row says "running" only while some worker still has to record how that run
\* ended; the one exception is a job whose worker's call died.  requeue_orphans
\* never looks at running rows, so a running row nobody owns would stay for ever.
RunningIsOwned ==
  \A j \in Jobs :
    db[j].status = "running" =>
      \/ j \in abandoned
      \/ \E w \in Workers : Running(w, j)

\* The ledger's verdict is earned: a job is succeeded only if a run of its
\* handler returned, and dead only if a run failed for good or MaxAttempts runs
\* were really made, however many workers, sweeps and revivals overlapped.
VerdictIsEarned ==
  \A j \in Jobs :
    /\ db[j].status = "succeeded" => "ok" \in returned[j]
    /\ db[j].status = "dead" =>
         \/ "permanent" \in returned[j]
         \/ "failed" \in returned[j] /\ runs[j] >= MaxAttempts

\* The attempt counter never runs ahead of the runs that were made, so a lost
\* update can cost a job extra runs and never one of its attempts.
AttemptsNeverOvercount == \A j \in Jobs : db[j].attempts <= runs[j]

\* A job that entered the ledger, or that an admin revived, is finally settled and
\* stays so: through request threads that die between commit and push ("loses
\* nothing"), Redis outages and a transport that comes back empty.  No endless
\* retry, no sweep that keeps a finished job going.
EveryJobSettles ==
  \A j \in Jobs : (db[j].status # "absent") ~> [](db[j].status \in Terminal)

\* The queue implements the ledger its callers rely on.
Ledger == INSTANCE JobLedger WITH
  accepted <- {j \in Jobs : db[j].status # "absent"},
  verdict <- [j \in Jobs |-> IF db[j].status \in Terminal THEN db[j].status ELSE "open"]

\* Whatever the transport, the workers and the sweeps do, each step is one the
\* ledger allows or changes nothing it shows: no accepted job is forgotten, no
\* run starts on a job without a row, no verdict appears unearned.
LedgerIsKept == Ledger!Spec

\* queue.py on a second delivery of a handled job: "idempotent no-op".  So no run
\* starts on a row that says the job succeeded.
HandledJobIsNotRerun ==
  [][\A j \in Jobs : db[j].status = "succeeded" => runs'[j] = runs[j]]_vars
=============================================================================
