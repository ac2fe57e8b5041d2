----------------------------- MODULE Scheduler -----------------------------
(***************************************************************************)
(* The periodic tasks of CivicLens (app/workers/scheduler.py, with the     *)
(* Redis lock and last-run table of app/workers/redis_backend.py).         *)
(*                                                                         *)
(* Every process with a scheduler loop ticks on its own: it reads the last *)
(* run of each task, makes the list of those that are due, and then goes   *)
(* through that list, taking a lock with a time to live before each task   *)
(* and giving it back after it.  The list is made once, before any lock is *)
(* taken, and the lock is given back by a read and a separate delete.      *)
(*                                                                         *)
(* Time is discrete and relative: what is kept is how long ago a task last *)
(* ran, how long ago a tick read the clock and how long a lock still has   *)
(* to live, each only as far as the code can tell it apart.                *)
(***************************************************************************)
EXTENDS Naturals

CONSTANTS
  Procs,      \* processes with a scheduler loop
  NumTasks,   \* tasks are numbered in the order of AppContainer._tasks
  Interval,   \* the interval of each task
  MinTtl,     \* the least time to live of a lock (30 seconds in the code)
  MaxHold,    \* bound on how long a run of each task takes, its release included
  Horizon,    \* ages of a tick are told apart up to this
  Nobody,     \* the holder of a free lock
  MaxCrashes, \* bounds on the environment: processes that die in mid-tick
  MaxOutages  \*   and last-run writes that fail

Tasks == 1..NumTasks

ASSUME TimeAssumption ==
  /\ NumTasks \in Nat /\ MinTtl \in Nat /\ Horizon \in Nat
  /\ Interval \in [Tasks -> Nat \ {0}]
  /\ MaxHold \in [Tasks -> Nat]
  /\ \A t \in Tasks : Interval[t] <= Horizon
  /\ MaxCrashes \in Nat /\ MaxOutages \in Nat

ASSUME NobodyAssumption == Nobody \notin Procs

VARIABLES
  at,       \* where each process is in its tick
  todo,     \* the due tasks its tick has not come to yet
  cur,      \* the task it runs or has just run
  since,    \* how long ago its tick read the clock
  held,     \* how long ago it took the lock of cur
  owner,    \* the process whose token is in each lock
  lease,    \* how long each lock has to live
  age,      \* how long ago each task last ran, by its last-run entry
  faults,   \* how much of each environment bound is used up
  outlasted \* history: the tasks of which a run, or its release, outlasted its lock

tick == <<at, todo, cur, since, held>>
lock == <<owner, lease>>
vars == <<at, todo, cur, since, held, owner, lease, age, faults, outlasted>>

Least(a, b) == IF a < b THEN a ELSE b

\* The steps between taking a lock and having given it back.
Holding == {"running", "releaseGet", "releaseDel"}
FaultKind == {"crash", "outage"}
Bound == [k \in FaultKind |-> IF k = "crash" THEN MaxCrashes ELSE MaxOutages]

\* The time to live of the lock of t.
Ttl(t) == IF Interval[t] > MinTtl THEN Interval[t] ELSE MinTtl

\* Every variable in its type; a process that goes through its list has a task
\* left on it, and one that holds a lock knows which.
TypeOK ==
  /\ at \in [Procs -> {"idle", "acquire"} \cup Holding]
  /\ todo \in [Procs -> SUBSET Tasks]
  /\ cur \in [Procs -> Tasks \cup {0}]
  /\ since \in [Procs -> 0..Horizon]
  /\ held \in [Procs -> Nat]
  /\ owner \in [Tasks -> Procs \cup {Nobody}]
  /\ lease \in [Tasks -> Nat]
  /\ age \in [Tasks -> Nat]
  /\ faults \in [FaultKind -> Nat]
  /\ outlasted \subseteq Tasks
  /\ \A t \in Tasks : age[t] <= Interval[t] /\ lease[t] <= Ttl(t)
  /\ \A p \in Procs : /\ at[p] = "acquire" => todo[p] # {}
                      /\ at[p] \in Holding => cur[p] \in Tasks

\* A task that has never run is due.
Init ==
  /\ at = [p \in Procs |-> "idle"]
  /\ todo = [p \in Procs |-> {}]
  /\ cur = [p \in Procs |-> 0]
  /\ since = [p \in Procs |-> 0]
  /\ held = [p \in Procs |-> 0]
  /\ owner = [t \in Tasks |-> Nobody]
  /\ lease = [t \in Tasks |-> 0]
  /\ age = [t \in Tasks |-> Interval[t]]
  /\ faults = [k \in FaultKind |-> 0]
  /\ outlasted = {}

Use(k) ==
  /\ faults[k] < Bound[k]
  /\ faults' = [faults EXCEPT ![k] = @ + 1]

-----------------------------------------------------------------------------
(* A tick. *)

Due == {t \in Tasks : age[t] >= Interval[t]}

\* Fault seeded to test TypeOK: the loop does not see the end of its list.
ProceedForever(p, rest) ==
  /\ todo' = [todo EXCEPT ![p] = rest]
  /\ at' = [at EXCEPT ![p] = "acquire"]

\* p goes on with the rest of its list; the end of the list ends the tick.
Proceed(p, rest) ==
  /\ todo' = [todo EXCEPT ![p] = rest]
  /\ at' = [at EXCEPT ![p] = IF rest = {} THEN "idle" ELSE "acquire"]

\* The clock and the last runs are read, and the list is made; a tick with
\* nothing due changes nothing.
Tick(p) ==
  /\ at[p] = "idle"
  /\ Due # {}
  /\ Proceed(p, Due)
  /\ since' = [since EXCEPT ![p] = 0]
  /\ UNCHANGED <<cur, held, lock, age, faults, outlasted>>

First(p, t) == t \in todo[p] /\ \A u \in todo[p] : t <= u

\* Fault seeded to test EveryTaskKeepsRunning: the lock is set without an expiry.
AcquireForever(p, t) ==
  /\ at[p] = "acquire"
  /\ First(p, t)
  /\ owner[t] = Nobody
  /\ owner' = [owner EXCEPT ![t] = p]
  /\ at' = [at EXCEPT ![p] = "running"]
  /\ cur' = [cur EXCEPT ![p] = t]
  /\ todo' = [todo EXCEPT ![p] = @ \ {t}]
  /\ held' = [held EXCEPT ![p] = 0]
  /\ UNCHANGED <<since, lease, age, faults, outlasted>>

\* Fault seeded to test OneRunAtATime: SET without NX.
AcquireOver(p, t) ==
  /\ at[p] = "acquire"
  /\ First(p, t)
  /\ owner' = [owner EXCEPT ![t] = p]
  /\ lease' = [lease EXCEPT ![t] = Ttl(t)]
  /\ at' = [at EXCEPT ![p] = "running"]
  /\ cur' = [cur EXCEPT ![p] = t]
  /\ todo' = [todo EXCEPT ![p] = @ \ {t}]
  /\ held' = [held EXCEPT ![p] = 0]
  /\ UNCHANGED <<since, age, faults, outlasted>>

\* SET key token NX EX ttl succeeds, and the task starts.
Acquire(p, t) ==
  /\ at[p] = "acquire"
  /\ First(p, t)
  /\ owner[t] = Nobody
  /\ owner' = [owner EXCEPT ![t] = p]
  /\ lease' = [lease EXCEPT ![t] = Ttl(t)]
  /\ at' = [at EXCEPT ![p] = "running"]
  /\ cur' = [cur EXCEPT ![p] = t]
  /\ todo' = [todo EXCEPT ![p] = @ \ {t}]
  /\ held' = [held EXCEPT ![p] = 0]
  /\ UNCHANGED <<since, age, faults, outlasted>>

\* The key exists: another instance is running the task.
Skip(p, t) ==
  /\ at[p] = "acquire"
  /\ First(p, t)
  /\ owner[t] # Nobody
  /\ Proceed(p, todo[p] \ {t})
  /\ UNCHANGED <<cur, since, held, lock, age, faults, outlasted>>

\* The task returned or raised: either way its last run is now the time the tick
\* began, which may be older than the entry it replaces.
Finish(p) ==
  /\ at[p] = "running"
  /\ age' = [age EXCEPT ![cur[p]] = Least(since[p], Interval[cur[p]])]
  /\ at' = [at EXCEPT ![p] = "releaseGet"]
  /\ UNCHANGED <<todo, cur, since, held, lock, faults, outlasted>>

\* The last-run entry cannot be written, in the handler of the exception neither:
\* the lock is given back on the way out and the tick is over.
FinishUnrecorded(p) ==
  /\ at[p] = "running"
  /\ Use("outage")
  /\ at' = [at EXCEPT ![p] = "releaseGet"]
  /\ todo' = [todo EXCEPT ![p] = {}]
  /\ UNCHANGED <<cur, since, held, lock, age, outlasted>>

\* release: compare the token in the lock with one's own ...
ReleaseGet(p) ==
  /\ at[p] = "releaseGet"
  /\ IF owner[cur[p]] = p
       THEN at' = [at EXCEPT ![p] = "releaseDel"] /\ UNCHANGED todo
       ELSE Proceed(p, todo[p])
  /\ UNCHANGED <<cur, since, held, lock, age, faults, outlasted>>

\* ... then delete the lock, whoever holds it by now.
ReleaseDel(p) ==
  /\ at[p] = "releaseDel"
  /\ owner' = [owner EXCEPT ![cur[p]] = Nobody]
  /\ lease' = [lease EXCEPT ![cur[p]] = 0]
  /\ Proceed(p, todo[p])
  /\ UNCHANGED <<cur, since, held, age, faults, outlasted>>

-----------------------------------------------------------------------------
(* The environment. *)

\* The process dies, or an error leaves tick: its lock, if it has one, stays.
Crash(p) ==
  /\ at[p] # "idle"
  /\ Use("crash")
  /\ Proceed(p, {})
  /\ UNCHANGED <<cur, since, held, lock, age, outlasted>>

\* The lock of t is gone after the next unit of time, and its owner still relies on it.
Outlasted(t) ==
  lease[t] = 1 /\ \E p \in Procs : owner[t] = p /\ at[p] \in Holding /\ cur[p] = t

\* A unit of time passes: locks whose time is up are gone, whatever their owners do.
Clock ==
  /\ \A p \in Procs : at[p] \in Holding => held[p] < MaxHold[cur[p]]
  /\ owner' = [t \in Tasks |-> IF lease[t] = 1 THEN Nobody ELSE owner[t]]
  /\ lease' = [t \in Tasks |-> IF lease[t] > 0 THEN lease[t] - 1 ELSE 0]
  /\ age' = [t \in Tasks |-> Least(age[t] + 1, Interval[t])]
  /\ since' = [p \in Procs |-> IF at[p] = "idle" THEN since[p]
                               ELSE Least(since[p] + 1, Horizon)]
  /\ held' = [p \in Procs |-> IF at[p] \in Holding THEN held[p] + 1 ELSE held[p]]
  /\ outlasted' = outlasted \cup {t \in Tasks : Outlasted(t)}
  /\ UNCHANGED <<at, todo, cur, faults>>

-----------------------------------------------------------------------------
TickStep(p) ==
  \/ Tick(p) \/ Finish(p) \/ ReleaseGet(p) \/ ReleaseDel(p)
  \/ \E t \in Tasks : Acquire(p, t) \/ Skip(p, t)

Next ==
  \/ \E p \in Procs : TickStep(p) \/ FinishUnrecorded(p) \/ Crash(p)
  \/ Clock

Spec == Init /\ [][Next]_vars

\* A loop polls every fifteen seconds and a tick that has begun goes on; time
\* passes unless a run has reached the longest it takes.
Fairness == WF_vars(Clock) /\ \A p \in Procs : WF_vars(TickStep(p))

FairSpec == Spec /\ Fairness

-----------------------------------------------------------------------------
(* Properties. *)

RunningTask(p, t) == at[p] = "running" /\ cur[p] = t

\* "The lock ensures one runs a given task at a time" (scheduler.py, class
\* SchedulerService): with locks that expire, processes that die holding one and a
\* release in two steps, two processes are never inside the same task, unless a run of
\* that task, or the release after it, has outlasted its lock, which nothing in the code
\* prevents; a run of another task that does so changes nothing.
OneRunAtATime ==
  \A p, q \in Procs, t \in Tasks \ outlasted :
    RunningTask(p, t) /\ RunningTask(q, t) => p = q

\* Every task is started again and again: no lock left by a dead process, no
\* failed write and no other task on the list stops it for good.
EveryTaskKeepsRunning ==
  \A t \in Tasks : []<>(\E p \in Procs : RunningTask(p, t))

\* start_loops promises that a second process "never double-runs" a task: none is
\* started before its interval has passed since its last recorded run.
NeverDoubleRun ==
  [][\A p \in Procs, t \in Tasks :
       ~RunningTask(p, t) /\ RunningTask(p, t)' => age[t] >= Interval[t]]_vars
=============================================================================
