-------------------------- MODULE SchedulerProofs ---------------------------
(***************************************************************************)
(* For any number of processes and tasks, any intervals, any length of     *)
(* runs and any bound on crashes and outages: two processes run the same   *)
(* task at once only if a run of it has outlasted its lock.                *)
(*                                                                         *)
(* OneRunAtATime is not inductive: nothing in it says that a running       *)
(* process still has its lock.  LeaseInv adds that.  Unless a run of the   *)
(* task has outlasted it, a process between taking the lock and having     *)
(* given it back is the one whose token is in it, and what is left of the  *)
(* lock's life and how long it has been held add up to the time to live,   *)
(* so the delete that ends a release takes away no lock but one's own.     *)
(***************************************************************************)
EXTENDS Scheduler, TLAPS

LeaseInv ==
  \A p \in Procs :
    at[p] \in Holding /\ cur[p] \notin outlasted =>
      /\ owner[cur[p]] = p
      /\ lease[cur[p]] > 0
      /\ lease[cur[p]] + held[p] = Ttl(cur[p])

IInv == TypeOK /\ LeaseInv

-----------------------------------------------------------------------------

LEMMA TtlTyping ==
  ASSUME NEW t \in Tasks
  PROVE  Ttl(t) \in Nat /\ Ttl(t) > 0
  BY TimeAssumption DEF Ttl

LEMMA LeastTyping ==
  ASSUME NEW a \in Nat, NEW b \in Nat
  PROVE  Least(a, b) \in Nat /\ Least(a, b) <= a /\ Least(a, b) <= b
  BY DEF Least

LEMMA UseTyping ==
  ASSUME TypeOK, NEW k \in FaultKind, Use(k)
  PROVE  faults' \in [FaultKind -> Nat]
  BY DEF TypeOK, Use

LEMMA ProceedTyping ==
  ASSUME TypeOK, NEW p \in Procs, NEW rest \in SUBSET Tasks, Proceed(p, rest)
  PROVE  /\ at' \in [Procs -> {"idle", "acquire"} \cup Holding]
         /\ todo' \in [Procs -> SUBSET Tasks]
         /\ at'[p] \notin Holding
         /\ at'[p] = "acquire" => todo'[p] # {}
         /\ \A q \in Procs \ {p} : at'[q] = at[q] /\ todo'[q] = todo[q]
  BY DEF TypeOK, Proceed, Holding

-----------------------------------------------------------------------------
(* Type correctness. *)

LEMMA InitType == Init => TypeOK
  <1>1. Init => \A t \in Tasks : age[t] <= Interval[t] /\ lease[t] <= Ttl(t)
    BY TimeAssumption, TtlTyping DEF Init
  <1>2. Init => /\ age \in [Tasks -> Nat] /\ since \in [Procs -> 0..Horizon]
                /\ faults \in [FaultKind -> Nat]
    BY TimeAssumption DEF Init
  <1> QED BY <1>1, <1>2 DEF Init, TypeOK, Holding

LEMMA TickStepType ==
  ASSUME TypeOK, NEW p \in Procs, TickStep(p)
  PROVE  TypeOK'
  <1>1. CASE Tick(p)
    <2>1. Due \in SUBSET Tasks BY DEF Due
    <2>2. Proceed(p, Due) BY <1>1 DEF Tick
    <2>3. since' \in [Procs -> 0..Horizon]
      BY <1>1, TimeAssumption DEF Tick, TypeOK
    <2> QED BY <1>1, <2>1, <2>2, <2>3, ProceedTyping DEF Tick, TypeOK, lock, Holding
  <1>2. CASE Finish(p)
    <2>1. cur[p] \in Tasks /\ since[p] \in 0..Horizon
      BY <1>2 DEF Finish, TypeOK, Holding
    <2>2. since[p] \in Nat /\ Interval[cur[p]] \in Nat
      BY <2>1, TimeAssumption
    <2>3. /\ age' \in [Tasks -> Nat]
          /\ \A t \in Tasks : age'[t] <= Interval[t]
      BY <1>2, <2>1, <2>2, LeastTyping DEF Finish, TypeOK
    <2> QED BY <1>2, <2>1, <2>3 DEF Finish, TypeOK, lock, Holding
  <1>3. CASE ReleaseGet(p)
    <2>1. CASE owner[cur[p]] = p
      BY <1>3, <2>1 DEF ReleaseGet, TypeOK, lock, Holding
    <2>2. CASE owner[cur[p]] # p
      <3>1. Proceed(p, todo[p]) /\ todo[p] \in SUBSET Tasks
        BY <1>3, <2>2 DEF ReleaseGet, TypeOK
      <3> QED BY <1>3, <3>1, ProceedTyping DEF ReleaseGet, TypeOK, lock, Holding
    <2> QED BY <2>1, <2>2
  <1>4. CASE ReleaseDel(p)
    <2>1. Proceed(p, todo[p]) /\ todo[p] \in SUBSET Tasks /\ cur[p] \in Tasks
      BY <1>4 DEF ReleaseDel, TypeOK, Holding
    <2>2. \A t \in Tasks : lease'[t] <= Ttl(t)
      BY <1>4, <2>1, TtlTyping DEF ReleaseDel, TypeOK
    <2> QED BY <1>4, <2>1, <2>2, ProceedTyping DEF ReleaseDel, TypeOK, Holding
  <1>5. ASSUME NEW t \in Tasks, Acquire(p, t)
        PROVE  TypeOK'
    BY <1>5, TtlTyping DEF Acquire, TypeOK, Holding
  <1>6. ASSUME NEW t \in Tasks, Skip(p, t)
        PROVE  TypeOK'
    <2>1. Proceed(p, todo[p] \ {t}) /\ todo[p] \ {t} \in SUBSET Tasks
      BY <1>6 DEF Skip, TypeOK
    <2> QED BY <1>6, <2>1, ProceedTyping DEF Skip, TypeOK, lock, Holding
  <1> QED BY <1>1, <1>2, <1>3, <1>4, <1>5, <1>6 DEF TickStep

LEMMA FaultType ==
  ASSUME TypeOK, NEW p \in Procs, FinishUnrecorded(p) \/ Crash(p)
  PROVE  TypeOK'
  <1>1. CASE FinishUnrecorded(p)
    <2>1. faults' \in [FaultKind -> Nat]
      BY <1>1, UseTyping DEF FinishUnrecorded, FaultKind
    <2> QED BY <1>1, <2>1 DEF FinishUnrecorded, TypeOK, lock, Holding
  <1>2. CASE Crash(p)
    <2>1. faults' \in [FaultKind -> Nat]
      BY <1>2, UseTyping DEF Crash, FaultKind
    <2>2. Proceed(p, {})
      BY <1>2 DEF Crash
    <2> QED BY <1>2, <2>1, <2>2, ProceedTyping DEF Crash, TypeOK, lock, Holding
  <1> QED BY <1>1, <1>2

LEMMA ClockType ==
  ASSUME TypeOK, Clock
  PROVE  TypeOK'
  <1>1. /\ age' \in [Tasks -> Nat]
        /\ \A t \in Tasks : age'[t] <= Interval[t]
    <2>1. \A t \in Tasks : age[t] + 1 \in Nat /\ Interval[t] \in Nat
      BY TimeAssumption DEF TypeOK
    <2> QED BY <2>1, LeastTyping DEF Clock
  <1>2. since' \in [Procs -> 0..Horizon]
    <2>1. \A p \in Procs : since[p] \in 0..Horizon /\ Horizon \in Nat
      BY TimeAssumption DEF TypeOK
    <2>2. \A p \in Procs : since'[p] \in 0..Horizon
      BY <2>1 DEF Clock, Least
    <2> QED BY <2>2 DEF Clock
  <1>3. /\ lease' \in [Tasks -> Nat]
        /\ \A t \in Tasks : lease'[t] <= Ttl(t)
    BY TtlTyping DEF Clock, TypeOK
  <1>4. held' \in [Procs -> Nat] /\ owner' \in [Tasks -> Procs \cup {Nobody}]
    BY DEF Clock, TypeOK
  <1> QED BY <1>1, <1>2, <1>3, <1>4 DEF Clock, TypeOK

LEMMA NextType == TypeOK /\ [Next]_vars => TypeOK'
  <1> SUFFICES ASSUME TypeOK, [Next]_vars PROVE TypeOK'
    OBVIOUS
  <1>1. CASE UNCHANGED vars
    BY <1>1 DEF vars, TypeOK
  <1>2. CASE Next
    BY <1>2, TickStepType, FaultType, ClockType DEF Next
  <1> QED BY <1>1, <1>2

\* Every reachable state of the scheduler is well typed.
THEOREM SchedulerTypeCorrect == Spec => []TypeOK
  BY InitType, NextType, PTL DEF Spec

-----------------------------------------------------------------------------
(* A process inside a task has its lock. *)

LEMMA InitLease == Init => LeaseInv
  BY DEF Init, LeaseInv, Holding

\* What a step of p does to the others: with a lock of their own, nothing.
LEMMA TickStepLease ==
  ASSUME IInv, NEW p \in Procs, TickStep(p)
  PROVE  LeaseInv'
  <1> USE DEF IInv
  <1>1. CASE Tick(p)
    <2>1. Proceed(p, Due) /\ Due \in SUBSET Tasks BY <1>1 DEF Tick, Due
    <2> QED BY <1>1, <2>1, ProceedTyping DEF Tick, LeaseInv, lock
  <1>2. CASE Finish(p)
    BY <1>2 DEF Finish, LeaseInv, TypeOK, lock, Holding
  <1>3. CASE ReleaseGet(p)
    <2>1. CASE owner[cur[p]] = p
      BY <1>3, <2>1 DEF ReleaseGet, LeaseInv, TypeOK, lock, Holding
    <2>2. CASE owner[cur[p]] # p
      <3>1. Proceed(p, todo[p]) /\ todo[p] \in SUBSET Tasks
        BY <1>3, <2>2 DEF ReleaseGet, TypeOK
      <3> QED BY <1>3, <3>1, ProceedTyping DEF ReleaseGet, LeaseInv, lock
    <2> QED BY <2>1, <2>2
  <1>4. CASE ReleaseDel(p)
    <2>1. Proceed(p, todo[p]) /\ todo[p] \in SUBSET Tasks /\ cur[p] \in Tasks
      BY <1>4 DEF ReleaseDel, TypeOK, Holding
    <2>2. cur[p] \notin outlasted => owner[cur[p]] = p
      BY <1>4 DEF ReleaseDel, LeaseInv, Holding
    <2>3. SUFFICES ASSUME NEW q \in Procs, at'[q] \in Holding, cur'[q] \notin outlasted'
                   PROVE  /\ owner'[cur'[q]] = q
                          /\ lease'[cur'[q]] > 0
                          /\ lease'[cur'[q]] + held'[q] = Ttl(cur'[q])
      BY DEF LeaseInv
    <2>4. /\ q # p /\ at'[q] = at[q] /\ cur'[q] = cur[q] /\ held'[q] = held[q]
          /\ cur[q] \notin outlasted
      BY <1>4, <2>1, <2>3, ProceedTyping DEF ReleaseDel
    <2>5. owner[cur[q]] = q /\ cur[q] \in Tasks /\ cur[q] # cur[p]
      BY <2>2, <2>3, <2>4 DEF LeaseInv, TypeOK
    <2> QED BY <1>4, <2>3, <2>4, <2>5 DEF ReleaseDel, LeaseInv, TypeOK
  <1>5. ASSUME NEW t \in Tasks, Acquire(p, t)
        PROVE  LeaseInv'
    <2>1. SUFFICES ASSUME NEW q \in Procs, at'[q] \in Holding, cur'[q] \notin outlasted'
                   PROVE  /\ owner'[cur'[q]] = q
                          /\ lease'[cur'[q]] > 0
                          /\ lease'[cur'[q]] + held'[q] = Ttl(cur'[q])
      BY DEF LeaseInv
    <2>2. CASE q = p
      BY <1>5, <2>2, TtlTyping DEF Acquire, TypeOK
    <2>3. CASE q # p
      <3>1. /\ at'[q] = at[q] /\ cur'[q] = cur[q] /\ held'[q] = held[q]
            /\ cur[q] \notin outlasted
        BY <1>5, <2>1, <2>3 DEF Acquire, TypeOK
      <3>2. owner[cur[q]] = q /\ cur[q] \in Tasks
        BY <2>1, <3>1 DEF LeaseInv, TypeOK
      <3>3. cur[q] # t
        BY <1>5, <3>2, NobodyAssumption DEF Acquire
      <3> QED BY <1>5, <2>1, <3>1, <3>2, <3>3 DEF Acquire, LeaseInv, TypeOK
    <2> QED BY <2>2, <2>3
  <1>6. ASSUME NEW t \in Tasks, Skip(p, t)
        PROVE  LeaseInv'
    <2>1. Proceed(p, todo[p] \ {t}) /\ todo[p] \ {t} \in SUBSET Tasks
      BY <1>6 DEF Skip, TypeOK
    <2> QED BY <1>6, <2>1, ProceedTyping DEF Skip, LeaseInv, lock
  <1> QED BY <1>1, <1>2, <1>3, <1>4, <1>5, <1>6 DEF TickStep

LEMMA FaultLease ==
  ASSUME IInv, NEW p \in Procs, FinishUnrecorded(p) \/ Crash(p)
  PROVE  LeaseInv'
  <1>1. CASE FinishUnrecorded(p)
    BY <1>1 DEF FinishUnrecorded, IInv, LeaseInv, TypeOK, lock, Holding
  <1>2. CASE Crash(p)
    <2>1. Proceed(p, {}) BY <1>2 DEF Crash
    <2> QED BY <1>2, <2>1, ProceedTyping DEF Crash, IInv, LeaseInv, lock
  <1> QED BY <1>1, <1>2

\* The lock of a running process has more than the coming unit of time to live, unless
\* the run outlasts it now.
LEMMA ClockLease ==
  ASSUME IInv, Clock
  PROVE  LeaseInv'
  <1>1. SUFFICES ASSUME NEW q \in Procs, at'[q] \in Holding, cur'[q] \notin outlasted'
                 PROVE  /\ owner'[cur'[q]] = q
                        /\ lease'[cur'[q]] > 0
                        /\ lease'[cur'[q]] + held'[q] = Ttl(cur'[q])
    BY DEF LeaseInv
  <1>2. at[q] \in Holding /\ cur'[q] = cur[q] /\ cur[q] \in Tasks
    BY <1>1 DEF Clock, IInv, TypeOK
  <1>3. /\ cur[q] \notin outlasted /\ ~Outlasted(cur[q])
    BY <1>1, <1>2 DEF Clock
  <1>4. /\ owner[cur[q]] = q
        /\ lease[cur[q]] > 0
        /\ lease[cur[q]] + held[q] = Ttl(cur[q])
    BY <1>2, <1>3 DEF IInv, LeaseInv
  <1>5. lease[cur[q]] \in Nat /\ held[q] \in Nat /\ lease[cur[q]] # 1
    BY <1>2, <1>3, <1>4 DEF IInv, TypeOK, Outlasted
  <1>6. /\ owner'[cur[q]] = owner[cur[q]]
        /\ lease'[cur[q]] = lease[cur[q]] - 1
        /\ held'[q] = held[q] + 1
    BY <1>2, <1>4, <1>5 DEF Clock
  <1> QED BY <1>2, <1>4, <1>5, <1>6, TtlTyping

LEMMA NextInv == IInv /\ [Next]_vars => IInv'
  <1> SUFFICES ASSUME IInv, [Next]_vars PROVE IInv'
    OBVIOUS
  <1>1. TypeOK'
    BY NextType DEF IInv
  <1>2. LeaseInv'
    <2>1. CASE UNCHANGED vars
      BY <2>1 DEF vars, IInv, LeaseInv
    <2>2. CASE Next
      BY <2>2, TickStepLease, FaultLease, ClockLease DEF Next
    <2> QED BY <2>1, <2>2
  <1> QED BY <1>1, <1>2 DEF IInv

\* Two processes inside the same task would both own its lock.
LEMMA LeaseExcludes == IInv => OneRunAtATime
  BY DEF IInv, LeaseInv, OneRunAtATime, RunningTask, Holding

\* The lock ensures that one process runs a given task at a time: through expiry,
\* crashes that leave a lock behind and a release that is not atomic, whatever other
\* tasks do, and for as long as no run of the task has outlasted its lock.
THEOREM OneProcessPerTask == Spec => []OneRunAtATime
  <1>1. Init => IInv
    BY InitType, InitLease DEF IInv
  <1> QED BY <1>1, NextInv, LeaseExcludes, PTL DEF Spec
=============================================================================
