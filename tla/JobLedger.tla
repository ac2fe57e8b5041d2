----------------------------- MODULE JobLedger ------------------------------
(***************************************************************************)
(* What the job queue promises the services that enqueue into it, with the *)
(* transport, the transactions and the workers abstracted away: a job that *)
(* was accepted stays accepted, its handler is run at least once before a  *)
(* verdict, the verdict is one the runs have earned, and it comes.  How    *)
(* often the handler runs is not promised, nor that a verdict is never     *)
(* taken back: handlers are expected to be idempotent (queue.py, the       *)
(* docstring of retry_dead).                                               *)
(***************************************************************************)
EXTENDS Naturals

CONSTANTS Jobs, MaxAttempts

VARIABLES
  accepted,   \* jobs with a row in the ledger
  verdict,    \* "open" until a job is settled
  runs,       \* how often its handler was started
  returned    \* how those runs ended

vars == <<accepted, verdict, runs, returned>>

Verdict == {"open", "succeeded", "dead"}
Outcome == {"ok", "failed", "permanent"}

Init ==
  /\ accepted = {}
  /\ verdict = [j \in Jobs |-> "open"]
  /\ runs = [j \in Jobs |-> 0]
  /\ returned = [j \in Jobs |-> {}]

Accept(j) ==
  /\ j \notin accepted
  /\ accepted' = accepted \cup {j}
  /\ UNCHANGED <<verdict, runs, returned>>

\* A run starts on an accepted job; while it runs the job is open.
Start(j) ==
  /\ j \in accepted
  /\ runs' = [runs EXCEPT ![j] = @ + 1]
  /\ verdict' = [verdict EXCEPT ![j] = "open"]
  /\ UNCHANGED <<accepted, returned>>

Return(j, o) ==
  /\ runs[j] > 0
  /\ returned' = [returned EXCEPT ![j] = @ \cup {o}]
  /\ UNCHANGED <<accepted, verdict, runs>>

\* The two verdicts and what each of them takes.
Earned(j, v) ==
  \/ v = "succeeded" /\ "ok" \in returned[j]
  \/ v = "dead" /\ "permanent" \in returned[j]
  \/ v = "dead" /\ "failed" \in returned[j] /\ runs[j] >= MaxAttempts

Settle(j, v) ==
  /\ Earned(j, v)
  /\ verdict' = [verdict EXCEPT ![j] = v]
  /\ UNCHANGED <<accepted, runs, returned>>

\* The job is put back: by an admin, or because two transactions overlapped.
Reopen(j) ==
  /\ verdict[j] # "open"
  /\ verdict' = [verdict EXCEPT ![j] = "open"]
  /\ UNCHANGED <<accepted, runs, returned>>

Next == \E j \in Jobs :
  \/ Accept(j) \/ Start(j) \/ Reopen(j)
  \/ \E o \in Outcome : Return(j, o)
  \/ \E v \in Verdict : Settle(j, v)

Spec == Init /\ [][Next]_vars
=============================================================================
