-------------------------- MODULE OutboundDelivery --------------------------
(***************************************************************************)
(* What leaves the server by a background job: an e-mail or a push         *)
(* notification (app/services/notification_service.py, send_email and      *)
(* send_push of app/workers/handlers.py) and a complaint shared with a     *)
(* government platform (app/services/government_service.py).  The three    *)
(* work alike: one transaction queues a row and a job; the job marks the   *)
(* row as being sent and commits, calls the other side outside any         *)
(* transaction, and records the outcome in a second transaction.  A mail   *)
(* and a push are one attempt at the other side; a platform's adapter      *)
(* makes several in one call, all with the same idempotency key, which is  *)
(* a matter of the other side and not modelled.                            *)
(*                                                                         *)
(* Of the queue it assumes what JobLedger promises: a job is run at least  *)
(* once, its runs may overlap, and a run that raises, or whose worker dies *)
(* before the queue has heard of its end, leaves the job to be run again.  *)
(*                                                                         *)
(* One row is followed, of a kind chosen at the start.  For a platform,   *)
(* "sending" is the code's submitting and "delivered" its submitted.       *)
(***************************************************************************)
EXTENDS Naturals

CONSTANTS
  Jobs,     \* the row's jobs, numbered: only a platform's row has several
  Workers   \* threads that run jobs

ASSUME JobsAssumption == Jobs \subseteq Nat

Kinds == {"email", "push", "gov"}

VARIABLES
  kind,      \* what the row is
  row,       \* its state
  jobs,      \* "none", "open" or "closed"
  run,       \* what each worker is doing with a job
  asker,     \* a request to share the complaint, between its read and commit
  accepted,  \* how often the other side took it, counted to two
  disturbed   \* has anything happened that the row cannot tell a run of?

deliveryVars == <<kind, row, jobs, run, asker, accepted, disturbed>>

RowState == {"none", "queued", "sending", "delivered", "failed",
             "not_configured", "consent_required"}
Free == [pc |-> "free"]

\* What a run makes of its call.  "rejected" is a failure that the handler does
\* not raise for: no address, no device, a push service that says no.
Outcomes == {"delivered", "not_configured", "failed", "rejected"}

DeliveryTypeOK ==
  /\ kind \in Kinds
  /\ row \in RowState
  /\ jobs \in [Jobs -> {"none", "open", "closed"}]
  /\ run \in [Workers ->
                [pc : {"mark"}, job : Jobs, seen : RowState]
                \cup [pc : {"send"}, job : Jobs]
                \cup [pc : {"record"}, job : Jobs, outcome : Outcomes]
                \cup [pc : {"return"}, job : Jobs, raises : BOOLEAN]
                \cup {Free}]
  /\ asker \in [pc : {"commit"}, seen : RowState, granted : BOOLEAN] \cup {Free}
  /\ accepted \in 0..2
  /\ disturbed \in BOOLEAN

DeliveryInit ==
  /\ kind \in Kinds
  /\ row = "none"
  /\ jobs = [j \in Jobs |-> "none"]
  /\ run = [w \in Workers |-> Free]
  /\ asker = Free
  /\ accepted = 0
  /\ disturbed = FALSE

-----------------------------------------------------------------------------
(* Queueing. *)

Enqueue(j) ==
  /\ jobs[j] = "none"
  /\ \A i \in Jobs : i < j => jobs[i] # "none"
  /\ jobs' = [jobs EXCEPT ![j] = "open"]

\* notify, for a user who wants e-mail or has a device.  The row's dedupe key lets
\* one such row in.
Notify(j) ==
  /\ kind \in {"email", "push"}
  /\ row = "none"
  /\ Enqueue(j)
  /\ row' = "queued"
  /\ UNCHANGED <<kind, run, asker, accepted, disturbed>>

\* A request reads the row, leaves it alone when it is under way or done, and reads
\* the citizen's latest word on sharing, which changes at any time (set_consent).
ShareReads(granted) ==
  /\ kind = "gov"
  /\ asker = Free
  /\ row \notin {"delivered", "queued", "sending"}
  /\ asker' = [pc |-> "commit", seen |-> row, granted |-> granted]
  /\ UNCHANGED <<kind, row, jobs, run, accepted, disturbed>>

\* It writes the row without looking at it again.
ShareQueues(j) ==
  /\ asker # Free
  /\ asker.granted
  /\ Enqueue(j)
  /\ row' = "queued"
  /\ disturbed' = (disturbed \/ row # asker.seen)
  /\ asker' = Free
  /\ UNCHANGED <<kind, run, accepted>>

ShareDeclines ==
  /\ asker # Free
  /\ row' = IF asker.granted THEN "not_configured" ELSE "consent_required"
  /\ disturbed' = (disturbed \/ row # asker.seen)
  /\ asker' = Free
  /\ UNCHANGED <<kind, jobs, run, accepted>>

-----------------------------------------------------------------------------
(* A run of a job. *)

\* The first transaction reads the row.  Two runs at a time know nothing of each
\* other.
RunJob(w, j) ==
  /\ run[w] = Free
  /\ jobs[j] = "open"
  /\ run' = [run EXCEPT ![w] = [pc |-> "mark", job |-> j, seen |-> row]]
  /\ disturbed' = (disturbed \/ \E v \in Workers : run[v] # Free)
  /\ UNCHANGED <<kind, row, jobs, asker, accepted>>

\* What a run that has read s does: a notification is marked in these states only,
\* and a mail is not sent, nor a complaint shared, that is delivered.  For a push
\* the code has no such test.  A run that has read "sending" writes it back over what
\* was committed since, unless the row, read again, still says so.
MarkedFrom(s) ==
  IF kind # "gov" /\ s \notin {"queued", "sending", "failed"} THEN {row}
  ELSE IF s = "sending" THEN {"sending", row} ELSE {"sending"}

\* Fault seeded to test SentOnce: a mail, too, goes out again when its job is
\* run again.
SkipsNothing(s) == FALSE

Skips(s) == s = "delivered" /\ kind # "push"

\* It commits the mark and goes on to the call.
Mark(w) ==
  /\ run[w].pc = "mark"
  /\ ~Skips(run[w].seen)
  /\ row' \in MarkedFrom(run[w].seen)
  /\ run' = [run EXCEPT ![w] = [pc |-> "send", job |-> run[w].job]]
  /\ UNCHANGED <<kind, jobs, asker, accepted, disturbed>>

Skip(w) ==
  /\ run[w].pc = "mark"
  /\ Skips(run[w].seen)
  /\ run' = [run EXCEPT ![w] = [pc |-> "return", job |-> run[w].job, raises |-> FALSE]]
  /\ UNCHANGED <<kind, row, jobs, asker, accepted, disturbed>>

Calls(w, o) ==
  /\ run[w].pc = "send"
  /\ run' = [run EXCEPT ![w] = [pc |-> "record", job |-> run[w].job, outcome |-> o]]

OneMore == accepted' = IF accepted < 2 THEN accepted + 1 ELSE 2

\* The other side takes it, and the answer says so or is lost.
Accepted(w, o) ==
  /\ o \in {"delivered", "failed"}
  /\ Calls(w, o)
  /\ OneMore
  /\ disturbed' = (disturbed \/ o = "failed")
  /\ UNCHANGED <<kind, row, jobs, asker>>

\* A platform takes it, and the answer is lost on an adapter that posts again before
\* it gives up.
TakenUnheard(w) ==
  /\ kind = "gov"
  /\ run[w].pc = "send"
  /\ OneMore
  /\ disturbed' = TRUE
  /\ UNCHANGED <<kind, row, jobs, run, asker>>

\* Nothing is sent, or it is not taken.
NotAccepted(w, o) ==
  /\ o # "delivered"
  /\ o = "rejected" => kind # "gov"
  /\ Calls(w, o)
  /\ UNCHANGED <<kind, row, jobs, asker, accepted, disturbed>>

\* Fault seeded to test WaitingHasJob: a failure that the handler does not
\* raise for is not written.
RecordedIfRaised(o) == IF o = "rejected" THEN "sending" ELSE o

\* The second transaction writes the outcome over whatever is there.
Recorded(o) == IF o = "rejected" THEN "failed" ELSE o

Record(w) ==
  /\ run[w].pc = "record"
  /\ row' = Recorded(run[w].outcome)
  /\ run' = [run EXCEPT ![w] = [pc |-> "return", job |-> run[w].job,
                                raises |-> run[w].outcome = "failed"]]
  /\ UNCHANGED <<kind, jobs, asker, accepted, disturbed>>

\* The queue hears of the end: a run that failed raised, and its job is put back
\* or given up.
Return(w) ==
  /\ run[w].pc = "return"
  /\ \/ jobs' = [jobs EXCEPT ![run[w].job] = "closed"]
     \/ run[w].raises /\ jobs' = jobs
  /\ run' = [run EXCEPT ![w] = Free]
  /\ UNCHANGED <<kind, row, asker, accepted, disturbed>>

\* The queue gives a job up whose workers have died too often.
GiveUp(j) ==
  /\ jobs[j] = "open"
  /\ jobs' = [jobs EXCEPT ![j] = "closed"]
  /\ disturbed' = TRUE
  /\ UNCHANGED <<kind, row, run, asker, accepted>>

\* A worker dies.  What it has sent and not recorded, nobody knows of.
Die(w) ==
  /\ run[w] # Free
  /\ disturbed' = (disturbed \/ run[w].pc = "record")
  /\ run' = [run EXCEPT ![w] = Free]
  /\ UNCHANGED <<kind, row, jobs, asker, accepted>>

DeliveryNext ==
  \/ ShareDeclines
  \/ \E granted \in BOOLEAN : ShareReads(granted)
  \/ \E j \in Jobs : Notify(j) \/ ShareQueues(j) \/ GiveUp(j)
  \/ \E w \in Workers :
       \/ Mark(w) \/ Skip(w) \/ TakenUnheard(w) \/ Record(w) \/ Return(w) \/ Die(w)
       \/ \E j \in Jobs : RunJob(w, j)
       \/ \E o \in Outcomes : Accepted(w, o) \/ NotAccepted(w, o)

DeliverySpec == DeliveryInit /\ [][DeliveryNext]_deliveryVars

-----------------------------------------------------------------------------
(* Properties. *)

\* A mail is sent, or a complaint shared, no more than once, however often its job
\* fails, is run again or is queued again, unless an answer was lost (within a call,
\* too: the adapter posts again), a worker died between the call and the record, or
\* two runs or a run and a request overlapped; and the row says delivered only when
\* the other side has it (begin_send, finish_email, execute, _call).  A push has no
\* such promise: its job may be run again after the delivery is recorded.
SentOnce ==
  /\ kind # "push" /\ ~disturbed => accepted <= 1
  /\ row = "delivered" => accepted >= 1

\* A row that waits to be sent, or says that it is being sent, has a job that will
\* send it, unless the queue gave it up or there was one of those overlaps: no
\* failure, retry or death of a worker leaves it waiting for nobody.  A request
\* for such a row does nothing (request), so nobody else would.
WaitingHasJob ==
  row \in {"queued", "sending"} /\ ~disturbed => \E j \in Jobs : jobs[j] = "open"
=============================================================================
