# Verification of CivicLens

TLA+ models of the parts of CivicLens that several threads, processes or machines
share, checked by TLC on small instances, with the central properties proved by
TLAPS for every instance. The models are read from the code under `src/app`;
`PROJECT.json` maps each definition to the lines it stands for and lists the runs,
the seeded faults that show the properties can fail, the hazards and the theorems.

Contents: 1 the system, 2 the modules and how they correspond to the code, 3 the
runs, 4 the proofs, 5 what is not modelled, 6 the plan.

## 1. The system

CivicLens takes civic complaints from citizens (web pages in NiceGUI, a React
Native client with an offline queue), routes them to a municipal department,
follows the officers' work, and connects department systems through an
interoperability gateway. One Python program serves requests and can also run
the worker and scheduler loops; a second `worker` process of the same code may
run them as well (`docker-compose.yml`). PostgreSQL holds all records, Redis the
job transport, locks, event bus and limits.

Every service follows one pattern: `with self._uow() as uow: ... uow.commit()`. The
unit of work is one SQLAlchemy session at READ COMMITTED, without row locks and
version columns. A repository copies a row into a record; the service changes the
record; `update` reads the row once more and assigns **every** column. Columns that
end up as they were at that second read are not sent. A commit before the second
read is therefore overwritten by the whole older copy, one after it only in the
columns that the copy has changed. Two overlapping units of
work can therefore overwrite each other's columns, and which ones depends on where
the other commit falls. Jobs and events collected in an `Outbox` are sent after
the commit, when the process may already be gone. These two facts cause most of
the hazards.

| Component | State | Operations | Talks to | What is hard | Correct when |
|---|---|---|---|---|---|
| Background jobs (`workers/queue.py`, `redis_backend.py`, `run.py`) | row per job: status, attempts, run_at; sorted set of ids in Redis | enqueue, dispatch, run_once, requeue_orphans, retry_dead | every service that enqueues; handlers | read and commit are apart; a worker dies after its claim; Redis restarts empty | verdicts are earned by runs, nothing accepted is lost, every job settles |
| Scheduler (`workers/scheduler.py`) | last run per task; Redis lock per task | due, tick, acquire/release | the tasks (orphans, SLA scan, rules, reminders, index) | locks expire in mid-run; due list made before the lock; release in two calls | one run at a time; every task keeps running |
| Complaint lifecycle (`complaint_service.py`, `officer_service.py`, `complaint_status.py`, `sla_workflow.py`) | complaint row; events; feedback; evidence | create, assign, triage, transfer, status changes, escalate, rate, reopen, enrich | workflow rules (same transaction), jobs, notifications | lost updates between overlapping requests; retried submissions | every status is on the timeline, work comes before resolution, filed once |
| Workflow rules (`workflow_service.py`) | execution row per (rule, complaint) | run_for_complaint, sweep | complaints | two sweeps at once; a sweep and a status change at once | a rule runs at most once per complaint |
| Job handlers (`workers/handlers.py`) | none of their own | enrich, evidence, e-mail, push, government, documents | all of the above | run more than once | idempotent |
| Offline drafts (`profile_service.py`, `classic-app/src/offline`, the form in `app/(tabs)/report.tsx`) | phone: drafts and an index; server: draft rows | autosave, submit, sync, discard; background task | complaint filing | lost answers; foreground and background sync at once; a form that saves itself again; overlapping saves and syncs on the server | synced means filed; a transcript is reviewed; a queued draft is finally answered |
| Notifications (`notification_service.py`) | row per message and channel | notify, begin_send, finish_email, finish_push | jobs, SMTP, push | crash between the send and the commit; two runs at once | sent once; a row that waits has a job |
| Government submissions (`government_service.py`) | row per complaint and platform | request, execute | jobs, adapters, consent | two requests, two executions, lost answers | submitted once; a queued one has a job |
| Interoperability gateway (`interop_gateway_service.py`, `interop/identity_resolution.py`) | consents, masters and links, identity candidates, transactions, unified applications | request_document_exchange, grant, deny, revoke, resolve_identity_candidate, reset, set_connector_enabled | connectors, event bus, exceptions | consents, links and applications change while a request runs; two decisions at once | no transfer without a consent, or across two persons; a person is asked once; a ruling holds |
| Interop workflow engine and exception centre (`interop/workflow`, `interop/exceptions`) | instance cursor, step results, approvals; exception records | start, approve, run; retry, resolve | connectors | loops through `on_failure`; retries | a step runs only after its predecessors; resolved stays resolved |
| Event bus, connectors, federation (`interop/events`, `interop/connectors`, `interop/federation`) | connector health, circuit state | publish, call | departments | dropped events | best effort |
| Documents (`document_service.py`, `rag/index.py`) | document row, index chunks | upload, process, retry | jobs, index files | the index changes before the row commits; every process has its own | every web process comes to serve a ready document; bounded attempts |
| RTI applications (`rti_service.py`, `rti_workflow.py`) | application row, reminders sent | draft, generate, file, respond; reminders | notifications | overlapping requests; overlapping reminder runs | what is filed is what was written; a threshold marked is one told |
| Accounts and sessions (`auth_service.py`, `mfa_service.py`) | users, sessions, reset tokens, factors | login, authenticate, logout, change_password, reset_password, change_role, set_active | realtime | a login that overlaps a change; requests that read a session before its revocation | a live session is a current one; a revoked session is dead once no request holds an older copy |
| Limits (`core/rate_limit.py`, `core/redis_limits.py`) | counters and lock-outs | hit, record_failure, check | Redis, fallback in process | expiry between two calls | no more than the limit in a window |
| Realtime (`realtime/`) | connections in memory | connect, deliver, drop_session, sweep | event bus, sessions | asynchronous gaps: a session ends while its client joins or a sweep is under way | delivery is best effort; an ended session loses its connections |
| Administration, investigations, analytics, classification, voice, assistant, legal, canonical model, pages | rows read and saved one at a time, or none | – | – | no protocol | – |

`PROJECT.json` "hazards" gives the places where these go wrong, each with the line
where it bites and the properties that would show it.

## 2. Modules

### JobQueue

Models `JobService` whole. `db` is the committed row of each job (status and
attempts), `transport` the sorted set, `call[p]` the place of process `p` in its
call with the locals that matter: the job in hand, the rest of the list that
`dispatch` goes through, the row its open transaction read and how the handler
ended. `runs`, `returned` and `abandoned` are history.

A Python call is split where another process can get in between: `run_once` is
`Pop`, `ClaimRead`, `ClaimCommit`, `Handle`, `FinishRead`, `FinishCommit`, and then
the dispatch of a job to be retried; `dispatch` is `Push`, `MarkRead`, `MarkCommit` for
each id; `retry_dead` is `ReviveRead`, `ReviveCommit`; `requeue_orphans` is `Sweep` and
a dispatch. `Save` is the repository's `update` with its second read: it leaves
either the whole record or, for a column that the caller did not change, what
somebody committed after that read. At most one other commit around the second
read is told apart. `Abort` is the death of a process or a database error, which
the loops in `run.py` survive by starting over; `RedisDown` and `RedisRecover` are
outages, after which the transport may be empty (it has no volume). Times are left out: any
delay may pass, so a backoff or an orphan's age is always reachable.

### JobLedger

The abstract promise to the services that enqueue: an accepted job stays
accepted, a verdict is earned by the runs of the handler, and a run starts only on
an accepted job. `JobQueue` implements it under the mapping `verdict <- IF
terminal THEN status ELSE "open"` (`LedgerIsKept`). The ledger does not promise
that a verdict is final or that the handler runs once, since the code does not keep
either (finding 1).

### Scheduler

`tick` of several processes: `Tick` reads the clock and makes the list of due tasks,
`Acquire` or `Skip` is the `SET NX EX`, `Finish` records the last run as the time the
tick **began**, `ReleaseGet` and `ReleaseDel` are the two calls of `release`. Time
is discrete and relative: `age` (since the recorded last run), `since` (since the
tick began), `held`, `lease` (what a lock has left). `FinishUnrecorded` is a failing
`set_last_run`, which leaves `tick` through its exception handler; `Crash` ends a
tick and leaves its lock. `MaxHold` bounds how long a run
and its release take, and may exceed the lock's time to live, since the code limits no
run. `outlasted` is history: the tasks of which a run, or its release, was overtaken by
the expiry of its lock (`Outlasted`, at a step of the clock).

### ComplaintLifecycle

One complaint and any number of transactions on it. `row` is the committed row
(status, department, officer, escalation level, whether `resolved_at` is set), `fired`
the committed rows of `workflow_executions`, `rated` the feedback row. Each operation
of the citizen, the officers, the SLA scan, the enrichment job and the rule sweep is
an action that reads the row, decides as the code does and leaves its record in
`txn[p]`; `Write` (or `Insert`) writes it and takes the row's lock, `RunRule` is one
rule of `run_for_complaint` inside the same transaction, `Commit` and `Rollback` end
it. `Saved` is the second read, as in JobQueue. An operation that has no
columns of the model to change still writes the whole record back (`Annotate`,
remarks in `TypedEvent`), and `Triage` writes twice, which leaves nothing of another's
commit. `Insert` waits on the unique key (citizen, client_request_id) and `RunRule`
on the unique key (rule, complaint), as PostgreSQL does; `CommitRating` has the
feedback's primary key.

The escalation level has two independent limits: officers and rules stop at
`MaxLevel` (`MAX_ESCALATION_LEVEL`), the SLA scan (`SlaScan`) at the `max_level` of its
policy (`PolicyLevel`), which an administrator sets without an upper bound. `crossed`
notes that a transaction has written over a row that it had not read: an update was
lost.

Left open (nondeterministic): who may call an operation, whether a complaint is
overdue or within the reopening window, which department routing decides for, and
the conditions of rules other than those of `auto_close`. Left out: texts,
priorities, due times, and the events and notifications that carry no status.

### InteropGateway

The document exchange between Department B, whose applications need a document,
and Department A, which holds it. `links` is the master identity of each record of
both departments (`interop_master_identifiers`), `cands` the identity candidates,
`grants` the consents in the order of their creation, `appDoc` the document status of
Department B's applications, `unified` the unified application's status,
`transferred` the successful transactions, `enabled` the connectors' switch. `req[r]`,
`dec[d]` and `off[o]` are the open transactions of exchange requests, of consent
decisions and resets, and of officers' rulings.

A request is split where a commit of somebody else changes what it does next:
`Begin` (the application and the verdict on the beneficiary), `Flush`, `NoResident`
or `ResolveResident`, `ReadGranted`, `ReadPending`, and `CreateConsent` or `Exchange`. A
consent decision, a ruling and a reset are a read and a commit each: the commit
updates the row by its primary key, whatever has become of it since the read.
Links a request has added are in its own sight at once and in `links` when it
commits (`Sight`, `Commit`); the unique key of a link makes a second one fail
(`Conflict`) or wait (`LinkIsFree`).

**The lock nobody meant.** `connector_runtime.call` counts every call in the
connector's registry row, in the caller's transaction. The first two calls of a
request are to `dept_b`, so the flush after the beneficiary's resolution updates
that row and holds its lock until the request ends (`locker`). From there on
requests run one at a time, and that alone is why a person is not asked twice
(`AtMostOnePending`; the seeded fault `FlushUnlocked` shows it). What comes before
the flush is not covered: two requests that both find no open question about a
beneficiary both add one, and from then on `queue_candidate` raises for that
beneficiary (`Verdicts` gives no answer when there are two open questions).

The similarity score is a free choice among linking, asking and a new identity; the
presence of the document and its quality are a free choice of success or failure.
Left out: exception, event and audit rows, which no operation here reads; the check
of consented fields, because every consent is created with all of them; the
connector's update failing, which the three connectors in the repository cannot do
at that point. One category of document; Department C has no part in it.

### ConsentLedger

The abstract promise to the persons whose documents move: a person is asked once at a
time, an answer changes nothing but the status of the consents it answers, a document
moves only under a consent that its owner once gave, and counts as verified only when it
moved. `InteropGateway` implements it (`ConsentsAreKept`) with the consents as they are,
`given` the ones that have an expiry date (which only a grant writes, and nothing
clears), `moved` the successful transactions, `verified` Department B's verified
applications and `owner` the master that an application's beneficiary is linked to,
`None` for one whose link a reset may clear. The lapse of a consent is not seen. The ledger
promises neither that the consent still holds when the document moves (a revocation may
come between the gateway's read and its commit) nor that a refusal is final (finding 4).

### OfflineDraft

One complaint draft on the phone. `store` is the item under its key (status, whether
the text is typed or a machine's transcript, recording, attachments, whether there is
a server id, whether a backoff runs), `form` and `screen` are the form of `report.tsx`,
`user` a submit between its read and its write, `loop[l]` the two synchronisation
loops, each with the copy of the draft it has listed. `filed` is the complaint the
server holds under this draft's client request id; `taken` is history.

`syncOne` is split at each await after which another writer may have been there:
`Start` (the list), `Begin` (the save of "syncing"), `Transcribe`, `Upload`, `CreateCall`
and `CreateAnswered`; `RetryLater`, `Refused` and `SignedOut` are the three ways a call
fails, and `RetryLater` after `CreateCall` is the lost answer. Every save of a loop
writes its whole copy back, over whatever the form, the Track screen or the other loop
have put there: the busy flag guards the foreground loop only. `Autosave` is the
effect without a dependency list, which runs after every render, also of the result
screen. `Kill` ends the app at any point. Left out: the index of drafts (a second
key, written after the item) and the files of attachments.

### ServerDraft

The draft row on the server under one client request id, with any number of
overlapping `save`, `mark_pending`, `discard` and `sync`. `caller[r]` is what a request
has read; `Update` leaves either the whole copy or what was committed after the second
read in the columns it did not change (`Stored`), and inserts a row again that was
discarded in between.
A sync is `SyncReads`, `SyncCreates` (the complaint is made, or found, in a transaction
of its own) or `SyncRefused`, `SyncRereads` and `SyncRecords`. `reported` is the payload
the complaint was made of. `Drop` is a request that ends early, `mislaid` notes that
requests overlapped or that a sync ended between filing and recording.

### OutboundDelivery

What leaves by a job: an e-mail, a push, or a submission to a government platform,
which the code delivers in the same way. `row` is the state of the notification or
submission, `jobs` its jobs, `run[w]` the run of a worker: `RunJob` reads the row, `Mark`
commits "sending" (or `Skip` finds it delivered), `Accepted` or `NotAccepted` is the
call outside any transaction, `TakenUnheard` a platform that took a post of which the
adapter does not hear, and which it repeats within the call, `Record` the second transaction, `Return` what the queue
hears. A run that raised, or whose worker died, leaves its job open, which is
JobLedger's promise of at least one run. `ShareReads` and `ShareQueues` or `ShareDeclines`
are the citizen's request to share, whose consent is read there and not in the job.
The differences the code makes are kept: a push has no test for a delivered row, a
submission is marked from any state, only an adapter posts again. A run that had read
"sending" writes it back over a later outcome (`MarkedFrom`). What a platform makes of the
idempotency key, which all posts of a submission share, is outside the code. `disturbed` notes what the row cannot tell (an
answer lost, a death between call and record, an overlap, a job given up).

### DocumentIngest

One document: `doc` (status, attempts, `updated_at`), `chunks` in the database, `ingest`
its open jobs, and for every process its transaction (`work`), its index in memory
(`index`) and what its synchroniser has taken up (`seen`). A run is `Load`, `Flush` (which
takes the row's lock, so that a second run waits there with an old copy), `Indexed` or
`Failed` (which change the process's index at once), `CommitRun`. `Rollback` undoes the
row and the chunks and not the index; `Crash` empties the index. `RefreshAdds` and
`RefreshDrops` are the periodic refresh of a process: `Webs` are the processes that
refresh themselves (the sweeper of `main.py`); the others share the scheduler's task and
may never get a turn, `Retry` the endpoint, whose job has the number
of attempts in its key.

### RtiApplication

One application: `rti` is the row (status, draft, reference, letter, receipt and
deadline, thresholds marked), `thread[t]` an open transaction with what it read. Every
request is a read (`RequestReads`) and a commit (`Generate`, `UpdateDraft`, `MarkFiled`,
`MarkResponded`) that leaves the whole copy or, in the columns it did not change, what was
committed after the second read (`Merged`); the reminder run is `RunReads` and `Remind`
with the notification under its dedupe key (`told`). Contents are identities: a letter
is the pair of draft and reference that it was made from. Time is in days. `crossed`
notes that a transaction committed over a row that it had not read.

### AccountSessions

One account with its sessions and reset tokens. A request reads in one action and
commits in another: `LoginReads`, `LoginCommits` (which may write the hash anew, with
today's parameters), `TouchReads`, `LogoutReads` and `SessionCommits`, `ChangePassword`,
`ChangeRole`, `SetActive` and `ReviseCommits`, `ResetReads` and `ResetCommits`. `Updated` is
the repository's update with its second read, so that a request on a session that was
read before its revocation can write `revoked_at = NULL` back; the revocation itself is
one UPDATE of the sessions there are. `overtaken` notes a login that opened a session on an
account which had changed since it was read, an activation that wrote an older row back,
and a request that wrote a revoked session's older copy.

### LiveSockets

The register of live connections of one web process. `client[k]` is how far the
endpoint of a client has come, `conns` the register, `ended` the sessions that have
ended, `drop` and `sweep` the coroutines that close connections, with what is left of
the list each made at its start. They take turns at the awaits: `Arrives` reads the
session and `Joins` registers the client without reading it again; `LogsOut` ends a
session and calls `drop_session`, which the loop starts later (`DropBegins`) and which
awaits each close (`DropCloses`); `Expires` is every other end, which only the sweeper
sees (`SweepBegins`, `SweepAsks`, `SweepEnds`, and `SweepFails` when the database does not
answer). Left out: what the events contain and who may receive them.

### Proof modules

`JobQueueProofs` (with the refinement of JobLedger), `SchedulerProofs`,
`ComplaintProofs`, `InteropGatewayProofs` (with the refinement of ConsentLedger), `OfflineDraftProofs` (the phone's and the
server's draft), `OutboundDeliveryProofs`, `AccountSessionsProofs` and `CityDeskProofs` (RTI
applications, documents, live sockets, and the desk as a whole) hold the theorems of
section 4. The
`MC*` modules name model values, symmetry sets and constraints. `MCCityDesk` takes the
seven components of the citizen's side together: `world`, chosen at the start, says which
of them moves, and the others stay where they begin, so that a behaviour of the module
is a behaviour of one component and each is explored alone. They share no state in
the code, except through the complaint that a draft files (for which ComplaintLifecycle
has `FiledOnce`) and through the queue (JobLedger).

## 3. Runs

| Run | Instance | Checks |
|---|---|---|
| `jobs_safety` | 1 job, 1 request thread, 1 sweeper, 2 workers, 2 attempts, ≤ 3 runs, one fault (an aborted worker or an admin's retry) | `TypeOK`, `RunningIsOwned`, `VerdictIsEarned`, `AttemptsNeverOvercount`, `LedgerIsKept` |
| `jobs_liveness` | 1 job, 1 worker; the request thread may die, Redis may lose everything once | `EveryJobSettles` |
| `jobs_rerun` | 2 workers, no faults | violation of `HandledJobIsNotRerun` |
| `scheduler_locks` | 2 processes, 2 tasks (intervals 1 and 3, least time to live 2; a run of the first may outlast its lock), a crash, a failed write | `TypeOK`, `OneRunAtATime`, `EveryTaskKeepsRunning` |
| `scheduler_doublerun` | the same without faults | violation of `NeverDoubleRun` |
| `complaint_overlap` | 2 processes, 2 departments, 2 officers, officers' limit 1 and policies' limit 2, 2 rules of the sweep (assign, auto-close) | `TypeOK`, `RoutingFits`, `StampMeansResolved`, `SpentCloseRuleClosed`, `RuleRunsOnce`, `FiledOnce`, `StatusWasRecorded`, `WorkPrecedesResolution`, `StatusIsTracedUnlessLost`, `EndIsFinal` |
| `complaint_traces` | 2 processes, 1 department, 1 officer, no escalation, 2 rules (notify, auto-close), no inspection, no rejection | violation of `StatusIsTraced` |
| `gateway_exchange` | 2 requests, 2 deciders, 1 officer, 1 application, 1 beneficiary, 1 resident, 2 masters, 2 candidates, 2 consents; Department A can be switched off | `TypeOK`, `AtMostOnePending`, `RulingsHold`, `VerifiedIsTracked`, `ConsentsAreKept`, `TransferJoinsOnePerson`, `RefusalsSettle` |
| `gateway_refusal` | 2 deciders, 1 request, 1 consent | violation of `RefusalIsFinal` |
| `city_desk` | one component at a time: a phone's draft with 2 loops; a row with 2 jobs and 2 workers; an RTI application with 2 drafts, 2 requests or reminder runs, 2 thresholds; a document with 2 processes and 2 attempts; a server draft with 2 requests, 2 payloads, 2 rows; an account with 2 passwords, 2 roles, 1 session, 1 token, 2 requests; 3 connections of 2 sessions | `DeskTypesOK`; phone: `SyncedIsFiled`, `TranscriptWasSent`; server draft: `SyncedDraftIsFiled`; delivery: `SentOnce`, `WaitingHasJob`; RTI: `FiledAsWritten`, `MarkedMeansTold`; document: `IndexFollowsRow`; account: `LiveSessionsAreCurrent`, `RevocationSettles` |
| `city_desk_liveness` | the phone, the document (one web process, one other) and the connections of `city_desk` | `QueuedIsAnswered`, `ReadyIsServed`, `EndedSocketsFall` |
| `phone_autosave` | the same with one loop | violation of `QueuedIsSent` |

**Bounds.** One job is enough because jobs share nothing but the transport's
availability and the loops' attention; a dispatch of several ids is covered by the
proofs, which have any number. Two workers are the least that can share a stale
row, and with a sweep that pushes an id again they reach every overlap of two
claims; `MaxAttempts = 2` has both the retry and the exhaustion, `MaxRuns = 3` one run
more than the attempts, since a lost update lets a job run more often. Faults
are bounded to one per behaviour in `jobs_safety` (constraint `OneFault`): an
aborted call and a revival in one behaviour are not checked together, and the
proofs, which have no such bound, cover all five properties for them. The scheduler's intervals make one task's lock outlive its interval and the
other's not, which is the distinction `max(interval, 30)` makes. Its horizon is the
longest interval: an older age is due all the same. A run of the
first task may take as long as its lock lives, so that the lock expires under it and
under its release. The complaint's instance needs two departments and two officers for
a transfer that an assignment overlaps, two processes for every overlap, and limits that
differ for the officers and the scan (2.0 million states with the two processes
symmetric). The constraint `OneDetour` takes the ways off the main line one at a time: an
inspection or a rejection, a second department, an escalation, a rating, a lost update.
Each is explored with every overlap on the main line, its reopening included, not with
each other. Whatever the properties promise after a lost update (`RuleRunsOnce`, `FiledOnce`,
`StatusWasRecorded`, `WorkPrecedesResolution`) is so checked behind one, and the proofs have
no such bound. What holds without one holds trivially behind it.

The gateway's instance has one applicant, whose resident has a link from an earlier
exchange (`Known`) and is the one the reset clears (`Ambiguous`), so that linking, asking,
a conflict of two masters and a cleared link all happen (740,000 states). The
constraint `OffEarly` has Department A switched off only while one consent at most was
asked for: the switch is read at one step, which comes before the consents. `TwoAlone` has
two decisions overlap only about the first consent, before any document has moved or any
identity was in question, and with one request at most; one decision overlaps with
everything. `CalmAfterTwo` has two requests overlap, once a second consent was asked for,
only while no identity is in question. The proofs have none of these bounds. The
beneficiary is not the one the reset clears: there a request goes on with a link
that is gone and may meet a new one, and `TransferJoinsOnePerson` says it leaves those
out. Two deciders do not keep `RefusalIsFinal` (finding 4), and keep `RefusalsSettle`. One officer and the
requests already race for a link; the proof has any number.

The seven components of `city_desk` have 1.5 million distinct states together. The phone's
form holds a recording and a photo, the content that goes through every step of a
synchronisation; the typed text takes fewer steps, and the proofs have any contents.
Two loops are all the program has. Two jobs are what a second request to share makes,
and two workers overlap on one of them. One reference tells "its own" from "none"; two
overlapping requests of an RTI application are the least that cross, and the law's
two periods differ by the draft. `MaxAttempts = 2` has the retry and the exhaustion of
a document, and the clock has three values, one more than the attempts. A second row
of a server draft is one made again after a discard. One session and one token are
enough for an account: sessions do not see each other, and a token only starts a change.
Three connections make a sweep and a drop that have several to close, and one that must
stay. `city_desk_liveness` lets only the three components move of which something must
eventually come. Every property of both runs fails under a fault seeded into the code's
model.

**What the escape variables except.** Some promises hold only as long as no transaction
writes over another, because the code takes no lock: `crossed` (complaints, RTI
applications), `disturbed`, `astray`, `mislaid`, `overtaken` and `outlasted` become true at
the step that breaks the rule, and each property says which part it keeps regardless. They
are not assumptions on the schedule: the steps stay in the model, and what follows them is
explored.

- A complaint's routing fits, `resolved_at` follows its status, a spent auto-close rule has
  closed it, its status changes have their events and its end is final, in every overlap
  in which no update is lost. With one each can be lost: a remark that read the row
  before a status change puts the old status back (finding 3), an assignment that overwrites
  a transfer leaves the old department's officer, a reopening overwrites a closing, a
  stale copy revives a closed complaint. What survives is said without exception: one
  filing, a rule once, no status that the timeline lacks, no resolution before the work.
- No task runs twice at once unless its own run or release outlasts its lock.
- A refusal of a consent stays unless a grant had read the consent before
  (`SettledRefusals`, a set of the state and no history).
- A mail or a submission goes out once, and a waiting one has a job, over every retry,
  failure and death of a worker that the row can tell of. Regardless: a row that says
  delivered was taken.
- An RTI letter is of the stored draft and a filed application has its deadline. With an
  update lost a deadline can be erased. Regardless: a marked threshold is told.
- A process that is not processing a document has it in its index only when it is ready.
  Regardless: a ready document has its chunks.
- A server draft shows what was filed. Regardless: a synced draft has its complaint.
- A live session is current. A session that was revoked, and that no request had read
  before, stays revoked. A request that had read it can revive it: the bare claim that
  "logout, password change and password reset revoke server-side sessions"
  (`auth_service.py:8`) does not hold against such a request.

**Fairness.** JobQueue: weak fairness of a call's own steps (threads go on), of `Pop` (a
worker polls every half second), of `RedisRecover` (the service has a restart
policy); strong fairness of the sweep per job, because it runs every minute and lists
every waiting row old enough, and a row that keeps coming back is listed again and
again. Nothing forces requests, revivals, aborts or outages. In `jobs_liveness` a
worker does not die in mid-run: a row it leaves `running` is listed by no sweep
and stays so, which `RunningIsOwned` makes explicit by its exception `abandoned`.
Scheduler: weak fairness of the clock and of each process's steps (a loop polls
every fifteen seconds); crashes and outages are bounded, not fair. ComplaintLifecycle
has no liveness property: nothing obliges anybody to act on a complaint. OfflineDraft:
weak fairness of the end of a backoff (time passes), of some loop's start (the phone
reconnects, the app comes to the front, the system runs the task), of each loop's own
steps; calls may fail and the app be killed any number of times, but finally the
connection is back and the app is left alone (`<>[][~Setback]`), without which nothing can
be promised. The form's closing is not fair, so `QueuedIsAnswered` speaks of closed forms
only. DocumentIngest: weak fairness of the index refresh in each web process, whose sweeper
runs it every 30 s whatever the last one did; not in the others, since the scheduler's last
run and lock are shared and one process may win every interval; nothing forces a document to be processed. LiveSockets: weak
fairness of the sweeper, which `main.py` restarts every 30 s whatever the last sweep
did, and finally the database answers it (`<>[][~SweepFails]`); clients, logouts and the
coroutines of `drop_session` are not fair, so the sweeper alone must do.

**Findings.** (1) `jobs_rerun`: `run_once` reads the row and claims it later without a
condition, so a handler is started on a row that already says `succeeded`, where the
comment promises a no-op. (2) `scheduler_doublerun`: the due list is not re-checked
under the lock, so a second process runs a task again as soon as the first gives
the lock back, where `run.py` says it never double-runs them. (3) `complaint_traces`:
whole-record writes put an older status back without an event, where
`complaint_status.py` says nothing changes without a trace. (4) `gateway_refusal`: a
grant that read the request as pending commits after a denial and replaces it, where
`interop_gateway_service.py` says an admin does not silently override a citizen's
decision. (5) `phone_autosave`: the form behind the result screen saves itself again as
a draft over the item that was just queued, and no loop looks for drafts, where the
screen (`report.tsx:183`) says that the complaint will be sent automatically.

Deadlock is checked except for JobQueue, which stops when all jobs are settled and
its bounds are used up, and for the citizen's desk, whose components stop likewise (an
application that was answered, a row that is delivered and whose jobs are closed).

## 4. Proofs

All theorems hold for every value of the constants that satisfies the named
assumptions, which TLC evaluates on every run.

- `JobQueueProofs`: `TypeCorrect`, `RunningIsAlwaysOwned`, `AttemptsAreNeverOvercounted`
  and `VerdictsAreEarned`, from `ProcessesAssumption` and `BoundsAssumption`.
  `RunningIsOwned` is not inductive by itself: a worker that finishes with a copy that
  does not say `running` may leave a `running` that somebody else has committed, so
  it is no owner. `OwnerInv` counts only workers that have not re-read the row, or
  re-read it as `running` and therefore write something else. The other two rest on
  `WorkInv`: what each call holds agrees with the ledger (its jobs have rows, its copy
  counts no more attempts than there were runs, the outcome it is about to record was
  returned). `StatusStep` then says that only the end of a run settles a row.
- `JobQueueProofs` also has `QueueImplementsLedger`, the refinement `LedgerIsKept`: under
  `WorkInv` each step is a step of `JobLedger` or a stutter. An insert is `Accept`, a
  claim `Start`, a handler's end `Return`, a verdict `Settle`; a dispatch that writes
  `queued` over a settled row, a retry and a revival are `Reopen`.
- `SchedulerProofs`: `SchedulerTypeCorrect` and `OneProcessPerTask`, from
  `TimeAssumption` and `NobodyAssumption`, for runs of any length. The invariant: whoever is
  between taking the lock of a task and having given it back owns it, unless the task is
  `outlasted`. A clock step that takes a lock from such a process makes it so, and a
  delete of somebody else's lock needs an expiry under a release.
- `ComplaintProofs`, over any number of overlapping processes: `ComplaintTypeCorrect`,
  `RulesRunOnce`, `StatusesAreRecorded`, `ComplaintsAreFiledOnce` and `WorkIsRecorded`,
  from `StaffAssumption` and `RulesAssumption`. `RulesRunOnce` rests on `ClaimInv`: the
  claims of open transactions are disjoint from each other and from the committed
  ones. `StatusesAreRecorded` rests on `RecordInv`: the status of every record in
  flight is that of an event its transaction has added, or is the one it read,
  which was recorded already. `FiledOnce` needs `FiledInv`: the transaction
  that files a complaint holds the place of the row and there is none yet, and no
  other is past its read before there is one. `WorkPrecedesResolution` needs `WorkInv`:
  what the events of an open transaction say happened includes what it needs, in
  the timeline or among those events.
  `RoutingAlwaysFits`, `StampsMeanResolved`, `CloseRulesClose`, `StatusChangesAreTraced` and
  `EndsAreFinal`, also for any number of processes, rest on `SoundInv`: as long as nothing
  is crossed, every record in flight fits and has the events of its change of status
  (`SoundTxn`), the transaction that holds the row's lock has made its record from the row as
  it is, and nobody else has claimed an auto-close rule; so each of the properties carries
  over from the record to the row at the commit.
- `InteropGatewayProofs`: `TypeCorrect`, `AskedOnce`, `MovesWithConsent`, `OfficersWord`,
  `VerifiedIsTrackedAlways` and `GatewayImplementsLedger`, from `RecordsAssumption` and `NullsAssumption`. The
  type needs `NamedInv` (a request past its flush has a master, one that transfers
  has a consent). `AskedOnce` rests on `LockInv` (a request past its flush holds the
  registry row) and `CreateInv` (one about to create a consent has found none
  pending, and nobody else can have added one). `MovesWithConsent` rests on `GrantInv`: a
  consent keeps, in any status, the expiry that only a grant writes. It states
  `TransferHadConsent`, which the refinement contains and no run checks by itself.
  `OfficersWord` rests on `CandInv` (a candidate an officer has read keeps its record
  and master) and on `KeepsLinks`: a request replaces no link there is, since one
  in its own sight only fills a gap. `OnePersonIsJoined` (`TransferJoinsOnePerson`)
  rests on `JoinInv`: once a request has resolved the identities, the master it holds
  is its beneficiary's, and its resident's link is the same or has been cleared.
  `GatewayImplementsLedger` (`ConsentsAreKept`) adds to all of these that the consent a
  request carries is its master's (`OwnInv`): a creation is then `Ask`, a grant `Give`, a denial, a
  revocation and a reset `Refuse`, a transfer `Move`, and every step keeps the owners that
  are known (`Identify`), since only a reset takes a link away. `RefusalsSettleAlways` (`RefusalsSettle`), for
  any number of deciders, needs the types only: a grant begins with a pending consent, so
  with none that is refused, and a commit of anything else writes a refusal.
- `OfflineDraftProofs`: `PhoneTypes`, `SyncedDraftsAreFiled`, `TranscriptsAreTakenUp` from
  `ContentsAssumption`, and `DraftTypes`, `ServerDraftsAreFiled` from `DraftAssumption`.
  On the phone the truth follows the copies: what holds of the stored item holds of
  every copy that a submit or a loop may still write back whole (`UserSound`,
  `LoopSound`): its transcript has been taken up, and a loop's copy is never synced.
  On the server, as long as nothing is mislaid, a complaint that is filed is recorded
  or in the hands of one sync (`InHand`), and a sync that has a complaint holds the
  payload it was made of (`Carried`).
- `OutboundDeliveryProofs`: `DeliveryTypes`, `NothingIsSentTwice` and `WaitingRowsHaveJobs`,
  from `JobsAssumption`. As long as nothing has disturbed the row there is one run at
  a time, so its place and the row determine how often the other side was called;
  and what a run or a request has read is still so when it writes.
- `AccountSessionsProofs`: `AccountTypes`, `SessionsAreCurrent` and `RevocationsSettle`,
  which need no assumption on the constants. What is missing for induction is what the
  requests carry: a login has read an active account, a request on a session has read
  one that was opened, and a change that revokes nothing only activates. A session that
  no request under way has read is written by revocations only, which gives
  `RevocationsSettle`.

- `CityDeskProofs`: `FiledAsWrittenHolds` and `MarkedMeansToldHolds`, from
  `RtiAssumption`. Both rest on `RtiInv`, whose core is about the copies of open
  transactions (`CopiesSound`): their marks are told, because nothing takes a
  notification back, so that even an old copy written back whole marks only what is told.
  The lemma `CommitKeeps` says once what a commit keeps, for any record written: as long as
  nothing is crossed it leaves the copy (`MergedColumns`), and every operation then shows
  that what it writes is whole (`Whole`) when what was read was.
  `IndexFollowsRowHolds`, from `DocumentAssumption`, rests on `DocumentInv`: a run past its
  first flush holds the row (`RunSound`), so there is one, and unless it is astray it has
  read the row as it is, which therefore is not ready; one that is about to commit a
  failure has left the index. The number of open jobs is bounded by the keys of the
  retries (`JobsCounted`, with the cardinalities of the library). The assumption says
  `MaxAttempts > 0` (the code has 3): with none, an uploaded document's job has nothing to
  do, and the third part of the property is false.
  `DeskTypes` (`DeskTypesOK`): every behaviour of the desk is one of each component
  (`DeskRunsTheComponents`), so its types are theirs; the lemma carries every other
  theorem about a component over to the behaviours that `city_desk` explores.

Every invariant and every action property that a passing run checks is so a theorem.
Only model-checked is liveness (`EveryJobSettles`, `EveryTaskKeepsRunning`,
`QueuedIsAnswered`, `ReadyIsServed`, `EndedSocketsFall`), which this prover does not do.
Each inductive invariant was first checked as an invariant of the run of its module.

## 5. Not modelled

Text processing, language models, retrieval, OCR, maps, charts and pages: pure I/O
or presentation without a protocol. Permissions: they restrict who calls an
operation, and the models let anybody. Analytics and administration: reads and
single-row saves. Contents of events, audit and notifications. Several complaints
in one sweep (one transaction over all of them): the deadlocks and the all-or-nothing
of such a batch appear on one complaint as `Rollback`.

The interop workflow engine is started by no request or job: the application
registers and lists its definitions, and only tests and the demonstration run one, so
there is no schedule of the code to model it under. The same holds for the subscriber
of the interop event bus. The exception centre is a list that nothing reads back.
Rate limits and throttles make fewer calls happen, and the models allow every call.
What realtime events contain and who may receive them is a pure function. Second factor: a login does not
ask for it. Evidence and duplicate reviews are rows beside a complaint that no
operation of its lifecycle reads.

Two hazards have no property. Consent to share is read when a submission is requested
and not when its job runs, and no document says that it must be read again. Two
requests that find no open question about a beneficiary both add one: the model of the
gateway has it, and what follows (requests that raise) is no promise of the code.

## 6. The order of the work, and what could follow

Done: JobQueue and JobLedger; Scheduler; ComplaintLifecycle; InteropGateway and ConsentLedger; then the
citizen's desk: OfflineDraft, ServerDraft, OutboundDelivery, DocumentIngest,
RtiApplication, AccountSessions, LiveSockets.

Could follow:

1. OutboundDelivery over JobQueue itself instead of over its promise, with the Outbox's
   crash after the commit.
2. The phone's index of drafts, and the upload of several attachments.
3. SLA due times, quality score, identity score and backoff as operators against
   reference definitions.
