--------------------------- MODULE RtiApplication ---------------------------
(***************************************************************************)
(* A citizen's application under the Right to Information Act              *)
(* (RtiService of app/services/rti_service.py) and the reminders of its    *)
(* deadline (app/services/rti_workflow.py).                                *)
(*                                                                         *)
(* Every operation is one READ COMMITTED transaction that reads the row    *)
(* without a lock and decides on a copy; the update reads the row again    *)
(* and writes every column of the copy that differs from that              *)
(* (SqlRtiRepository).  The scheduled reminder run is such a transaction   *)
(* too, and may overlap with another when its lock expires.                *)
(*                                                                         *)
(* Drafts, references and letters are identities: a letter is the draft    *)
(* and the reference it was made from.  Time is counted in days.  The      *)
(* owner has not muted deadline notifications.                             *)
(***************************************************************************)
EXTENDS Integers, FiniteSets

CONSTANTS
  Drafts,        \* contents a valid draft may have
  LifeOrLiberty, \* those that concern life or liberty
  LifeDays, ResponseDays,  \* how long the authority has
  Thresholds,    \* reminder_days
  Threads,       \* requests and reminder runs that may overlap
  MaxRefs,       \* bound on the references ever generated
  MaxDay         \* bound on the clock

ASSUME RtiAssumption ==
  /\ LifeOrLiberty \subseteq Drafts
  /\ LifeDays \in Nat /\ ResponseDays \in Nat
  /\ Thresholds \subseteq Nat
  /\ MaxRefs \in Nat /\ MaxDay \in Nat

VARIABLES
  rti,         \* the row, or NoApp
  thread,      \* what each transaction has read
  refs,        \* how many references were generated
  now,         \* the day
  told,        \* the thresholds the owner has a notification of
  crossed      \* has a transaction committed over a row it had not read?

rtiVars == <<rti, thread, refs, now, told, crossed>>

Days == 0..MaxDay
None == -1
NoApp == [status |-> "absent"]
NoText == [draft |-> "none"]
Letter == [draft : Drafts, ref : 1..MaxRefs]

App == [status : {"draft", "generated", "filed", "responded"}, draft : Drafts,
        ref : 0..MaxRefs, text : Letter \cup {NoText},
        received : Days \cup {None}, due : Int, sent : SUBSET Thresholds]

Waiting == [pc |-> "waiting"]
Copies == [pc : {"request"}, app : App]
          \cup [pc : {"remind"}, app : App, at : Days]

RtiTypeOK ==
  /\ rti \in App \cup {NoApp}
  /\ thread \in [Threads -> Copies \cup {Waiting}]
  /\ refs \in 0..MaxRefs
  /\ now \in Days
  /\ told \subseteq Thresholds
  /\ crossed \in BOOLEAN

RtiInit ==
  /\ rti = NoApp
  /\ thread = [t \in Threads |-> Waiting]
  /\ refs = 0
  /\ now = 0
  /\ told = {}
  /\ crossed = FALSE

Create(d) ==
  /\ rti = NoApp
  /\ rti' = [status |-> "draft", draft |-> d, ref |-> 0, text |-> NoText,
             received |-> None, due |-> None, sent |-> {}]
  /\ UNCHANGED <<thread, refs, now, told, crossed>>

Tick ==
  /\ now < MaxDay
  /\ now' = now + 1
  /\ UNCHANGED <<rti, thread, refs, told, crossed>>

-----------------------------------------------------------------------------
(* The owner's requests. *)

RequestReads(t) ==
  /\ thread[t] = Waiting
  /\ rti # NoApp
  /\ thread' = [thread EXCEPT ![t] = [pc |-> "request", app |-> rti]]
  /\ UNCHANGED <<rti, refs, now, told, crossed>>

\* What the update leaves of the row.  A commit just before the second read is
\* overwritten by the whole copy, one just after it keeps the columns in which the
\* copy is as it was first read.
Merged(read, written) ==
  {written, [c \in DOMAIN read |-> IF written[c] # read[c] THEN written[c] ELSE rti[c]]}

Commit(t, written) ==
  /\ rti' \in Merged(thread[t].app, written)
  /\ thread' = [thread EXCEPT ![t] = Waiting]
  /\ crossed' = (crossed \/ rti # thread[t].app)

Editable(t) ==
  /\ thread[t].pc = "request"
  /\ thread[t].app.status \in {"draft", "generated"}

\* Fault seeded to test FiledAsWritten: the letter of the earlier draft stays.
UpdateDraftOnly(t, d) ==
  /\ Editable(t)
  /\ Commit(t, [thread[t].app EXCEPT !.draft = d])
  /\ UNCHANGED <<refs, now, told>>

UpdateDraft(t, d) ==
  /\ Editable(t)
  /\ Commit(t, [thread[t].app EXCEPT !.draft = d, !.status = "draft", !.text = NoText])
  /\ UNCHANGED <<refs, now, told>>

\* An application keeps the reference it has.
Generate(t) ==
  /\ Editable(t)
  /\ \E r \in 1..MaxRefs :
       /\ IF thread[t].app.ref = 0
            THEN r = refs + 1 /\ refs' = r
            ELSE r = thread[t].app.ref /\ refs' = refs
       /\ Commit(t, [thread[t].app EXCEPT !.status = "generated", !.ref = r,
                       !.text = [draft |-> thread[t].app.draft, ref |-> r]])
  /\ UNCHANGED <<now, told>>

Deadline(received, d) ==
  received + (IF d \in LifeOrLiberty THEN LifeDays ELSE ResponseDays)

\* The receipt is today's, or a past one the owner names.
MarkFiled(t, received) ==
  /\ thread[t].pc = "request"
  /\ thread[t].app.status = "generated"
  /\ received <= now
  /\ Commit(t, [thread[t].app EXCEPT !.status = "filed", !.received = received,
                  !.due = Deadline(received, thread[t].app.draft)])
  /\ UNCHANGED <<refs, now, told>>

MarkResponded(t) ==
  /\ thread[t].pc = "request"
  /\ thread[t].app.status = "filed"
  /\ Commit(t, [thread[t].app EXCEPT !.status = "responded"])
  /\ UNCHANGED <<refs, now, told>>

\* A request that is refused, fails or only reads.
Abandon(t) ==
  /\ thread[t] # Waiting
  /\ thread' = [thread EXCEPT ![t] = Waiting]
  /\ UNCHANGED <<rti, refs, now, told, crossed>>

-----------------------------------------------------------------------------
(* The reminder run. *)

\* The thresholds that are reached and not marked; a passed deadline has none.
Reached(app, at) ==
  {h \in Thresholds : app.due >= at /\ app.due - at <= h /\ h \notin app.sent}

RunReads(t) ==
  /\ thread[t] = Waiting
  /\ rti.status = "filed"
  /\ thread' = [thread EXCEPT ![t] = [pc |-> "remind", app |-> rti, at |-> now]]
  /\ UNCHANGED <<rti, refs, now, told, crossed>>

\* Fault seeded to test MarkedMeansTold: every threshold that is reached is
\* marked, the widest notified.
RemindOfAll(t, h) ==
  /\ thread[t].pc = "remind"
  /\ h \in Reached(thread[t].app, thread[t].at)
  /\ \A k \in Reached(thread[t].app, thread[t].at) : k <= h
  /\ told' = told \cup {h}
  /\ Commit(t, [thread[t].app EXCEPT !.sent = @ \cup Reached(thread[t].app, thread[t].at)])
  /\ UNCHANGED <<refs, now>>

\* One run takes the widest threshold.  The notification's dedupe key is the
\* application and the threshold: a second one is not added, and marked all the
\* same.
Remind(t, h) ==
  /\ thread[t].pc = "remind"
  /\ h \in Reached(thread[t].app, thread[t].at)
  /\ \A k \in Reached(thread[t].app, thread[t].at) : k <= h
  /\ told' = told \cup {h}
  /\ Commit(t, [thread[t].app EXCEPT !.sent = @ \cup {h}])
  /\ UNCHANGED <<refs, now>>

RtiNext ==
  \/ Tick
  \/ \E d \in Drafts : Create(d)
  \/ \E t \in Threads :
       \/ RequestReads(t) \/ Generate(t) \/ MarkResponded(t) \/ Abandon(t) \/ RunReads(t)
       \/ \E d \in Drafts : UpdateDraft(t, d)
       \/ \E r \in Days : MarkFiled(t, r)
       \/ \E h \in Thresholds : Remind(t, h)

RtiSpec == RtiInit /\ [][RtiNext]_rtiVars

-----------------------------------------------------------------------------
(* Properties. *)

\* What was filed is what was written: from filing on there is a letter, made of
\* the stored draft, with the deadline that draft has by law, and a letter always
\* carries the stored reference.  It takes requests that do not write over one
\* another: an edit that overlaps the filing can erase the deadline (generate,
\* update_draft, mark_filed).
FiledAsWritten == rti # NoApp /\ ~crossed =>
  /\ rti.text # NoText => rti.text.ref = rti.ref /\ rti.text.draft = rti.draft
  /\ rti.status \in {"filed", "responded"} =>
       rti.text # NoText /\ rti.due = Deadline(rti.received, rti.draft)

\* Every threshold marked as sent has its notification, even when runs overlap, a
\* run fails or a request commits in between; and unless a transaction has written
\* over another, every notification is marked, so that nobody is reminded twice,
\* and is of an application that was filed (RtiReminderService.run).
MarkedMeansTold == rti # NoApp =>
  /\ rti.sent \subseteq told
  /\ ~crossed /\ told # {} =>
       rti.sent = told /\ rti.status \in {"filed", "responded"}
=============================================================================
