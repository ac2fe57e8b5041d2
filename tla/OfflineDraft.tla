---------------------------- MODULE OfflineDraft ----------------------------
(***************************************************************************)
(* One complaint draft on the phone (classic-app/src/offline) and what      *)
(* reads and writes it: the form that autosaves it                          *)
(* (classic-app/app/(tabs)/report.tsx), the citizen's Send, Retry and      *)
(* Delete on the Track screen, the foreground synchronisation and the one  *)
(* the system runs in the background.  The two loops share the store and   *)
(* nothing else: the busy flag guards the foreground one only.  Each works *)
(* on the copy it has listed and saves that copy whole after every step.   *)
(*                                                                         *)
(* A save replaces the stored item at once; that the index of drafts is    *)
(* another key, written after it, is left out.  The drafts of a phone have *)
(* only that index and the sign-in in common, so one draft is enough.      *)
(*                                                                         *)
(* The form holds what it held when the draft was first saved; an edit is  *)
(* an autosave of something else.                                          *)
(*                                                                         *)
(* Kept of an item: its status, whether its text is typed or a machine's   *)
(* transcript, its recording, its attachments, whether it has a server id, *)
(* and whether its next attempt is in the future.  Being offline is a loop *)
(* that does not start, or a call that fails.                              *)
(***************************************************************************)
EXTENDS Naturals

CONSTANTS
  Loops,      \* "fore" and "back"
  Contents    \* what the form may hold when it is saved

ContentSet == [text : {"none", "typed"}, voice : {"none", "recorded"},
               att : {"none", "todo"}]

ASSUME ContentsAssumption ==
  /\ Contents \subseteq ContentSet
  /\ \A c \in Contents : c.text = "typed" \/ c.voice = "recorded"

VARIABLES
  store,    \* the stored item, or NoItem
  form,     \* what the form holds, or Closed
  screen,   \* what the form's screen shows
  user,     \* a submit: idle, before its read, or between its read and write
  loop,     \* the synchronisation loops
  filed,    \* the text of the complaint the server holds for this draft
  taken     \* has a submit read the transcript?

phoneVars == <<store, form, screen, user, loop, filed, taken>>

Item == [status : {"draft", "pending", "syncing", "needs_review", "failed", "synced"},
         text : {"none", "typed", "machine"},
         voice : {"none", "recorded", "transcribed"},
         att : {"none", "todo", "done"}, sid : BOOLEAN, later : BOOLEAN]
NoItem == [status |-> "absent"]
Closed == [text |-> "closed"]
Resting == [pc |-> "idle"]

PhoneTypeOK ==
  /\ store \in Item \cup {NoItem}
  /\ form \in Contents \cup {Closed}
  /\ screen \in {"editing", "sending", "queued", "review"}
  /\ user \in [pc : {"get"}] \cup [pc : {"put"}, copy : Item] \cup {Resting}
  /\ loop \in [Loops -> [pc : {"begin", "call", "filed"}, copy : Item] \cup {Resting}]
  /\ filed \in {"no", "none", "typed", "machine"}
  /\ taken \in BOOLEAN

PhoneInit ==
  /\ store = NoItem
  /\ form \in Contents
  /\ screen = "editing"
  /\ user = Resting
  /\ loop = [l \in Loops |-> Resting]
  /\ filed = "no"
  /\ taken = FALSE

Queued == store.status \in {"pending", "syncing"}

-----------------------------------------------------------------------------
(* The form and the citizen. *)

BuildDraft(c) == [status |-> "draft", text |-> c.text, voice |-> c.voice,
                  att |-> c.att, sid |-> FALSE, later |-> FALSE]

\* The effect that runs 800 ms after every render, for as long as the form is
\* mounted, its result screen included.  It looks at nothing that is stored.
Autosave ==
  /\ form # Closed
  /\ store' = BuildDraft(form)
  /\ UNCHANGED <<form, screen, user, loop, filed, taken>>

\* Submit on the form saves what the form holds and then queues it.
FormSubmit ==
  /\ form # Closed
  /\ screen = "editing"
  /\ user = Resting
  /\ store' = BuildDraft(form)
  /\ screen' = "sending"
  /\ user' = [pc |-> "get"]
  /\ UNCHANGED <<form, loop, filed, taken>>

\* The draft is there and has a text or a recording.
Sendable == store # NoItem /\ (store.text # "none" \/ store.voice # "none")

\* DraftStore.submit reads the draft: for the form, or for Send on a Track screen
\* that may show the draft as it was some time ago.
SubmitReads ==
  /\ user.pc \in {"idle", "get"}
  /\ Sendable
  /\ user' = [pc |-> "put", copy |-> store]
  /\ taken' = (taken \/ store.voice = "transcribed")
  /\ UNCHANGED <<store, form, screen, loop, filed>>

SubmitFails ==
  /\ user.pc = "get"
  /\ ~Sendable
  /\ user' = Resting
  /\ screen' = "editing"
  /\ UNCHANGED <<store, form, loop, filed, taken>>

SubmitWrites ==
  /\ user.pc = "put"
  /\ store' = [user.copy EXCEPT !.status = "pending", !.later = FALSE]
  /\ user' = Resting
  /\ UNCHANGED <<form, screen, loop, filed, taken>>

\* What the form shows of its submit: at once when the phone is offline, after the
\* synchronisation it started when it is not.  A complaint that was sent replaces
\* the form by its own page; a refusal leaves the form as it was.
Outcome ==
  CASE store.status = "needs_review" -> "review"
    [] store.status = "failed" -> "editing"
    [] OTHER -> "queued"

ShowResult ==
  /\ form # Closed
  /\ screen = "sending"
  /\ user = Resting
  /\ IF store.status = "synced"
       THEN form' = Closed /\ screen' = "editing"
       ELSE form' = form /\ screen' = Outcome
  /\ UNCHANGED <<store, user, loop, filed, taken>>

\* Delete on the Track screen.
Remove ==
  /\ store # NoItem
  /\ store' = NoItem
  /\ UNCHANGED <<form, screen, user, loop, filed, taken>>

CloseForm ==
  /\ form # Closed
  /\ form' = Closed
  /\ screen' = "editing"
  /\ UNCHANGED <<store, user, loop, filed, taken>>

\* The system ends the app: what is in memory is gone.
Kill ==
  /\ form' = Closed
  /\ screen' = "editing"
  /\ user' = Resting
  /\ loop' = [l \in Loops |-> Resting]
  /\ UNCHANGED <<store, filed, taken>>

-----------------------------------------------------------------------------
(* Synchronisation: syncAll, syncOne, retryLater. *)

\* Fault seeded to test QueuedIsAnswered: a draft is taken up only when it is
\* pending.
StartPendingOnly(l) ==
  /\ loop[l] = Resting
  /\ store.status = "pending"
  /\ ~store.later
  /\ loop' = [loop EXCEPT ![l] = [pc |-> "begin", copy |-> store]]
  /\ UNCHANGED <<store, form, screen, user, filed, taken>>

\* syncAll lists the drafts that are queued and due.
Start(l) ==
  /\ loop[l] = Resting
  /\ Queued
  /\ ~store.later
  /\ loop' = [loop EXCEPT ![l] = [pc |-> "begin", copy |-> store]]
  /\ UNCHANGED <<store, form, screen, user, filed, taken>>

\* A loop saves its copy d and goes on with it, or has done.
SavesOn(l, d) ==
  /\ store' = d
  /\ loop' = [loop EXCEPT ![l] = [pc |-> "call", copy |-> d]]
  /\ UNCHANGED <<form, screen, user, filed, taken>>

SavesLast(l, d) ==
  /\ store' = d
  /\ loop' = [loop EXCEPT ![l] = Resting]
  /\ UNCHANGED <<form, screen, user, filed, taken>>

Begin(l) ==
  /\ loop[l].pc = "begin"
  /\ SavesOn(l, [loop[l].copy EXCEPT !.status = "syncing"])

\* Fault seeded to test TranscriptWasSent: the transcript goes on without a
\* review.
ReviewableUnreviewed(d) == [d EXCEPT !.voice = "transcribed", !.status = "pending",
                              !.text = IF d.text = "none" THEN "machine" ELSE d.text]

\* The transcript becomes the text only where there is none, and the draft waits
\* for a review.
Reviewable(d) == [d EXCEPT !.voice = "transcribed", !.status = "needs_review",
                           !.text = IF d.text = "none" THEN "machine" ELSE d.text]

Transcribe(l) ==
  /\ loop[l].pc = "call"
  /\ loop[l].copy.voice = "recorded"
  /\ SavesLast(l, Reviewable(loop[l].copy))

\* An attachment's evidence id is saved as soon as it is there.
Upload(l) ==
  /\ loop[l].pc = "call"
  /\ loop[l].copy.voice # "recorded"
  /\ loop[l].copy.att = "todo"
  /\ SavesOn(l, [loop[l].copy EXCEPT !.att = "done"])

\* The server creates the complaint, or finds the one this draft's id has made
\* before (ComplaintService.create and its client_request_id).
CreateCall(l) ==
  /\ loop[l].pc = "call"
  /\ loop[l].copy.voice # "recorded"
  /\ loop[l].copy.att # "todo"
  /\ filed' = IF filed = "no" THEN loop[l].copy.text ELSE filed
  /\ loop' = [loop EXCEPT ![l].pc = "filed"]
  /\ UNCHANGED <<store, form, screen, user, taken>>

CreateAnswered(l) ==
  /\ loop[l].pc = "filed"
  /\ SavesLast(l, [loop[l].copy EXCEPT !.status = "synced", !.sid = TRUE, !.later = FALSE])

\* Fault seeded to test SyncedIsFiled: an answer that does not come is taken
\* for a success.
RetryLaterHopeful(l) ==
  /\ loop[l].pc \in {"call", "filed"}
  /\ SavesLast(l, [loop[l].copy EXCEPT !.status = "synced", !.sid = TRUE])

\* A network error, a 5xx or a 429; the answer to create may be lost.
RetryLater(l) ==
  /\ loop[l].pc \in {"call", "filed"}
  /\ SavesLast(l, [loop[l].copy EXCEPT !.status = "pending", !.later = TRUE])

\* Any other 4xx, or a transcription that came to nothing.
Refused(l) ==
  /\ loop[l].pc = "call"
  /\ SavesLast(l, [loop[l].copy EXCEPT !.status = "failed"])

\* A 401: the draft stays queued and the loop ends.
SignedOut(l) ==
  /\ loop[l].pc = "call"
  /\ SavesLast(l, [loop[l].copy EXCEPT !.status = "pending"])

BackoffEnds ==
  /\ store # NoItem
  /\ store.later
  /\ store' = [store EXCEPT !.later = FALSE]
  /\ UNCHANGED <<form, screen, user, loop, filed, taken>>

PhoneNext ==
  \/ Autosave \/ FormSubmit \/ SubmitReads \/ SubmitFails \/ SubmitWrites
  \/ ShowResult \/ Remove \/ CloseForm \/ Kill \/ BackoffEnds
  \/ \E l \in Loops :
       \/ Start(l) \/ Begin(l) \/ Transcribe(l) \/ Upload(l) \/ CreateCall(l)
       \/ CreateAnswered(l) \/ RetryLater(l) \/ Refused(l) \/ SignedOut(l)

PhoneSpec == PhoneInit /\ [][PhoneNext]_phoneVars

\* A loop starts whenever one can (the phone reconnects, the app comes to the
\* front, the system runs the background task) and goes on, and a backoff ends.
\* Calls may fail and the app may be killed any number of times, but finally the
\* connection is back and the app left alone.
GoesOn(l) ==
  Begin(l) \/ Transcribe(l) \/ Upload(l) \/ CreateCall(l) \/ CreateAnswered(l)

Setback == Kill \/ \E l \in Loops : RetryLater(l) \/ SignedOut(l)

PhoneFairness ==
  /\ WF_phoneVars(BackoffEnds)
  /\ WF_phoneVars(\E l \in Loops : Start(l))
  /\ \A l \in Loops : WF_phoneVars(GoesOn(l))
  /\ <>[][~Setback]_phoneVars

-----------------------------------------------------------------------------
(* Properties. *)

\* A draft is shown as synced only when the server holds a complaint for it,
\* whatever the loops, the form and the kills have done in between (queue.ts,
\* "Nothing here ever claims a server submission").
SyncedIsFiled == store.status = "synced" => store.sid /\ filed # "no"

\* A transcript that no citizen typed reaches the server only after a submit of
\* the citizen's has taken it up: neither loop sends it on its own (sync.ts,
\* "never auto-submit an unreviewed transcript").
TranscriptWasSent == filed = "machine" => taken

\* Once the form is closed, a complaint does not stay queued: it is sent, refused,
\* put up for review or deleted, and no order of failures, backoffs and kills
\* leaves it waiting (sync.ts, syncAll and its due test).
QueuedIsAnswered == []<>(form = Closed => ~Queued)

\* What the form's result screen says to a citizen whose complaint is queued:
\* "Your complaint is saved on this device and will be sent automatically when
\* the connection returns" (report.tsx:183).
QueuedIsSent ==
  (screen = "queued" /\ Queued) ~>
    (store.status \in {"synced", "failed", "needs_review", "absent"})
=============================================================================
