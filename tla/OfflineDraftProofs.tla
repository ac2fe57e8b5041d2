------------------------- MODULE OfflineDraftProofs -------------------------
(***************************************************************************)
(* What holds of a draft, on the phone for any number of loops and any     *)
(* contents of the form, and on the server for any number of requests and  *)
(* any payloads: its types, that a draft shown as synced is filed, and on  *)
(* the phone that a transcript is sent only after a submit has taken it up.*)
(*                                                                         *)
(* On the phone the invariant follows the copies: an item is stored, or is *)
(* held by a submit or by a loop, and each of these writes its copy back   *)
(* whole.  What is true of the stored item can only be kept if it is true  *)
(* of the copies too: a copy in the hands of a loop, or of a submit that   *)
(* has read it, holds a transcript only if a submit has taken that up.     *)
(*                                                                         *)
(* On the server it follows the complaint from its creation to the record: *)
(* as long as nothing is mislaid, a complaint that is filed is recorded,   *)
(* or in the hands of one sync (InHand), and a sync that has a complaint   *)
(* holds the payload it was made of, or the draft is synced by now         *)
(* (Carried).                                                              *)
(***************************************************************************)
EXTENDS OfflineDraft, ServerDraft, TLAPS

\* An item whose transcript a submit has taken up.
TakenUp(d) ==
  /\ d.text = "machine" => d.voice = "transcribed"
  /\ d.voice = "transcribed" => taken

StoreSound == store # NoItem =>
  /\ store.text = "machine" => store.voice = "transcribed"
  /\ store.voice = "transcribed" /\ store.status # "needs_review" => taken
  /\ store.status = "synced" => store.sid /\ filed # "no"

UserSound == user.pc = "put" => TakenUp(user.copy)

LoopSound == \A l \in Loops : loop[l] # Resting =>
  /\ TakenUp(loop[l].copy)
  /\ loop[l].copy.status # "synced"
  /\ loop[l].pc = "filed" => filed # "no"

FiledSound == filed = "machine" => taken

PhoneInv == PhoneTypeOK /\ StoreSound /\ UserSound /\ LoopSound /\ FiledSound

\* What the form saves is an item that holds no transcript.
LEMMA BuildDraftSound ==
  ASSUME NEW c \in Contents
  PROVE  /\ BuildDraft(c) \in Item
         /\ BuildDraft(c).text # "machine" /\ BuildDraft(c).voice # "transcribed"
         /\ BuildDraft(c).status = "draft"
  BY ContentsAssumption DEF BuildDraft, Item, ContentSet

\* The item or the absence of one can be told by the status.
LEMMA NoItemOutside == NoItem \notin Item
  BY DEF NoItem, Item

LEMMA ClosedOutside == Closed \notin Contents
  BY ContentsAssumption DEF Closed, ContentSet

\* A loop that saves a copy which a submit has taken up keeps the invariant.
LEMMA SavesOnKeeps ==
  ASSUME PhoneInv, NEW l \in Loops, NEW d \in Item, TakenUp(d), d.status # "synced",
         SavesOn(l, d)
  PROVE  PhoneInv'
  <1>1. PhoneTypeOK'
    BY DEF PhoneInv, PhoneTypeOK, SavesOn
  <1>2. StoreSound'
    BY DEF PhoneInv, SavesOn, StoreSound, TakenUp
  <1>3. LoopSound'
    BY DEF PhoneInv, PhoneTypeOK, SavesOn, LoopSound, TakenUp
  <1>4. UserSound' /\ FiledSound'
    BY DEF PhoneInv, SavesOn, UserSound, FiledSound, TakenUp
  <1> QED BY <1>1, <1>2, <1>3, <1>4 DEF PhoneInv

\* So does one that saves its last copy and has done, be the copy put up for review.
LEMMA SavesLastKeeps ==
  ASSUME PhoneInv, NEW l \in Loops, NEW d \in Item,
         d.text = "machine" => d.voice = "transcribed",
         d.voice = "transcribed" /\ d.status # "needs_review" => taken,
         d.status = "synced" => d.sid /\ filed # "no",
         SavesLast(l, d)
  PROVE  PhoneInv'
  <1>1. PhoneTypeOK'
    BY DEF PhoneInv, PhoneTypeOK, SavesLast
  <1>2. StoreSound'
    BY DEF PhoneInv, SavesLast, StoreSound
  <1>3. LoopSound'
    BY DEF PhoneInv, PhoneTypeOK, SavesLast, LoopSound, TakenUp
  <1>4. UserSound' /\ FiledSound'
    BY DEF PhoneInv, SavesLast, UserSound, FiledSound, TakenUp
  <1> QED BY <1>1, <1>2, <1>3, <1>4 DEF PhoneInv

\* A loop at work holds an item.
LEMMA LoopHolds ==
  ASSUME PhoneInv, NEW l \in Loops, loop[l].pc \in {"begin", "call", "filed"}
  PROVE  /\ loop[l] \in [pc : {"begin", "call", "filed"}, copy : Item]
         /\ loop[l] # Resting
         /\ loop[l].copy \in Item
         /\ TakenUp(loop[l].copy) /\ loop[l].copy.status # "synced"
  <1>1. loop[l] # Resting
    BY DEF Resting
  <1> QED BY <1>1 DEF PhoneInv, PhoneTypeOK, LoopSound

\* Changes of an item's status, and of other fields the invariant does not read.
LEMMA Restatused ==
  ASSUME NEW d \in Item,
         NEW s \in {"draft", "pending", "syncing", "needs_review", "failed", "synced"},
         NEW later \in BOOLEAN, NEW sid \in BOOLEAN
  PROVE  /\ [d EXCEPT !.status = s] \in Item
         /\ [d EXCEPT !.status = s, !.later = later] \in Item
         /\ [d EXCEPT !.status = s, !.sid = sid, !.later = later] \in Item
         /\ [d EXCEPT !.att = "done"] \in Item
         /\ [d EXCEPT !.later = later] \in Item
  BY DEF Item

-----------------------------------------------------------------------------
(* The form and the citizen. *)

\* The form saves over whatever is stored.
LEMMA FormSaves ==
  ASSUME PhoneInv, form # Closed, store' = BuildDraft(form),
         screen' \in {"editing", "sending", "queued", "review"},
         user' = user \/ user' = [pc |-> "get"],
         UNCHANGED <<form, loop, filed, taken>>
  PROVE  PhoneInv'
  <1>1. form \in Contents
    BY DEF PhoneInv, PhoneTypeOK
  <1>2. PhoneTypeOK'
    BY <1>1, BuildDraftSound DEF PhoneInv, PhoneTypeOK
  <1>3. StoreSound'
    BY <1>1, BuildDraftSound DEF StoreSound
  <1>4. UserSound'
    BY DEF PhoneInv, UserSound, TakenUp
  <1>5. LoopSound' /\ FiledSound'
    BY DEF PhoneInv, LoopSound, FiledSound, TakenUp
  <1> QED BY <1>2, <1>3, <1>4, <1>5 DEF PhoneInv

LEMMA SubmitReadsKeeps == PhoneInv /\ SubmitReads => PhoneInv'
  <1> SUFFICES ASSUME PhoneInv, SubmitReads PROVE PhoneInv'
    OBVIOUS
  <1>1. store \in Item
    BY DEF PhoneInv, PhoneTypeOK, SubmitReads, Sendable
  <1>2. PhoneTypeOK'
    BY <1>1 DEF PhoneInv, PhoneTypeOK, SubmitReads
  <1>3. UserSound'
    BY <1>1, NoItemOutside DEF PhoneInv, StoreSound, UserSound, TakenUp, SubmitReads
  <1>4. StoreSound' /\ LoopSound' /\ FiledSound'
    BY DEF PhoneInv, StoreSound, LoopSound, FiledSound, TakenUp, SubmitReads
  <1> QED BY <1>2, <1>3, <1>4 DEF PhoneInv

LEMMA SubmitWritesKeeps == PhoneInv /\ SubmitWrites => PhoneInv'
  <1> SUFFICES ASSUME PhoneInv, SubmitWrites PROVE PhoneInv'
    OBVIOUS
  <1> DEFINE d == [user.copy EXCEPT !.status = "pending", !.later = FALSE]
  <1>1. user.copy \in Item /\ TakenUp(user.copy)
    BY DEF PhoneInv, PhoneTypeOK, UserSound, SubmitWrites, Resting
  <1>2. /\ d \in Item
        /\ d.status = "pending" /\ d.text = user.copy.text /\ d.voice = user.copy.voice
    BY <1>1 DEF Item
  <1>3. store' = d
    BY DEF SubmitWrites
  <1> HIDE DEF d
  <1>4. PhoneTypeOK'
    BY <1>2, <1>3 DEF PhoneInv, PhoneTypeOK, SubmitWrites
  <1>5. StoreSound'
    BY <1>1, <1>2, <1>3 DEF StoreSound, TakenUp, SubmitWrites
  <1>6. UserSound'
    BY DEF UserSound, SubmitWrites, Resting
  <1>7. LoopSound' /\ FiledSound'
    BY DEF PhoneInv, LoopSound, FiledSound, TakenUp, SubmitWrites
  <1> QED BY <1>4, <1>5, <1>6, <1>7 DEF PhoneInv

\* What only the user, the screen and the form notice.
LEMMA ScreenStepKeeps ==
  ASSUME PhoneInv, SubmitFails \/ ShowResult \/ CloseForm
  PROVE  PhoneInv'
  <1>1. /\ UNCHANGED <<store, loop, filed, taken>>
        /\ user' = user \/ user' = Resting
        /\ form' = form \/ form' = Closed
        /\ screen' \in {"editing", "sending", "queued", "review"}
    BY DEF SubmitFails, ShowResult, CloseForm, Outcome
  <1>2. PhoneTypeOK'
    BY <1>1 DEF PhoneInv, PhoneTypeOK
  <1>3. UserSound'
    BY <1>1 DEF PhoneInv, UserSound, TakenUp, Resting
  <1>4. StoreSound' /\ LoopSound' /\ FiledSound'
    BY <1>1 DEF PhoneInv, StoreSound, LoopSound, FiledSound, TakenUp
  <1> QED BY <1>2, <1>3, <1>4 DEF PhoneInv

LEMMA RemoveKeeps == PhoneInv /\ Remove => PhoneInv'
  <1> SUFFICES ASSUME PhoneInv, Remove PROVE PhoneInv'
    OBVIOUS
  <1>1. PhoneTypeOK' /\ StoreSound'
    BY DEF PhoneInv, PhoneTypeOK, StoreSound, Remove
  <1>2. UserSound' /\ LoopSound' /\ FiledSound'
    BY DEF PhoneInv, UserSound, LoopSound, FiledSound, TakenUp, Remove
  <1> QED BY <1>1, <1>2 DEF PhoneInv

LEMMA KillKeeps == PhoneInv /\ Kill => PhoneInv'
  <1> SUFFICES ASSUME PhoneInv, Kill PROVE PhoneInv'
    OBVIOUS
  <1>1. PhoneTypeOK'
    BY DEF PhoneInv, PhoneTypeOK, Kill
  <1>2. UserSound' /\ LoopSound'
    BY DEF UserSound, LoopSound, Kill, Resting
  <1>3. StoreSound' /\ FiledSound'
    BY DEF PhoneInv, StoreSound, FiledSound, Kill
  <1> QED BY <1>1, <1>2, <1>3 DEF PhoneInv

LEMMA BackoffEndsKeeps == PhoneInv /\ BackoffEnds => PhoneInv'
  <1> SUFFICES ASSUME PhoneInv, BackoffEnds PROVE PhoneInv'
    OBVIOUS
  <1> DEFINE d == [store EXCEPT !.later = FALSE]
  <1>1. store \in Item /\ store # NoItem
    BY DEF PhoneInv, PhoneTypeOK, BackoffEnds
  <1>2. /\ d \in Item
        /\ d.status = store.status /\ d.text = store.text /\ d.voice = store.voice
        /\ d.sid = store.sid
    BY <1>1 DEF Item
  <1>3. store' = d
    BY DEF BackoffEnds
  <1> HIDE DEF d
  <1>4. PhoneTypeOK'
    BY <1>2, <1>3 DEF PhoneInv, PhoneTypeOK, BackoffEnds
  <1>5. StoreSound'
    BY <1>1, <1>2, <1>3 DEF PhoneInv, StoreSound, BackoffEnds
  <1>6. UserSound' /\ LoopSound' /\ FiledSound'
    BY DEF PhoneInv, UserSound, LoopSound, FiledSound, TakenUp, BackoffEnds
  <1> QED BY <1>4, <1>5, <1>6 DEF PhoneInv

-----------------------------------------------------------------------------
(* The loops. *)

LEMMA StartKeeps ==
  ASSUME PhoneInv, NEW l \in Loops, Start(l)
  PROVE  PhoneInv'
  <1>1. store \in Item /\ store # NoItem /\ TakenUp(store) /\ store.status # "synced"
    BY NoItemOutside
    DEF PhoneInv, PhoneTypeOK, StoreSound, TakenUp, Start, Queued, NoItem
  <1>2. PhoneTypeOK'
    BY <1>1 DEF PhoneInv, PhoneTypeOK, Start
  <1>3. LoopSound'
    BY <1>1 DEF PhoneInv, PhoneTypeOK, LoopSound, TakenUp, Start
  <1>4. StoreSound' /\ UserSound' /\ FiledSound'
    BY DEF PhoneInv, StoreSound, UserSound, FiledSound, TakenUp, Start
  <1> QED BY <1>2, <1>3, <1>4 DEF PhoneInv

LEMMA CreateCallKeeps ==
  ASSUME PhoneInv, NEW l \in Loops, CreateCall(l)
  PROVE  PhoneInv'
  <1>1. /\ loop[l] \in [pc : {"begin", "call", "filed"}, copy : Item]
        /\ loop[l].copy \in Item /\ TakenUp(loop[l].copy) /\ loop[l] # Resting
        /\ loop[l].copy.status # "synced"
    BY LoopHolds DEF CreateCall
  <1>2. filed' \in {"none", "typed", "machine"}
    BY <1>1 DEF CreateCall, PhoneInv, PhoneTypeOK, Item
  <1>3. loop' \in [Loops -> [pc : {"begin", "call", "filed"}, copy : Item] \cup {Resting}]
    BY <1>1 DEF CreateCall, PhoneInv, PhoneTypeOK
  <1>4. PhoneTypeOK'
    BY <1>2, <1>3 DEF PhoneInv, PhoneTypeOK, CreateCall
  <1>5. FiledSound'
    BY <1>1 DEF PhoneInv, FiledSound, TakenUp, CreateCall
  <1>6. LoopSound'
    <2> SUFFICES ASSUME NEW k \in Loops, loop'[k] # Resting
                 PROVE  /\ TakenUp(loop'[k].copy) /\ filed' # "no"
                        /\ loop'[k].copy.status # "synced"
      BY <1>2 DEF LoopSound, TakenUp, CreateCall
    <2>1. loop'[k].copy = loop[k].copy /\ loop[k] # Resting
      BY <1>1 DEF CreateCall, PhoneInv, PhoneTypeOK
    <2> QED BY <1>2, <2>1 DEF PhoneInv, LoopSound, TakenUp, CreateCall
  <1>7. StoreSound' /\ UserSound'
    BY <1>2 DEF PhoneInv, StoreSound, UserSound, TakenUp, CreateCall
  <1> QED BY <1>4, <1>5, <1>6, <1>7 DEF PhoneInv

\* The steps of a loop that save its copy.
LEMMA SavingStepKeeps ==
  ASSUME PhoneInv, NEW l \in Loops,
         \/ Begin(l) \/ Transcribe(l) \/ Upload(l) \/ CreateAnswered(l)
         \/ RetryLater(l) \/ Refused(l) \/ SignedOut(l)
  PROVE  PhoneInv'
  <1> DEFINE c == loop[l].copy
  <1>1. loop[l].pc \in {"begin", "call", "filed"}
    BY DEF Begin, Transcribe, Upload, CreateAnswered, RetryLater, Refused, SignedOut
  <1>2. loop[l] # Resting /\ c \in Item /\ TakenUp(c) /\ c.status # "synced"
    BY <1>1, LoopHolds
  <1>3. CASE Begin(l)
    <2> DEFINE d == [c EXCEPT !.status = "syncing"]
    <2>1. d \in Item /\ TakenUp(d) /\ d.status # "synced"
      BY <1>2 DEF Item, TakenUp
    <2>2. SavesOn(l, d)
      BY <1>3 DEF Begin
    <2> QED BY <2>1, <2>2, SavesOnKeeps
  <1>4. CASE Transcribe(l)
    <2> DEFINE d == Reviewable(c)
    <2>1. /\ d \in Item
          /\ d.voice = "transcribed" /\ d.status = "needs_review"
      BY <1>2 DEF Item, Reviewable
    <2>2. SavesLast(l, d)
      BY <1>4 DEF Transcribe
    <2> HIDE DEF d
    <2> QED BY <2>1, <2>2, SavesLastKeeps
  <1>5. CASE CreateAnswered(l)
    <2> DEFINE d == [c EXCEPT !.status = "synced", !.sid = TRUE, !.later = FALSE]
    <2>1. d \in Item /\ TakenUp(d) /\ d.sid
      BY <1>2 DEF Item, TakenUp
    <2>2. filed # "no"
      BY <1>2, <1>5 DEF CreateAnswered, PhoneInv, LoopSound
    <2>3. SavesLast(l, d)
      BY <1>5 DEF CreateAnswered
    <2> HIDE DEF d
    <2> QED BY <2>1, <2>2, <2>3, SavesLastKeeps DEF TakenUp
  <1>6. CASE Upload(l)
    <2> DEFINE d == [c EXCEPT !.att = "done"]
    <2>1. d \in Item /\ TakenUp(d) /\ d.status # "synced"
      BY <1>2 DEF Item, TakenUp
    <2>2. SavesOn(l, d)
      BY <1>6 DEF Upload
    <2> HIDE DEF d
    <2> QED BY <2>1, <2>2, SavesOnKeeps
  <1>7. CASE RetryLater(l)
    <2> DEFINE d == [c EXCEPT !.status = "pending", !.later = TRUE]
    <2>1. d \in Item /\ TakenUp(d) /\ d.status = "pending"
      BY <1>2 DEF Item, TakenUp
    <2>2. SavesLast(l, d)
      BY <1>7 DEF RetryLater
    <2> HIDE DEF d
    <2> QED BY <2>1, <2>2, SavesLastKeeps DEF TakenUp
  <1>8. CASE Refused(l)
    <2> DEFINE d == [c EXCEPT !.status = "failed"]
    <2>1. d \in Item /\ TakenUp(d) /\ d.status = "failed"
      BY <1>2 DEF Item, TakenUp
    <2>2. SavesLast(l, d)
      BY <1>8 DEF Refused
    <2> HIDE DEF d
    <2> QED BY <2>1, <2>2, SavesLastKeeps DEF TakenUp
  <1>9. CASE SignedOut(l)
    <2> DEFINE d == [c EXCEPT !.status = "pending"]
    <2>1. d \in Item /\ TakenUp(d) /\ d.status = "pending"
      BY <1>2 DEF Item, TakenUp
    <2>2. SavesLast(l, d)
      BY <1>9 DEF SignedOut
    <2> HIDE DEF d
    <2> QED BY <2>1, <2>2, SavesLastKeeps DEF TakenUp
  <1> QED BY <1>3, <1>4, <1>5, <1>6, <1>7, <1>8, <1>9

-----------------------------------------------------------------------------
(* The theorems. *)

LEMMA PhoneInitially == PhoneInit => PhoneInv
  <1> SUFFICES ASSUME PhoneInit PROVE PhoneInv
    OBVIOUS
  <1>1. PhoneTypeOK
    BY DEF PhoneInit, PhoneTypeOK
  <1>2. UserSound /\ LoopSound
    BY DEF PhoneInit, UserSound, LoopSound, Resting
  <1>3. StoreSound /\ FiledSound
    BY DEF PhoneInit, StoreSound, FiledSound
  <1> QED BY <1>1, <1>2, <1>3 DEF PhoneInv

LEMMA PhoneStep == PhoneInv /\ [PhoneNext]_phoneVars => PhoneInv'
  <1> SUFFICES ASSUME PhoneInv, [PhoneNext]_phoneVars PROVE PhoneInv'
    OBVIOUS
  <1>1. CASE Autosave \/ FormSubmit
    <2>1. screen' \in {"editing", "sending", "queued", "review"}
      BY <1>1 DEF Autosave, FormSubmit, PhoneInv, PhoneTypeOK
    <2> QED BY <1>1, <2>1, FormSaves DEF Autosave, FormSubmit
  <1>2. CASE SubmitReads \/ SubmitWrites
    BY <1>2, SubmitReadsKeeps, SubmitWritesKeeps
  <1>3. CASE SubmitFails \/ ShowResult \/ CloseForm
    BY <1>3, ScreenStepKeeps
  <1>4. CASE Remove \/ Kill \/ BackoffEnds
    BY <1>4, RemoveKeeps, KillKeeps, BackoffEndsKeeps
  <1>5. ASSUME NEW l \in Loops, Start(l) \/ CreateCall(l) PROVE PhoneInv'
    BY <1>5, StartKeeps, CreateCallKeeps
  <1>6. ASSUME NEW l \in Loops,
               \/ Begin(l) \/ Transcribe(l) \/ Upload(l) \/ CreateAnswered(l)
               \/ RetryLater(l) \/ Refused(l) \/ SignedOut(l)
        PROVE  PhoneInv'
    BY <1>6, SavingStepKeeps
  <1>7. CASE UNCHANGED phoneVars
    BY <1>7 DEF phoneVars, PhoneInv, PhoneTypeOK, StoreSound, UserSound, LoopSound,
                FiledSound, TakenUp
  <1> QED BY <1>1, <1>2, <1>3, <1>4, <1>5, <1>6, <1>7 DEF PhoneNext

\* The phone's state keeps its types, whatever the form holds and however many loops
\* there are.
THEOREM PhoneTypes == PhoneSpec => []PhoneTypeOK
  <1>1. PhoneInv => PhoneTypeOK
    BY DEF PhoneInv
  <1> QED BY <1>1, PhoneInitially, PhoneStep, PTL DEF PhoneSpec

\* A draft that is shown as synced has a complaint on the server, whichever loop,
\* submit or autosave wrote it last.
THEOREM SyncedDraftsAreFiled == PhoneSpec => []SyncedIsFiled
  <1>1. PhoneInv => SyncedIsFiled
    BY DEF PhoneInv, StoreSound, SyncedIsFiled, NoItem
  <1> QED BY <1>1, PhoneInitially, PhoneStep, PTL DEF PhoneSpec

\* No loop sends a transcript that no submit has taken up.
THEOREM TranscriptsAreTakenUp == PhoneSpec => []TranscriptWasSent
  <1>1. PhoneInv => TranscriptWasSent
    BY DEF PhoneInv, FiledSound, TranscriptWasSent
  <1> QED BY <1>1, PhoneInitially, PhoneStep, PTL DEF PhoneSpec

-----------------------------------------------------------------------------
(* The draft on the server: invariant and operators. *)

CallerSet ==
  [pc : {"save"}, read : Draft \cup {NoDraft}, payload : Payloads]
  \cup [pc : {"pend", "create"}, read : Draft]
  \cup [pc : {"reread", "record"}, read : Draft, verdict : Verdicts]
  \cup {Away}

\* What is read is not synced; a sync's second reading may be, if mislaid.
Unsynced == \A r \in Callers :
  /\ caller[r].pc \in {"save", "pend", "create", "reread"} => caller[r].read.status # "synced"
  /\ caller[r].pc = "record" /\ ~mislaid => caller[r].read.status # "synced"

Filed ==
  /\ draft.status = "synced" => reported # Nothing
  /\ \A r \in Callers : Unrecorded(r) /\ caller[r].verdict = "synced" => reported # Nothing

RowReported == draft.status = "synced" => draft.payload = reported /\ draft.ref

InHand == reported # Nothing =>
  \/ draft.status = "synced"
  \/ \E r \in Callers : Unrecorded(r) /\ caller[r].verdict = "synced"

Carried == \A r \in Callers : Unrecorded(r) /\ caller[r].verdict = "synced" =>
  \/ caller[r].read.payload = reported
  \/ draft.status = "synced"

DraftInv ==
  /\ DraftTypeOK /\ Unsynced /\ Filed
  /\ ~mislaid => RowReported /\ InHand /\ Carried

LEMMA NoDraftOutside == NoDraft \notin Draft /\ NoDraft.status # "synced"
  BY DEF NoDraft, Draft

LEMMA CallerTypes ==
  ASSUME DraftTypeOK, NEW r \in Callers
  PROVE  /\ caller[r].pc = "save" =>
              caller[r].read \in Draft \cup {NoDraft} /\ caller[r].payload \in Payloads
         /\ caller[r].pc \in {"pend", "create", "reread", "record"} => caller[r].read \in Draft
         /\ caller[r].pc \in {"reread", "record"} => caller[r].verdict \in Verdicts
         /\ Away.pc = "away"
  BY DEF DraftTypeOK, Away

LEMMA CallerMoves ==
  ASSUME DraftTypeOK, NEW r \in Callers, NEW x \in CallerSet,
         caller' = [caller EXCEPT ![r] = x]
  PROVE  /\ caller' \in [Callers -> CallerSet] /\ caller'[r] = x
         /\ \A q \in Callers : q # r => caller'[q] = caller[q]
  BY DEF DraftTypeOK, CallerSet

\* What an UPDATE leaves in the row: a draft, synced only if it was or is written so,
\* and what was written if nobody else has.
LEMMA UpdateLeaves ==
  ASSUME DraftTypeOK, NEW r \in Callers, NEW written \in Draft,
         caller[r].read \in Draft, Update(r, written)
  PROVE  /\ draft' \in Draft
         /\ draft'.status \in {written.status, draft.status}
         /\ draft = caller[r].read => draft' = written
         /\ caller' \in [Callers -> CallerSet] /\ caller'[r] = Away
         /\ \A q \in Callers : q # r => caller'[q] = caller[q]
  <1> DEFINE read == caller[r].read
             new == [c \in DOMAIN written |->
                       IF written[c] # read[c] THEN written[c] ELSE draft[c]]
  <1>1. /\ draft # NoDraft => draft \in Draft
        /\ draft = NoDraft => draft' = written /\ draft # read
        /\ draft # NoDraft => draft' \in {written, new}
    BY NoDraftOutside DEF DraftTypeOK, Update, Stored
  <1>2. ASSUME draft \in Draft
        PROVE  new \in Draft /\ new.status \in {written.status, draft.status}
    BY <1>2 DEF Draft
  <1>3. draft = read => new = written
    BY DEF Draft
  <1> HIDE DEF new
  <1>4. /\ draft' \in Draft
        /\ draft'.status \in {written.status, draft.status}
        /\ draft = read => draft' = written
    BY <1>1, <1>2, <1>3
  <1>5. /\ caller' \in [Callers -> CallerSet] /\ caller'[r] = Away
        /\ \A q \in Callers : q # r => caller'[q] = caller[q]
    BY CallerMoves DEF Update, CallerSet
  <1> QED BY <1>4, <1>5

\* A request moves on, and takes no complaint with it that was in its hands.
LEMMA RequestMoves ==
  ASSUME DraftInv, DraftTypeOK', NEW r \in Callers,
         \A q \in Callers : q # r => caller'[q] = caller[q],
         reported' = reported, mislaid => mislaid',
         draft'.status = "synced" => draft.status = "synced",
         ~mislaid' /\ draft.status = "synced" => draft' = draft,
         ~mislaid' /\ reported # Nothing /\ Unrecorded(r) => caller[r].verdict # "synced",
         caller'[r].pc \in {"save", "pend", "create", "reread"} =>
           caller'[r].read.status # "synced",
         caller'[r].pc = "record" /\ ~mislaid' => caller'[r].read.status # "synced",
         caller'[r].pc \in {"reread", "record"} => caller'[r].verdict # "synced"
  PROVE  DraftInv'
  <1>1. Unsynced'
    BY DEF DraftInv, Unsynced
  <1>2. Filed'
    BY DEF DraftInv, Filed, Unrecorded
  <1>3. ASSUME ~mislaid' PROVE RowReported' /\ InHand' /\ Carried'
    <2>1. RowReported /\ InHand /\ Carried
      BY <1>3 DEF DraftInv
    <2>2. RowReported'
      BY <1>3, <2>1 DEF RowReported
    <2>3. InHand'
      <3> SUFFICES ASSUME reported # Nothing PROVE InHand'
        BY DEF InHand
      <3>1. CASE draft.status = "synced"
        BY <1>3, <3>1 DEF InHand
      <3>2. CASE \E q \in Callers : Unrecorded(q) /\ caller[q].verdict = "synced"
        <4>1. PICK q \in Callers : Unrecorded(q) /\ caller[q].verdict = "synced"
          BY <3>2
        <4>2. caller'[q] = caller[q]
          BY <1>3, <4>1
        <4>3. Unrecorded(q)' /\ caller'[q].verdict = "synced"
          BY <4>1, <4>2 DEF Unrecorded
        <4> QED BY <4>3 DEF InHand
      <3> QED BY <2>1, <3>1, <3>2 DEF InHand
    <2>4. Carried'
      BY <1>3, <2>1 DEF Carried, Unrecorded
    <2> QED BY <2>2, <2>3, <2>4
  <1> QED BY <1>1, <1>2, <1>3 DEF DraftInv

LEMMA TurnsKeeps ==
  ASSUME DraftInv, NEW r \in Callers, NEW x \in CallerSet, Turns(r, x),
         x.pc \in {"save", "pend", "create"}, x.read.status # "synced"
  PROVE  DraftInv'
  <1>1. caller[r].pc = "away"
    BY DEF Turns, Away
  <1>2. /\ caller' \in [Callers -> CallerSet] /\ caller'[r] = x
        /\ \A q \in Callers : q # r => caller'[q] = caller[q]
    BY CallerMoves DEF Turns, DraftInv
  <1>3. DraftTypeOK'
    BY <1>2 DEF Turns, DraftInv, DraftTypeOK, CallerSet
  <1> QED BY <1>1, <1>2, <1>3, RequestMoves DEF Turns, Unrecorded

LEMMA ReadsKeep ==
  ASSUME DraftInv, NEW r \in Callers, NEW p \in Payloads,
         SaveReads(r, p) \/ PendReads(r) \/ SyncReads(r)
  PROVE  DraftInv'
  <1>1. draft \in Draft \cup {NoDraft}
    BY DEF DraftInv, DraftTypeOK
  <1>2. CASE SaveReads(r, p)
    <2> DEFINE x == [pc |-> "save", read |-> draft, payload |-> p]
    <2>1. x \in CallerSet /\ x.pc = "save" /\ x.read.status # "synced"
      BY <1>1, <1>2 DEF SaveReads, CallerSet
    <2>2. Turns(r, x)
      BY <1>2 DEF SaveReads
    <2> HIDE DEF x
    <2> QED BY <2>1, <2>2, TurnsKeeps
  <1>3. CASE PendReads(r)
    <2> DEFINE x == [pc |-> "pend", read |-> draft]
    <2>1. x \in CallerSet /\ x.pc = "pend" /\ x.read.status # "synced"
      BY <1>1, <1>3 DEF PendReads, CallerSet, NoDraft
    <2>2. Turns(r, x)
      BY <1>3 DEF PendReads
    <2> HIDE DEF x
    <2> QED BY <2>1, <2>2, TurnsKeeps
  <1>4. CASE SyncReads(r)
    <2> DEFINE x == [pc |-> "create", read |-> draft]
    <2>1. x \in CallerSet /\ x.pc = "create" /\ x.read.status # "synced"
      BY <1>1, <1>4 DEF SyncReads, CallerSet, NoDraft
    <2>2. Turns(r, x)
      BY <1>4 DEF SyncReads
    <2> HIDE DEF x
    <2> QED BY <2>1, <2>2, TurnsKeeps
  <1> QED BY <1>2, <1>3, <1>4

\* A request that has read an unsynced draft writes one that is not synced.
LEMMA UnsyncedWritten ==
  ASSUME DraftInv, NEW r \in Callers, NEW written \in Draft, written.status # "synced",
         caller[r].read \in Draft, Update(r, written),
         ~mislaid' => ~mislaid /\ draft = caller[r].read,
         ~mislaid => caller[r].read.status # "synced",
         Unrecorded(r) => caller[r].verdict # "synced",
         UNCHANGED <<rows, reported>>, mislaid' \in BOOLEAN
  PROVE  DraftInv'
  <1>1. /\ draft' \in Draft
        /\ draft'.status = "synced" => draft.status = "synced"
        /\ caller' \in [Callers -> CallerSet] /\ caller'[r] = Away
        /\ \A q \in Callers : q # r => caller'[q] = caller[q]
    BY UpdateLeaves DEF DraftInv
  <1>2. DraftTypeOK'
    BY <1>1 DEF DraftInv, DraftTypeOK, CallerSet
  <1>3. caller'[r].pc = "away"
    BY <1>1 DEF Away
  <1>4. mislaid \in BOOLEAN /\ mislaid => mislaid'
    BY DEF DraftInv, DraftTypeOK
  <1> QED BY <1>1, <1>2, <1>3, <1>4, RequestMoves

LEMMA SaveUpdatesKeeps ==
  ASSUME DraftInv, NEW r \in Callers, SaveUpdates(r)
  PROVE  DraftInv'
  <1>1. /\ caller[r].read \in Draft /\ caller[r].payload \in Payloads
        /\ caller[r].read.status # "synced" /\ ~Unrecorded(r)
    BY CallerTypes DEF DraftInv, SaveUpdates, Unsynced, Unrecorded
  <1> DEFINE written == Resaved(caller[r].read, caller[r].payload)
  <1>2. written \in Draft /\ written.status # "synced"
    BY <1>1 DEF Resaved, Draft
  <1>3. Update(r, written) /\ UNCHANGED <<rows, reported>>
    BY DEF SaveUpdates
  <1> HIDE DEF written
  <1>4. mislaid' \in BOOLEAN /\ (~mislaid' => ~mislaid /\ draft = caller[r].read)
    BY Zenon DEF SaveUpdates
  <1> QED BY <1>1, <1>2, <1>3, <1>4, UnsyncedWritten

LEMMA PendUpdatesKeeps ==
  ASSUME DraftInv, NEW r \in Callers, PendUpdates(r)
  PROVE  DraftInv'
  <1>1. /\ caller[r].read \in Draft
        /\ caller[r].read.status # "synced" /\ ~Unrecorded(r)
    BY CallerTypes DEF DraftInv, PendUpdates, Unsynced, Unrecorded
  <1> DEFINE written == [caller[r].read EXCEPT !.status = "pending_sync"]
  <1>2. written \in Draft /\ written.status # "synced"
    BY <1>1 DEF Draft
  <1>3. Update(r, written) /\ UNCHANGED <<rows, reported>>
    BY DEF PendUpdates
  <1> HIDE DEF written
  <1>4. mislaid' \in BOOLEAN /\ (~mislaid' => ~mislaid /\ draft = caller[r].read)
    BY Zenon DEF PendUpdates
  <1> QED BY <1>1, <1>2, <1>3, <1>4, UnsyncedWritten

LEMMA SaveInsertsKeeps ==
  ASSUME DraftInv, NEW r \in Callers, SaveInserts(r)
  PROVE  DraftInv'
  <1>1. caller[r].payload \in Payloads /\ ~Unrecorded(r)
    BY CallerTypes DEF DraftInv, SaveInserts, Unrecorded
  <1>2. rows' \in 0..MaxRows /\ rows + 1 \in 1..MaxRows
    BY DraftAssumption DEF SaveInserts, DraftInv, DraftTypeOK
  <1>3. draft' \in Draft /\ draft'.status = "draft"
    BY <1>1, <1>2 DEF SaveInserts, Draft
  <1>4. /\ caller' \in [Callers -> CallerSet] /\ caller'[r] = Away
        /\ \A q \in Callers : q # r => caller'[q] = caller[q]
    BY CallerMoves DEF SaveInserts, DraftInv, CallerSet
  <1>5. DraftTypeOK'
    BY <1>2, <1>3, <1>4 DEF SaveInserts, DraftInv, DraftTypeOK, CallerSet
  <1>6. draft.status # "synced" /\ caller'[r].pc = "away"
    BY <1>4 DEF SaveInserts, NoDraft, Away
  <1> QED BY <1>1, <1>3, <1>4, <1>5, <1>6, RequestMoves DEF SaveInserts

LEMMA SyncRefusedKeeps ==
  ASSUME DraftInv, NEW r \in Callers, SyncRefused(r)
  PROVE  DraftInv'
  <1> DEFINE x == [pc |-> "reread", read |-> caller[r].read, verdict |-> "failed"]
  <1>1. /\ x \in CallerSet /\ x.pc = "reread" /\ x.verdict = "failed"
        /\ x.read.status # "synced" /\ ~Unrecorded(r)
    BY CallerTypes DEF DraftInv, SyncRefused, Unsynced, Unrecorded, CallerSet, Verdicts
  <1>2. caller' = [caller EXCEPT ![r] = x]
    BY DEF SyncRefused, Judged, DraftInv, DraftTypeOK
  <1> HIDE DEF x
  <1>3. /\ caller' \in [Callers -> CallerSet] /\ caller'[r] = x
        /\ \A q \in Callers : q # r => caller'[q] = caller[q]
    BY <1>1, <1>2, CallerMoves DEF DraftInv
  <1>4. DraftTypeOK'
    BY <1>3 DEF SyncRefused, DraftInv, DraftTypeOK, CallerSet
  <1> QED BY <1>1, <1>3, <1>4, RequestMoves DEF SyncRefused

LEMMA DropKeeps ==
  ASSUME DraftInv, NEW r \in Callers, Drop(r)
  PROVE  DraftInv'
  <1>1. /\ caller' \in [Callers -> CallerSet] /\ caller'[r] = Away
        /\ \A q \in Callers : q # r => caller'[q] = caller[q]
    BY CallerMoves DEF Drop, DraftInv, CallerSet
  <1>2. /\ mislaid' \in BOOLEAN /\ (mislaid => mislaid')
        /\ (~mislaid' => ~(Unrecorded(r) /\ reported # Nothing))
    BY Zenon DEF Drop
  <1>3. DraftTypeOK'
    BY <1>1, <1>2 DEF Drop, DraftInv, DraftTypeOK, CallerSet
  <1>4. caller'[r].pc = "away"
    BY <1>1 DEF Away
  <1> QED BY <1>1, <1>2, <1>3, <1>4, RequestMoves DEF Drop

\* Nothing is mislaid by a discard only when there is no complaint.
LEMMA DiscardKeeps == DraftInv /\ Discard => DraftInv'
  <1> SUFFICES ASSUME DraftInv, Discard PROVE DraftInv'
    OBVIOUS
  <1>1. /\ mislaid' \in BOOLEAN /\ (mislaid => mislaid')
        /\ (~mislaid' => reported = Nothing)
    BY Zenon DEF Discard
  <1>2. draft' = NoDraft /\ draft'.status # "synced" /\ UNCHANGED <<rows, caller, reported>>
    BY NoDraftOutside DEF Discard
  <1>3. DraftTypeOK'
    BY <1>1, <1>2 DEF DraftInv, DraftTypeOK
  <1>4. Unsynced'
    BY <1>1, <1>2 DEF DraftInv, Unsynced
  <1>5. Filed'
    BY <1>2 DEF DraftInv, Filed, Unrecorded
  <1>6. ~mislaid' => RowReported' /\ InHand' /\ Carried'
    BY <1>1, <1>2, <1>5 DEF RowReported, InHand, Carried, Filed
  <1> QED BY <1>3, <1>4, <1>5, <1>6 DEF DraftInv

\* A complaint is made of what the sync has read, or was made and is recorded.
LEMMA SyncCreatesKeeps ==
  ASSUME DraftInv, NEW r \in Callers, SyncCreates(r)
  PROVE  DraftInv'
  <1> DEFINE x == [pc |-> "reread", read |-> caller[r].read, verdict |-> "synced"]
  <1>1. /\ x \in CallerSet /\ x.pc = "reread" /\ x.verdict = "synced"
        /\ x.read = caller[r].read /\ x.read \in Draft /\ x.read.status # "synced"
    BY CallerTypes DEF DraftInv, SyncCreates, Unsynced, CallerSet, Verdicts
  <1>2. caller' = [caller EXCEPT ![r] = x]
    BY DEF SyncCreates, Judged, DraftInv, DraftTypeOK
  <1> HIDE DEF x
  <1>3. /\ caller' \in [Callers -> CallerSet] /\ caller'[r] = x
        /\ \A q \in Callers : q # r => caller'[q] = caller[q]
    BY <1>1, <1>2, CallerMoves DEF DraftInv
  <1>4. /\ mislaid' \in BOOLEAN /\ (mislaid => mislaid')
        /\ (~mislaid' => \A q \in Callers : ~Unrecorded(q))
    BY Zenon DEF SyncCreates
  <1>5. x.read.payload \in Payloads /\ UNCHANGED <<draft, rows>>
    BY <1>1 DEF Draft, SyncCreates
  <1>6. reported' = IF reported = Nothing THEN x.read.payload ELSE reported
    BY <1>1 DEF SyncCreates
  <1>7. reported' \in Payloads \cup {Nothing}
    BY <1>5, <1>6 DEF DraftInv, DraftTypeOK
  <1>8. DraftTypeOK'
    BY <1>3, <1>4, <1>5, <1>7 DEF DraftInv, DraftTypeOK, CallerSet
  <1>9. reported' # Nothing
    BY <1>5, <1>6, DraftAssumption
  <1>10. Unsynced'
    BY <1>1, <1>3, <1>4, <1>5 DEF DraftInv, Unsynced
  <1>11. Filed'
    BY <1>9, <1>5 DEF Filed
  <1>12. ASSUME ~mislaid' PROVE RowReported' /\ InHand' /\ Carried'
    <2>1. /\ RowReported /\ InHand /\ \A q \in Callers : ~Unrecorded(q)
      BY <1>4, <1>12 DEF DraftInv
    <2>2. \A q \in Callers : Unrecorded(q)' => q = r
      BY <1>3, <2>1 DEF Unrecorded
    <2>3. Unrecorded(r)' /\ caller'[r].verdict = "synced"
      BY <1>1, <1>3 DEF Unrecorded
    <2>4. CASE reported = Nothing
      <3>1. draft.status # "synced"
        BY <2>4 DEF DraftInv, Filed
      <3>2. caller'[r].read.payload = reported'
        BY <1>3, <1>6, <2>4
      <3> QED BY <1>5, <2>2, <2>3, <3>1, <3>2 DEF RowReported, InHand, Carried
    <2>5. CASE reported # Nothing
      <3>1. draft.status = "synced" /\ reported' = reported
        BY <1>6, <2>1, <2>5 DEF InHand
      <3> QED BY <1>5, <2>1, <3>1 DEF RowReported, InHand, Carried
    <2> QED BY <2>4, <2>5
  <1> QED BY <1>8, <1>10, <1>11, <1>12 DEF DraftInv

\* What is read again is what was submitted, or something is mislaid.
LEMMA SyncRereadsKeeps ==
  ASSUME DraftInv, NEW r \in Callers, SyncRereads(r)
  PROVE  DraftInv'
  <1> DEFINE x == [pc |-> "record", read |-> draft, verdict |-> caller[r].verdict]
  <1>1. /\ caller[r].pc = "reread" /\ caller[r].read \in Draft
        /\ caller[r].verdict \in Verdicts /\ caller[r].read.status # "synced"
        /\ Unrecorded(r) /\ draft \in Draft
    BY CallerTypes DEF DraftInv, DraftTypeOK, SyncRereads, Unsynced, Unrecorded
  <1>2. /\ x \in CallerSet /\ x.pc = "record" /\ x.verdict = caller[r].verdict
        /\ x.read = draft
    BY <1>1 DEF CallerSet
  <1>3. caller' = [caller EXCEPT ![r] = x]
    BY DEF SyncRereads, DraftInv, DraftTypeOK
  <1> HIDE DEF x
  <1>4. /\ caller' \in [Callers -> CallerSet] /\ caller'[r] = x
        /\ \A q \in Callers : q # r => caller'[q] = caller[q]
    BY <1>2, <1>3, CallerMoves DEF DraftInv
  <1>5. /\ mislaid' \in BOOLEAN /\ (mislaid => mislaid')
        /\ (~mislaid' => draft = caller[r].read)
    BY Zenon DEF SyncRereads
  <1>6. UNCHANGED <<draft, rows, reported>>
    BY DEF SyncRereads
  <1>7. DraftTypeOK'
    BY <1>4, <1>5, <1>6 DEF DraftInv, DraftTypeOK, CallerSet
  <1>8. Unsynced'
    BY <1>1, <1>2, <1>4, <1>5 DEF DraftInv, Unsynced
  <1>9. \A q \in Callers : Unrecorded(q)' <=> Unrecorded(q)
    BY <1>1, <1>2, <1>4 DEF Unrecorded
  <1>10. \A q \in Callers : Unrecorded(q) => caller'[q].verdict = caller[q].verdict
    BY <1>2, <1>4
  <1>11. Filed'
    BY <1>6, <1>9, <1>10 DEF DraftInv, Filed
  <1>12. ASSUME ~mislaid' PROVE RowReported' /\ InHand' /\ Carried'
    <2>1. RowReported /\ InHand /\ Carried
      BY <1>5, <1>12 DEF DraftInv
    <2>2. \A q \in Callers : Unrecorded(q) => caller'[q].read = caller[q].read
      BY <1>2, <1>4, <1>5, <1>12
    <2>3. RowReported'
      BY <1>6, <2>1 DEF RowReported
    <2>4. InHand'
      BY <1>6, <1>9, <1>10, <2>1 DEF InHand
    <2>5. Carried'
      BY <1>6, <1>9, <1>10, <2>1, <2>2 DEF Carried
    <2> QED BY <2>3, <2>4, <2>5
  <1> QED BY <1>7, <1>8, <1>11, <1>12 DEF DraftInv

\* A failed sync records that on an unsynced draft; one that has a complaint finds
\* what it was made of still in the row, or something is mislaid.
LEMMA SyncRecordsKeeps ==
  ASSUME DraftInv, NEW r \in Callers, SyncRecords(r)
  PROVE  DraftInv'
  <1> DEFINE written == [caller[r].read EXCEPT !.status = caller[r].verdict,
                                               !.ref = caller[r].verdict = "synced"]
  <1>1. /\ caller[r].pc = "record" /\ caller[r].read \in Draft
        /\ caller[r].verdict \in Verdicts /\ Unrecorded(r)
        /\ ~mislaid => caller[r].read.status # "synced"
    BY CallerTypes DEF DraftInv, SyncRecords, Unsynced, Unrecorded
  <1>2. /\ written \in Draft /\ written.status = caller[r].verdict
        /\ written.payload = caller[r].read.payload
        /\ caller[r].verdict = "synced" => written.ref
    BY <1>1 DEF Draft, Verdicts
  <1>3. Update(r, written) /\ UNCHANGED <<rows, reported>>
    BY DEF SyncRecords
  <1> HIDE DEF written
  <1>4. /\ mislaid' \in BOOLEAN /\ (mislaid => mislaid')
        /\ (~mislaid' => ~mislaid /\ draft = caller[r].read)
    BY Zenon DEF SyncRecords
  <1>5. CASE caller[r].verdict = "failed"
    BY <1>1, <1>2, <1>3, <1>4, <1>5, UnsyncedWritten
  <1>6. CASE caller[r].verdict = "synced"
    <2>1. /\ draft' \in Draft
          /\ draft = caller[r].read => draft' = written
          /\ caller' \in [Callers -> CallerSet] /\ caller'[r] = Away
          /\ \A q \in Callers : q # r => caller'[q] = caller[q]
      BY <1>1, <1>2, <1>3, UpdateLeaves DEF DraftInv
    <2>2. DraftTypeOK'
      BY <1>3, <1>4, <2>1 DEF DraftInv, DraftTypeOK, CallerSet
    <2>3. caller'[r].pc = "away"
      BY <2>1 DEF Away
    <2>4. Unsynced'
      BY <1>4, <2>1, <2>3 DEF DraftInv, Unsynced
    <2>5. reported' = reported /\ reported # Nothing
      BY <1>1, <1>3, <1>6 DEF DraftInv, Filed
    <2>6. Filed'
      BY <2>5 DEF Filed
    <2>7. ASSUME ~mislaid' PROVE RowReported' /\ InHand' /\ Carried'
      <3>1. Carried /\ draft = caller[r].read /\ draft.status # "synced"
        BY <1>1, <1>4, <2>7 DEF DraftInv
      <3>2. draft.payload = reported
        BY <1>1, <1>6, <3>1 DEF Carried
      <3>3. draft'.status = "synced" /\ draft'.payload = reported' /\ draft'.ref
        BY <1>2, <1>6, <2>1, <2>5, <3>1, <3>2
      <3> QED BY <3>3 DEF RowReported, InHand, Carried
    <2> QED BY <2>2, <2>4, <2>6, <2>7 DEF DraftInv
  <1> QED BY <1>1, <1>5, <1>6 DEF Verdicts

-----------------------------------------------------------------------------
(* The draft on the server: theorems. *)

LEMMA DraftInitially == DraftInit => DraftInv
  <1> SUFFICES ASSUME DraftInit PROVE DraftInv
    OBVIOUS
  <1>1. DraftTypeOK
    <2>1. rows \in 0..MaxRows
      BY DraftAssumption DEF DraftInit
    <2>2. caller \in [Callers -> CallerSet]
      BY DEF DraftInit, CallerSet
    <2> QED BY <2>1, <2>2 DEF DraftInit, DraftTypeOK, CallerSet
  <1>2. /\ draft.status # "synced" /\ reported = Nothing
        /\ \A r \in Callers : caller[r].pc = "away"
    BY NoDraftOutside DEF DraftInit, Away
  <1> QED BY <1>1, <1>2 DEF DraftInv, Unsynced, Filed, RowReported, InHand, Carried, Unrecorded

LEMMA DraftStep == DraftInv /\ [DraftNext]_draftVars => DraftInv'
  <1> SUFFICES ASSUME DraftInv, [DraftNext]_draftVars PROVE DraftInv'
    OBVIOUS
  <1>1. CASE UNCHANGED draftVars
    BY <1>1 DEF draftVars, DraftInv, DraftTypeOK, Unsynced, Filed, RowReported, InHand, Carried,
      Unrecorded
  <1>2. CASE Discard
    BY <1>2, DiscardKeeps
  <1>3. ASSUME NEW r \in Callers, NEW p \in Payloads, SaveReads(r, p) PROVE DraftInv'
    BY <1>3, ReadsKeep
  <1>4. ASSUME NEW r \in Callers, PendReads(r) \/ SyncReads(r) PROVE DraftInv'
    <2>1. draft \in Draft
      BY <1>4 DEF PendReads, SyncReads, NoDraft, DraftInv, DraftTypeOK
    <2>2. draft.payload \in Payloads
      BY <2>1 DEF Draft
    <2> QED BY <1>4, <2>2, ReadsKeep
  <1>5. ASSUME NEW r \in Callers,
               \/ SaveUpdates(r) \/ SaveInserts(r) \/ PendUpdates(r)
               \/ SyncCreates(r) \/ SyncRefused(r) \/ SyncRereads(r) \/ SyncRecords(r)
               \/ Drop(r)
        PROVE  DraftInv'
    BY <1>5, SaveUpdatesKeeps, SaveInsertsKeeps, PendUpdatesKeeps, SyncCreatesKeeps,
      SyncRefusedKeeps, SyncRereadsKeeps, SyncRecordsKeeps, DropKeeps
  <1> QED BY <1>1, <1>2, <1>3, <1>4, <1>5 DEF DraftNext

\* The row, the requests and the complaint have their types (DraftService).
THEOREM DraftTypes == DraftSpec => []DraftTypeOK
  <1>1. DraftInv => DraftTypeOK
    BY DEF DraftInv
  <1> QED BY <1>1, DraftInitially, DraftStep, PTL DEF DraftSpec

\* A draft that says synced has its complaint, however many requests overlap on it,
\* and, unless something was mislaid, the complaint it shows (DraftService.sync).
THEOREM ServerDraftsAreFiled == DraftSpec => []SyncedDraftIsFiled
  <1>1. DraftInv => SyncedDraftIsFiled
    BY DEF DraftInv, Filed, RowReported, SyncedDraftIsFiled
  <1> QED BY <1>1, DraftInitially, DraftStep, PTL DEF DraftSpec
=============================================================================
