--------------------------- MODULE CityDeskProofs ---------------------------
(***************************************************************************)
(* What holds of an RTI application for any drafts, thresholds and         *)
(* overlapping requests and reminder runs, of a document's ingestion for   *)
(* any processes and numbers of attempts, of the live sockets, and of the  *)
(* types of the citizen's desk as a whole.                                 *)
(***************************************************************************)
EXTENDS MCCityDesk, OfflineDraftProofs, OutboundDeliveryProofs, AccountSessionsProofs,
        FiniteSetTheorems, TLAPS

-----------------------------------------------------------------------------
(* RTI applications.  The copies that transactions hold matter as much as the *)
(* row: a whole copy may come back, or some columns of one.                    *)

\* The reminders of a copy were told too.  A reminder run has read a filed application.
CopiesSound ==
  \A t \in Threads : thread[t] # Waiting =>
    /\ rti # NoApp
    /\ thread[t].app.sent \subseteq told
    /\ thread[t].pc = "remind" => thread[t].app.status = "filed"

RowSound == rti # NoApp => rti.sent \subseteq told

\* A letter is that of the stored draft and reference; without one nothing is filed.
Whole(a) ==
  /\ a.text # NoText => a.text.ref = a.ref /\ a.text.draft = a.draft
  /\ a.status # "draft" => a.text # NoText
  /\ a.status \in {"filed", "responded"} => a.due = Deadline(a.received, a.draft)

\* What the owner was told of is marked, and was of an application that was filed.
Reminded(a, notified) ==
  notified # {} => a.sent = notified /\ a.status \in {"filed", "responded"}

RtiInv ==
  /\ RtiTypeOK /\ CopiesSound /\ RowSound
  /\ rti = NoApp => told = {}
  /\ rti # NoApp /\ ~crossed => Whole(rti) /\ Reminded(rti, told)

\* A commit marks what the copy or the row has marked, and over the row it has read it
\* leaves the copy.
LEMMA MergedColumns ==
  ASSUME NEW read \in App, NEW written \in App, rti \in App,
         NEW m \in Merged(read, written)
  PROVE  /\ m \in App
         /\ m.sent \in {written.sent, rti.sent}
         /\ rti = read => m = written
<1> DEFINE Columns == {"status", "draft", "ref", "text", "received", "due", "sent"}
<1>1. CASE m = written
  BY <1>1
<1>2. CASE m = [c \in DOMAIN read |-> IF written[c] # read[c] THEN written[c] ELSE rti[c]]
  <2>1. DOMAIN read = Columns
    BY DEF App
  <2>2. m = [c \in Columns |-> IF written[c] # read[c] THEN written[c] ELSE rti[c]]
    BY <1>2, <2>1
  <2>3. m = [status |-> m.status, draft |-> m.draft, ref |-> m.ref, text |-> m.text,
             received |-> m.received, due |-> m.due, sent |-> m.sent]
    BY <2>2
  <2>4. m \in App /\ m.sent \in {written.sent, rti.sent}
    BY <2>2, <2>3 DEF App
  <2>5. ASSUME rti = read PROVE m = written
    <3>1. /\ m.status = written.status /\ m.draft = written.draft
          /\ m.ref = written.ref /\ m.text = written.text
          /\ m.received = written.received /\ m.due = written.due
          /\ m.sent = written.sent
      BY <2>2, <2>5
    <3>2. written = [status |-> written.status, draft |-> written.draft,
                     ref |-> written.ref, text |-> written.text,
                     received |-> written.received, due |-> written.due,
                     sent |-> written.sent]
      BY DEF App
    <3> QED
      BY <2>3, <3>1, <3>2
  <2> QED
    BY <2>4, <2>5
<1> QED
  BY <1>1, <1>2 DEF Merged

\* No transaction without a copy, and no copy without a transaction.
LEMMA CopyTypes ==
  ASSUME RtiTypeOK, NEW t \in Threads
  PROVE  /\ thread[t] # Waiting =>
              thread[t].app \in App /\ thread[t].pc \in {"request", "remind"}
         /\ thread[t].pc # "waiting" => thread[t] # Waiting
         /\ thread[t].pc = "remind" => thread[t].at \in Days
  BY DEF RtiTypeOK, Copies, Waiting

\* What every commit keeps, if what is written marks only what is told, and is whole
\* and reminded of when what was read was.
LEMMA CommitKeeps ==
  ASSUME RtiInv, NEW t \in Threads, thread[t] # Waiting,
         NEW written \in App, Commit(t, written),
         written.sent \subseteq told',
         told \subseteq told',
         Whole(thread[t].app) => Whole(written),
         Reminded(thread[t].app, told) => Reminded(written, told')
  PROVE  /\ rti' \in App
         /\ thread' \in [Threads -> Copies \cup {Waiting}]
         /\ crossed' \in BOOLEAN
         /\ CopiesSound' /\ RowSound'
         /\ rti' # NoApp
         /\ ~crossed' => Whole(rti') /\ Reminded(rti', told')
<1> DEFINE read == thread[t].app
<1>0. /\ rti' \in Merged(read, written)
      /\ thread' = [thread EXCEPT ![t] = Waiting]
      /\ crossed' = (crossed \/ rti # read)
      /\ Whole(read) => Whole(written)
      /\ Reminded(read, told) => Reminded(written, told')
  BY DEF Commit
<1>1. rti \in App /\ read \in App /\ rti # NoApp
  BY CopyTypes DEF RtiInv, RtiTypeOK, CopiesSound
<1> HIDE DEF read
<1>2. rti' \in App /\ rti' # NoApp
  BY <1>0, <1>1, MergedColumns DEF App, NoApp
<1>3. \A u \in Threads : thread'[u] = IF u = t THEN Waiting ELSE thread[u]
  BY <1>0 DEF RtiInv, RtiTypeOK
<1>4. thread' \in [Threads -> Copies \cup {Waiting}] /\ crossed' \in BOOLEAN
  BY <1>0 DEF RtiInv, RtiTypeOK
<1>5. CopiesSound'
  BY <1>2, <1>3 DEF RtiInv, CopiesSound
<1>6. RowSound'
  <2>1. rti'.sent \in {written.sent, rti.sent}
    BY <1>0, <1>1, MergedColumns
  <2> QED
    BY <1>1, <2>1 DEF RtiInv, RowSound
<1>7. ASSUME ~crossed' PROVE Whole(rti') /\ Reminded(rti', told')
  <2>1. rti = read /\ ~crossed
    BY <1>7, <1>0
  <2>2. rti' = written
    BY <1>0, <1>1, <2>1, MergedColumns
  <2> QED
    BY <1>0, <1>1, <2>1, <2>2 DEF RtiInv
<1> QED
  BY <1>2, <1>4, <1>5, <1>6, <1>7

LEMMA RtiInitially ==
  ASSUME RtiInit
  PROVE  RtiInv
<1>1. RtiTypeOK
  <2>1. 0 \in Days /\ 0 \in 0..MaxRefs
    BY RtiAssumption DEF Days
  <2>2. thread \in [Threads -> Copies \cup {Waiting}]
    BY DEF RtiInit
  <2> QED
    BY <2>1, <2>2 DEF RtiInit, RtiTypeOK
<1>2. CopiesSound
  BY DEF RtiInit, CopiesSound
<1> QED
  BY <1>1, <1>2 DEF RtiInit, RtiInv, RowSound

\* From CommitKeeps to the invariant: what the commit does not write fits too.
LEMMA CommitPreserves ==
  ASSUME RtiInv, NEW t \in Threads, thread[t] # Waiting,
         NEW written \in App, Commit(t, written),
         written.sent \subseteq told',
         told \subseteq told', told' \subseteq Thresholds,
         Whole(thread[t].app) => Whole(written),
         Reminded(thread[t].app, told) => Reminded(written, told'),
         refs' \in 0..MaxRefs, now' \in Days
  PROVE  RtiInv'
<1>1. /\ rti' \in App
      /\ thread' \in [Threads -> Copies \cup {Waiting}]
      /\ crossed' \in BOOLEAN
      /\ CopiesSound' /\ RowSound'
      /\ rti' # NoApp
      /\ ~crossed' => Whole(rti') /\ Reminded(rti', told')
  BY CommitKeeps
<1>2. RtiTypeOK'
  BY <1>1 DEF RtiTypeOK
<1> QED
  BY <1>1, <1>2 DEF RtiInv

\* What a copy is known to be.
LEMMA CopyFacts ==
  ASSUME RtiInv, NEW t \in Threads, thread[t].pc \in {"request", "remind"}
  PROVE  /\ thread[t] # Waiting
         /\ thread[t].app \in App
         /\ thread[t].pc = "remind" => thread[t].app.status = "filed"
         /\ thread[t].app.sent \subseteq told
<1>1. thread[t] # Waiting
  BY DEF Waiting
<1> QED
  BY <1>1, CopyTypes DEF RtiInv, CopiesSound

\* A deadline is a day.
LEMMA DeadlineIsADay ==
  ASSUME NEW received \in Days, NEW d
  PROVE  Deadline(received, d) \in Int
  BY RtiAssumption DEF Deadline, Days

LEMMA RtiStep ==
  ASSUME RtiInv, [RtiNext]_rtiVars
  PROVE  RtiInv'
<1>0. RtiTypeOK /\ CopiesSound /\ RowSound
  BY DEF RtiInv
<1>1. CASE Tick
  <2>1. RtiTypeOK'
    BY <1>0, <1>1, RtiAssumption DEF RtiTypeOK, Tick, Days
  <2>2. CopiesSound' /\ RowSound'
    BY <1>0, <1>1 DEF CopiesSound, RowSound, Tick
  <2> QED
    BY <1>1, <2>1, <2>2 DEF RtiInv, Tick
<1>2. ASSUME NEW d \in Drafts, Create(d)
      PROVE  RtiInv'
  <2>1. /\ rti' = [status |-> "draft", draft |-> d, ref |-> 0, text |-> NoText,
                   received |-> None, due |-> None, sent |-> {}]
        /\ rti' \in App
    BY <1>2, RtiAssumption DEF Create, App, None
  <2>2. \A t \in Threads : thread[t] = Waiting
    BY <1>0, <1>2 DEF CopiesSound, Create
  <2>3. told = {} /\ told' = {}
    BY <1>2 DEF RtiInv, Create
  <2>4. RtiTypeOK'
    BY <1>0, <1>2, <2>1 DEF RtiTypeOK, Create
  <2>5. CopiesSound' /\ RowSound' /\ Whole(rti') /\ Reminded(rti', told')
    BY <1>2, <2>1, <2>2, <2>3 DEF CopiesSound, RowSound, Whole, Reminded, Create
  <2>6. rti' = NoApp => told' = {}
    BY <2>3
  <2> QED
    BY <2>4, <2>5, <2>6 DEF RtiInv
<1>3. ASSUME NEW t \in Threads, RequestReads(t)
      PROVE  RtiInv'
  <2>1. rti \in App /\ rti # NoApp
    BY <1>0, <1>3 DEF RtiTypeOK, RequestReads
  <2>2. \A u \in Threads : thread'[u] =
          IF u = t THEN [pc |-> "request", app |-> rti] ELSE thread[u]
    BY <1>0, <1>3 DEF RtiTypeOK, RequestReads
  <2>3. RtiTypeOK'
    BY <1>0, <1>3, <2>1 DEF RtiTypeOK, RequestReads, Copies
  <2>4. CopiesSound' /\ RowSound'
    BY <1>0, <1>3, <2>1, <2>2 DEF CopiesSound, RowSound, RequestReads
  <2> QED
    BY <1>3, <2>3, <2>4 DEF RtiInv, RequestReads
<1>4. ASSUME NEW t \in Threads, RunReads(t)
      PROVE  RtiInv'
  <2>1. rti \in App /\ rti # NoApp /\ rti.status = "filed"
    BY <1>0, <1>4 DEF RtiTypeOK, RunReads, NoApp
  <2>2. \A u \in Threads : thread'[u] =
          IF u = t THEN [pc |-> "remind", app |-> rti, at |-> now] ELSE thread[u]
    BY <1>0, <1>4 DEF RtiTypeOK, RunReads
  <2>3. RtiTypeOK'
    BY <1>0, <1>4, <2>1 DEF RtiTypeOK, RunReads, Copies
  <2>4. CopiesSound' /\ RowSound'
    BY <1>0, <1>4, <2>1, <2>2 DEF CopiesSound, RowSound, RunReads
  <2> QED
    BY <1>4, <2>3, <2>4 DEF RtiInv, RunReads
<1>5. ASSUME NEW t \in Threads, Abandon(t)
      PROVE  RtiInv'
  <2>1. RtiTypeOK'
    BY <1>0, <1>5 DEF RtiTypeOK, Abandon
  <2>2. CopiesSound' /\ RowSound'
    BY <1>0, <1>5 DEF RtiTypeOK, CopiesSound, RowSound, Abandon
  <2> QED
    BY <1>5, <2>1, <2>2 DEF RtiInv, Abandon
<1>6. ASSUME NEW t \in Threads, Generate(t)
      PROVE  RtiInv'
  <2> DEFINE read == thread[t].app
  <2>1. PICK r \in 1..MaxRefs :
          /\ refs' \in {r, refs}
          /\ Commit(t, [read EXCEPT !.status = "generated", !.ref = r,
                          !.text = [draft |-> read.draft, ref |-> r]])
    BY <1>6 DEF Generate
  <2> DEFINE letter == [draft |-> read.draft, ref |-> r]
             written == [read EXCEPT !.status = "generated", !.ref = r, !.text = letter]
  <2>2. /\ thread[t] # Waiting /\ read \in App /\ read.sent \subseteq told
        /\ read.status \in {"draft", "generated"}
        /\ UNCHANGED <<now, told>>
    BY <1>6, CopyFacts DEF Generate, Editable
  <2>3. /\ letter \in Letter /\ letter.draft = read.draft /\ letter.ref = r
        /\ letter # NoText
    BY <2>2 DEF App, Letter, NoText
  <2> HIDE DEF letter
  <2>4. written \in App
    <3>1. r \in 0..MaxRefs /\ read \in App
      BY <2>2, RtiAssumption
    <3> HIDE DEF read
    <3> QED
      BY <2>3, <3>1 DEF App
  <2>6. /\ written.status = "generated" /\ written.due = read.due
        /\ written.sent = read.sent /\ written.text = letter
        /\ written.ref = r /\ written.draft = read.draft
    BY <2>2 DEF App
  <2>7. Whole(written) /\ (Reminded(read, told) => Reminded(written, told))
    BY <2>2, <2>3, <2>6 DEF Whole, Reminded
  <2>5. refs' \in 0..MaxRefs /\ now' \in Days /\ told' \subseteq Thresholds
    BY <1>0, <2>1, <2>2, RtiAssumption DEF RtiTypeOK
  <2> HIDE DEF written
  <2> QED
    BY <2>1, <2>2, <2>4, <2>5, <2>6, <2>7, CommitPreserves DEF written, letter
<1>7. ASSUME NEW t \in Threads, MarkResponded(t)
      PROVE  RtiInv'
  <2> DEFINE read == thread[t].app
             written == [read EXCEPT !.status = "responded"]
  <2>1. /\ thread[t] # Waiting /\ read \in App /\ read.sent \subseteq told
        /\ read.status = "filed"
        /\ Commit(t, written) /\ UNCHANGED <<refs, now, told>>
    BY <1>7, CopyFacts DEF MarkResponded
  <2>2. written \in App
    BY <2>1 DEF App
  <2>3. /\ written.sent = read.sent
        /\ Whole(read) => Whole(written)
        /\ Reminded(read, told) => Reminded(written, told)
    BY <2>1 DEF App, Whole, Reminded
  <2>4. refs' \in 0..MaxRefs /\ now' \in Days /\ told' \subseteq Thresholds
    BY <1>0, <2>1 DEF RtiTypeOK
  <2> HIDE DEF written
  <2> QED
    BY <2>1, <2>2, <2>3, <2>4, CommitPreserves
<1>8. ASSUME NEW t \in Threads, NEW d \in Drafts, UpdateDraft(t, d)
      PROVE  RtiInv'
  <2> DEFINE read == thread[t].app
             written == [read EXCEPT !.draft = d, !.status = "draft", !.text = NoText]
  <2>1. /\ thread[t] # Waiting /\ read \in App /\ read.sent \subseteq told
        /\ read.status \in {"draft", "generated"}
        /\ Commit(t, written) /\ UNCHANGED <<refs, now, told>>
    BY <1>8, CopyFacts DEF UpdateDraft, Editable
  <2>2. written \in App
    BY <2>1 DEF App
  <2>3. /\ written.sent = read.sent
        /\ Whole(written) /\ (Reminded(read, told) => Reminded(written, told))
    BY <2>1 DEF App, Whole, Reminded
  <2>4. refs' \in 0..MaxRefs /\ now' \in Days /\ told' \subseteq Thresholds
    BY <1>0, <2>1 DEF RtiTypeOK
  <2> HIDE DEF written
  <2> QED
    BY <2>1, <2>2, <2>3, <2>4, CommitPreserves
<1>9. ASSUME NEW t \in Threads, NEW r \in Days, MarkFiled(t, r)
      PROVE  RtiInv'
  <2> DEFINE read == thread[t].app
             due == Deadline(r, read.draft)
             written == [read EXCEPT !.status = "filed", !.received = r, !.due = due]
  <2>1. /\ thread[t] # Waiting /\ read \in App /\ read.sent \subseteq told
        /\ read.status = "generated"
        /\ Commit(t, written) /\ UNCHANGED <<refs, now, told>>
    BY <1>9, CopyFacts DEF MarkFiled
  <2>2. due \in Int
    BY DeadlineIsADay
  <2>3. written \in App
    BY <2>1, <2>2 DEF App
  <2>4. /\ written.sent = read.sent
        /\ Whole(read) => Whole(written)
        /\ Reminded(read, told) => Reminded(written, told)
    BY <2>1 DEF App, Whole, Reminded
  <2>5. refs' \in 0..MaxRefs /\ now' \in Days /\ told' \subseteq Thresholds
    BY <1>0, <2>1 DEF RtiTypeOK
  <2> HIDE DEF written, due
  <2> QED
    BY <2>1, <2>2, <2>3, <2>4, <2>5, CommitPreserves
<1>10. ASSUME NEW t \in Threads, NEW h \in Thresholds, Remind(t, h)
       PROVE  RtiInv'
  <2> DEFINE read == thread[t].app
             written == [read EXCEPT !.sent = @ \cup {h}]
  <2>1. /\ thread[t] # Waiting /\ read \in App /\ read.sent \subseteq told
        /\ read.status = "filed" /\ told' = told \cup {h}
        /\ Commit(t, written) /\ UNCHANGED <<refs, now>>
    BY <1>10, CopyFacts DEF Remind
  <2>2. written \in App
    BY <2>1 DEF App
  <2>3. /\ written.sent = read.sent \cup {h}
        /\ Whole(read) => Whole(written)
        /\ Reminded(read, told) => Reminded(written, told')
    BY <2>1 DEF App, Whole, Reminded
  <2>4. /\ refs' \in 0..MaxRefs /\ now' \in Days
        /\ told' \subseteq Thresholds /\ told \subseteq told'
        /\ written.sent \subseteq told'
    BY <1>0, <2>1, <2>3 DEF RtiTypeOK
  <2> HIDE DEF written
  <2> QED
    BY <2>1, <2>2, <2>3, <2>4, CommitPreserves
<1>11. CASE UNCHANGED rtiVars
  BY <1>11 DEF rtiVars, RtiInv, RtiTypeOK, CopiesSound, RowSound
<1> QED
  BY <1>1, <1>2, <1>3, <1>4, <1>5, <1>6, <1>7, <1>8, <1>9, <1>10, <1>11 DEF RtiNext

\* RtiInv gives both properties.
LEMMA RtiPromises ==
  ASSUME RtiInv
  PROVE  FiledAsWritten /\ MarkedMeansTold
  BY DEF RtiInv, RowSound, Whole, Reminded, FiledAsWritten, MarkedMeansTold

\* As long as no transaction has written over another, an application has the letter
\* of its draft and reference, and a filed one the deadline its draft has by law: for
\* any drafts, periods, thresholds and number of requests and reminder runs
\* (update_draft, generate, mark_filed).
THEOREM FiledAsWrittenHolds == RtiSpec => []FiledAsWritten
<1>1. RtiInit => RtiInv
  BY RtiInitially
<1>2. RtiInv /\ [RtiNext]_rtiVars => RtiInv'
  BY RtiStep
<1>3. RtiInv => FiledAsWritten
  BY RtiPromises
<1> QED
  BY <1>1, <1>2, <1>3, PTL DEF RtiSpec

\* Whatever overlaps or fails, a threshold marked as sent has its notification; and as
\* long as no transaction has written over another, the owner is told of a threshold
\* of a filed application once (RtiReminderService.run).
THEOREM MarkedMeansToldHolds == RtiSpec => []MarkedMeansTold
<1>1. RtiInit => RtiInv
  BY RtiInitially
<1>2. RtiInv /\ [RtiNext]_rtiVars => RtiInv'
  BY RtiStep
<1>3. RtiInv => MarkedMeansTold
  BY RtiPromises
<1> QED
  BY <1>1, <1>2, <1>3, PTL DEF RtiSpec

-----------------------------------------------------------------------------
(* Documents.  The row is held from the first flush to the end of the         *)
(* transaction, so only one run can be past it; what makes the index follow   *)
(* the row is that this run has seen the row as it is, unless it is astray.   *)

\* What is known of a run by how far it has come.
RunSound(p, w) ==
  /\ doc # NoDoc
  /\ w.pc = "flush" => w.copy.attempts < MaxAttempts
  /\ w.pc \in {"flush", "extract"} => w.copy.status # "ready"
  /\ w.pc = "commit" =>
       w.copy.status = "failed" \/ (w.copy.status = "ready" /\ w.stored)
  /\ w.pc \in {"extract", "commit"} => lock = p
  /\ ~astray /\ w.pc \in {"extract", "commit"} => doc.status # "ready"
  /\ ~astray /\ w.pc = "commit" /\ w.copy.status = "failed" => p \notin index

IngestRuns == [pc : {"flush", "extract"}, copy : Doc]
        \cup [pc : {"commit"}, copy : Doc, stored : BOOLEAN]

RunsSound == \A p \in Processes : work[p] # NoWork => RunSound(p, work[p])

JobsCounted ==
  /\ doc = NoDoc => ingest = 0 /\ retried = {} /\ index = {}
  /\ doc.status = "uploaded" => doc.attempts = 0
  /\ doc # NoDoc => ingest <= 1 + Cardinality(retried)

DocumentInv == DocumentTypeOK /\ IndexFollowsRow /\ RunsSound /\ JobsCounted

\* A retry job has a number of attempts in its key, and there are MaxAttempts + 1.
LEMMA FewRetries ==
  ASSUME NEW s, s \subseteq 0..MaxAttempts
  PROVE  IsFiniteSet(s) /\ Cardinality(s) \in Nat /\ Cardinality(s) <= MaxAttempts + 1
<1>1. 0 \in Int /\ MaxAttempts \in Int /\ 0 <= MaxAttempts
  BY DocumentAssumption
<1>2. IsFiniteSet(0..MaxAttempts) /\ Cardinality(0..MaxAttempts) = MaxAttempts + 1
  BY <1>1, FS_Interval
<1>3. IsFiniteSet(s) /\ Cardinality(s) <= Cardinality(0..MaxAttempts)
  BY <1>2, FS_Subset
<1> QED
  BY <1>2, <1>3, FS_CardinalityType

LEMMA DocumentInitially ==
  ASSUME DocumentInit
  PROVE  DocumentInv
<1>1. 0 \in Nat /\ MaxAttempts \in Nat /\ MaxStamp \in Nat
  BY DocumentAssumption
<1>2. DocumentTypeOK
  <2>1. work \in [Processes -> IngestRuns \cup {NoWork}]
    BY DEF DocumentInit
  <2>2. ingest \in 0..MaxAttempts + 2 /\ stamp \in 0..MaxStamp
    BY <1>1 DEF DocumentInit
  <2>3. seen \in [Processes -> 0..MaxStamp]
    BY <1>1 DEF DocumentInit
  <2> QED
    BY <2>1, <2>2, <2>3 DEF DocumentInit, DocumentTypeOK, IngestRuns
<1>3. doc = NoDoc /\ doc.status = "absent"
  BY DEF DocumentInit, NoDoc
<1>4. RunsSound
  BY DEF DocumentInit, RunsSound
<1> QED
  BY <1>2, <1>3, <1>4 DEF DocumentInit, DocumentInv, IndexFollowsRow, JobsCounted

\* What the type invariant says of a run's copy.
LEMMA IngestTypes ==
  ASSUME DocumentTypeOK, NEW p \in Processes
  PROVE  /\ work[p] \in IngestRuns \cup {NoWork}
         /\ work[p] # NoWork =>
              work[p].copy \in Doc /\ work[p].pc \in {"flush", "extract", "commit"}
         /\ work[p].pc \in {"flush", "extract", "commit"} => work[p] # NoWork
<1>1. work[p] \in IngestRuns \cup {NoWork}
  BY DEF DocumentTypeOK, IngestRuns
<1>2. ASSUME work[p] \in IngestRuns
      PROVE  work[p].copy \in Doc /\ work[p].pc \in {"flush", "extract", "commit"}
  BY <1>2 DEF IngestRuns
<1>3. ASSUME work[p].pc \in {"flush", "extract", "commit"}
      PROVE  work[p] # NoWork
  BY <1>3 DEF NoWork
<1> QED
  BY <1>1, <1>2, <1>3

\* A step that another takes, if it leaves the lock to its holder and changes the row
\* only where that one does not hold it, keeps what is known of a run.
LEMMA OthersKeepRunning ==
  ASSUME RunsSound, NEW q \in Processes,
         work'[q] = work[q],
         doc # NoDoc => doc' # NoDoc,
         doc' = doc \/ lock # q,
         astray => astray',
         lock = q => lock' = q,
         q \in index' => q \in index \/ doc.status = "ready"
  PROVE  work'[q] # NoWork => RunSound(q, work[q])'
<1> SUFFICES ASSUME work'[q] # NoWork
             PROVE  RunSound(q, work[q])'
  OBVIOUS
<1>1. RunSound(q, work[q]) /\ work'[q] = work[q]
  BY DEF RunsSound
<1> QED
  BY <1>1 DEF RunSound

\* A row is not absent, and has one of three states.
LEMMA RowTypes ==
  ASSUME DocumentTypeOK
  PROVE  /\ NoDoc.status = "absent"
         /\ doc.status # "absent" => doc \in Doc /\ doc # NoDoc
         /\ \A d \in Doc : /\ d # NoDoc /\ d.status \in {"uploaded", "ready", "failed"}
                           /\ d.attempts \in 0..MaxAttempts /\ d.updated \in 0..MaxStamp
<1>1. NoDoc.status = "absent"
  BY DEF NoDoc
<1>2. \A d \in Doc : /\ d.status \in {"uploaded", "ready", "failed"}
                     /\ d.attempts \in 0..MaxAttempts /\ d.updated \in 0..MaxStamp
  BY DEF Doc
<1>3. doc \in Doc \cup {NoDoc}
  BY DEF DocumentTypeOK
<1> QED
  BY <1>1, <1>2, <1>3

\* The number of open jobs stays within its bound.
LEMMA JobsFit ==
  ASSUME retried' \subseteq 0..MaxAttempts, ingest' \in Nat,
         ingest' <= 1 + Cardinality(retried')
  PROVE  ingest' \in 0..MaxAttempts + 2
<1>1. Cardinality(retried') \in Nat /\ Cardinality(retried') <= MaxAttempts + 1
  BY FewRetries
<1> QED
  BY <1>1, DocumentAssumption

\* Uploads, retries and jobs given up.
LEMMA JobSteps ==
  ASSUME DocumentInv, UploadDocument \/ Retry \/ GiveUpIngest
  PROVE  DocumentInv'
<1>0. DocumentTypeOK /\ IndexFollowsRow /\ RunsSound /\ JobsCounted
  BY DEF DocumentInv
<1>1. CASE UploadDocument
  <2>1. /\ doc' \in Doc /\ doc'.status = "uploaded" /\ doc'.attempts = 0
        /\ doc' # NoDoc
    BY <1>1, DocumentAssumption DEF UploadDocument, Doc, NoDoc
  <2>2. /\ retried' = {} /\ index' = {} /\ ingest' = 1 /\ doc = NoDoc
    BY <1>0, <1>1 DEF JobsCounted, UploadDocument
  <2>3. Cardinality({}) = 0
    BY FS_EmptySet
  <2>4. ingest' \in 0..MaxAttempts + 2
    BY <2>2, DocumentAssumption
  <2>5. DocumentTypeOK'
    BY <1>0, <1>1, <2>1, <2>4 DEF DocumentTypeOK, UploadDocument
  <2>6. RunsSound'
    BY <1>0, <1>1, <2>2 DEF RunsSound, RunSound, UploadDocument
  <2>7. IndexFollowsRow' /\ JobsCounted'
    BY <2>1, <2>2, <2>3 DEF IndexFollowsRow, JobsCounted
  <2> QED
    BY <2>5, <2>6, <2>7 DEF DocumentInv
<1>2. CASE Retry
  <2>1. doc \in Doc /\ doc # NoDoc /\ doc.status = "failed"
    BY <1>0, <1>2, RowTypes DEF Retry
  <2>2. doc.attempts \in 0..MaxAttempts
    BY <2>1 DEF Doc
  <2>3. retried \subseteq 0..MaxAttempts /\ retried' \subseteq 0..MaxAttempts
    BY <1>0, <1>2, <2>2 DEF DocumentTypeOK, Retry
  <2>4. Cardinality(retried') = Cardinality(retried) + 1
    BY <1>2, <2>3, FewRetries, FS_AddElement DEF Retry
  <2>5. ingest \in Nat /\ ingest <= 1 + Cardinality(retried) /\ ingest' = ingest + 1
    BY <1>0, <1>2, <2>1 DEF DocumentTypeOK, JobsCounted, Retry
  <2>6. Cardinality(retried) \in Nat
    BY <2>3, FewRetries
  <2>7. ingest' \in Nat /\ ingest' <= 1 + Cardinality(retried')
    BY <2>4, <2>5, <2>6
  <2>8. ingest' \in 0..MaxAttempts + 2
    BY <2>3, <2>7, JobsFit
  <2>9. DocumentTypeOK'
    BY <1>0, <1>2, <2>3, <2>8 DEF DocumentTypeOK, Retry
  <2>10. RunsSound'
    BY <1>0, <1>2 DEF RunsSound, RunSound, Retry
  <2>11. IndexFollowsRow' /\ JobsCounted'
    BY <1>0, <1>2, <2>1, <2>7 DEF IndexFollowsRow, JobsCounted, Retry
  <2> QED
    BY <2>9, <2>10, <2>11 DEF DocumentInv
<1>3. CASE GiveUpIngest
  <2>1. ingest \in 0..MaxAttempts + 2 /\ ingest' = ingest - 1 /\ ingest > 0
    BY <1>0, <1>3 DEF DocumentTypeOK, GiveUpIngest
  <2>2. retried \subseteq 0..MaxAttempts
    BY <1>0 DEF DocumentTypeOK
  <2>3. Cardinality(retried) \in Nat
    BY <2>2, FewRetries
  <2>4. ingest' \in 0..MaxAttempts + 2
    BY <2>1, DocumentAssumption
  <2>5. DocumentTypeOK'
    BY <1>0, <1>3, <2>4 DEF DocumentTypeOK, GiveUpIngest
  <2>6. RunsSound'
    BY <1>0, <1>3 DEF RunsSound, RunSound, GiveUpIngest
  <2>7. IndexFollowsRow' /\ JobsCounted'
    BY <1>0, <1>3, <2>1, <2>3, DocumentAssumption
       DEF IndexFollowsRow, JobsCounted, GiveUpIngest
  <2> QED
    BY <2>5, <2>6, <2>7 DEF DocumentInv
<1> QED
  BY <1>1, <1>2, <1>3

\* A run begins, or finds nothing to do, and takes the row's lock.
LEMMA RunBegins ==
  ASSUME DocumentInv, NEW p \in Processes, Load(p) \/ NothingToDo(p) \/ Flush(p)
  PROVE  DocumentInv'
<1>0. DocumentTypeOK /\ IndexFollowsRow /\ RunsSound /\ JobsCounted
  BY DEF DocumentInv
<1>1. CASE Load(p)
  <2>1. ingest > 0 /\ doc # NoDoc /\ doc \in Doc
    BY <1>0, <1>1, DocumentAssumption DEF JobsCounted, Load, DocumentTypeOK
  <2> DEFINE w == [pc |-> "flush", copy |-> doc]
  <2>2. w \in IngestRuns /\ w.pc = "flush" /\ w.copy = doc
    BY <2>1 DEF IngestRuns
  <2>3. /\ work' = [work EXCEPT ![p] = w]
        /\ UNCHANGED <<doc, chunks, ingest, retried, lock, index, seen, stamp, astray>>
        /\ work[p] = NoWork /\ doc.status # "ready" /\ doc.attempts < MaxAttempts
    BY <1>1 DEF Load
  <2> HIDE DEF w
  <2>4. \A q \in Processes : work'[q] = IF q = p THEN w ELSE work[q]
    BY <1>0, <2>3 DEF DocumentTypeOK
  <2>5. DocumentTypeOK'
    BY <1>0, <2>2, <2>3 DEF DocumentTypeOK, IngestRuns
  <2>6. RunsSound'
    <3>1. \A q \in Processes \ {p} : work'[q] # NoWork => RunSound(q, work[q])'
      BY <1>0, <2>3, <2>4, OthersKeepRunning
    <3>2. RunSound(p, work[p])'
      BY <2>1, <2>2, <2>3, <2>4 DEF RunSound
    <3> QED
      BY <3>1, <3>2 DEF RunsSound
  <2>7. IndexFollowsRow' /\ JobsCounted'
    BY <1>0, <2>3, <2>4 DEF IndexFollowsRow, JobsCounted
  <2> QED
    BY <2>5, <2>6, <2>7 DEF DocumentInv
<1>2. CASE NothingToDo(p)
  <2>1. ingest \in 0..MaxAttempts + 2 /\ ingest' = ingest - 1 /\ ingest > 0
    BY <1>0, <1>2 DEF DocumentTypeOK, NothingToDo
  <2>2. Cardinality(retried) \in Nat /\ ingest' \in 0..MaxAttempts + 2
    <3>1. retried \subseteq 0..MaxAttempts
      BY <1>0 DEF DocumentTypeOK
    <3>2. Cardinality(retried) \in Nat
      BY <3>1, FewRetries
    <3> QED
      BY <2>1, <3>2, DocumentAssumption
  <2>3. doc.status # "uploaded"
    BY <1>0, <1>2, DocumentAssumption DEF JobsCounted, NothingToDo
  <2>4. DocumentTypeOK' /\ RunsSound'
    BY <1>0, <1>2, <2>2 DEF DocumentTypeOK, RunsSound, RunSound, NothingToDo
  <2>5. IndexFollowsRow' /\ JobsCounted'
    BY <1>0, <1>2, <2>1, <2>2, <2>3, DocumentAssumption
       DEF IndexFollowsRow, JobsCounted, NothingToDo
  <2> QED
    BY <2>4, <2>5 DEF DocumentInv
<1>3. CASE Flush(p)
  <2> DEFINE c == work[p].copy
             w == [work[p] EXCEPT !.pc = "extract", !.copy.attempts = @ + 1]
  <2>1. work[p] # NoWork /\ work[p] \in IngestRuns /\ work[p].pc = "flush" /\ c \in Doc
    BY <1>0, <1>3, IngestTypes DEF Flush
  <2>2. RunSound(p, work[p])
    BY <1>0, <2>1 DEF RunsSound
  <2>3. c.attempts < MaxAttempts /\ c.status # "ready" /\ doc # NoDoc
    BY <2>1, <2>2 DEF RunSound
  <2>4. c.attempts + 1 \in 0..MaxAttempts
    BY <2>1, <2>3, DocumentAssumption DEF Doc
  <2>5. /\ w \in [pc : {"flush", "extract"}, copy : Doc]
        /\ w.pc = "extract" /\ w.copy.status = c.status /\ w # NoWork
    BY <2>1, <2>4 DEF IngestRuns, Doc, NoWork
  <2>6. /\ work' = [work EXCEPT ![p] = w]
        /\ lock = Nobody /\ lock' = p
        /\ astray' = (astray \/ doc # c)
        /\ UNCHANGED <<doc, chunks, ingest, retried, index, seen, stamp>>
    BY <1>3 DEF Flush
  <2> HIDE DEF w, c
  <2>7. \A q \in Processes : work'[q] = IF q = p THEN w ELSE work[q]
    BY <1>0, <2>6 DEF DocumentTypeOK
  <2>8. DocumentTypeOK'
    BY <1>0, <2>5, <2>6 DEF DocumentTypeOK
  <2>9. RunsSound'
    <3>1. \A q \in Processes \ {p} : work'[q] # NoWork => RunSound(q, work[q])'
      BY <1>0, <2>6, <2>7, OthersKeepRunning, DocumentAssumption
    <3>2. RunSound(p, work[p])'
      BY <2>3, <2>5, <2>6, <2>7 DEF RunSound
    <3> QED
      BY <3>1, <3>2 DEF RunsSound
  <2>10. IndexFollowsRow' /\ JobsCounted'
    <3>1. astray => astray'
      BY <2>6
    <3> QED
      BY <1>0, <2>5, <2>6, <2>7, <3>1 DEF IndexFollowsRow, JobsCounted
  <2> QED
    BY <2>8, <2>9, <2>10 DEF DocumentInv
<1> QED
  BY <1>1, <1>2, <1>3

\* A run has extracted the text and indexed it, or has failed.
LEMMA RunFinishes ==
  ASSUME DocumentInv, NEW p \in Processes, NEW status \in {"ready", "failed"},
         Finishes(p, status, status = "ready"),
         index' = IF status = "ready" THEN index \cup {p} ELSE index \ {p}
  PROVE  DocumentInv'
<1> DEFINE c == work[p].copy
           d == [c EXCEPT !.status = status, !.updated = stamp + 1]
           w == [pc |-> "commit", stored |-> (status = "ready"), copy |-> d]
<1>0. DocumentTypeOK /\ IndexFollowsRow /\ RunsSound /\ JobsCounted
  BY DEF DocumentInv
<1>1. work[p] # NoWork /\ c \in Doc /\ work[p].pc = "extract"
  BY <1>0, IngestTypes DEF Finishes
<1>2. RunSound(p, work[p])
  BY <1>0, <1>1 DEF RunsSound
<1>3. doc # NoDoc /\ lock = p /\ (~astray => doc.status # "ready")
  BY <1>1, <1>2 DEF RunSound
<1>4. stamp + 1 \in 0..MaxStamp /\ stamp' = stamp + 1
  BY <1>0, DocumentAssumption DEF DocumentTypeOK, Finishes
<1>5. d \in Doc /\ d.status = status
  BY <1>1, <1>4 DEF Doc
<1>6. /\ work' = [work EXCEPT ![p] = w]
      /\ UNCHANGED <<doc, chunks, ingest, retried, lock, seen, astray>>
  BY DEF Finishes
<1> HIDE DEF c, d
<1>7. /\ w \in [pc : {"commit"}, copy : Doc, stored : BOOLEAN]
      /\ w.pc = "commit" /\ w.copy = d /\ w # NoWork
      /\ status = "ready" => w.stored
  BY <1>5 DEF NoWork
<1> HIDE DEF w
<1>8. \A q \in Processes : work'[q] = IF q = p THEN w ELSE work[q]
  BY <1>0, <1>6 DEF DocumentTypeOK
<1>9. index' \subseteq Processes
  BY <1>0 DEF DocumentTypeOK
<1>10. DocumentTypeOK'
  BY <1>0, <1>4, <1>6, <1>7, <1>9 DEF DocumentTypeOK
<1>11. RunsSound'
  <2>1. \A q \in Processes \ {p} : work'[q] # NoWork => RunSound(q, work[q])'
    BY <1>0, <1>6, <1>8, OthersKeepRunning
  <2>2. RunSound(p, work[p])'
    BY <1>3, <1>5, <1>6, <1>7, <1>8 DEF RunSound
  <2> QED
    BY <2>1, <2>2 DEF RunsSound
<1>12. IndexFollowsRow' /\ JobsCounted'
  BY <1>0, <1>3, <1>6, <1>7, <1>8 DEF IndexFollowsRow, JobsCounted
<1> QED
  BY <1>10, <1>11, <1>12 DEF DocumentInv

\* A run commits: it holds the row, so no other is past the first flush.
LEMMA RunCommits ==
  ASSUME DocumentInv, NEW p \in Processes, CommitRun(p)
  PROVE  DocumentInv'
<1> DEFINE c == work[p].copy
<1>0. DocumentTypeOK /\ IndexFollowsRow /\ RunsSound /\ JobsCounted
  BY DEF DocumentInv
<1>1. work[p] # NoWork /\ c \in Doc /\ work[p].pc = "commit"
  BY <1>0, IngestTypes DEF CommitRun
<1>2. RunSound(p, work[p])
  BY <1>0, <1>1 DEF RunsSound
<1>3. /\ doc # NoDoc /\ lock = p /\ (~astray => doc.status # "ready")
      /\ c.status = "failed" \/ (c.status = "ready" /\ work[p].stored)
      /\ ~astray /\ c.status = "failed" => p \notin index
  BY <1>1, <1>2 DEF RunSound
<1>4. /\ doc' = c /\ chunks' = (chunks \/ work[p].stored)
      /\ ingest' = ingest - Settled(c)
      /\ work' = [work EXCEPT ![p] = NoWork]
      /\ lock' = Nobody
      /\ UNCHANGED <<retried, index, seen, stamp, astray>>
  BY DEF CommitRun
<1>5. doc' \in Doc /\ doc' # NoDoc /\ doc'.status \in {"failed", "ready"}
  BY <1>0, <1>1, <1>3, <1>4, RowTypes
<1>6. ingest \in 0..MaxAttempts + 2 /\ Settled(c) \in {0, 1}
      /\ (ingest = 0 => Settled(c) = 0)
  BY <1>0 DEF DocumentTypeOK, Settled
<1>7. ingest' \in 0..MaxAttempts + 2 /\ ingest' <= ingest
  BY <1>4, <1>6, DocumentAssumption
<1>8. \A q \in Processes : work'[q] = IF q = p THEN NoWork ELSE work[q]
  BY <1>0, <1>4 DEF DocumentTypeOK
<1>9. DocumentTypeOK'
  BY <1>0, <1>4, <1>5, <1>7 DEF DocumentTypeOK
<1>10. RunsSound'
  <2>1. \A q \in Processes \ {p} : work'[q] # NoWork => RunSound(q, work[q])'
    BY <1>0, <1>3, <1>4, <1>5, <1>8, OthersKeepRunning
  <2> QED
    BY <1>8, <2>1 DEF RunsSound
<1>11. IndexFollowsRow'
  <2>1. doc'.status = "ready" => chunks'
    BY <1>3, <1>4
  <2>2. ASSUME ~astray', NEW q \in index', doc'.status # "ready"
        PROVE  work'[q] # NoWork
    <3>1. ~astray /\ q \in index /\ q \in Processes /\ doc.status # "ready" /\ q # p
      BY <1>0, <1>3, <1>4, <2>2 DEF DocumentTypeOK
    <3> QED
      BY <1>0, <1>8, <3>1 DEF IndexFollowsRow
  <2> QED
    BY <1>5, <2>1, <2>2 DEF IndexFollowsRow
<1>12. JobsCounted'
  <2>1. retried \subseteq 0..MaxAttempts
    BY <1>0 DEF DocumentTypeOK
  <2>2. Cardinality(retried) \in Nat /\ ingest <= 1 + Cardinality(retried)
    BY <1>0, <1>3, <2>1, FewRetries DEF JobsCounted
  <2>3. ingest' <= 1 + Cardinality(retried)
    BY <1>6, <1>7, <2>2, DocumentAssumption
  <2> QED
    BY <1>4, <1>5, <2>3 DEF JobsCounted
<1> QED
  BY <1>9, <1>10, <1>11, <1>12 DEF DocumentInv

\* A transaction is lost, with its process or without.
LEMMA RunIsLost ==
  ASSUME DocumentInv, NEW p \in Processes, Rollback(p) \/ Crash(p)
  PROVE  DocumentInv'
<1>0. DocumentTypeOK /\ IndexFollowsRow /\ RunsSound /\ JobsCounted
  BY DEF DocumentInv
<1>1. /\ work' = [work EXCEPT ![p] = NoWork]
      /\ lock' = IF lock = p THEN Nobody ELSE lock
      /\ UNCHANGED <<doc, chunks, ingest, retried, stamp>>
      /\ index' \subseteq index
      /\ astray' \in BOOLEAN /\ (astray => astray')
      /\ ~astray' => p \notin index'
  BY <1>0 DEF Rollback, Crash, DocumentTypeOK
<1>2. seen' \in [Processes -> 0..MaxStamp]
  BY <1>0, DocumentAssumption DEF Rollback, Crash, DocumentTypeOK
<1>3. \A q \in Processes : work'[q] = IF q = p THEN NoWork ELSE work[q]
  BY <1>0, <1>1 DEF DocumentTypeOK
<1>4. DocumentTypeOK'
  BY <1>0, <1>1, <1>2 DEF DocumentTypeOK
<1>5. RunsSound'
  <2>1. \A q \in Processes \ {p} : work'[q] # NoWork => RunSound(q, work[q])'
    BY <1>0, <1>1, <1>3, OthersKeepRunning
  <2> QED
    BY <1>3, <2>1 DEF RunsSound
<1>6. IndexFollowsRow'
  <2>1. ASSUME ~astray', NEW q \in index', doc'.status # "ready"
        PROVE  work'[q] # NoWork
    <3>1. ~astray /\ q \in index /\ q \in Processes /\ doc.status # "ready" /\ q # p
      BY <1>0, <1>1, <2>1 DEF DocumentTypeOK
    <3> QED
      BY <1>0, <1>3, <3>1 DEF IndexFollowsRow
  <2> QED
    BY <1>0, <1>1, <2>1 DEF IndexFollowsRow
<1>7. JobsCounted'
  BY <1>0, <1>1 DEF JobsCounted
<1> QED
  BY <1>4, <1>5, <1>6, <1>7 DEF DocumentInv

\* A process's index takes the row up, or drops it.
LEMMA IndexRefreshes ==
  ASSUME DocumentInv, NEW p \in Processes, RefreshAdds(p) \/ RefreshDrops(p)
  PROVE  DocumentInv'
<1>0. DocumentTypeOK /\ IndexFollowsRow /\ RunsSound /\ JobsCounted
  BY DEF DocumentInv
<1>1. /\ UNCHANGED <<doc, chunks, ingest, retried, work, lock, stamp, astray>>
      /\ index' \subseteq index \cup {p}
      /\ index' \subseteq index \/ doc.status = "ready"
  BY DEF RefreshAdds, RefreshDrops
<1>2. seen' \in [Processes -> 0..MaxStamp]
  <2>1. CASE RefreshAdds(p)
    <3>1. doc.updated \in 0..MaxStamp
      BY <1>0, <2>1, RowTypes DEF RefreshAdds
    <3> QED
      BY <1>0, <2>1, <3>1 DEF RefreshAdds, DocumentTypeOK
  <2>2. CASE RefreshDrops(p)
    BY <1>0, <2>2, DocumentAssumption DEF RefreshDrops, DocumentTypeOK
  <2> QED
    BY <2>1, <2>2
<1>3. DocumentTypeOK'
  BY <1>0, <1>1, <1>2 DEF DocumentTypeOK
<1>4. RunsSound'
  <2>1. \A q \in Processes : work'[q] # NoWork => RunSound(q, work[q])'
    BY <1>0, <1>1, OthersKeepRunning
  <2> QED
    BY <2>1 DEF RunsSound
<1>5. IndexFollowsRow'
  BY <1>0, <1>1 DEF IndexFollowsRow
<1>6. JobsCounted'
  <2>1. doc.status = "ready" => doc # NoDoc
    BY <1>0, RowTypes
  <2> QED
    BY <1>0, <1>1, <2>1 DEF JobsCounted
<1> QED
  BY <1>3, <1>4, <1>5, <1>6 DEF DocumentInv

LEMMA DocumentStep ==
  ASSUME DocumentInv, [DocumentNext]_documentVars
  PROVE  DocumentInv'
<1>1. CASE UploadDocument \/ Retry \/ GiveUpIngest
  BY <1>1, JobSteps
<1>2. ASSUME NEW p \in Processes, Load(p) \/ NothingToDo(p) \/ Flush(p)
      PROVE  DocumentInv'
  BY <1>2, RunBegins
<1>3. ASSUME NEW p \in Processes, Indexed(p)
      PROVE  DocumentInv'
  BY <1>3, RunFinishes DEF Indexed
<1>4. ASSUME NEW p \in Processes, Failed(p)
      PROVE  DocumentInv'
  BY <1>4, RunFinishes DEF Failed
<1>5. ASSUME NEW p \in Processes, CommitRun(p)
      PROVE  DocumentInv'
  BY <1>5, RunCommits
<1>6. ASSUME NEW p \in Processes, Rollback(p) \/ Crash(p)
      PROVE  DocumentInv'
  BY <1>6, RunIsLost
<1>7. ASSUME NEW p \in Processes, RefreshAdds(p) \/ RefreshDrops(p)
      PROVE  DocumentInv'
  BY <1>7, IndexRefreshes
<1>8. CASE UNCHANGED documentVars
  BY <1>8 DEF documentVars, DocumentInv, DocumentTypeOK, IndexFollowsRow, RunsSound,
              RunSound, JobsCounted
<1> QED
  BY <1>1, <1>2, <1>3, <1>4, <1>5, <1>6, <1>7, <1>8 DEF DocumentNext

\* For any number of processes and attempts: a ready document has its chunks, an index
\* holds it only when it is ready or being processed there, and an uploaded one has a
\* job, unless a transaction failed, two overlapped or a job was given up (process,
\* ingest_document, _PersistingIndex).
THEOREM IndexFollowsRowHolds == DocumentSpec => []IndexFollowsRow
<1>1. DocumentInit => DocumentInv
  BY DocumentInitially
<1>2. DocumentInv /\ [DocumentNext]_documentVars => DocumentInv'
  BY DocumentStep
<1>3. DocumentInv => IndexFollowsRow
  BY DEF DocumentInv
<1> QED
  BY <1>1, <1>2, <1>3, PTL DEF DocumentSpec

-----------------------------------------------------------------------------
(* The types of the desk.  A step of it is a step of one component and a stutter *)
(* of the others, so what is proved of each holds of the whole.                  *)

LEMMA DeskBeginnings ==
  ASSUME DeskInit
  PROVE  /\ PhoneInit /\ DeliveryInit /\ RtiInit /\ DocumentInit /\ DraftInit
         /\ AccountInit /\ SocketInit
  BY DEF DeskInit, DeliveryRests, AccountRests

LEMMA DeskSteps ==
  ASSUME [DeskNext]_deskVars
  PROVE  /\ [PhoneNext]_phoneVars /\ [DeliveryNext]_deliveryVars /\ [RtiNext]_rtiVars
         /\ [DocumentNext]_documentVars /\ [DraftNext]_draftVars
         /\ [AccountNext]_accountVars /\ [SocketNext]_socketVars
  BY DEF DeskNext, deskVars, Only

LEMMA DeskRunsTheComponents ==
  DeskSpec => /\ PhoneSpec /\ DeliverySpec /\ RtiSpec /\ DocumentSpec /\ DraftSpec
              /\ AccountSpec /\ SocketSpec
<1>1. DeskInit => /\ PhoneInit /\ DeliveryInit /\ RtiInit /\ DocumentInit /\ DraftInit
                  /\ AccountInit /\ SocketInit
  BY DeskBeginnings
<1>2. [DeskNext]_deskVars =>
        /\ [PhoneNext]_phoneVars /\ [DeliveryNext]_deliveryVars /\ [RtiNext]_rtiVars
        /\ [DocumentNext]_documentVars /\ [DraftNext]_draftVars
        /\ [AccountNext]_accountVars /\ [SocketNext]_socketVars
  BY DeskSteps
<1> QED
  BY <1>1, <1>2, PTL DEF DeskSpec, PhoneSpec, DeliverySpec, RtiSpec, DocumentSpec,
                         DraftSpec, AccountSpec, SocketSpec

\* The remaining types.
LEMMA RtiTypes == RtiSpec => []RtiTypeOK
<1>1. RtiInit => RtiInv
  BY RtiInitially
<1>2. RtiInv /\ [RtiNext]_rtiVars => RtiInv'
  BY RtiStep
<1>3. RtiInv => RtiTypeOK
  BY DEF RtiInv
<1> QED
  BY <1>1, <1>2, <1>3, PTL DEF RtiSpec

LEMMA DocumentTypes == DocumentSpec => []DocumentTypeOK
<1>1. DocumentInit => DocumentInv
  BY DocumentInitially
<1>2. DocumentInv /\ [DocumentNext]_documentVars => DocumentInv'
  BY DocumentStep
<1>3. DocumentInv => DocumentTypeOK
  BY DEF DocumentInv
<1> QED
  BY <1>1, <1>2, <1>3, PTL DEF DocumentSpec

\* Who has left the register is not open there, and who is open stays so until then.
LEMMA SocketStep ==
  ASSUME SocketTypeOK, [SocketNext]_socketVars
  PROVE  SocketTypeOK'
<1> USE DEF SocketTypeOK
<1>1. CASE SweepBegins \/ SweepEnds \/ SweepFails
  BY <1>1 DEF SweepBegins, SweepEnds, SweepFails, Going
<1>2. ASSUME NEW k \in Sockets, Arrives(k) \/ Joins(k) \/ Leaves(k) \/ SendFails(k)
      PROVE  SocketTypeOK'
  BY <1>2 DEF Arrives, Joins, Leaves, SendFails
<1>3. ASSUME NEW k \in Sockets, SweepAsks(k)
      PROVE  SocketTypeOK'
  <2>1. sweep.left \subseteq Sockets /\ sweep = Going(sweep.left)
    BY <1>3 DEF SweepAsks, Going, Asleep
  <2>2. sweep' = Going(sweep.left \ {k})
    BY <1>3, <2>1 DEF SweepAsks, Going
  <2>3. /\ client' \in [Sockets -> {"away", "joining", "open", "gone"}]
        /\ conns' \subseteq {j \in Sockets : client'[j] = "open"}
    BY <1>3 DEF SweepAsks, Closes
  <2> QED
    BY <1>3, <2>1, <2>2, <2>3 DEF SweepAsks
<1>4. ASSUME NEW k \in Sockets, NEW s \in Owners, DropCloses(s, k)
      PROVE  SocketTypeOK'
  <2>1. drop[s].left \subseteq Sockets /\ drop[s] = Going(drop[s].left)
    BY <1>4 DEF DropCloses, Going, Asleep, Called
  <2>2. drop' = [drop EXCEPT ![s] = Going(drop[s].left \ {k})]
    <3>1. [drop[s] EXCEPT !.left = @ \ {k}] = Going(drop[s].left \ {k})
      BY <2>1 DEF Going
    <3>2. drop' = [drop EXCEPT ![s] = [drop[s] EXCEPT !.left = @ \ {k}]]
      BY <1>4 DEF DropCloses
    <3> QED
      BY <3>1, <3>2
  <2>3. /\ client' \in [Sockets -> {"away", "joining", "open", "gone"}]
        /\ conns' \subseteq {j \in Sockets : client'[j] = "open"}
    BY <1>4 DEF DropCloses, Closes
  <2> QED
    BY <1>4, <2>1, <2>2, <2>3 DEF DropCloses
<1>5. ASSUME NEW s \in Owners, Expires(s) \/ LogsOut(s) \/ DropBegins(s)
      PROVE  SocketTypeOK'
  BY <1>5 DEF Expires, LogsOut, DropBegins
<1>6. CASE UNCHANGED socketVars
  BY <1>6 DEF socketVars
<1> QED
  BY <1>1, <1>2, <1>3, <1>4, <1>5, <1>6 DEF SocketNext

LEMMA SocketTypes == SocketSpec => []SocketTypeOK
<1>1. SocketInit => SocketTypeOK
  BY DEF SocketInit, SocketTypeOK
<1>2. SocketTypeOK /\ [SocketNext]_socketVars => SocketTypeOK'
  BY SocketStep
<1> QED
  BY <1>1, <1>2, PTL DEF SocketSpec

\* Every variable of the desk keeps its type, for any numbers and sets, and only open
\* connections are in the register of live sockets (WebSocketManager.connect,
\* disconnect).
THEOREM DeskTypes == DeskSpec => []DeskTypesOK
<1>1. PhoneTypeOK /\ DeliveryTypeOK /\ RtiTypeOK /\ DocumentTypeOK /\ DraftTypeOK
      /\ AccountTypeOK /\ SocketTypeOK => DeskTypesOK
  BY DEF DeskTypesOK
<1> QED
  BY <1>1, DeskRunsTheComponents, PhoneTypes, DeliveryTypes, RtiTypes, DocumentTypes,
     DraftTypes, AccountTypes, SocketTypes, PTL
=============================================================================
