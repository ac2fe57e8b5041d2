----------------------- MODULE OutboundDeliveryProofs -----------------------
(***************************************************************************)
(* What holds of a delivery for any jobs and any number of workers: its    *)
(* types, that nothing but a push is sent twice, and that a row that waits *)
(* has a job, both as long as nothing has disturbed the runs.              *)
(*                                                                         *)
(* Undisturbed, there is one run at a time and its job is open (Alone).    *)
(* For SentOnce one has to know what a run can tell from what it has read: *)
(* between its read and its call nothing has been accepted, because an     *)
(* acceptance is recorded before another run reads (Counted).  For         *)
(* WaitingHasJob one has to know, of a run about to close its job, that a  *)
(* row which waits again has another one (Handed).                         *)
(***************************************************************************)
EXTENDS OutboundDelivery, TLAPS

RunSet ==
  [pc : {"mark"}, job : Jobs, seen : RowState]
  \cup [pc : {"send"}, job : Jobs]
  \cup [pc : {"record"}, job : Jobs, outcome : Outcomes]
  \cup [pc : {"return"}, job : Jobs, raises : BOOLEAN]
  \cup {Free}

WaitsStill == row \in {"queued", "sending"}

Asked == asker # Free => asker.seen \notin {"delivered", "queued", "sending"}

\* An acceptance that a run will record has happened.
Answered ==
  /\ \A w \in Workers : run[w].pc = "record" /\ run[w].outcome = "delivered" => accepted >= 1
  /\ row = "delivered" => accepted >= 1

Alone ==
  /\ \A v, w \in Workers : run[v] # Free /\ run[w] # Free => v = w
  /\ \A w \in Workers : run[w] # Free => jobs[run[w].job] = "open"

Handed == \A w \in Workers :
  /\ run[w].pc = "mark" /\ run[w].seen = "delivered" => row = "delivered"
  /\ run[w].pc = "return" /\ WaitsStill =>
       \E j \in Jobs : j # run[w].job /\ jobs[j] = "open"

Unsent(w) ==
  \/ run[w].pc = "mark" /\ run[w].seen # "delivered"
  \/ run[w].pc = "send"
  \/ run[w].pc = "record" /\ run[w].outcome # "delivered"

Counted == kind # "push" =>
  /\ accepted <= 1
  /\ accepted = 1 =>
       \/ row = "delivered"
       \/ \E w \in Workers : run[w].pc = "record" /\ run[w].outcome = "delivered"
  /\ \A w \in Workers : Unsent(w) => accepted = 0

DeliveryInv ==
  /\ DeliveryTypeOK /\ Asked /\ Answered
  /\ ~disturbed => Alone /\ Handed /\ Counted /\ WaitingHasJob

-----------------------------------------------------------------------------
(* Types. *)

LEMMA EnqueueTypes ==
  ASSUME DeliveryTypeOK, NEW j \in Jobs, Enqueue(j)
  PROVE  /\ jobs' \in [Jobs -> {"none", "open", "closed"}]
         /\ jobs[j] = "none" /\ jobs'[j] = "open"
         /\ \A i \in Jobs : jobs[i] = "open" => i # j /\ jobs'[i] = "open"
  BY DEF DeliveryTypeOK, Enqueue

LEMMA RunTypes ==
  ASSUME DeliveryTypeOK, NEW w \in Workers, run[w].pc # "free"
  PROVE  /\ run[w] # Free /\ run[w].job \in Jobs
         /\ run[w].pc = "mark" => run[w].seen \in RowState
         /\ run[w].pc = "record" => run[w].outcome \in Outcomes
         /\ run[w].pc \in {"mark", "send", "record", "return"}
  BY DEF DeliveryTypeOK, Free

LEMMA RunMoves ==
  ASSUME DeliveryTypeOK, NEW w \in Workers, NEW x \in RunSet,
         run' = [run EXCEPT ![w] = x]
  PROVE  /\ run' \in [Workers -> RunSet] /\ run'[w] = x
         /\ \A v \in Workers : v # w => run'[v] = run[v]
  BY DEF DeliveryTypeOK, RunSet

LEMMA DeliveryTypesStep == DeliveryTypeOK /\ [DeliveryNext]_deliveryVars => DeliveryTypeOK'
  <1> SUFFICES ASSUME DeliveryTypeOK, [DeliveryNext]_deliveryVars PROVE DeliveryTypeOK'
    OBVIOUS
  <1>1. CASE ShareDeclines
    BY <1>1, Zenon DEF DeliveryTypeOK, ShareDeclines, RowState
  <1>2. ASSUME NEW granted \in BOOLEAN, ShareReads(granted) PROVE DeliveryTypeOK'
    BY <1>2 DEF DeliveryTypeOK, ShareReads, RowState
  <1>3. ASSUME NEW j \in Jobs, Notify(j) \/ ShareQueues(j) \/ GiveUp(j)
        PROVE  DeliveryTypeOK'
    <2>1. jobs' \in [Jobs -> {"none", "open", "closed"}]
      BY <1>3, EnqueueTypes DEF DeliveryTypeOK, Notify, ShareQueues, GiveUp
    <2> QED BY <1>3, <2>1 DEF DeliveryTypeOK, Notify, ShareQueues, GiveUp, RowState
  <1>4. ASSUME NEW w \in Workers, NEW j \in Jobs, RunJob(w, j) PROVE DeliveryTypeOK'
    BY <1>4 DEF DeliveryTypeOK, RunJob
  <1>5. ASSUME NEW w \in Workers, Mark(w) \/ Skip(w) PROVE DeliveryTypeOK'
    <2>1. run[w].job \in Jobs /\ run[w].seen \in RowState
      BY <1>5, RunTypes DEF Mark, Skip
    <2>2. row' \in RowState
      BY <1>5, <2>1 DEF DeliveryTypeOK, Mark, Skip, MarkedFrom, RowState
    <2>3. run' \in [Workers -> RunSet]
      BY <1>5, <2>1, RunMoves DEF Mark, Skip, RunSet
    <2> QED BY <1>5, <2>2, <2>3 DEF DeliveryTypeOK, Mark, Skip, RunSet
  <1>6. ASSUME NEW w \in Workers, Record(w) PROVE DeliveryTypeOK'
    BY <1>6, RunTypes DEF DeliveryTypeOK, Record, Recorded, RowState, Outcomes
  <1>7. ASSUME NEW w \in Workers, Return(w) \/ Die(w) PROVE DeliveryTypeOK'
    BY <1>7, RunTypes DEF DeliveryTypeOK, Return, Die
  <1>8. ASSUME NEW w \in Workers, NEW o \in Outcomes, Accepted(w, o) \/ NotAccepted(w, o)
        PROVE  DeliveryTypeOK'
    <2>1. /\ run' = [run EXCEPT ![w] = [pc |-> "record", job |-> run[w].job, outcome |-> o]]
          /\ run[w].job \in Jobs
      BY <1>8, RunTypes DEF Accepted, NotAccepted, Calls
    <2>2. run' \in [Workers -> RunSet]
      BY <2>1, RunMoves DEF RunSet
    <2>3. accepted' \in 0..2
      BY <1>8 DEF DeliveryTypeOK, Accepted, OneMore, NotAccepted
    <2>4. disturbed' \in BOOLEAN
      BY <1>8, Zenon DEF DeliveryTypeOK, Accepted, NotAccepted
    <2> QED BY <1>8, <2>2, <2>3, <2>4 DEF DeliveryTypeOK, Accepted, NotAccepted, RunSet
  <1>9. ASSUME NEW w \in Workers, TakenUnheard(w) PROVE DeliveryTypeOK'
    BY <1>9 DEF DeliveryTypeOK, TakenUnheard, OneMore
  <1>10. CASE UNCHANGED deliveryVars
    BY <1>10 DEF deliveryVars, DeliveryTypeOK
  <1> QED BY <1>1, <1>2, <1>3, <1>4, <1>5, <1>6, <1>7, <1>8, <1>9, <1>10 DEF DeliveryNext

-----------------------------------------------------------------------------
(* What an action keeps, its types aside. *)

Calm == Alone /\ Handed /\ Counted /\ WaitingHasJob

Kept == Asked' /\ Answered' /\ (~disturbed' => Calm')

\* A request or a notification that queues a row which is not delivered.
LEMMA QueueKeeps ==
  ASSUME DeliveryInv, NEW j \in Jobs, Enqueue(j), row' = "queued",
         asker' \in {asker, Free}, UNCHANGED <<kind, run, accepted>>,
         ~disturbed' => ~disturbed /\ row # "delivered"
  PROVE  Kept
  <1>1. /\ jobs[j] = "none" /\ jobs'[j] = "open"
        /\ \A i \in Jobs : jobs[i] = "open" => i # j /\ jobs'[i] = "open"
    BY EnqueueTypes DEF DeliveryInv
  <1>2. Asked' /\ Answered'
    BY DEF DeliveryInv, Asked, Answered
  <1>3. ASSUME ~disturbed' PROVE Calm'
    <2>1. Alone /\ Handed /\ Counted /\ row # "delivered"
      BY <1>3 DEF DeliveryInv
    <2>2. \A w \in Workers : run[w] # Free => run[w].job \in Jobs /\ run[w].job # j
      BY <1>1, <2>1, RunTypes DEF DeliveryInv, DeliveryTypeOK, Alone, Free
    <2>3. Alone'
      BY <1>1, <2>1, <2>2 DEF Alone
    <2>4. Handed'
      BY <1>1, <2>1, <2>2 DEF Handed, Free
    <2>5. Counted'
      BY <2>1 DEF Counted, Unsent
    <2>6. WaitingHasJob'
      BY <1>1 DEF WaitingHasJob
    <2> QED BY <2>3, <2>4, <2>5, <2>6 DEF Calm
  <1> QED BY <1>2, <1>3 DEF Kept

LEMMA NotifyKeeps ==
  ASSUME DeliveryInv, NEW j \in Jobs, Notify(j)
  PROVE  Kept
  BY QueueKeeps DEF Notify

LEMMA ShareQueuesKeeps ==
  ASSUME DeliveryInv, NEW j \in Jobs, ShareQueues(j)
  PROVE  Kept
  <1>1. ~disturbed' => ~disturbed /\ row = asker.seen
    BY Zenon DEF ShareQueues
  <1>2. asker.seen # "delivered"
    BY DEF DeliveryInv, Asked, ShareQueues
  <1> QED BY <1>1, <1>2, QueueKeeps DEF ShareQueues

LEMMA ShareDeclinesKeeps ==
  ASSUME DeliveryInv, ShareDeclines
  PROVE  Kept
  <1>1. ~disturbed' => ~disturbed /\ row = asker.seen
    BY Zenon DEF ShareDeclines
  <1>2. asker.seen # "delivered" /\ row' \in {"not_configured", "consent_required"}
    BY DEF DeliveryInv, Asked, ShareDeclines
  <1>3. Asked' /\ Answered'
    BY <1>2 DEF DeliveryInv, Asked, Answered, ShareDeclines
  <1>4. ASSUME ~disturbed' PROVE Calm'
    BY <1>1, <1>2, <1>4
    DEF DeliveryInv, Calm, Alone, Handed, WaitsStill, Counted, Unsent, WaitingHasJob,
        ShareDeclines
  <1> QED BY <1>3, <1>4 DEF Kept

LEMMA ShareReadsKeeps ==
  ASSUME DeliveryInv, NEW granted \in BOOLEAN, ShareReads(granted)
  PROVE  Kept
  <1>1. Asked' /\ Answered'
    BY DEF DeliveryInv, Asked, Answered, ShareReads
  <1>2. ASSUME ~disturbed' PROVE Calm'
    BY <1>2
    DEF DeliveryInv, Calm, Alone, Handed, WaitsStill, Counted, Unsent, WaitingHasJob,
        ShareReads
  <1> QED BY <1>1, <1>2 DEF Kept

LEMMA GiveUpKeeps ==
  ASSUME DeliveryInv, NEW j \in Jobs, GiveUp(j)
  PROVE  Kept
  BY DEF DeliveryInv, Kept, Asked, Answered, GiveUp

-----------------------------------------------------------------------------
(* The steps of a run. *)

\* Where there is one run at a time, the others are free.
LEMMA OthersFree ==
  ASSUME DeliveryInv, ~disturbed, NEW w \in Workers, run[w].pc # "free"
  PROVE  /\ \A v \in Workers : v # w => run[v] = Free
         /\ jobs[run[w].job] = "open"
  BY RunTypes DEF DeliveryInv, Alone

LEMMA RunJobKeeps ==
  ASSUME DeliveryInv, NEW w \in Workers, NEW j \in Jobs, RunJob(w, j)
  PROVE  Kept
  <1> DEFINE x == [pc |-> "mark", job |-> j, seen |-> row]
  <1>1. run'[w] = x /\ \A v \in Workers : v # w => run'[v] = run[v]
    BY DEF DeliveryInv, DeliveryTypeOK, RunJob
  <1>2. ~disturbed' => ~disturbed /\ \A v \in Workers : run[v] = Free
    BY Zenon DEF RunJob
  <1>3. x # Free /\ Free.pc = "free"
    BY DEF Free
  <1>4. Asked' /\ Answered'
    BY <1>1 DEF DeliveryInv, Asked, Answered, RunJob
  <1>5. ASSUME ~disturbed' PROVE Calm'
    <2>1. Alone'
      BY <1>1, <1>2, <1>3, <1>5 DEF Alone, RunJob
    <2>2. Handed'
      BY <1>1, <1>2, <1>3, <1>5 DEF Handed, RunJob
    <2>3. Counted'
      BY <1>1, <1>2, <1>3, <1>5
      DEF DeliveryInv, DeliveryTypeOK, Counted, Unsent, RunJob
    <2>4. WaitingHasJob'
      BY <1>2, <1>5 DEF DeliveryInv, WaitingHasJob, RunJob
    <2> QED BY <2>1, <2>2, <2>3, <2>4 DEF Calm
  <1> QED BY <1>4, <1>5 DEF Kept

LEMMA MarkKeeps ==
  ASSUME DeliveryInv, NEW w \in Workers, Mark(w)
  PROVE  Kept
  <1> DEFINE x == [pc |-> "send", job |-> run[w].job]
  <1>1. run'[w] = x /\ \A v \in Workers : v # w => run'[v] = run[v]
    BY DEF DeliveryInv, DeliveryTypeOK, Mark
  <1>2. row' \in {row, "sending"}
    BY DEF Mark, MarkedFrom
  <1>3. run[w].pc = "mark" /\ run[w].job \in Jobs /\ Free.pc = "free"
    BY RunTypes DEF DeliveryInv, Mark, Free
  <1>4. Asked' /\ Answered'
    BY <1>1, <1>2 DEF DeliveryInv, Asked, Answered, Mark
  <1>5. ASSUME ~disturbed' PROVE Calm'
    <2>1. /\ ~disturbed
          /\ jobs[run[w].job] = "open"
          /\ \A v \in Workers : v # w => run[v] = Free
      BY <1>3, <1>5, OthersFree DEF Mark
    <2>2. Alone' /\ Handed'
      BY <1>1, <1>3, <2>1 DEF Alone, Handed, Mark
    <2>3. kind # "push" => accepted = 0
      BY <2>1 DEF DeliveryInv, Counted, Unsent, Mark, Skips
    <2>4. Counted' /\ WaitingHasJob'
      BY <1>3, <2>1, <2>3 DEF Counted, WaitingHasJob, Mark
    <2> QED BY <2>2, <2>4 DEF Calm
  <1> QED BY <1>4, <1>5 DEF Kept

LEMMA SkipKeeps ==
  ASSUME DeliveryInv, NEW w \in Workers, Skip(w)
  PROVE  Kept
  <1> DEFINE x == [pc |-> "return", job |-> run[w].job, raises |-> FALSE]
  <1>1. run'[w] = x /\ \A v \in Workers : v # w => run'[v] = run[v]
    BY DEF DeliveryInv, DeliveryTypeOK, Skip
  <1>2. run[w].pc = "mark" /\ Free.pc = "free"
    BY DEF Skip, Free
  <1>3. Asked' /\ Answered'
    BY <1>1 DEF DeliveryInv, Asked, Answered, Skip
  <1>4. ASSUME ~disturbed' PROVE Calm'
    <2>1. /\ ~disturbed
          /\ jobs[run[w].job] = "open"
          /\ \A v \in Workers : v # w => run[v] = Free
      BY <1>2, <1>4, OthersFree DEF Skip
    <2>2. row = "delivered"
      BY <2>1 DEF DeliveryInv, Handed, Skip, Skips
    <2>3. Alone' /\ Handed'
      BY <1>1, <1>2, <2>1, <2>2 DEF Alone, Handed, WaitsStill, Skip
    <2>4. Counted' /\ WaitingHasJob'
      BY <1>1, <1>2, <2>1, <2>2 DEF DeliveryInv, Counted, Unsent, WaitingHasJob, Skip
    <2> QED BY <2>3, <2>4 DEF Calm
  <1> QED BY <1>3, <1>4 DEF Kept

LEMMA CallKeeps ==
  ASSUME DeliveryInv, NEW w \in Workers, NEW o \in Outcomes,
         Accepted(w, o) \/ NotAccepted(w, o)
  PROVE  Kept
  <1> DEFINE x == [pc |-> "record", job |-> run[w].job, outcome |-> o]
  <1>1. /\ run'[w] = x /\ \A v \in Workers : v # w => run'[v] = run[v]
        /\ UNCHANGED <<kind, row, jobs, asker>>
        /\ run[w].pc = "send" /\ Free.pc = "free"
    BY DEF DeliveryInv, DeliveryTypeOK, Accepted, NotAccepted, Calls, Free
  <1>2. /\ Accepted(w, o) => accepted' >= 1 /\ (accepted = 0 => accepted' = 1)
        /\ NotAccepted(w, o) => accepted' = accepted /\ o # "delivered"
        /\ accepted' >= accepted
    BY DEF DeliveryInv, DeliveryTypeOK, Accepted, OneMore, NotAccepted
  <1>3. ~disturbed' => ~disturbed /\ (Accepted(w, o) => o = "delivered")
    BY Zenon DEF Accepted, NotAccepted
  <1>4. Asked' /\ Answered'
    <2>1. \A v \in Workers : run'[v].pc = "record" /\ run'[v].outcome = "delivered"
                               => accepted' >= 1
      BY <1>1, <1>2 DEF DeliveryInv, DeliveryTypeOK, Answered
    <2>2. row' = "delivered" => accepted' >= 1
      BY <1>1, <1>2 DEF DeliveryInv, DeliveryTypeOK, Answered
    <2> QED BY <1>1, <2>1, <2>2 DEF DeliveryInv, Asked, Answered
  <1>5. ASSUME ~disturbed' PROVE Calm'
    <2>1. /\ ~disturbed
          /\ jobs[run[w].job] = "open"
          /\ \A v \in Workers : v # w => run[v] = Free
      BY <1>1, <1>3, <1>5, OthersFree
    <2>2. Alone' /\ Handed' /\ WaitingHasJob'
      BY <1>1, <1>3, <1>5, <2>1 DEF DeliveryInv, Alone, Handed, WaitsStill, WaitingHasJob
    <2>3. kind # "push" => accepted = 0
      BY <1>1, <2>1 DEF DeliveryInv, Counted, Unsent
    <2>4. Counted'
      BY <1>1, <1>2, <1>3, <1>5, <2>1, <2>3 DEF Counted, Unsent
    <2> QED BY <2>2, <2>4 DEF Calm
  <1> QED BY <1>4, <1>5 DEF Kept

\* What a platform takes unheard counts, and disturbs.
LEMMA TakenUnheardKeeps ==
  ASSUME DeliveryInv, NEW w \in Workers, TakenUnheard(w)
  PROVE  Kept
  <1>1. accepted' >= 1 /\ disturbed'
    BY DEF DeliveryInv, DeliveryTypeOK, TakenUnheard, OneMore
  <1> QED BY <1>1 DEF DeliveryInv, Kept, Asked, Answered, TakenUnheard

LEMMA RecordKeeps ==
  ASSUME DeliveryInv, NEW w \in Workers, Record(w)
  PROVE  Kept
  <1> DEFINE x == [pc |-> "return", job |-> run[w].job, raises |-> run[w].outcome = "failed"]
  <1>1. run'[w] = x /\ \A v \in Workers : v # w => run'[v] = run[v]
    BY DEF DeliveryInv, DeliveryTypeOK, Record
  <1>2. run[w].pc = "record" /\ run[w].outcome \in Outcomes /\ Free.pc = "free"
    BY RunTypes DEF DeliveryInv, Record, Free
  <1>3. /\ row' \notin {"queued", "sending"}
        /\ row' = "delivered" <=> run[w].outcome = "delivered"
    BY <1>2 DEF Record, Recorded, Outcomes
  <1>4. Asked' /\ Answered'
    BY <1>1, <1>2, <1>3 DEF DeliveryInv, Asked, Answered, Record
  <1>5. ASSUME ~disturbed' PROVE Calm'
    <2>1. /\ ~disturbed
          /\ jobs[run[w].job] = "open"
          /\ \A v \in Workers : v # w => run[v] = Free
      BY <1>2, <1>5, OthersFree DEF Record
    <2>2. Alone' /\ Handed' /\ WaitingHasJob'
      BY <1>1, <1>2, <1>3, <2>1 DEF Alone, Handed, WaitsStill, WaitingHasJob, Record
    <2>3. Counted'
      BY <1>1, <1>2, <1>3, <2>1 DEF DeliveryInv, Counted, Unsent, Record
    <2> QED BY <2>2, <2>3 DEF Calm
  <1> QED BY <1>4, <1>5 DEF Kept

\* A run that ends leaves every worker free.
LEMMA EndKeeps ==
  ASSUME DeliveryInv, NEW w \in Workers, Return(w) \/ Die(w)
  PROVE  Kept
  <1>1. /\ run'[w] = Free /\ \A v \in Workers : v # w => run'[v] = run[v]
        /\ UNCHANGED <<kind, row, asker, accepted>>
        /\ run[w].pc # "free" /\ Free.pc = "free"
    BY DEF DeliveryInv, DeliveryTypeOK, Return, Die, Free
  <1>2. ~disturbed' => ~disturbed /\ run[w].pc # "record"
    <2>1. CASE Return(w)
      BY <2>1 DEF Return
    <2>2. CASE Die(w)
      BY <2>2, Zenon DEF Die
    <2> QED BY <2>1, <2>2
  <1>3. Asked' /\ Answered'
    BY <1>1 DEF DeliveryInv, Asked, Answered
  <1>4. ASSUME ~disturbed' PROVE Calm'
    <2>1. \A v \in Workers : run'[v] = Free
      BY <1>1, <1>2, <1>4, OthersFree
    <2>2. Alone' /\ Handed'
      BY <1>1, <2>1 DEF Alone, Handed
    <2>3. Counted'
      BY <1>1, <1>2, <1>4, <2>1, OthersFree DEF DeliveryInv, Counted, Unsent
    <2>4. WaitingHasJob'
      <3>1. CASE Return(w)
        <4> SUFFICES ASSUME WaitsStill PROVE \E j \in Jobs : jobs'[j] = "open"
          BY <1>1 DEF WaitingHasJob, WaitsStill
        <4>1. PICK j \in Jobs : j # run[w].job /\ jobs[j] = "open"
          BY <1>2, <1>4, <3>1 DEF DeliveryInv, Handed, Return
        <4>2. jobs'[j] = "open"
          BY <3>1, <4>1 DEF DeliveryInv, DeliveryTypeOK, Return
        <4> QED BY <4>2
      <3>2. CASE Die(w)
        BY <1>1, <1>2, <1>4, <3>2 DEF DeliveryInv, WaitingHasJob, Die
      <3> QED BY <3>1, <3>2
    <2> QED BY <2>2, <2>3, <2>4 DEF Calm
  <1> QED BY <1>3, <1>4 DEF Kept

-----------------------------------------------------------------------------
(* The theorems. *)

LEMMA DeliveryInitially == DeliveryInit => DeliveryInv
  <1> SUFFICES ASSUME DeliveryInit PROVE DeliveryInv
    OBVIOUS
  <1>1. DeliveryTypeOK
    <2>1. disturbed \in BOOLEAN
      BY Zenon DEF DeliveryInit
    <2>2. kind \in Kinds /\ row \in RowState /\ accepted \in 0..2
      BY DEF DeliveryInit, RowState
    <2> QED BY <2>1, <2>2 DEF DeliveryInit, DeliveryTypeOK
  <1>2. Asked /\ Answered
    BY DEF DeliveryInit, Asked, Answered, Free
  <1>3. Alone /\ Handed /\ Counted /\ WaitingHasJob
    BY DEF DeliveryInit, Alone, Handed, Counted, Unsent, WaitingHasJob, Free
  <1> QED BY <1>1, <1>2, <1>3 DEF DeliveryInv

LEMMA DeliveryStep == DeliveryInv /\ [DeliveryNext]_deliveryVars => DeliveryInv'
  <1> SUFFICES ASSUME DeliveryInv, [DeliveryNext]_deliveryVars PROVE DeliveryInv'
    OBVIOUS
  <1>1. DeliveryTypeOK'
    BY DeliveryTypesStep DEF DeliveryInv
  <1>2. CASE ShareDeclines \/ \E granted \in BOOLEAN : ShareReads(granted)
    <2>1. Kept
      BY <1>2, ShareDeclinesKeeps, ShareReadsKeeps
    <2> QED BY <1>1, <2>1 DEF Kept, Calm, DeliveryInv
  <1>3. ASSUME NEW j \in Jobs, Notify(j) \/ ShareQueues(j) \/ GiveUp(j) PROVE DeliveryInv'
    <2>1. Kept
      BY <1>3, NotifyKeeps, ShareQueuesKeeps, GiveUpKeeps
    <2> QED BY <1>1, <2>1 DEF Kept, Calm, DeliveryInv
  <1>4. ASSUME NEW w \in Workers,
               \/ Mark(w) \/ Skip(w) \/ TakenUnheard(w) \/ Record(w) \/ Return(w) \/ Die(w)
               \/ \E j \in Jobs : RunJob(w, j)
               \/ \E o \in Outcomes : Accepted(w, o) \/ NotAccepted(w, o)
        PROVE  DeliveryInv'
    <2>1. Kept
      BY <1>4, MarkKeeps, SkipKeeps, RecordKeeps, EndKeeps, RunJobKeeps, CallKeeps,
        TakenUnheardKeeps
    <2> QED BY <1>1, <2>1 DEF Kept, Calm, DeliveryInv
  <1>5. CASE UNCHANGED deliveryVars
    <2>1. Asked' /\ Answered'
      BY <1>5 DEF deliveryVars, DeliveryInv, Asked, Answered
    <2>2. ~disturbed' => Calm'
      BY <1>5 DEF deliveryVars, DeliveryInv, Calm, Alone, Handed, WaitsStill, Counted, Unsent,
                  WaitingHasJob
    <2> QED BY <1>1, <2>1, <2>2 DEF Calm, DeliveryInv
  <1> QED BY <1>2, <1>3, <1>4, <1>5 DEF DeliveryNext

\* A row, its jobs, their runs and a request keep their types.
THEOREM DeliveryTypes == DeliverySpec => []DeliveryTypeOK
  <1>1. DeliveryInv => DeliveryTypeOK
    BY DEF DeliveryInv
  <1> QED BY <1>1, DeliveryInitially, DeliveryStep, PTL DEF DeliverySpec

\* Mails and complaints are not sent twice unless something disturbs their runs, and
\* no row says delivered that the other side has not taken.
THEOREM NothingIsSentTwice == DeliverySpec => []SentOnce
  <1>1. DeliveryInv => SentOnce
    BY DEF DeliveryInv, Answered, Counted, SentOnce
  <1> QED BY <1>1, DeliveryInitially, DeliveryStep, PTL DEF DeliverySpec

\* A row that waits has a job, unless something disturbs its runs.
THEOREM WaitingRowsHaveJobs == DeliverySpec => []WaitingHasJob
  <1>1. DeliveryInv => WaitingHasJob
    BY DEF DeliveryInv, WaitingHasJob
  <1> QED BY <1>1, DeliveryInitially, DeliveryStep, PTL DEF DeliverySpec
=============================================================================
