--------------------------- MODULE DocumentIngest ---------------------------
(***************************************************************************)
(* The ingestion of one document (app/services/document_service.py, its    *)
(* endpoints in app/api/v1/documents.py, the handler ingest_document) and  *)
(* the index that every process keeps in memory                            *)
(* (app/rag/index.py, app/rag/index_sync.py, _PersistingIndex in           *)
(* app/container.py).                                                      *)
(*                                                                         *)
(* Processing is one transaction.  Its first flush, "processing", takes    *)
(* the lock of the row, so a second run of the same job waits there and    *)
(* then goes on with what it has read before.  The chunks are written in   *)
(* the transaction, but the process's own index changes at once: a         *)
(* transaction that fails leaves it changed.  A crash empties it.          *)
(*                                                                         *)
(* The content of the file is left out: that it is read, split and         *)
(* embedded is one step that succeeds or fails.                            *)
(***************************************************************************)
EXTENDS Naturals

CONSTANTS
  Processes,     \* worker and web processes: each may run jobs
  Webs,          \* the web processes, which serve the searches
  MaxAttempts,   \* MAX_ATTEMPTS
  MaxStamp,      \* bound on the values updated_at takes
  Nobody         \* no process

ASSUME DocumentAssumption ==
  /\ MaxAttempts \in Nat \ {0} /\ MaxStamp \in Nat
  /\ Nobody \notin Processes
  /\ Webs \subseteq Processes

VARIABLES
  doc,       \* the committed row, or NoDoc
  chunks,    \* are its chunk rows there?
  ingest,    \* how many of its jobs are open
  retried,   \* the numbers of attempts in the keys of its retry jobs
  work,      \* the transaction of each process
  lock,      \* the process that holds the row
  index,     \* the processes whose index has the chunks
  seen,      \* the updated_at each index has taken up, 0 for none
  stamp,     \* the clock
  astray     \* has a transaction failed, or written over one it had not seen,
             \* or a job been given up?

documentVars == <<doc, chunks, ingest, retried, work, lock, index, seen, stamp, astray>>

Doc == [status : {"uploaded", "ready", "failed"}, attempts : 0..MaxAttempts,
        updated : 0..MaxStamp]
NoDoc == [status |-> "absent"]
NoWork == [pc |-> "none"]

DocumentTypeOK ==
  /\ doc \in Doc \cup {NoDoc}
  /\ chunks \in BOOLEAN
  /\ ingest \in 0..MaxAttempts + 2
  /\ retried \subseteq 0..MaxAttempts
  /\ work \in [Processes ->
                 [pc : {"flush", "extract"}, copy : Doc]
                 \cup [pc : {"commit"}, copy : Doc, stored : BOOLEAN] \cup {NoWork}]
  /\ lock \in Processes \cup {Nobody}
  /\ index \subseteq Processes
  /\ seen \in [Processes -> 0..MaxStamp]
  /\ stamp \in 0..MaxStamp
  /\ astray \in BOOLEAN

DocumentInit ==
  /\ doc = NoDoc
  /\ chunks = FALSE
  /\ ingest = 0
  /\ retried = {}
  /\ work = [p \in Processes |-> NoWork]
  /\ lock = Nobody
  /\ index = {}
  /\ seen = [p \in Processes |-> 0]
  /\ stamp = 0
  /\ astray = FALSE

\* The document and its job, in one transaction.
UploadDocument ==
  /\ doc = NoDoc
  /\ doc' = [status |-> "uploaded", attempts |-> 0, updated |-> 0]
  /\ ingest' = 1
  /\ UNCHANGED <<chunks, retried, work, lock, index, seen, stamp, astray>>

\* A retry is a job whose key has the number of attempts: a second request finds
\* the job of the first, whatever has become of it.
Retry ==
  /\ doc.status = "failed"
  /\ doc.attempts \notin retried
  /\ retried' = retried \cup {doc.attempts}
  /\ ingest' = ingest + 1
  /\ UNCHANGED <<doc, chunks, work, lock, index, seen, stamp, astray>>

\* The queue gives a job up whose runs have raised, or died, too often.
GiveUpIngest ==
  /\ ingest > 0
  /\ ingest' = ingest - 1
  /\ astray' = TRUE
  /\ UNCHANGED <<doc, chunks, retried, work, lock, index, seen, stamp>>

-----------------------------------------------------------------------------
(* A run of a job; runs of one job may overlap. *)

\* Fault seeded to test the types: the number of attempts has no limit.
LoadAgain(p) ==
  /\ ingest > 0
  /\ work[p] = NoWork
  /\ doc.status # "ready"
  /\ work' = [work EXCEPT ![p] = [pc |-> "flush", copy |-> doc]]
  /\ UNCHANGED <<doc, chunks, ingest, retried, lock, index, seen, stamp, astray>>

Load(p) ==
  /\ ingest > 0
  /\ work[p] = NoWork
  /\ doc.status # "ready"
  /\ doc.attempts < MaxAttempts
  /\ work' = [work EXCEPT ![p] = [pc |-> "flush", copy |-> doc]]
  /\ UNCHANGED <<doc, chunks, ingest, retried, lock, index, seen, stamp, astray>>

\* A document that is ready needs nothing.  One that has had its attempts makes the
\* handler raise until the queue gives the job up.
NothingToDo(p) ==
  /\ ingest > 0
  /\ work[p] = NoWork
  /\ doc.status = "ready" \/ doc.attempts >= MaxAttempts
  /\ ingest' = ingest - 1
  /\ UNCHANGED <<doc, chunks, retried, work, lock, index, seen, stamp, astray>>

\* "processing" and the attempt are flushed, and seen by this transaction only.
Flush(p) ==
  /\ work[p].pc = "flush"
  /\ lock = Nobody
  /\ lock' = p
  /\ astray' = (astray \/ doc # work[p].copy)
  /\ work' = [work EXCEPT ![p].pc = "extract", ![p].copy.attempts = @ + 1]
  /\ UNCHANGED <<doc, chunks, ingest, retried, index, seen, stamp>>

Finishes(p, status, stored) ==
  /\ work[p].pc = "extract"
  /\ stamp < MaxStamp
  /\ stamp' = stamp + 1
  /\ work' = [work EXCEPT ![p] =
       [pc |-> "commit", stored |-> stored,
        copy |-> [@.copy EXCEPT !.status = status, !.updated = stamp + 1]]]
  /\ UNCHANGED <<doc, chunks, ingest, retried, lock, seen, astray>>

\* Fault seeded to test IndexFollowsRow: the chunks go into the process's index
\* only.
IndexedInMemory(p) ==
  /\ Finishes(p, "ready", FALSE)
  /\ index' = index \cup {p}

\* The chunks replace the stored ones and go into the process's index.
Indexed(p) ==
  /\ Finishes(p, "ready", TRUE)
  /\ index' = index \cup {p}

\* Whatever goes wrong takes the document out of the process's index; the chunks
\* of an earlier run stay in the database.
Failed(p) ==
  /\ Finishes(p, "failed", FALSE)
  /\ index' = index \ {p}

\* A failure that can be tried again makes the handler raise, and the job stays
\* open; otherwise it is settled.
Settled(c) ==
  IF (c.status = "failed" /\ c.attempts < MaxAttempts) \/ ingest = 0 THEN 0 ELSE 1

CommitRun(p) ==
  /\ work[p].pc = "commit"
  /\ doc' = work[p].copy
  /\ chunks' = (chunks \/ work[p].stored)
  /\ ingest' = ingest - Settled(work[p].copy)
  /\ work' = [work EXCEPT ![p] = NoWork]
  /\ lock' = Nobody
  /\ UNCHANGED <<retried, index, seen, stamp, astray>>

\* The database refuses, or the connection is lost.
Rollback(p) ==
  /\ work[p] # NoWork
  /\ work' = [work EXCEPT ![p] = NoWork]
  /\ lock' = IF lock = p THEN Nobody ELSE lock
  /\ astray' = TRUE
  /\ UNCHANGED <<doc, chunks, ingest, retried, index, seen, stamp>>

\* Fault seeded to test ReadyIsServed: what the index has taken up outlives the
\* index.
CrashKeepsSeen(p) ==
  /\ work' = [work EXCEPT ![p] = NoWork]
  /\ lock' = IF lock = p THEN Nobody ELSE lock
  /\ index' = index \ {p}
  /\ UNCHANGED <<doc, chunks, ingest, retried, seen, stamp, astray>>

Crash(p) ==
  /\ work' = [work EXCEPT ![p] = NoWork]
  /\ lock' = IF lock = p THEN Nobody ELSE lock
  /\ index' = index \ {p}
  /\ seen' = [seen EXCEPT ![p] = 0]
  /\ UNCHANGED <<doc, chunks, ingest, retried, stamp, astray>>

\* A refresh, by a web process for itself or by the scheduled task in whichever
\* process wins that.  It takes up what is ready and changed, and drops what it has
\* taken up itself and is ready no longer.
RefreshAdds(p) ==
  /\ doc.status = "ready"
  /\ seen[p] # doc.updated
  /\ index' = IF chunks THEN index \cup {p} ELSE index \ {p}
  /\ seen' = [seen EXCEPT ![p] = doc.updated]
  /\ UNCHANGED <<doc, chunks, ingest, retried, work, lock, stamp, astray>>

RefreshDrops(p) ==
  /\ seen[p] # 0
  /\ doc.status # "ready"
  /\ index' = index \ {p}
  /\ seen' = [seen EXCEPT ![p] = 0]
  /\ UNCHANGED <<doc, chunks, ingest, retried, work, lock, stamp, astray>>

DocumentNext ==
  \/ UploadDocument \/ Retry \/ GiveUpIngest
  \/ \E p \in Processes :
       \/ Load(p) \/ NothingToDo(p) \/ Flush(p) \/ Indexed(p) \/ Failed(p)
       \/ CommitRun(p) \/ Rollback(p) \/ Crash(p) \/ RefreshAdds(p) \/ RefreshDrops(p)

DocumentSpec == DocumentInit /\ [][DocumentNext]_documentVars

\* A web process refreshes its own index every half minute, whatever fails.  The
\* scheduled task need never come to a given process: its last run and its lock are
\* shared.
DocumentFairness == \A p \in Webs : WF_documentVars(RefreshAdds(p))

-----------------------------------------------------------------------------
(* Properties. *)

\* A document is ready only when its chunks are stored, even when two runs of its
\* job overlap; a process that is not processing it finds it in its index only
\* when it is ready, unless a transaction has failed or two have overlapped; and
\* an uploaded document has a job that will process it, unless one was given up
\* (process, ingest_document, the upload endpoint).
IndexFollowsRow ==
  /\ doc.status = "ready" => chunks
  /\ ~astray => \A p \in index : doc.status = "ready" \/ work[p] # NoWork
  /\ ~astray /\ doc.status = "uploaded" => ingest > 0

\* Whichever process has ingested it, and however often processes crash, every web
\* process comes to serve a document that stays ready.  A failed transaction can
\* prevent it: its process has dropped the chunks and believes that it has them.
ReadyIsServed == \A p \in Webs :
  []<>(doc.status = "ready" => p \in index \/ astray)
=============================================================================
