---------------------------- MODULE ServerDraft ----------------------------
(***************************************************************************)
(* One complaint draft on the server (DraftService of                      *)
(* app/services/profile_service.py, SqlDraftRepository of                  *)
(* app/db/repositories/ops.py): saved as the citizen types, from any       *)
(* number of tabs and devices that share its client request id, and        *)
(* submitted by sync.                                                      *)
(*                                                                         *)
(* A request reads the row in a READ COMMITTED transaction, without a      *)
(* lock, and changes its copy; the save of the repository looks for the    *)
(* row again, by its id, and writes every column of the copy that differs  *)
(* from that, or inserts a row that is gone anew.  A sync is two such      *)
(* transactions with the creation of the complaint between them, in a      *)
(* transaction of its own.                                                 *)
(*                                                                         *)
(* A draft that is discarded and saved again is another row with the same  *)
(* client request id.  Kept of a payload is which one it is, and whether a *)
(* complaint can be made of it.                                            *)
(***************************************************************************)
EXTENDS Naturals

CONSTANTS
  Payloads,     \* what a save may hold
  Complete,     \* the payloads that pass validation
  Callers,      \* requests that may overlap
  MaxRows       \* bound on the rows ever made

Nothing == "nothing"

ASSUME DraftAssumption ==
  /\ Complete \subseteq Payloads
  /\ Nothing \notin Payloads
  /\ MaxRows \in Nat

VARIABLES
  draft,        \* the row, or NoDraft
  rows,         \* how many there have been
  caller,       \* what each request is doing
  reported,     \* the payload of the complaint with this client request id
  mislaid       \* did requests overlap, or one end between filing and recording?

draftVars == <<draft, rows, caller, reported, mislaid>>

Draft == [id : 1..MaxRows, payload : Payloads,
          status : {"draft", "pending_sync", "synced", "failed"}, ref : BOOLEAN]
NoDraft == [status |-> "absent"]
Away == [pc |-> "away"]
Verdicts == {"synced", "failed"}

DraftTypeOK ==
  /\ draft \in Draft \cup {NoDraft}
  /\ rows \in 0..MaxRows
  /\ caller \in [Callers ->
       [pc : {"save"}, read : Draft \cup {NoDraft}, payload : Payloads]
       \cup [pc : {"pend", "create"}, read : Draft]
       \cup [pc : {"reread", "record"}, read : Draft, verdict : Verdicts]
       \cup {Away}]
  /\ reported \in Payloads \cup {Nothing}
  /\ mislaid \in BOOLEAN

DraftInit ==
  /\ draft = NoDraft
  /\ rows = 0
  /\ caller = [r \in Callers |-> Away]
  /\ reported = Nothing
  /\ mislaid = FALSE

\* What writing a copy leaves of the row.  A commit just before the second read is
\* overwritten by the whole copy, one just after it keeps the columns in which the
\* copy is as it was first read.
Stored(read, written) ==
  {written, [c \in DOMAIN written |->
               IF written[c] # read[c] THEN written[c] ELSE draft[c]]}

\* A draft that was discarded in the meantime is inserted again; with another row of
\* this client request id the insert is refused.
Update(r, written) ==
  /\ IF draft = NoDraft THEN draft' = written
     ELSE draft.id = written.id /\ draft' \in Stored(caller[r].read, written)
  /\ caller' = [caller EXCEPT ![r] = Away]

Turns(r, state) ==
  /\ caller[r] = Away
  /\ caller' = [caller EXCEPT ![r] = state]
  /\ UNCHANGED <<draft, rows, reported, mislaid>>

-----------------------------------------------------------------------------
(* save, mark_pending, discard. *)

\* Fault seeded to test SyncedDraftIsFiled: a draft that is synced is written
\* as any other.
SaveReadsAny(r, p) == Turns(r, [pc |-> "save", read |-> draft, payload |-> p])

\* A synced draft is returned as it is.
SaveReads(r, p) ==
  /\ draft.status # "synced"
  /\ Turns(r, [pc |-> "save", read |-> draft, payload |-> p])

Resaved(d, p) ==
  [d EXCEPT !.payload = p, !.status = IF @ = "failed" THEN "draft" ELSE @]

SaveUpdates(r) ==
  /\ caller[r].pc = "save"
  /\ caller[r].read # NoDraft
  /\ Update(r, Resaved(caller[r].read, caller[r].payload))
  /\ mislaid' = (mislaid \/ draft # caller[r].read)
  /\ UNCHANGED <<rows, reported>>

\* One row for a client request id.
SaveInserts(r) ==
  /\ caller[r].pc = "save"
  /\ caller[r].read = NoDraft
  /\ draft = NoDraft
  /\ rows < MaxRows
  /\ rows' = rows + 1
  /\ draft' = [id |-> rows + 1, payload |-> caller[r].payload, status |-> "draft",
               ref |-> FALSE]
  /\ caller' = [caller EXCEPT ![r] = Away]
  /\ UNCHANGED <<reported, mislaid>>

PendReads(r) ==
  /\ draft.status \in {"draft", "pending_sync", "failed"}
  /\ Turns(r, [pc |-> "pend", read |-> draft])

PendUpdates(r) ==
  /\ caller[r].pc = "pend"
  /\ Update(r, [caller[r].read EXCEPT !.status = "pending_sync"])
  /\ mislaid' = (mislaid \/ draft # caller[r].read)
  /\ UNCHANGED <<rows, reported>>

\* What a complaint was made of may be discarded, its client request id used again.
Discard ==
  /\ draft # NoDraft
  /\ draft' = NoDraft
  /\ mislaid' = (mislaid \/ reported # Nothing)
  /\ UNCHANGED <<rows, caller, reported>>

-----------------------------------------------------------------------------
(* sync; sync_all is a sync of every draft it has listed as pending. *)

SyncReads(r) ==
  /\ draft.status \in {"draft", "pending_sync", "failed"}
  /\ Turns(r, [pc |-> "create", read |-> draft])

Judged(r, verdict) ==
  caller' = [caller EXCEPT ![r] = [pc |-> "reread", read |-> @.read, verdict |-> verdict]]

Unrecorded(r) == caller[r].pc \in {"reread", "record"}

\* A payload is validated before the complaint is looked for that an earlier sync
\* with this client request id has made.
SyncCreates(r) ==
  /\ caller[r].pc = "create"
  /\ caller[r].read.payload \in Complete
  /\ mislaid' = (mislaid \/ \E q \in Callers : Unrecorded(q))
  /\ reported' = IF reported = Nothing THEN caller[r].read.payload ELSE reported
  /\ Judged(r, "synced")
  /\ UNCHANGED <<draft, rows>>

SyncRefused(r) ==
  /\ caller[r].pc = "create"
  /\ caller[r].read.payload \notin Complete
  /\ Judged(r, "failed")
  /\ UNCHANGED <<draft, rows, reported, mislaid>>

\* The second transaction reads the row again: what a save has put there since, it
\* takes for what was submitted.
SyncRereads(r) ==
  /\ caller[r].pc = "reread"
  /\ draft # NoDraft
  /\ draft.id = caller[r].read.id
  /\ mislaid' = (mislaid \/ draft # caller[r].read)
  /\ caller' = [caller EXCEPT ![r] =
                  [pc |-> "record", read |-> draft, verdict |-> @.verdict]]
  /\ UNCHANGED <<draft, rows, reported>>

SyncRecords(r) ==
  /\ caller[r].pc = "record"
  /\ Update(r, [caller[r].read EXCEPT !.status = caller[r].verdict,
                                      !.ref = caller[r].verdict = "synced"])
  /\ mislaid' = (mislaid \/ draft # caller[r].read)
  /\ UNCHANGED <<rows, reported>>

\* A request ends without a further write: what it asks for is not there, the
\* database refuses, something it calls raises, or the process dies.
Drop(r) ==
  /\ caller[r] # Away
  /\ mislaid' = (mislaid \/ (Unrecorded(r) /\ reported # Nothing))
  /\ caller' = [caller EXCEPT ![r] = Away]
  /\ UNCHANGED <<draft, rows, reported>>

DraftNext ==
  \/ Discard
  \/ \E r \in Callers :
       \/ \E p \in Payloads : SaveReads(r, p)
       \/ SaveUpdates(r) \/ SaveInserts(r) \/ PendReads(r) \/ PendUpdates(r)
       \/ SyncReads(r) \/ SyncCreates(r) \/ SyncRefused(r) \/ SyncRereads(r)
       \/ SyncRecords(r) \/ Drop(r)

DraftSpec == DraftInit /\ [][DraftNext]_draftVars

-----------------------------------------------------------------------------
(* Properties. *)

\* A draft says that it is synced only when there is a complaint with its client
\* request id, whatever saves, syncs and discards overlap; and unless some did, or
\* a sync ended between filing and recording, that complaint holds what the draft
\* holds and the draft has its reference (DraftService.sync).
SyncedDraftIsFiled == draft.status = "synced" =>
  /\ reported # Nothing
  /\ ~mislaid => draft.payload = reported /\ draft.ref
=============================================================================
