------------------------ MODULE MCComplaintLifecycle ------------------------
\* Small instances of ComplaintLifecycle for TLC.
EXTENDS ComplaintLifecycle, TLC

CONSTANTS p1, p2, o1, o2, d1, d2

\* One officer in each department.
MCOfficerDept == [o \in Officers |-> IF o = o1 THEN d1 ELSE d2]

\* A sweep assigns and closes; where somebody is assigned the first rule writes nothing.
MCOverlapTriggers == <<"scheduled", "scheduled">>
MCOverlapActions == <<"assign_least_loaded", "auto_close">>

\* In the run for lost updates the first rule writes nothing at all.
MCTwoTriggers == <<"scheduled", "scheduled">>
MCTwoActions == <<"notify", "auto_close">>

\* The main line of a complaint, with its reopening: no inspection, no rejection.
Side == {"inspection_scheduled", "rejected"}
MainLine == \A p \in Procs : txn[p].events \cap Side = {}

\* The ways off the main line are taken one at a time: an inspection or a rejection, a
\* second department, an escalation, a rating, a lost update.
Aside == ~MainLine \/ traced \cap Side # {}
Records == {row, draft} \cup {txn[p].c : p \in Procs}
Away == \E c \in Records : c.dept = d2
Raised == \E c \in Records : c.level > 0
OneDetour ==
  /\ rated => ~crossed
  /\ Raised => ~rated /\ ~crossed
  /\ Away => ~Raised /\ ~rated /\ ~crossed
  /\ Aside => ~Away /\ ~Raised /\ ~rated /\ ~crossed

\* The threads run the same code.
ProcSymmetry == Permutations({p1, p2})
=============================================================================
