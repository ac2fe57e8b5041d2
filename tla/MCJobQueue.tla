----------------------------- MODULE MCJobQueue -----------------------------
\* Small instances of JobQueue for TLC.
EXTENDS JobQueue, TLC

CONSTANTS w1, w2

\* The two worker loops run the same code.
WorkerSymmetry == Permutations({w1, w2})

\* One fault of any kind per behaviour: an aborted call or an admin's retry.
OneFault == faults["abort"] + faults["outage"] + faults["revival"] <= 1
=============================================================================
