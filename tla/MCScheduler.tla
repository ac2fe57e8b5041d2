---------------------------- MODULE MCScheduler ----------------------------
\* Small instances of Scheduler for TLC.
EXTENDS Scheduler, TLC

CONSTANTS p1, p2

\* Task 1 is like rag.index_refresh, whose interval the least time to live of a
\* lock exceeds, and may outlast its lock; task 2 is like the others.
MCInterval == <<1, 3>>
MCMaxHold == <<2, 2>>

\* The scheduler loops run the same code.
ProcSymmetry == Permutations({p1, p2})
=============================================================================
