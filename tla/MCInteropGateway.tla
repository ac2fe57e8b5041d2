-------------------------- MODULE MCInteropGateway --------------------------
\* Small instances of InteropGateway for TLC.
EXTENDS InteropGateway, TLC

CONSTANTS r1, r2, d1, d2, o1, a1, b1, e1, m1, m2, c1, c2

\* One applicant, for whom Department A finds one resident.
MCBenOf == [a \in Apps |-> b1]
MCResOf == [b \in Bens |-> e1]

ThreadSymmetry == Permutations(Requests) \cup Permutations(Officers)
                  \cup Permutations(Deciders) \cup Permutations(Masters)
                  \cup Permutations(CandIds)

\* Bound: Department A is switched off only while one consent at most was asked for.
OffEarly == ~enabled["dept_a"] => Len(grants) < 2

Busy == {r \in Requests : req[r] # Idle}

\* Bound: two decisions overlap only about the first consent, before any document has
\* moved or any identity was in question, and with one request at most.
TwoAlone ==
  (\A d \in Deciders : dec[d] # Idle) =>
    /\ Cardinality(Busy) < 2
    /\ enabled["dept_a"] /\ cands = {} /\ transferred = {} /\ Len(grants) < 2

\* Bound: once a second consent was asked for, two requests overlap only while no
\* identity is in question.
CalmAfterTwo == Len(grants) = 2 /\ cands # {} => Cardinality(Busy) < 2
=============================================================================
