--------------------------- MODULE ConsentLedger ----------------------------
(***************************************************************************)
(* What the document exchange promises the persons whose documents it      *)
(* moves, with requests, connectors, locks and candidates abstracted away: *)
(* a person is asked once at a time, an answer changes nothing else, a     *)
(* document moves only under a consent that its owner once gave, and       *)
(* counts as verified only when it moved.  It is not promised that the     *)
(* consent still holds when the document moves, nor that a refusal is      *)
(* final.                                                                  *)
(***************************************************************************)
EXTENDS Naturals, Sequences

CONSTANTS Apps, Masters, None

VARIABLES
  consents,   \* in the order in which they were asked for
  given,      \* the consents that were ever granted
  moved,      \* under which consent which application's document was moved
  verified,   \* the applications that count their document as verified
  owner       \* the master of an application, None while it is not settled

vars == <<consents, given, moved, verified, owner>>

Init ==
  /\ consents = <<>>
  /\ given = {}
  /\ moved = {}
  /\ verified = {}
  /\ owner \in [Apps -> Masters \cup {None}]

\* Whatever else happens, applications may find their owners, and keep them.
Identify == \A a \in Apps : owner[a] \in {None, owner'[a]}

\* One more consent is asked for, of a person whom no other request waits for.
Ask ==
  LET c == consents'[Len(consents')] IN
  /\ Len(consents') = Len(consents) + 1
  /\ consents' = Append(consents, c)
  /\ c.status = "pending"
  /\ \A g \in DOMAIN consents :
       consents[g].status = "pending" => consents[g].master # c.master
  /\ UNCHANGED <<given, moved, verified>>

\* Some consents get an answer; whose they are, and the others, stay.
Answered(some, status) ==
  /\ DOMAIN consents' = DOMAIN consents
  /\ \A g \in DOMAIN consents :
       /\ consents'[g].master = consents[g].master
       /\ consents'[g].status = IF g \in some THEN status ELSE consents[g].status

Give(some) ==
  /\ Answered(some, "granted")
  /\ given' = given \cup some
  /\ UNCHANGED <<moved, verified>>

\* A denial or a revocation, which may take verified documents back.
Refuse(some, back) ==
  /\ Answered(some, "denied") \/ Answered(some, "revoked")
  /\ verified' = verified \ back
  /\ UNCHANGED <<given, moved>>

Move(a, g) ==
  /\ g \in given
  /\ owner'[a] \in {consents[g].master, None}
  /\ moved' = moved \cup {[app |-> a, grant |-> g]}
  /\ verified' = verified \cup {a}
  /\ UNCHANGED <<consents, given>>

Next ==
  /\ Identify
  /\ \/ UNCHANGED <<consents, given, moved, verified>>
     \/ Ask
     \/ \E some \in SUBSET DOMAIN consents :
          Give(some) \/ \E back \in SUBSET Apps : Refuse(some, back)
     \/ \E a \in Apps, g \in given : Move(a, g)

Spec == Init /\ [][Next]_vars
=============================================================================
