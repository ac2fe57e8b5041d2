----------------------------- MODULE MCCityDesk -----------------------------
(***************************************************************************)
(* The components of the citizen's desk on small instances, one at a time: *)
(* which of them moves is chosen at the start and the others stay as they  *)
(* begin, so a behaviour of this module is a behaviour of one component.   *)
(***************************************************************************)
EXTENDS OfflineDraft, OutboundDelivery, RtiApplication, DocumentIngest,
        ServerDraft, AccountSessions, LiveSockets

VARIABLE world

deskVars == <<world, phoneVars, deliveryVars, rtiVars, documentVars, draftVars,
              accountVars, socketVars>>

\* What the phone's form may hold.
SpokenWithPhoto == [text |-> "none", voice |-> "recorded", att |-> "todo"]
OneContent == {SpokenWithPhoto}

\* Two clients of one session and one of another.
OneOfTwo == [k \in Sockets |-> IF k = "k3" THEN "s2" ELSE "s1"]

\* Where a component that does not move stays.
DeliveryRests == DeliveryInit /\ kind = "email"
AccountRests ==
  AccountInit /\ account = CHOOSE a \in Account : a.active /\ a.outdated

DeskInit ==
  /\ world \in {"phone", "delivery", "rti", "document", "draft", "account",
               "sockets"}
  /\ PhoneInit /\ RtiInit /\ DocumentInit /\ DraftInit /\ SocketInit
  /\ IF world = "delivery" THEN DeliveryInit ELSE DeliveryRests
  /\ AccountRests

Only(w, v1, v2, v3, v4, v5, v6) ==
  world = w /\ UNCHANGED <<world, v1, v2, v3, v4, v5, v6>>

DeskNext ==
  \/ /\ Only("phone", deliveryVars, rtiVars, documentVars,
              draftVars, accountVars, socketVars)
     /\ PhoneNext
  \/ /\ Only("delivery", phoneVars, rtiVars, documentVars,
              draftVars, accountVars, socketVars)
     /\ DeliveryNext
  \/ /\ Only("rti", phoneVars, deliveryVars, documentVars,
              draftVars, accountVars, socketVars)
     /\ RtiNext
  \/ /\ Only("document", phoneVars, deliveryVars, rtiVars,
              draftVars, accountVars, socketVars)
     /\ DocumentNext
  \/ /\ Only("draft", phoneVars, deliveryVars, rtiVars,
              documentVars, accountVars, socketVars)
     /\ DraftNext
  \/ /\ Only("account", phoneVars, deliveryVars, rtiVars,
              documentVars, draftVars, socketVars)
     /\ AccountNext
  \/ /\ Only("sockets", phoneVars, deliveryVars, rtiVars,
              documentVars, draftVars, accountVars)
     /\ SocketNext

DeskSpec == DeskInit /\ [][DeskNext]_deskVars

\* The components that something must eventually come of.  One that rests where it
\* begins enables none of its fair actions.
FairDeskInit == DeskInit /\ world \in {"phone", "document", "sockets"}

FairDeskSpec ==
  /\ FairDeskInit /\ [][DeskNext]_deskVars
  /\ PhoneFairness /\ DocumentFairness /\ SocketFairness

DeskTypesOK ==
  /\ PhoneTypeOK /\ DeliveryTypeOK /\ RtiTypeOK /\ DocumentTypeOK /\ DraftTypeOK
  /\ AccountTypeOK /\ SocketTypeOK
=============================================================================
