------------------------------ MODULE MCContacts ------------------------------
(* What the contacts of a process do to one another: two of them in the        *)
(* service; how two become contacts, and the directory that tells them apart;  *)
(* an engine at the mercy of its callers; and a request with an engine of its  *)
(* own among those of other contacts.  They share nothing, and each is        *)
(* explored while the others rest.                                          *)
(*                                                                         *)
(* All candidates have one name, as has the legacy contact.  Of three bindings *)
(* two share an identity.                                                   *)
EXTENDS MCRealtimeReplyService, ContactEnrollment, OneBotRequest

CONSTANTS c1, p1, s1
VARIABLE subject

MCNameOf(c) == "name"
MCUserId(b) == IF b = "b3" THEN 2 ELSE 1

\* What a history of another subject leaves alone
serviceVars == vars
requestAllVars == <<requestVars, tableVars>>
MCVars == <<subject, serviceVars, enrollmentVars, engineAllVars, requestAllVars>>

MCInit ==
  /\ Init /\ EnrollmentInit /\ RequestInit
  /\ subject \in {"service", "enrollment", "engine", "request"}
  /\ enrollments[Legacy] \in {NotEnrolled, LegacyEnrolled(s1)}
  /\ subject # "enrollment" => enrollments[Legacy] = NotEnrolled
  /\ subject # "request" => trigger = CHOOSE t \in AskedTriggers : TRUE

OfService ==
  /\ subject = "service" /\ Next
  /\ UNCHANGED <<subject, enrollmentVars, engineAllVars, requestAllVars>>
OfEnrollment ==
  /\ subject = "enrollment" /\ EnrollmentNext
  /\ UNCHANGED <<subject, serviceVars, engineAllVars, requestAllVars>>
OfEngine ==
  /\ subject = "engine" /\ EngineNext
  /\ UNCHANGED <<subject, serviceVars, enrollmentVars, requestAllVars>>
OfRequest ==
  /\ subject = "request" /\ RequestNext
  /\ UNCHANGED <<subject, serviceVars, enrollmentVars>>

MCNext == OfService \/ OfEnrollment \/ OfEngine \/ OfRequest

MCSpec == MCInit /\ [][MCNext]_MCVars

-----------------------------------------------------------------------------
\* Confirmations of one candidate, one after another and at once, while time
\* passes and another candidate makes it go; or the directory beside one
\* confirmation, the migration and the changes of the contacts.
NoLegacy == enrollments[Legacy] = NotEnrolled
Confirming ==
  /\ NoLegacy
  /\ \A r \in Readers : reads[r] = NoCall
  /\ \A c \in Known : registry[c].revision <= IF c = c1 THEN 1 ELSE 0
  /\ \A p \in Confirmers : confirms[p] # NoCall => confirms[p].contact = c1
Directing ==
  /\ ~NoLegacy /\ time = 0
  /\ \A p \in Confirmers \ {p1} : confirms[p] = NoCall
  /\ \A c \in Proposed \ {c1} : ~Offers(candidates, c)
  /\ registry[c1].revision <= 1

InScope == Confirming \/ Directing
=============================================================================
