---------------------------- MODULE ContactsProofs ----------------------------
(***************************************************************************)
(* What holds of the contacts of a process for any candidates, any number of *)
(* confirmations and calls of the directory, any time to live and any deaths  *)
(* between two transactions; of the reply engine for any number of asks,     *)
(* leases and remembered echoes; and of a request with an engine of its own    *)
(* for any contacts that share identities in any way.                       *)
(***************************************************************************)
EXTENDS ContactEnrollment, OneBotRequest, SequenceTheorems, TLAPS

(***************************************************************************)
(* Enrollments and contacts: types.                                        *)
(***************************************************************************)
New == [version : {2}, samples : Samples, at : Nat]
Old == [version : {1}, samples : Samples, at : {0}]
Enrollment == {NotEnrolled} \union New \union Old

Contact ==
  {NotRegistered} \union
  [revision : Nat \ {0}, lifecycle : {"active", "paused", "deleted"},
   binding : {Fingerprint(e) : e \in Enrollment}]

Steps == {"finding", "reading", "requiring", "enrolling", "writing", "enrolled",
          "creating", "matching", "consuming"}

Confirm ==
  {NoCall} \union [step : Steps, contact : Proposed, now : Nat, enrollment : Enrollment]

Read ==
  {NoCall}
  \union [step : {"seeding", "replacing"}, old : Old]
  \union [step : {"asking"}, contact : Known]
  \union [step : {"naming", "binding"}, contact : Known, record : Contact]

EnrollmentTyped ==
  /\ time \in Nat
  /\ candidates \in [Proposed -> Nat] /\ consumed \in [Proposed -> Nat]
  /\ claims \subseteq Proposed
  /\ writer \in Confirmers \union {Nobody}
  /\ enrollments \in [Known -> Enrollment]
  /\ registry \in [Known -> Contact]
  /\ confirms \in [Confirmers -> Confirm]
  /\ reads \in [Readers -> Read]
  /\ targets \subseteq [contact : Known, revision : Nat, enrollment : Enrollment]

LEMMA FreshIsList ==
  ASSUME NEW list \in [Proposed -> Nat], NEW now
  PROVE  /\ Fresh(list, now) \in [Proposed -> Nat]
         /\ \A c \in Proposed : Fresh(list, now)[c] \in {0, list[c]}
  BY DEF Fresh

LEMMA OfferedIsList ==
  ASSUME NEW list \in [Proposed -> Nat], NEW c \in Proposed, time \in Nat,
         NEW offered \in Offered(list, c)
  PROVE  /\ offered \in [Proposed -> Nat]
         /\ \A d \in Proposed \ {c} : offered[d] \in {0, list[d]}
  BY EnrollmentBounds DEF Offered, Oldest, Without

LEMMA NewIsRenewed ==
  /\ \A e \in New : Renewed(e) = e /\ e # NotEnrolled /\ e \notin Old
  /\ \A e \in Old : Renewed(e) \in New /\ e # NotEnrolled /\ Renewed(Renewed(e)) = Renewed(e)
  BY DEF New, Old, Renewed, Enrolled, NotEnrolled

LEMMA NewContactTyped ==
  ASSUME NEW e \in Enrollment
  PROVE  NewContact(e) \in Contact /\ NewContact(e) # NotRegistered
         /\ NewContact(e).revision = 1 /\ NewContact(e).binding = Fingerprint(e)
  BY DEF NewContact, Contact, NotRegistered

LEMMA RequireContactTyped ==
  ASSUME EnrollmentTyped, NEW c \in Known
  PROVE  /\ RequireContact(c) \in New \union {NotEnrolled}
         /\ RequireContact(c) # NotEnrolled => RequireContact(c) = enrollments[c]
  BY DEF EnrollmentTyped, RequireContact, Enrollment, New, Old, NotEnrolled

LEMMA EnrollmentInitTyped == EnrollmentInit => EnrollmentTyped
  BY EnrollmentBounds
     DEF EnrollmentInit, EnrollmentTyped, Enrollment, Old, LegacyEnrolled, Contact, Confirm, Read,
         Known

(* What a confirmation goes on with is again a confirmation.                 *)
LEMMA ConfirmGoes ==
  ASSUME confirms \in [Confirmers -> Confirm], NEW p \in Confirmers, NEW s \in Steps,
         ~ConfirmsAt(p, "idle")
  PROVE  /\ confirms[p] \in [step : Steps, contact : Proposed, now : Nat,
                              enrollment : Enrollment]
         /\ GoTo(p, s) =>
              /\ confirms' \in [Confirmers -> Confirm]
              /\ confirms'[p] = [step |-> s, contact |-> confirms[p].contact,
                                 now |-> confirms[p].now, enrollment |-> confirms[p].enrollment]
              /\ \A q \in Confirmers \ {p} : confirms'[q] = confirms[q]
         /\ \A e \in Enrollment : GoWith(p, s, e) =>
              /\ confirms' \in [Confirmers -> Confirm]
              /\ confirms'[p] = [step |-> s, contact |-> confirms[p].contact,
                                 now |-> confirms[p].now, enrollment |-> e]
              /\ \A q \in Confirmers \ {p} : confirms'[q] = confirms[q]
<1>1. confirms[p] \in [step : Steps, contact : Proposed, now : Nat, enrollment : Enrollment]
  BY DEF Confirm, NoCall, ConfirmsAt
<1>2. ASSUME GoTo(p, s)
      PROVE  /\ confirms' \in [Confirmers -> Confirm]
             /\ confirms'[p] = [step |-> s, contact |-> confirms[p].contact,
                                now |-> confirms[p].now, enrollment |-> confirms[p].enrollment]
             /\ \A q \in Confirmers \ {p} : confirms'[q] = confirms[q]
  BY <1>1, <1>2 DEF GoTo, Confirm
<1>3. ASSUME NEW e \in Enrollment, GoWith(p, s, e)
      PROVE  /\ confirms' \in [Confirmers -> Confirm]
             /\ confirms'[p] = [step |-> s, contact |-> confirms[p].contact,
                                now |-> confirms[p].now, enrollment |-> e]
             /\ \A q \in Confirmers \ {p} : confirms'[q] = confirms[q]
  BY <1>1, <1>3 DEF GoWith, Confirm
<1> QED BY <1>1, <1>2, <1>3

LEMMA ConfirmEnds ==
  ASSUME confirms \in [Confirmers -> Confirm], NEW p \in Confirmers, Ends(p)
  PROVE  /\ confirms' \in [Confirmers -> Confirm]
         /\ confirms'[p] = NoCall
         /\ \A q \in Confirmers \ {p} : confirms'[q] = confirms[q]
  BY DEF Ends, Confirm

LEMMA ReadGoes ==
  ASSUME reads \in [Readers -> Read], NEW r \in Readers, NEW with \in Read, ReadsOn(r, with)
  PROVE  /\ reads' \in [Readers -> Read]
         /\ reads'[r] = with
         /\ \A q \in Readers \ {r} : reads'[q] = reads[q]
  BY DEF ReadsOn

LEMMA ReadIs ==
  ASSUME EnrollmentTyped, NEW r \in Readers
  PROVE  /\ Reads(r, "seeding") \/ Reads(r, "replacing") =>
              reads[r] \in [step : {"seeding", "replacing"}, old : Old]
         /\ Reads(r, "asking") => reads[r] \in [step : {"asking"}, contact : Known]
         /\ Reads(r, "naming") \/ Reads(r, "binding") =>
              reads[r] \in [step : {"naming", "binding"}, contact : Known, record : Contact]
  BY DEF EnrollmentTyped, Read, Reads, NoCall

LEMMA EnrollmentTypedStep ==
  ASSUME EnrollmentTyped, [EnrollmentNext]_enrollmentVars
  PROVE  EnrollmentTyped'
<1> USE DEF EnrollmentTyped
<1>1. ASSUME NEW c \in Proposed, Observe(c) PROVE EnrollmentTyped'
  <2>1. candidates' \in [Proposed -> Nat]
    BY <1>1, FreshIsList, OfferedIsList DEF Observe, FreshAt
  <2> QED BY <1>1, <2>1, FreshIsList DEF Observe, TombstonesAt
<1>2. ASSUME ListFresh PROVE EnrollmentTyped'
  BY <1>2, FreshIsList DEF ListFresh, FreshAt, TombstonesAt
<1>3. ASSUME TimePasses PROVE EnrollmentTyped'
  BY <1>3 DEF TimePasses, files
<1>4. ASSUME NEW p \in Confirmers, Confirmation(p) PROVE EnrollmentTyped'
  <2>1. ASSUME NEW c \in Proposed, GetCandidate(p, c) PROVE EnrollmentTyped'
    <3>1. confirms' \in [Confirmers -> Confirm]
      BY <2>1 DEF GetCandidate, Confirm, Enrollment, Steps
    <3> QED BY <2>1, <3>1, FreshIsList DEF GetCandidate, FreshAt, TombstonesAt
  <2>2. ASSUME FindExisting(p) PROVE EnrollmentTyped'
    <3>1. RequireContact(confirms[p].contact) \in Enrollment
      BY <2>2, ConfirmGoes, RequireContactTyped DEF FindExisting, ConfirmsAt, Known, Enrollment, Steps
    <3> QED BY <2>2, <3>1, ConfirmGoes DEF FindExisting, ConfirmsAt, Steps, files
  <2>3. ASSUME ReadEvidence(p) PROVE EnrollmentTyped'
    <3>1. confirms[p].now \in Nat
      BY <2>3, ConfirmGoes DEF ReadEvidence, ConfirmsAt, Steps
    <3>2. Evidence(p) \subseteq Enrollment
      BY <3>1 DEF Evidence, Enrolled, Enrollment, New
    <3> QED BY <2>3, <3>2, ConfirmGoes, ConfirmEnds DEF ReadEvidence, ConfirmsAt, Steps, files
  <2>4. ASSUME RequireAgain(p) PROVE EnrollmentTyped'
    <3>1. RequireContact(confirms[p].contact) \in Enrollment
      BY <2>4, ConfirmGoes, RequireContactTyped DEF RequireAgain, ConfirmsAt, Known, Enrollment, Steps
    <3> QED BY <2>4, <3>1, ConfirmGoes, ConfirmEnds DEF RequireAgain, ConfirmsAt, Steps, files
  <2>5. ASSUME ClaimEnrollment(p) PROVE EnrollmentTyped'
    <3>1. confirms' \in [Confirmers -> Confirm] /\ confirms[p].contact \in Proposed
      BY <2>5, ConfirmGoes, ConfirmEnds DEF ClaimEnrollment, ConfirmsAt, Steps
    <3> QED BY <2>5, <3>1 DEF ClaimEnrollment
  <2>6. ASSUME WriteEnrollment(p) PROVE EnrollmentTyped'
    <3>1. /\ confirms' \in [Confirmers -> Confirm]
          /\ confirms[p].contact \in Known /\ confirms[p].enrollment \in Enrollment
      BY <2>6, ConfirmGoes DEF WriteEnrollment, ConfirmsAt, Steps, Known
    <3> QED BY <2>6, <3>1 DEF WriteEnrollment
  <2>7. ASSUME ReadBack(p) PROVE EnrollmentTyped'
    <3>1. RequireContact(confirms[p].contact) \in Enrollment
      BY <2>7, ConfirmGoes, RequireContactTyped DEF ReadBack, ConfirmsAt, Known, Enrollment, Steps
    <3> QED BY <2>7, <3>1, ConfirmGoes DEF ReadBack, ConfirmsAt, Steps, files
  <2>8. ASSUME CreateConfirmed(p) PROVE EnrollmentTyped'
    <3>1. /\ confirms' \in [Confirmers -> Confirm]
          /\ confirms[p].contact \in Known /\ confirms[p].enrollment \in Enrollment
      BY <2>8, ConfirmGoes DEF CreateConfirmed, ConfirmsAt, Steps, Known
    <3> QED BY <2>8, <3>1, NewContactTyped DEF CreateConfirmed
  <2>9. ASSUME RequireMatching(p) PROVE EnrollmentTyped'
    BY <2>9, ConfirmGoes, ConfirmEnds DEF RequireMatching, ConfirmsAt, Steps, files
  <2>10. ASSUME Consume(p) PROVE EnrollmentTyped'
    <3>1. /\ confirms' \in [Confirmers -> Confirm]
          /\ confirms[p].contact \in Proposed /\ confirms[p].now \in Nat
      BY <2>10, ConfirmGoes, ConfirmEnds DEF Consume, ConfirmsAt, Steps
    <3> QED BY <2>10, <3>1, FreshIsList, EnrollmentBounds
            DEF Consume, FreshAt, TombstonesAt, Without
  <2>11. ASSUME ConfirmerDies(p) PROVE EnrollmentTyped'
    BY <2>11, ConfirmEnds DEF ConfirmerDies, files
  <2> QED BY <1>4, <2>1, <2>2, <2>3, <2>4, <2>5, <2>6, <2>7, <2>8, <2>9, <2>10, <2>11
          DEF Confirmation
<1>5. ASSUME NEW c \in Known, Update(c) PROVE EnrollmentTyped'
  <2>1. registry[c] \in Contact \ {NotRegistered}
    BY <1>5 DEF Update
  <2>2. registry' \in [Known -> Contact]
    BY <1>5, <2>1 DEF Update, Contact
  <2> QED BY <1>5, <2>2 DEF Update
<1>6. ASSUME NEW r \in Readers, Reading(r) PROVE EnrollmentTyped'
  <2>0. NoCall \in Read
    BY DEF Read
  <2>1. ASSUME PrepareMigration(r) PROVE EnrollmentTyped'
    <3>1. enrollments[Legacy].version = 1 => enrollments[Legacy] \in Old
      BY DEF Known, Enrollment, New, Old, NotEnrolled
    <3>2. /\ enrollments[Legacy] \in Old => [step |-> "seeding", old |-> enrollments[Legacy]] \in Read
          /\ [step |-> "asking", contact |-> Legacy] \in Read
      BY DEF Read, Known
    <3> QED BY <2>1, <3>1, <3>2, ReadGoes DEF PrepareMigration, files
  <2>2. ASSUME SeedLegacy(r) PROVE EnrollmentTyped'
    <3>1. /\ reads[r].old \in Old /\ Renewed(reads[r].old) \in Enrollment
          /\ [reads[r] EXCEPT !.step = "replacing"] \in Read
      BY <2>2, ReadIs, NewIsRenewed DEF SeedLegacy, Read, Enrollment
    <3>2. reads' \in [Readers -> Read]
      BY <2>0, <2>2, <3>1, ReadGoes DEF SeedLegacy, Throws
    <3> QED BY <2>2, <3>1, <3>2, NewContactTyped DEF SeedLegacy, Known
  <2>3. ASSUME ReplaceLegacy(r) PROVE EnrollmentTyped'
    <3>1. /\ Renewed(reads[r].old) \in Enrollment
          /\ [step |-> "asking", contact |-> Legacy] \in Read
      BY <2>3, ReadIs, NewIsRenewed DEF ReplaceLegacy, Read, Enrollment, Known
    <3>2. reads' \in [Readers -> Read]
      BY <2>0, <2>3, <3>1, ReadGoes DEF ReplaceLegacy, Throws
    <3> QED BY <2>3, <3>1, <3>2 DEF ReplaceLegacy, Known
  <2>4. ASSUME NEW c \in Proposed, Asks(r, c) PROVE EnrollmentTyped'
    <3>1. [step |-> "asking", contact |-> c] \in Read
      BY DEF Read, Known
    <3> QED BY <2>4, <3>1, ReadGoes DEF Asks, files
  <2>5. ASSUME GetContact(r) PROVE EnrollmentTyped'
    <3>1. reads[r].contact \in Known
      BY <2>5, ReadIs DEF GetContact
    <3>2. [step |-> "naming", contact |-> reads[r].contact, record |-> registry[reads[r].contact]]
            \in Read
      BY <3>1 DEF Read
    <3> QED BY <2>0, <2>5, <3>2, ReadGoes DEF GetContact, Throws, files
  <2>6. ASSUME AssertUnambiguous(r) PROVE EnrollmentTyped'
    <3>1. [reads[r] EXCEPT !.step = "binding"] \in Read
      BY <2>6, ReadIs DEF AssertUnambiguous, Read
    <3> QED BY <2>0, <2>6, <3>1, ReadGoes DEF AssertUnambiguous, Throws, files
  <2>7. ASSUME Authorize(r) PROVE EnrollmentTyped'
    <3>1. reads[r] \in [step : {"naming", "binding"}, contact : Known, record : Contact]
      BY <2>7, ReadIs DEF Authorize
    <3>2. reads[r].record.revision \in Nat
      BY <3>1 DEF Contact, NotRegistered
    <3>3. RequireContact(reads[r].contact) \in Enrollment
      BY <3>1, RequireContactTyped DEF Enrollment
    <3> QED BY <2>0, <2>7, <3>1, <3>2, <3>3, ReadGoes DEF Authorize, Throws, files
  <2>8. ASSUME ReaderDies(r) PROVE EnrollmentTyped'
    BY <2>0, <2>8, ReadGoes DEF ReaderDies, Throws, files
  <2> QED BY <1>6, <2>1, <2>2, <2>3, <2>4, <2>5, <2>6, <2>7, <2>8 DEF Reading
<1>7. ASSUME UNCHANGED enrollmentVars PROVE EnrollmentTyped'
  BY <1>7 DEF enrollmentVars, files
<1> QED BY <1>1, <1>2, <1>3, <1>4, <1>5, <1>6, <1>7 DEF EnrollmentNext

(***************************************************************************)
(* The identity of a contact.  An enrollment that a confirmation relies on    *)
(* is the one on file, for no later one replaces it; the one that writes has *)
(* the lock, and found nothing on file.                                      *)
(***************************************************************************)
Confirming(p, steps) == confirms[p].step \in steps
Relies == {"creating", "matching", "consuming"}

ConfirmFits(p) ==
  /\ Confirming(p, {"reading"}) =>
       confirms[p].enrollment \in {NotEnrolled, enrollments[confirms[p].contact]} \ Old
  /\ Confirming(p, {"requiring", "enrolling", "writing"}) => confirms[p].enrollment \in New
  /\ Confirming(p, {"writing"}) =>
       writer = p /\ enrollments[confirms[p].contact] = NotEnrolled
  /\ Confirming(p, {"enrolled"}) => enrollments[confirms[p].contact] \in New
  /\ Confirming(p, Relies) =>
       /\ confirms[p].enrollment \in New
       /\ enrollments[confirms[p].contact] = confirms[p].enrollment
  /\ Confirming(p, {"matching", "consuming"}) => registry[confirms[p].contact] # NotRegistered

(* A migration has read the old enrollment, which only becomes the new one.   *)
ReadFits(r) ==
  /\ Reads(r, "seeding") \/ Reads(r, "replacing") =>
       enrollments[Legacy] \in {reads[r].old, Renewed(reads[r].old)}
  /\ Reads(r, "replacing") => registry[Legacy] # NotRegistered

OldIsLegacy == \A c \in Proposed : enrollments[c] \notin Old

EnrollmentInv ==
  /\ \A p \in Confirmers : ConfirmFits(p)
  /\ \A r \in Readers : ReadFits(r)
  /\ OldIsLegacy
  /\ BindingIsEnrolled
  /\ ConsumedIsContact

LEMMA EnrollmentBegins == EnrollmentInit => EnrollmentInv
<1> SUFFICES ASSUME EnrollmentInit PROVE EnrollmentInv
  OBVIOUS
<1>1. OldIsLegacy
  BY EnrollmentBounds DEF EnrollmentInit, OldIsLegacy, Known, NotEnrolled, Old
<1>2. \A p \in Confirmers : ConfirmFits(p)
  BY DEF EnrollmentInit, ConfirmFits, Confirming, Relies, NoCall
<1>3. \A r \in Readers : ReadFits(r)
  BY DEF EnrollmentInit, ReadFits, Reads, NoCall
<1>4. BindingIsEnrolled /\ ConsumedIsContact
  BY DEF EnrollmentInit, BindingIsEnrolled, ConsumedIsContact
<1> QED BY <1>1, <1>2, <1>3, <1>4 DEF EnrollmentInv

\* What every step keeps of enrollments and contacts.
Keeps ==
  /\ \A c \in Known : enrollments[c] \in New => enrollments'[c] = enrollments[c]
  /\ \A c \in Known : registry[c] # NotRegistered => registry'[c] # NotRegistered

LEMMA ConfirmStays ==
  ASSUME EnrollmentTyped, NEW p \in Confirmers, ConfirmFits(p), Keeps,
         confirms'[p] = confirms[p],
         Confirming(p, {"writing"}) => UNCHANGED <<writer, enrollments>>
  PROVE  ConfirmFits(p)'
<1>1. CASE confirms[p] = NoCall
  BY <1>1 DEF ConfirmFits, Confirming, Relies, NoCall
<1>2. CASE confirms[p].contact \in Known
  BY <1>2, NewIsRenewed DEF ConfirmFits, Confirming, Relies, Keeps, EnrollmentTyped, Enrollment
<1> QED BY <1>1, <1>2 DEF EnrollmentTyped, Confirm, Known

LEMMA ReadStays ==
  ASSUME EnrollmentTyped, NEW r \in Readers, ReadFits(r), Keeps, reads'[r] = reads[r],
         enrollments'[Legacy] = enrollments[Legacy]
  PROVE  ReadFits(r)'
  BY DEF ReadFits, Reads, Keeps, Known

\* A step that changes neither enrollments nor contacts.
LEMMA FilesStay ==
  ASSUME EnrollmentTyped, EnrollmentInv, UNCHANGED <<enrollments, registry>>
  PROVE  Keeps /\ OldIsLegacy' /\ BindingIsEnrolled'
  BY DEF EnrollmentInv, Keeps, OldIsLegacy, BindingIsEnrolled

LEMMA CandidatesStay ==
  ASSUME EnrollmentTyped, EnrollmentInv, Keeps, UNCHANGED <<candidates, consumed>>
  PROVE  ConsumedIsContact'
  BY DEF EnrollmentInv, Keeps, ConsumedIsContact, Known, Offers

LEMMA PrunedStay ==
  ASSUME EnrollmentTyped, EnrollmentInv, Keeps, NEW now,
         candidates' = FreshAt(now), consumed' = TombstonesAt(now)
  PROVE  ConsumedIsContact'
<1>1. \A c \in Proposed : candidates'[c] \in {0, candidates[c]} /\ consumed'[c] \in {0, consumed[c]}
  BY FreshIsList DEF EnrollmentTyped, FreshAt, TombstonesAt
<1> QED BY <1>1 DEF EnrollmentInv, Keeps, ConsumedIsContact, Known, Offers, EnrollmentTyped

\* A step of one confirmation that changes neither enrollments nor contacts.
LEMMA ConfirmerMoves ==
  ASSUME EnrollmentTyped, EnrollmentInv, NEW p \in Confirmers,
         UNCHANGED <<enrollments, registry, reads>>,
         \A q \in Confirmers \ {p} : confirms'[q] = confirms[q],
         \A q \in Confirmers \ {p} : Confirming(q, {"writing"}) => writer' = writer,
         ConfirmFits(p)', ConsumedIsContact'
  PROVE  EnrollmentInv'
<1>1. Keeps /\ OldIsLegacy' /\ BindingIsEnrolled'
  BY FilesStay
<1>2. \A q \in Confirmers : ConfirmFits(q)'
  BY <1>1, ConfirmStays DEF EnrollmentInv
<1>3. \A r \in Readers : ReadFits(r)'
  BY <1>1, ReadStays DEF EnrollmentInv
<1> QED BY <1>1, <1>2, <1>3 DEF EnrollmentInv

LEMMA IdleFits ==
  ASSUME NEW p \in Confirmers, confirms'[p] = NoCall
  PROVE  ConfirmFits(p)'
  BY DEF ConfirmFits, Confirming, Relies, NoCall

\* The same of a single confirmation, without its types.
LEMMA ConfirmIs ==
  ASSUME EnrollmentTyped, NEW p \in Confirmers, ~ConfirmsAt(p, "idle")
  PROVE  /\ confirms[p].contact \in Proposed
         /\ confirms[p].contact \in Known /\ confirms[p].contact # Legacy
         /\ confirms[p].enrollment \in Enrollment /\ confirms[p].now \in Nat
<1>1. confirms[p] \in [step : Steps, contact : Proposed, now : Nat, enrollment : Enrollment]
  BY DEF EnrollmentTyped, Confirm, NoCall, ConfirmsAt
<1> QED BY <1>1, EnrollmentBounds DEF Known

LEMMA MovesTo ==
  ASSUME EnrollmentTyped, NEW p \in Confirmers, ~ConfirmsAt(p, "idle"), NEW s, GoTo(p, s)
  PROVE  /\ confirms'[p].step = s
         /\ confirms'[p].contact = confirms[p].contact
         /\ confirms'[p].enrollment = confirms[p].enrollment
         /\ \A q \in Confirmers \ {p} : confirms'[q] = confirms[q]
<1>1. confirms[p] \in [step : Steps, contact : Proposed, now : Nat, enrollment : Enrollment]
  BY DEF EnrollmentTyped, Confirm, NoCall, ConfirmsAt
<1> QED BY <1>1 DEF EnrollmentTyped, GoTo

LEMMA MovesWith ==
  ASSUME EnrollmentTyped, NEW p \in Confirmers, ~ConfirmsAt(p, "idle"), NEW s, NEW e,
         GoWith(p, s, e)
  PROVE  /\ confirms'[p].step = s
         /\ confirms'[p].contact = confirms[p].contact
         /\ confirms'[p].enrollment = e
         /\ \A q \in Confirmers \ {p} : confirms'[q] = confirms[q]
<1>1. confirms[p] \in [step : Steps, contact : Proposed, now : Nat, enrollment : Enrollment]
  BY DEF EnrollmentTyped, Confirm, NoCall, ConfirmsAt
<1> QED BY <1>1 DEF EnrollmentTyped, GoWith

LEMMA ConfirmationKeeps ==
  ASSUME EnrollmentTyped, EnrollmentInv, NEW p \in Confirmers, Confirmation(p)
  PROVE  EnrollmentInv'
<1> DEFINE c == confirms[p].contact
<1> DEFINE e == confirms[p].enrollment
<1>0. confirms \in [Confirmers -> Confirm]
  BY DEF EnrollmentTyped
<1>1. ConfirmFits(p)
  BY DEF EnrollmentInv
<1> DEFINE Stays == /\ UNCHANGED <<candidates, consumed, enrollments, registry, reads>>
<1>2. ASSUME Stays, ConfirmFits(p)',
             \A q \in Confirmers \ {p} : confirms'[q] = confirms[q],
             \A q \in Confirmers \ {p} : Confirming(q, {"writing"}) => writer' = writer
      PROVE  EnrollmentInv'
  <2>1. ConsumedIsContact'
    BY <1>2, FilesStay, CandidatesStay
  <2> QED BY <1>2, <2>1, ConfirmerMoves
<1>3. ASSUME NEW d \in Proposed, GetCandidate(p, d) PROVE EnrollmentInv'
  <2>1. /\ confirms'[p] = [step |-> "finding", contact |-> d, now |-> time,
                            enrollment |-> NotEnrolled]
        /\ \A q \in Confirmers \ {p} : confirms'[q] = confirms[q]
    BY <1>0, <1>3 DEF GetCandidate
  <2>2. ConfirmFits(p)'
    BY <2>1 DEF ConfirmFits, Confirming, Relies
  <2>3. ConsumedIsContact'
    BY <1>3, FilesStay, PrunedStay DEF GetCandidate
  <2> QED BY <1>3, <2>1, <2>2, <2>3, ConfirmerMoves DEF GetCandidate
<1>4. ASSUME FindExisting(p) PROVE EnrollmentInv'
  <2>0. /\ ~ConfirmsAt(p, "idle") /\ c \in Proposed /\ c \in Known /\ c # Legacy
        /\ e \in Enrollment
    BY <1>4, ConfirmIs DEF FindExisting, ConfirmsAt
  <2>1. /\ confirms'[p].step = "reading" /\ confirms'[p].contact = c
        /\ confirms'[p].enrollment = RequireContact(c)
        /\ \A q \in Confirmers \ {p} : confirms'[q] = confirms[q]
    BY <2>0, <1>4, MovesTo, MovesWith DEF FindExisting
  <2>2. RequireContact(c) \in {NotEnrolled, enrollments[c]} \ Old
    BY <2>0, RequireContactTyped, NewIsRenewed DEF Old, NotEnrolled
  <2>3. ConfirmFits(p)'
    BY <1>4, <2>1, <2>2 DEF FindExisting, files, ConfirmFits, Confirming, Relies
  <2> QED BY <1>2, <1>4, <2>1, <2>3 DEF FindExisting, files
<1>5. ASSUME ReadEvidence(p) PROVE EnrollmentInv'
  <2>0. /\ ~ConfirmsAt(p, "idle") /\ c \in Proposed /\ c \in Known /\ c # Legacy
        /\ e \in Enrollment
    BY <1>5, ConfirmIs DEF ReadEvidence, ConfirmsAt
  <2>1. \A q \in Confirmers \ {p} : confirms'[q] = confirms[q]
    BY <1>0, <2>0, <1>5, MovesTo, MovesWith, ConfirmEnds DEF ReadEvidence
  <2>2. ConfirmFits(p)'
    <3>1. CASE Ends(p)
      BY <1>0, <3>1, ConfirmEnds, IdleFits
    <3>2. CASE e # NotEnrolled /\ GoTo(p, "creating")
      <4>1. confirms'[p].step = "creating" /\ confirms'[p].contact = c /\ confirms'[p].enrollment = e
        BY <2>0, <1>5, <3>2, MovesTo, MovesWith DEF ReadEvidence
      <4>2. e \in New /\ enrollments[c] = e
        BY <1>1, <1>5, <2>0, <3>2 DEF ReadEvidence, ConfirmsAt, ConfirmFits, Confirming, Enrollment
      <4> QED BY <1>5, <4>1, <4>2 DEF ReadEvidence, files, ConfirmFits, Confirming, Relies
    <3>3. ASSUME NEW requested \in Evidence(p), GoWith(p, "requiring", requested)
          PROVE  ConfirmFits(p)'
      <4>1. confirms[p].now \in Nat
        BY <2>0, ConfirmIs
      <4>2. requested \in New
        BY <4>1 DEF Evidence, Enrolled, New
      <4>3. confirms'[p].step = "requiring" /\ confirms'[p].enrollment = requested
        BY <2>0, <1>5, <3>3, <4>2, MovesTo, MovesWith DEF ReadEvidence
      <4> QED BY <4>2, <4>3 DEF ConfirmFits, Confirming, Relies
    <3> QED BY <1>5, <3>1, <3>2, <3>3 DEF ReadEvidence
  <2> QED BY <1>2, <1>5, <2>1, <2>2 DEF ReadEvidence, files
<1>6. ASSUME RequireAgain(p) PROVE EnrollmentInv'
  <2>0. /\ ~ConfirmsAt(p, "idle") /\ c \in Proposed /\ c \in Known /\ c # Legacy
        /\ e \in Enrollment
    BY <1>6, ConfirmIs DEF RequireAgain, ConfirmsAt
  <2>1. \A q \in Confirmers \ {p} : confirms'[q] = confirms[q]
    BY <1>0, <2>0, <1>6, MovesTo, MovesWith, ConfirmEnds DEF RequireAgain
  <2>2. ConfirmFits(p)'
    <3>1. CASE Ends(p)
      BY <1>0, <3>1, ConfirmEnds, IdleFits
    <3>2. CASE GoTo(p, "enrolling")
      <4>1. confirms'[p].step = "enrolling" /\ confirms'[p].enrollment = e
        BY <2>0, <1>6, <3>2, MovesTo, MovesWith DEF RequireAgain
      <4>2. e \in New
        BY <1>1, <1>6 DEF RequireAgain, ConfirmsAt, ConfirmFits, Confirming
      <4> QED BY <4>1, <4>2 DEF ConfirmFits, Confirming, Relies
    <3>3. CASE RequireContact(c) # NotEnrolled /\ GoWith(p, "creating", RequireContact(c))
      <4>1. RequireContact(c) \in New /\ RequireContact(c) = enrollments[c]
        BY <2>0, <3>3, RequireContactTyped
      <4>2. /\ confirms'[p].step = "creating" /\ confirms'[p].contact = c
            /\ confirms'[p].enrollment = RequireContact(c)
        BY <2>0, <1>6, <3>3, <4>1, MovesTo, MovesWith DEF RequireAgain
      <4> QED BY <1>6, <4>1, <4>2 DEF RequireAgain, files, ConfirmFits, Confirming, Relies
    <3> QED BY <1>6, <3>1, <3>2, <3>3 DEF RequireAgain
  <2> QED BY <1>2, <1>6, <2>1, <2>2 DEF RequireAgain, files
<1>7. ASSUME ClaimEnrollment(p) PROVE EnrollmentInv'
  <2>0. /\ ~ConfirmsAt(p, "idle") /\ c \in Proposed /\ c \in Known /\ c # Legacy
        /\ e \in Enrollment
    BY <1>7, ConfirmIs DEF ClaimEnrollment, ConfirmsAt
  <2>1. \A q \in Confirmers \ {p} : confirms'[q] = confirms[q]
    BY <1>0, <2>0, <1>7, MovesTo, MovesWith, ConfirmEnds DEF ClaimEnrollment
  <2>2. \A q \in Confirmers : ~Confirming(q, {"writing"})
    BY <1>7, EnrollmentBounds DEF ClaimEnrollment, EnrollmentInv, ConfirmFits, Confirming, Nobody
  <2>3. e \in New
    BY <1>1, <1>7 DEF ClaimEnrollment, ConfirmsAt, ConfirmFits, Confirming
  <2>4. ConfirmFits(p)'
    <3>1. CASE Ends(p)
      BY <1>0, <3>1, ConfirmEnds, IdleFits
    <3>2. CASE enrollments[c] = e /\ GoTo(p, "enrolled")
      <4>1. confirms'[p].step = "enrolled" /\ confirms'[p].contact = c
        BY <2>0, <1>7, <3>2, MovesTo, MovesWith DEF ClaimEnrollment
      <4> QED BY <1>7, <2>3, <3>2, <4>1 DEF ClaimEnrollment, ConfirmFits, Confirming, Relies
    <3>3. CASE enrollments[c] = NotEnrolled /\ writer' = p /\ GoTo(p, "writing")
      <4>1. confirms'[p].step = "writing" /\ confirms'[p].contact = c /\ confirms'[p].enrollment = e
        BY <2>0, <1>7, <3>3, MovesTo, MovesWith DEF ClaimEnrollment
      <4> QED BY <1>7, <2>3, <3>3, <4>1 DEF ClaimEnrollment, ConfirmFits, Confirming, Relies
    <3> QED BY <1>7, <3>1, <3>2, <3>3 DEF ClaimEnrollment
  <2> QED BY <1>2, <1>7, <2>1, <2>2, <2>4 DEF ClaimEnrollment
<1>8. ASSUME WriteEnrollment(p) PROVE EnrollmentInv'
  <2>0. /\ ~ConfirmsAt(p, "idle") /\ c \in Proposed /\ c \in Known /\ c # Legacy
        /\ e \in Enrollment
    BY <1>8, ConfirmIs DEF WriteEnrollment, ConfirmsAt
  <2>1. /\ confirms'[p].step = "enrolled" /\ confirms'[p].contact = c
        /\ \A q \in Confirmers \ {p} : confirms'[q] = confirms[q]
    BY <2>0, <1>8, MovesTo, MovesWith DEF WriteEnrollment
  <2>2. e \in New /\ writer = p /\ enrollments[c] = NotEnrolled
    BY <1>1, <1>8 DEF WriteEnrollment, ConfirmsAt, ConfirmFits, Confirming
  <2>3. /\ enrollments'[c] = e
        /\ \A d \in Known \ {c} : enrollments'[d] = enrollments[d]
    BY <1>8, <2>0 DEF WriteEnrollment, EnrollmentTyped
  <2>4. Keeps
    BY <1>8, <2>2, <2>3, NewIsRenewed DEF Keeps, WriteEnrollment
  <2>5. \A q \in Confirmers \ {p} : ConfirmFits(q)'
    <3> SUFFICES ASSUME NEW q \in Confirmers, q # p PROVE ConfirmFits(q)'
      OBVIOUS
    <3>1. ConfirmFits(q) /\ ~Confirming(q, {"writing"})
      BY <2>2 DEF EnrollmentInv, ConfirmFits, Confirming
    <3> QED BY <2>1, <2>4, <3>1, ConfirmStays
  <2>6. ConfirmFits(p)'
    BY <2>1, <2>2, <2>3 DEF ConfirmFits, Confirming, Relies
  <2>7. \A r \in Readers : ReadFits(r)'
    BY <1>8, <2>0, <2>3, <2>4, ReadStays DEF EnrollmentInv, WriteEnrollment, Known
  <2>8. OldIsLegacy'
    BY <2>2, <2>3, NewIsRenewed DEF EnrollmentInv, OldIsLegacy, Known
  <2>9. BindingIsEnrolled'
    BY <1>8, <2>2, <2>3 DEF EnrollmentInv, BindingIsEnrolled, WriteEnrollment
  <2>10. ConsumedIsContact'
    BY <1>8, <2>4, CandidatesStay DEF WriteEnrollment
  <2> QED BY <2>5, <2>6, <2>7, <2>8, <2>9, <2>10 DEF EnrollmentInv
<1>9. ASSUME ReadBack(p) PROVE EnrollmentInv'
  <2>0. /\ ~ConfirmsAt(p, "idle") /\ c \in Proposed /\ c \in Known /\ c # Legacy
        /\ e \in Enrollment
    BY <1>9, ConfirmIs DEF ReadBack, ConfirmsAt
  <2>1. RequireContact(c) \in New /\ RequireContact(c) = enrollments[c]
    <3>1. enrollments[c] \in New
      BY <1>1, <1>9 DEF ReadBack, ConfirmsAt, ConfirmFits, Confirming
    <3> QED BY <3>1 DEF RequireContact, New
  <2>2. /\ confirms'[p].step = "creating" /\ confirms'[p].contact = c
        /\ confirms'[p].enrollment = RequireContact(c)
        /\ \A q \in Confirmers \ {p} : confirms'[q] = confirms[q]
    BY <2>0, <1>9, <2>1, MovesTo, MovesWith DEF ReadBack
  <2>3. ConfirmFits(p)'
    BY <1>9, <2>1, <2>2 DEF ReadBack, files, ConfirmFits, Confirming, Relies
  <2> QED BY <1>2, <1>9, <2>2, <2>3 DEF ReadBack, files
<1>10. ASSUME CreateConfirmed(p) PROVE EnrollmentInv'
  <2>0. /\ ~ConfirmsAt(p, "idle") /\ c \in Proposed /\ c \in Known /\ c # Legacy
        /\ e \in Enrollment
    BY <1>10, ConfirmIs DEF CreateConfirmed, ConfirmsAt
  <2>1. e \in New /\ enrollments[c] = e
    BY <1>1, <1>10 DEF CreateConfirmed, ConfirmsAt, ConfirmFits, Confirming, Relies
  <2>2. \A q \in Confirmers \ {p} : confirms'[q] = confirms[q]
    BY <2>0, <1>10, MovesTo DEF CreateConfirmed
  <2>3. CASE registry[c] # NotRegistered
    <3>1. confirms'[p].step = "matching" /\ confirms'[p].contact = c /\ confirms'[p].enrollment = e
      BY <2>0, <1>10, <2>3, MovesTo, MovesWith DEF CreateConfirmed
    <3>2. ConfirmFits(p)'
      BY <1>10, <2>1, <2>3, <3>1 DEF CreateConfirmed, ConfirmFits, Confirming, Relies
    <3> QED BY <1>2, <1>10, <2>2, <2>3, <3>2 DEF CreateConfirmed
  <2>4. CASE registry[c] = NotRegistered
    <3>1. confirms'[p].step = "consuming" /\ confirms'[p].contact = c /\ confirms'[p].enrollment = e
      BY <2>0, <1>10, <2>4, MovesTo, MovesWith DEF CreateConfirmed
    <3>2. /\ registry'[c] = NewContact(e) /\ registry'[c] # NotRegistered
          /\ \A d \in Known \ {c} : registry'[d] = registry[d]
      BY <1>10, <2>0, <2>4, NewContactTyped DEF CreateConfirmed, EnrollmentTyped
    <3>3. Keeps
      BY <1>10, <2>4, <3>2 DEF Keeps, CreateConfirmed
    <3>4. ConfirmFits(p)'
      BY <1>10, <2>1, <3>1, <3>2 DEF CreateConfirmed, ConfirmFits, Confirming, Relies
    <3>5. \A q \in Confirmers : ConfirmFits(q)'
      BY <1>10, <2>2, <3>3, <3>4, ConfirmStays DEF EnrollmentInv, CreateConfirmed
    <3>6. \A r \in Readers : ReadFits(r)'
      BY <1>10, <3>3, ReadStays DEF EnrollmentInv, CreateConfirmed
    <3>7. BindingIsEnrolled'
      BY <1>10, <2>1, <3>2, NewIsRenewed, NewContactTyped
         DEF EnrollmentInv, BindingIsEnrolled, CreateConfirmed, Enrollment
    <3>8. OldIsLegacy' /\ ConsumedIsContact'
      BY <1>10, <3>3, CandidatesStay DEF EnrollmentInv, OldIsLegacy, CreateConfirmed
    <3> QED BY <3>5, <3>6, <3>7, <3>8 DEF EnrollmentInv
  <2> QED BY <2>3, <2>4
<1>11. ASSUME RequireMatching(p) PROVE EnrollmentInv'
  <2>0. /\ ~ConfirmsAt(p, "idle") /\ c \in Proposed /\ c \in Known /\ c # Legacy
        /\ e \in Enrollment
    BY <1>11, ConfirmIs DEF RequireMatching, ConfirmsAt
  <2>1. e \in New /\ enrollments[c] = e
    BY <1>1, <1>11 DEF RequireMatching, ConfirmsAt, ConfirmFits, Confirming, Relies
  <2>3. \A q \in Confirmers \ {p} : confirms'[q] = confirms[q]
    BY <1>0, <1>11, <2>0, MovesTo, ConfirmEnds DEF RequireMatching
  <2>2. ConfirmFits(p)'
    <3>1. CASE Ends(p)
      BY <1>0, <3>1, ConfirmEnds, IdleFits
    <3>2. CASE registry[c].binding = Fingerprint(e) /\ GoTo(p, "consuming")
      <4>1. confirms'[p].step = "consuming" /\ confirms'[p].contact = c /\ confirms'[p].enrollment = e
        BY <2>0, <1>11, <3>2, MovesTo, MovesWith DEF RequireMatching
      <4>2. registry[c] # NotRegistered
        BY <1>0, <1>1, <1>11 DEF RequireMatching, ConfirmsAt, ConfirmFits, Confirming
      <4> QED BY <1>11, <2>1, <4>1, <4>2 DEF RequireMatching, files, ConfirmFits, Confirming, Relies
    <3> QED BY <1>11, <3>1, <3>2 DEF RequireMatching
  <2> QED BY <1>2, <1>11, <2>2, <2>3 DEF RequireMatching, files
<1>12. ASSUME Consume(p) PROVE EnrollmentInv'
  <2>0. /\ ~ConfirmsAt(p, "idle") /\ c \in Proposed /\ c \in Known /\ c # Legacy
        /\ e \in Enrollment
    BY <1>12, ConfirmIs DEF Consume, ConfirmsAt
  <2>1. /\ confirms'[p] = NoCall
        /\ \A q \in Confirmers \ {p} : confirms'[q] = confirms[q]
    BY <1>0, <1>12, ConfirmEnds DEF Consume
  <2>2. registry[c] # NotRegistered
    BY <1>1, <1>12 DEF Consume, ConfirmsAt, ConfirmFits, Confirming
  <2>3. ConsumedIsContact'
    <3> DEFINE now == confirms[p].now
    <3>1. CASE ~Offers(FreshAt(now), c)
      BY <1>12, <3>1, FilesStay, PrunedStay DEF Consume
    <3>2. CASE Offers(FreshAt(now), c)
      <4>1. /\ candidates' = Without(FreshAt(now), c)
            /\ consumed' = [TombstonesAt(now) EXCEPT ![c] = now + Ttl]
        BY <1>12, <3>2 DEF Consume
      <4>2. /\ FreshAt(now) \in [Proposed -> Nat] /\ TombstonesAt(now) \in [Proposed -> Nat]
            /\ \A d \in Proposed : FreshAt(now)[d] \in {0, candidates[d]}
            /\ \A d \in Proposed : TombstonesAt(now)[d] \in {0, consumed[d]}
        BY FreshIsList DEF EnrollmentTyped, FreshAt, TombstonesAt
      <4>3. candidates'[c] = 0
        BY <2>0, <4>1, <4>2 DEF Without
      <4>4. \A d \in Proposed \ {c} : candidates'[d] \in {0, candidates[d]}
                                        /\ consumed'[d] \in {0, consumed[d]}
        BY <4>1, <4>2 DEF Without
      <4> QED BY <1>12, <2>2, <4>3, <4>4
              DEF EnrollmentInv, ConsumedIsContact, Offers, Consume, EnrollmentTyped
    <3> QED BY <3>1, <3>2
  <2>4. ConfirmFits(p)'
    BY <2>1, IdleFits
  <2> QED BY <1>12, <2>1, <2>3, <2>4, ConfirmerMoves DEF Consume
<1>13. ASSUME ConfirmerDies(p) PROVE EnrollmentInv'
  <2>1. /\ confirms'[p] = NoCall
        /\ \A q \in Confirmers \ {p} : confirms'[q] = confirms[q]
    BY <1>0, <1>13, ConfirmEnds DEF ConfirmerDies
  <2>2. \A q \in Confirmers \ {p} : Confirming(q, {"writing"}) => writer' = writer
    BY <1>13 DEF ConfirmerDies, EnrollmentInv, ConfirmFits, Confirming
  <2> QED BY <1>2, <1>13, <2>1, <2>2, IdleFits DEF ConfirmerDies, files
<1> QED BY <1>3, <1>4, <1>5, <1>6, <1>7, <1>8, <1>9, <1>10, <1>11, <1>12, <1>13 DEF Confirmation

LEMMA UpdateKeeps ==
  ASSUME EnrollmentTyped, EnrollmentInv, NEW c \in Known, Update(c)
  PROVE  EnrollmentInv'
<1>1. registry[c] \in Contact \ {NotRegistered}
  BY DEF EnrollmentTyped, Update
<1>2. /\ registry'[c] # NotRegistered /\ registry'[c].binding = registry[c].binding
      /\ \A d \in Known \ {c} : registry'[d] = registry[d]
  BY <1>1 DEF Update, EnrollmentTyped, Contact, NotRegistered
<1>3. Keeps
  BY <1>2 DEF Update, Keeps
<1>4. BindingIsEnrolled'
  BY <1>1, <1>2 DEF EnrollmentInv, BindingIsEnrolled, Update
<1>5. \A p \in Confirmers : ConfirmFits(p)'
  BY <1>3, ConfirmStays DEF EnrollmentInv, Update
<1>6. \A r \in Readers : ReadFits(r)'
  BY <1>3, ReadStays DEF EnrollmentInv, Update
<1>7. OldIsLegacy' /\ ConsumedIsContact'
  BY <1>3, CandidatesStay DEF EnrollmentInv, OldIsLegacy, Update
<1> QED BY <1>4, <1>5, <1>6, <1>7 DEF EnrollmentInv

LEMMA CandidatesKeep ==
  ASSUME EnrollmentTyped, EnrollmentInv,
         \/ \E c \in Proposed : Observe(c)
         \/ ListFresh \/ TimePasses \/ UNCHANGED enrollmentVars
  PROVE  EnrollmentInv'
<1>1. UNCHANGED <<enrollments, registry, writer, confirms, reads>>
  BY DEF Observe, ListFresh, TimePasses, enrollmentVars, files
<1>2. Keeps /\ OldIsLegacy' /\ BindingIsEnrolled'
  BY <1>1, FilesStay
<1>3. \A p \in Confirmers : ConfirmFits(p)'
  BY <1>1, <1>2, ConfirmStays DEF EnrollmentInv
<1>4. \A r \in Readers : ReadFits(r)'
  BY <1>1, <1>2, ReadStays DEF EnrollmentInv
<1>5. ConsumedIsContact'
  <2>1. ASSUME NEW c \in Proposed, Observe(c) PROVE ConsumedIsContact'
    <3>1. /\ FreshAt(time) \in [Proposed -> Nat]
          /\ \A d \in Proposed : FreshAt(time)[d] \in {0, candidates[d]}
          /\ \A d \in Proposed : TombstonesAt(time)[d] \in {0, consumed[d]}
      BY FreshIsList DEF EnrollmentTyped, FreshAt, TombstonesAt
    <3>2. /\ candidates' \in [Proposed -> Nat]
          /\ \A d \in Proposed \ {c} : candidates'[d] \in {0, FreshAt(time)[d]}
      BY <2>1, <3>1, OfferedIsList DEF Observe, EnrollmentTyped
    <3>3. /\ \A d \in Proposed \ {c} : candidates'[d] \in {0, candidates[d]}
          /\ \A d \in Proposed : consumed'[d] \in {0, consumed[d]}
          /\ consumed'[c] = 0
      BY <2>1, <3>1, <3>2 DEF Observe
    <3> QED BY <1>2, <3>3
            DEF EnrollmentInv, ConsumedIsContact, Keeps, Known, Offers, EnrollmentTyped
  <2>2. CASE ListFresh
    BY <1>2, <2>2, PrunedStay DEF ListFresh
  <2>3. CASE UNCHANGED <<candidates, consumed>>
    BY <1>2, <2>3, CandidatesStay
  <2> QED BY <2>1, <2>2, <2>3 DEF TimePasses, enrollmentVars, files
<1> QED BY <1>2, <1>3, <1>4, <1>5 DEF EnrollmentInv

\* A step of one call of the directory that changes no file.
LEMMA ReaderMoves ==
  ASSUME EnrollmentTyped, EnrollmentInv, NEW r \in Readers,
         UNCHANGED <<candidates, consumed, enrollments, registry, writer, confirms>>,
         \A q \in Readers \ {r} : reads'[q] = reads[q],
         ReadFits(r)'
  PROVE  EnrollmentInv'
<1>1. Keeps /\ OldIsLegacy' /\ BindingIsEnrolled' /\ ConsumedIsContact'
  BY FilesStay, CandidatesStay
<1>2. \A p \in Confirmers : ConfirmFits(p)'
  BY <1>1, ConfirmStays DEF EnrollmentInv
<1>3. \A q \in Readers : ReadFits(q)'
  BY <1>1, ReadStays DEF EnrollmentInv
<1> QED BY <1>1, <1>2, <1>3 DEF EnrollmentInv

LEMMA ReadMoves ==
  ASSUME EnrollmentTyped, NEW r \in Readers, NEW with, ReadsOn(r, with)
  PROVE  reads'[r] = with /\ \A q \in Readers \ {r} : reads'[q] = reads[q]
  BY DEF EnrollmentTyped, ReadsOn

LEMMA ReadingKeeps ==
  ASSUME EnrollmentTyped, EnrollmentInv, NEW r \in Readers, Reading(r)
  PROVE  EnrollmentInv'
<1>0. Legacy \in Known /\ enrollments[Legacy] \in Enrollment
  BY DEF Known, EnrollmentTyped
<1>1. ASSUME NEW with, ReadsOn(r, with), with.step \notin {"seeding", "replacing"},
             UNCHANGED <<candidates, consumed, enrollments, registry, writer, confirms>>
      PROVE  EnrollmentInv'
  BY <1>1, ReadMoves, ReaderMoves DEF ReadFits, Reads
<1>2. CASE PrepareMigration(r)
  <2>1. CASE enrollments[Legacy].version = 1
    <3>1. ReadsOn(r, [step |-> "seeding", old |-> enrollments[Legacy]])
      BY <1>2, <2>1 DEF PrepareMigration
    <3>2. ReadFits(r)'
      BY <1>2, <3>1, ReadMoves DEF PrepareMigration, files, ReadFits, Reads
    <3> QED BY <1>2, <3>1, <3>2, ReadMoves, ReaderMoves DEF PrepareMigration, files
  <2>2. CASE enrollments[Legacy].version # 1
    BY <1>1, <1>2, <2>2 DEF PrepareMigration, files
  <2> QED BY <2>1, <2>2
<1>3. CASE SeedLegacy(r)
  <2>0. /\ reads[r].old \in Old /\ Renewed(reads[r].old) \in Enrollment
        /\ enrollments[Legacy] \in {reads[r].old, Renewed(reads[r].old)}
        /\ [reads[r] EXCEPT !.step = "replacing"]
             = [step |-> "replacing", old |-> reads[r].old]
    BY <1>3, ReadIs, NewIsRenewed DEF SeedLegacy, EnrollmentInv, ReadFits, Enrollment
  <2>1. CASE registry[Legacy] = NotRegistered
    <3>1. /\ ReadsOn(r, [step |-> "replacing", old |-> reads[r].old])
          /\ registry' = [registry EXCEPT ![Legacy] = NewContact(Renewed(reads[r].old))]
          /\ UNCHANGED <<candidates, consumed, enrollments, writer, confirms>>
      BY <1>3, <2>0, <2>1 DEF SeedLegacy
    <3>2. /\ registry'[Legacy] = NewContact(Renewed(reads[r].old))
          /\ \A c \in Known \ {Legacy} : registry'[c] = registry[c]
      BY <1>0, <3>1 DEF EnrollmentTyped
    <3>3. Keeps
      BY <2>1, <3>1, <3>2 DEF Keeps
    <3>4. ReadFits(r)'
      BY <2>0, <3>1, <3>2, ReadMoves, NewContactTyped DEF ReadFits, Reads
    <3>5. \A q \in Readers : ReadFits(q)'
      BY <3>1, <3>3, <3>4, ReadMoves, ReadStays DEF EnrollmentInv
    <3>6. \A p \in Confirmers : ConfirmFits(p)'
      BY <3>1, <3>3, ConfirmStays DEF EnrollmentInv
    <3>7. BindingIsEnrolled'
      <4>1. Renewed(enrollments[Legacy]) = Renewed(reads[r].old)
            /\ enrollments[Legacy] # NotEnrolled
        BY <2>0, NewIsRenewed
      <4> QED BY <2>0, <3>1, <3>2, <4>1, NewContactTyped DEF EnrollmentInv, BindingIsEnrolled
    <3>8. OldIsLegacy' /\ ConsumedIsContact'
      BY <3>1, <3>3, CandidatesStay DEF EnrollmentInv, OldIsLegacy
    <3> QED BY <3>5, <3>6, <3>7, <3>8 DEF EnrollmentInv
  <2>2. CASE registry[Legacy] # NotRegistered
    <3>1. UNCHANGED <<candidates, consumed, enrollments, registry, writer, confirms>>
      BY <1>3, <2>2 DEF SeedLegacy
    <3>2. CASE Throws(r)
      BY <1>1, <3>1, <3>2 DEF Throws, NoCall
    <3>3. CASE ReadsOn(r, [step |-> "replacing", old |-> reads[r].old])
      <4>1. ReadFits(r)'
        BY <2>0, <2>2, <3>1, <3>3, ReadMoves DEF ReadFits, Reads
      <4> QED BY <3>1, <3>3, <4>1, ReadMoves, ReaderMoves
    <3> QED BY <1>3, <2>0, <2>2, <3>2, <3>3 DEF SeedLegacy
  <2> QED BY <2>1, <2>2
<1>4. CASE ReplaceLegacy(r)
  <2>0. /\ reads[r].old \in Old /\ Renewed(reads[r].old) \in New
        /\ UNCHANGED <<candidates, consumed, registry, writer, confirms>>
    BY <1>4, ReadIs, NewIsRenewed DEF ReplaceLegacy
  <2>1. CASE enrollments[Legacy] = reads[r].old
    <3>1. /\ ReadsOn(r, [step |-> "asking", contact |-> Legacy])
          /\ enrollments'[Legacy] = Renewed(reads[r].old)
          /\ \A c \in Known \ {Legacy} : enrollments'[c] = enrollments[c]
      BY <1>0, <1>4, <2>1 DEF ReplaceLegacy, EnrollmentTyped
    <3>2. Keeps
      BY <2>0, <2>1, <3>1, NewIsRenewed DEF Keeps
    <3>3. \A q \in Readers : ReadFits(q)'
      <4> SUFFICES ASSUME NEW q \in Readers PROVE ReadFits(q)'
        OBVIOUS
      <4>1. CASE q = r
        BY <3>1, <4>1, ReadMoves DEF ReadFits, Reads
      <4>2. CASE q # r
        <5>1. reads'[q] = reads[q] /\ ReadFits(q)
          BY <3>1, <4>2, ReadMoves DEF EnrollmentInv
        <5>2. Reads(q, "seeding") \/ Reads(q, "replacing") =>
                reads[q].old \in Old /\ reads[q].old = reads[r].old
          BY <2>0, <2>1, <5>1, ReadIs, NewIsRenewed DEF ReadFits
        <5> QED BY <2>0, <3>1, <5>1, <5>2 DEF ReadFits, Reads
      <4> QED BY <4>1, <4>2
    <3>4. \A p \in Confirmers : ConfirmFits(p)'
      <4> SUFFICES ASSUME NEW p \in Confirmers PROVE ConfirmFits(p)'
        OBVIOUS
      <4>1. ConfirmFits(p) /\ ~Confirming(p, {"writing"})
        BY <1>4, EnrollmentBounds DEF ReplaceLegacy, EnrollmentInv, ConfirmFits, Confirming, Nobody
      <4> QED BY <2>0, <3>2, <4>1, ConfirmStays
    <3>5. BindingIsEnrolled'
      <4>1. Renewed(enrollments'[Legacy]) = Renewed(enrollments[Legacy])
            /\ enrollments'[Legacy] # NotEnrolled
        BY <2>0, <2>1, <3>1, NewIsRenewed
      <4> QED BY <2>0, <3>1, <4>1 DEF EnrollmentInv, BindingIsEnrolled
    <3>6. OldIsLegacy' /\ ConsumedIsContact'
      BY <2>0, <3>1, <3>2, CandidatesStay, EnrollmentBounds DEF EnrollmentInv, OldIsLegacy, Known
    <3> QED BY <3>3, <3>4, <3>5, <3>6 DEF EnrollmentInv
  <2>2. CASE enrollments[Legacy] # reads[r].old
    BY <1>1, <1>4, <2>0, <2>2 DEF ReplaceLegacy, Throws, NoCall
  <2> QED BY <2>1, <2>2
<1>5. ASSUME NEW c \in Proposed, Asks(r, c) PROVE EnrollmentInv'
  BY <1>1, <1>5 DEF Asks, files
<1>6. CASE GetContact(r)
  BY <1>1, <1>6 DEF GetContact, files, Throws, NoCall
<1>7. CASE AssertUnambiguous(r)
  <2>1. [reads[r] EXCEPT !.step = "binding"].step = "binding"
    BY <1>7, ReadIs DEF AssertUnambiguous
  <2> QED BY <1>1, <1>7, <2>1 DEF AssertUnambiguous, files, Throws, NoCall
<1>8. CASE Authorize(r)
  BY <1>1, <1>8 DEF Authorize, files, Throws, NoCall
<1>9. CASE ReaderDies(r)
  BY <1>1, <1>9 DEF ReaderDies, files, Throws, NoCall
<1> QED BY <1>2, <1>3, <1>4, <1>5, <1>6, <1>7, <1>8, <1>9 DEF Reading

LEMMA EnrollmentKeeps ==
  ASSUME EnrollmentTyped, EnrollmentInv, [EnrollmentNext]_enrollmentVars
  PROVE  EnrollmentInv'
  BY ConfirmationKeeps, UpdateKeeps, CandidatesKeep, ReadingKeeps DEF EnrollmentNext

(* The invariants of enrollments and contacts.                             *)
THEOREM EnrollmentIsTyped == EnrollmentSpec => []EnrollmentTyped
  BY EnrollmentInitTyped, EnrollmentTypedStep, PTL DEF EnrollmentSpec

(* ContactIsEnrolled: a contact has the identity that is enrolled for it, however *)
(* confirmations, migrations and deaths interleave, and no second one.      *)
THEOREM ContactsAreEnrolled == EnrollmentSpec => []ContactIsEnrolled
<1>1. EnrollmentSpec => [](EnrollmentTyped /\ EnrollmentInv)
  BY EnrollmentInitTyped, EnrollmentBegins, EnrollmentTypedStep, EnrollmentKeeps, PTL
     DEF EnrollmentSpec
<1>2. EnrollmentTyped /\ EnrollmentInv => ContactIsEnrolled
  BY DEF EnrollmentInv, ContactIsEnrolled
<1> QED BY <1>1, <1>2, PTL

(***************************************************************************)
(* The directory.  What has passed the comparison of the names carries the   *)
(* revision its contact had before: every change of a contact raises it, so  *)
(* what is still current has seen all others of its name.                   *)
(***************************************************************************)
Passed(c, n) ==
  \/ \E t \in targets : t.contact = c /\ t.revision = n
  \/ \E r \in Readers : Reads(r, "binding") /\ reads[r].contact = c /\ reads[r].record.revision = n

Current(c, n) == registry[c].lifecycle = "active" /\ registry[c].revision = n

RevisionsFit ==
  /\ \A t \in targets : 0 < t.revision /\ t.revision <= registry[t.contact].revision
  /\ \A r \in Readers : Reads(r, "naming") \/ Reads(r, "binding") =>
       /\ 0 < reads[r].record.revision
       /\ reads[r].record.revision <= registry[reads[r].contact].revision

PassedDiffer ==
  \A c, d \in Known, m, n \in Nat :
    Passed(c, m) /\ Passed(d, n) /\ Current(c, m) /\ Current(d, n) /\ c # d =>
      NameOf(c) # NameOf(d)

DirectoryInv == RevisionsFit /\ PassedDiffer

LEMMA DirectoryBegins == EnrollmentInit => DirectoryInv
  BY DEF EnrollmentInit, DirectoryInv, RevisionsFit, PassedDiffer, Passed, Reads, NoCall

LEMMA RevisionsAreNumbers ==
  ASSUME EnrollmentTyped
  PROVE  /\ \A c \in Known : registry[c].revision \in Nat
         /\ \A c \in Known : registry[c] # NotRegistered => registry[c].revision > 0
         /\ \A c \in Known : registry[c].lifecycle = "active" => registry[c] # NotRegistered
         /\ \A t \in targets : t.contact \in Known /\ t.revision \in Nat
         /\ \A r \in Readers : Reads(r, "naming") \/ Reads(r, "binding") =>
              reads[r].contact \in Known /\ reads[r].record.revision \in Nat
<1>1. \A x \in Contact : x.revision \in Nat /\ (x # NotRegistered => x.revision > 0)
                         /\ (x.lifecycle = "active" => x # NotRegistered)
  BY DEF Contact, NotRegistered
<1>2. \A r \in Readers : Reads(r, "naming") \/ Reads(r, "binding") =>
        reads[r].contact \in Known /\ reads[r].record \in Contact
  BY ReadIs
<1> QED BY <1>1, <1>2 DEF EnrollmentTyped

\* A contact changes by a higher revision only.
Rises ==
  \A c \in Known : registry'[c] = registry[c] \/ registry'[c].revision > registry[c].revision

LEMMA RegistryRises ==
  ASSUME EnrollmentTyped, [EnrollmentNext]_enrollmentVars
  PROVE  Rises
<1>0. \A c \in Known : registry[c] \in Contact
  BY DEF EnrollmentTyped
<1>1. ASSUME NEW c \in Known, Update(c) PROVE Rises
  <2>1. registry[c] \in Contact \ {NotRegistered}
    BY <1>0, <1>1 DEF Update
  <2> QED BY <1>1, <2>1 DEF Update, Rises, EnrollmentTyped, Contact
<1>2. ASSUME NEW p \in Confirmers, CreateConfirmed(p) PROVE Rises
  <2>1. confirms[p].contact \in Known /\ confirms[p].enrollment \in Enrollment
    BY <1>2, ConfirmIs DEF CreateConfirmed, ConfirmsAt
  <2> QED BY <1>2, <2>1, NewContactTyped DEF CreateConfirmed, Rises, EnrollmentTyped, NotRegistered
<1>3. ASSUME NEW r \in Readers, SeedLegacy(r) PROVE Rises
  <2>1. Renewed(reads[r].old) \in Enrollment
    BY <1>3, ReadIs, NewIsRenewed DEF SeedLegacy, Enrollment
  <2> QED BY <1>3, <2>1, NewContactTyped DEF SeedLegacy, Rises, EnrollmentTyped, NotRegistered
<1>4. CASE UNCHANGED registry
  BY <1>4 DEF Rises
<1>5. \/ \E c \in Known : Update(c)
      \/ \E p \in Confirmers : CreateConfirmed(p)
      \/ \E r \in Readers : SeedLegacy(r)
      \/ UNCHANGED registry
  BY DEF EnrollmentNext, Confirmation, Reading, Observe, ListFresh, TimePasses, GetCandidate,
         FindExisting, ReadEvidence, RequireAgain, ClaimEnrollment, WriteEnrollment, ReadBack,
         RequireMatching, Consume, ConfirmerDies, PrepareMigration, ReplaceLegacy, Asks, GetContact,
         AssertUnambiguous, Authorize, ReaderDies, enrollmentVars, files
<1> QED BY <1>1, <1>2, <1>3, <1>4, <1>5

\* What a step of one call, or of nobody, hands on.
LEMMA DirectoryGoesOn ==
  ASSUME EnrollmentTyped, EnrollmentTyped', DirectoryInv, Rises,
         \A t \in targets' : t \in targets \/ Passed(t.contact, t.revision),
         \A r \in Readers : \/ reads'[r] = reads[r]
                            \/ reads'[r].step \notin {"naming", "binding"}
  PROVE  DirectoryInv'
<1>1. \A r \in Readers : Reads(r, "naming")' \/ Reads(r, "binding")' => reads'[r] = reads[r]
  BY DEF Reads
<1>2. RevisionsFit'
  <2>1. \A t \in targets' : 0 < t.revision /\ t.revision <= registry[t.contact].revision
    BY DEF DirectoryInv, RevisionsFit, Passed
  <2>2. \A c \in Known : registry'[c].revision \in Nat /\ registry[c].revision \in Nat
    BY RevisionsAreNumbers DEF EnrollmentTyped, Contact, NotRegistered
  <2>3. \A c \in Known : registry'[c].revision >= registry[c].revision
    BY <2>2 DEF Rises
  <2>4. \A t \in targets' : t.contact \in Known /\ t.revision \in Nat
    BY DEF EnrollmentTyped
  <2>5. \A t \in targets' : 0 < t.revision /\ t.revision <= registry'[t.contact].revision
    BY <2>1, <2>3, <2>4, <2>2
  <2>6. \A r \in Readers : Reads(r, "naming")' \/ Reads(r, "binding")' =>
          /\ 0 < reads'[r].record.revision
          /\ reads'[r].record.revision <= registry'[reads'[r].contact].revision
    BY <1>1, <2>3, <2>2, RevisionsAreNumbers DEF DirectoryInv, RevisionsFit, Reads
  <2> QED BY <2>5, <2>6 DEF RevisionsFit
<1>3. \A c, n : Passed(c, n)' => Passed(c, n)
  BY <1>1 DEF Passed, Reads
<1>4. ASSUME NEW c \in Known, NEW n \in Nat, Passed(c, n), Current(c, n)'
      PROVE  Current(c, n)
  <2>1. n <= registry[c].revision
    BY <1>4 DEF DirectoryInv, RevisionsFit, Passed
  <2>2. registry[c].revision \in Nat
    BY RevisionsAreNumbers
  <2> QED BY <1>4, <2>1, <2>2 DEF Rises, Current
<1> QED BY <1>2, <1>3, <1>4 DEF DirectoryInv, PassedDiffer

LEMMA DirectoryKeeps ==
  ASSUME EnrollmentTyped, EnrollmentTyped', DirectoryInv, [EnrollmentNext]_enrollmentVars
  PROVE  DirectoryInv'
<1>0. Rises
  BY RegistryRises
<1>1. CASE UNCHANGED <<reads, targets>>
  BY <1>0, <1>1, DirectoryGoesOn
<1>2. ASSUME NEW r \in Readers, NEW with, ReadsOn(r, with), UNCHANGED targets,
             with.step \notin {"naming", "binding"}
      PROVE  DirectoryInv'
  BY <1>0, <1>2, ReadMoves, DirectoryGoesOn
<1>3. ASSUME NEW r \in Readers, GetContact(r) PROVE DirectoryInv'
  <2>1. CASE registry[reads[r].contact].lifecycle # "active"
    BY <1>2, <1>3, <2>1 DEF GetContact, Throws, NoCall
  <2>2. CASE registry[reads[r].contact].lifecycle = "active"
    <3> DEFINE c == reads[r].contact
    <3>1. /\ reads'[r] = [step |-> "naming", contact |-> c, record |-> registry[c]]
          /\ \A q \in Readers \ {r} : reads'[q] = reads[q]
          /\ UNCHANGED <<registry, targets>>
      BY <1>3, <2>2, ReadMoves DEF GetContact, files
    <3>2. c \in Known /\ registry[c].revision \in Nat /\ 0 < registry[c].revision
      BY <1>3, <2>2, ReadIs, RevisionsAreNumbers DEF GetContact
    <3>3. RevisionsFit'
      BY <3>1, <3>2 DEF DirectoryInv, RevisionsFit, Reads
    <3>4. \A d, n : Passed(d, n)' => Passed(d, n)
      BY <3>1 DEF Passed, Reads
    <3> QED BY <3>1, <3>3, <3>4 DEF DirectoryInv, PassedDiffer, Current
  <2> QED BY <2>1, <2>2
<1>4. ASSUME NEW r \in Readers, AssertUnambiguous(r) PROVE DirectoryInv'
  <2>1. CASE Ambiguous(reads[r].contact)
    BY <1>2, <1>4, <2>1 DEF AssertUnambiguous, Throws, NoCall
  <2>2. CASE ~Ambiguous(reads[r].contact)
    <3> DEFINE c == reads[r].contact
               k == reads[r].record.revision
    <3>1. /\ reads'[r].step = "binding" /\ reads'[r].contact = c /\ reads'[r].record = reads[r].record
          /\ \A q \in Readers \ {r} : reads'[q] = reads[q]
          /\ UNCHANGED <<registry, targets>>
      BY <1>4, <2>2, ReadMoves, ReadIs DEF AssertUnambiguous, files
    <3>2. RevisionsFit'
      BY <1>4, <3>1 DEF DirectoryInv, RevisionsFit, Reads, AssertUnambiguous
    <3>3. \A d, n : Passed(d, n)' => Passed(d, n) \/ (d = c /\ n = k)
      BY <3>1 DEF Passed, Reads
    <3>4. \A d \in Known \ {c} : registry[d].lifecycle = "active" => NameOf(d) # NameOf(c)
      BY <2>2 DEF Ambiguous
    <3>5. PassedDiffer'
      BY <3>1, <3>3, <3>4 DEF DirectoryInv, PassedDiffer, Current
    <3> QED BY <3>2, <3>5 DEF DirectoryInv
  <2> QED BY <2>1, <2>2
<1>5. ASSUME NEW r \in Readers, Authorize(r) PROVE DirectoryInv'
  <2>1. \A t \in targets' : t \in targets \/ Passed(t.contact, t.revision)
    BY <1>5 DEF Authorize, Passed
  <2>2. /\ reads'[r] = NoCall
        /\ \A q \in Readers \ {r} : reads'[q] = reads[q]
    BY <1>5, ReadMoves DEF Authorize, Throws
  <2> QED BY <1>0, <2>1, <2>2, DirectoryGoesOn DEF NoCall
<1>6. ASSUME NEW r \in Readers, PrepareMigration(r) \/ SeedLegacy(r) \/ ReplaceLegacy(r)
                                \/ (\E c \in Proposed : Asks(r, c)) \/ ReaderDies(r)
      PROVE  DirectoryInv'
  <2>1. SeedLegacy(r) => [reads[r] EXCEPT !.step = "replacing"].step = "replacing"
    BY ReadIs DEF SeedLegacy
  <2>2. UNCHANGED targets
    BY <1>6 DEF PrepareMigration, SeedLegacy, ReplaceLegacy, Asks, ReaderDies
  <2>3. CASE Throws(r)
    BY <1>2, <2>2, <2>3 DEF Throws, NoCall
  <2>4. CASE SeedLegacy(r) /\ ReadsOn(r, [reads[r] EXCEPT !.step = "replacing"])
    BY <1>2, <2>1, <2>2, <2>4
  <2>5. ASSUME NEW c, ReadsOn(r, [step |-> "asking", contact |-> c]) PROVE DirectoryInv'
    BY <1>2, <2>2, <2>5
  <2>6. CASE ReadsOn(r, [step |-> "seeding", old |-> enrollments[Legacy]])
    BY <1>2, <2>2, <2>6
  <2> QED BY <1>6, <2>3, <2>4, <2>5, <2>6
          DEF PrepareMigration, SeedLegacy, ReplaceLegacy, Asks, ReaderDies
<1>7. \/ UNCHANGED <<reads, targets>>
      \/ \E r \in Readers : Reading(r)
  BY DEF EnrollmentNext, Confirmation, Observe, ListFresh, TimePasses, Update, GetCandidate,
         FindExisting, ReadEvidence, RequireAgain, ClaimEnrollment, WriteEnrollment, ReadBack,
         CreateConfirmed, RequireMatching, Consume, ConfirmerDies, enrollmentVars, files
<1> QED BY <1>1, <1>3, <1>4, <1>5, <1>6, <1>7 DEF Reading

(* NamesAreUnambiguous: of the targets that are still current no two have one  *)
(* name, although record and name are read in two transactions.             *)
THEOREM DirectoryIsUnambiguous == EnrollmentSpec => []NamesAreUnambiguous
<1>1. EnrollmentSpec => [](EnrollmentTyped /\ DirectoryInv)
  BY EnrollmentInitTyped, DirectoryBegins, EnrollmentTypedStep, DirectoryKeeps, PTL
     DEF EnrollmentSpec
<1>2. EnrollmentTyped /\ DirectoryInv => NamesAreUnambiguous
  BY RevisionsAreNumbers DEF DirectoryInv, PassedDiffer, Passed, Current, NamesAreUnambiguous
<1> QED BY <1>1, <1>2, PTL

(***************************************************************************)
(* The engine: types.                                                      *)
(***************************************************************************)
Answers == {Unanswered, Refused} \union {Reply(x) : x \in Texts}
Ask == [trigger : AskedTriggers, lease : Nat, answer : Answers]
Outcomes == {"stopped", "ok", "uncertain", "failed"}

AwaitsCommand == [stage : {"awaiting-command"}, ask : Nat \ {0}, lease : Nat, trigger : AskedTriggers]
AwaitsDelivery ==
  [stage : {"awaiting-delivery"}, ask : Nat \ {0}, lease : Nat, trigger : AskedTriggers,
   key : AskedTriggers \X Texts]

ControlTyped ==
  /\ state \in {"stopped", "starting", "ready", "processing", "degraded", "closed"}
  /\ closing \in BOOLEAN /\ closer \in {"no", "stopping", "closed"}
  /\ lease \in Nat /\ current \in BOOLEAN
  /\ leasePhase \in {"disconnected", "connecting", "ready", "disconnecting"}
  /\ stopping \in {"no", "waiting", "settled"} /\ failing \in BOOLEAN
  /\ socket \in {"idle", "connecting", "open", "closing", "closed"}
  /\ dialing \in BOOLEAN /\ closeWaiter \in BOOLEAN

WorkTyped ==
  /\ pendingReply \in {NoPending} \union AwaitsCommand \union AwaitsDelivery
  /\ asks \in Seq(Ask) /\ unsent \subseteq 1 .. Len(asks)
  /\ completing \in {NoCompletion} \union [ask : Nat \ {0}, lease : Nat, sent : BOOLEAN]
  /\ inbox \in {NoMessage} \union [lease : Nat, command : Commands]
  /\ told \in Seq(Seq(Outcomes)) /\ Len(told) = Len(asks)

EngineTyped == ControlTyped /\ WorkTyped

(***************************************************************************)
(* The lease and its socket, through starts, stops, the close and what the   *)
(* peer does.                                                              *)
(***************************************************************************)
LeaseFits ==
  /\ closing = (closer # "no")
  /\ (closer = "closed") = (socket = "closed")
  /\ closer = "closed" => ~current /\ state = "closed"
  /\ ~current =>
       /\ stopping = "no" /\ leasePhase = "disconnected" /\ socket \in {"idle", "closed"}
       /\ ~dialing /\ ~closeWaiter /\ ~failing
  /\ closing /\ current => stopping # "no"
  /\ stopping # "no" => leasePhase \in {"disconnecting", "disconnected"}
  /\ closeWaiter = (stopping = "waiting")
  /\ stopping = "settled" => socket = "idle" /\ ~dialing
  /\ dialing => socket \in {"connecting", "closing"} /\ ~failing
  /\ stopping = "no" /\ current => socket \in {"idle", "connecting", "open"}
  /\ leasePhase = "ready" =>
       current /\ ~closing /\ stopping = "no" /\ socket = "open" /\ ~dialing /\ ~failing
  /\ leasePhase = "connecting" =>
       current /\ ~closing /\ stopping = "no" /\ (dialing \/ failing)
  /\ leasePhase = "disconnecting" => stopping # "no"
  /\ ~closing /\ stopping = "no" /\ state \in {"ready", "processing"} => leasePhase = "ready"

LEMMA LeaseBegins == EngineInit => ControlTyped /\ LeaseFits
<1>1. EngineInit => ControlTyped
  <2>1. 0 \in Nat
    OBVIOUS
  <2> QED BY <2>1, Zenon DEF EngineInit, ControlTyped
<1>2. EngineInit => LeaseFits
  BY DEF EngineInit, LeaseFits
<1> QED BY <1>1, <1>2

LEMMA LeaseKeeps ==
  ASSUME ControlTyped, LeaseFits, [EngineNext]_engineAllVars
  PROVE  ControlTyped' /\ LeaseFits'
<1> USE DEF ControlTyped, LeaseFits
<1>1. CASE StartEngine
  <2>1. /\ ~closing /\ closing' = closing /\ closer' = closer /\ stopping' = stopping
        /\ closeWaiter' = closeWaiter /\ lease' = lease + 1 /\ current' = TRUE
        /\ leasePhase' = "connecting" /\ state' = "starting"
        /\ \/ socket = "idle" /\ socket' = "connecting" /\ dialing' = TRUE /\ failing' = FALSE
           \/ failing' = TRUE /\ socket' = socket /\ dialing' = dialing
    BY <1>1 DEF StartEngine, Connect
  <2>2. closer = "no" /\ stopping = "no" /\ ~closeWaiter /\ socket = "idle" /\ ~dialing
    BY <1>1 DEF StartEngine
  <2>3. ControlTyped'
    <3>1. lease + 1 \in Nat
      OBVIOUS
    <3> QED BY <2>1, <3>1, Zenon
  <2>4. LeaseFits'
    BY <2>1, <2>2
  <2> QED BY <2>3, <2>4
<1>2. CASE StartFails
  BY <1>2 DEF StartFails, InvalidateLease, IsCurrent, transportVars
<1>3. CASE SocketOpens
  BY <1>3 DEF SocketOpens, IsCurrent, workVars
<1>4. CASE ConnectFails
  BY <1>4 DEF ConnectFails, workVars
<1>5. CASE SocketCloses
  BY <1>5 DEF SocketCloses, EngineHearsClose, InvalidateLease, IsCurrent, NoMicrotask
<1>6. CASE DisconnectTimesOut
  BY <1>6 DEF DisconnectTimesOut, workVars
<1>7. CASE StopEngine
  BY <1>7 DEF StopEngine, StopLease, Disconnect
<1>8. CASE StopEnds
  BY <1>8 DEF StopEnds, transportVars
<1>9. CASE CloseEngine
  BY <1>9 DEF CloseEngine, StopLease, Disconnect
<1>10. CASE CloseEnds
  BY <1>10 DEF CloseEnds
<1>11. ASSUME NEW trigger1 \in AskedTriggers, Generate(trigger1) PROVE ControlTyped' /\ LeaseFits'
  BY <1>11 DEF Generate, IsReady, IsCurrent, transportVars
<1>12. ASSUME NEW n \in unsent, GenerateFails(n) PROVE ControlTyped' /\ LeaseFits'
  <2>1. /\ UNCHANGED <<closing, closer, lease, current, leasePhase, stopping, failing, socket,
                       dialing, closeWaiter>>
        /\ state' \in {state, "degraded"} /\ (state' # state => IsReady(asks[n].lease))
    BY <1>12 DEF GenerateFails, transportVars
  <2> QED BY <2>1 DEF IsReady, IsCurrent
<1>13. CASE ResponseTimesOut
  BY <1>13 DEF ResponseTimesOut, IsReady, IsCurrent, transportVars
<1>14. CASE HandleMessage
  BY <1>14 DEF HandleMessage, Accept, IsReady, IsCurrent, transportVars
<1>15. CASE CompletionEnds
  BY <1>15 DEF CompletionEnds, IsReady, IsCurrent, transportVars
<1>16. CASE UNCHANGED <<engineVars, transportVars>>
  BY <1>16 DEF engineVars, transportVars
<1> QED BY <1>1, <1>2, <1>3, <1>4, <1>5, <1>6, <1>7, <1>8, <1>9, <1>10, <1>11, <1>12, <1>13, <1>14,
           <1>15, <1>16
        DEF EngineNext, Microtask, Timer, Peer, Caller, Receive, CompleteDelivery, engineAllVars

(***************************************************************************)
(* The work: the reply that is pending, the answers and what the peer heard.  *)
(***************************************************************************)
PendingFits ==
  pendingReply # NoPending =>
    /\ pendingReply.ask \in 1 .. Len(asks)
    /\ pendingReply.lease = lease /\ leasePhase = "ready"
    /\ asks[pendingReply.ask].trigger = pendingReply.trigger
    /\ pendingReply.stage = "awaiting-command" => asks[pendingReply.ask].answer = Unanswered
    /\ pendingReply.stage = "awaiting-delivery" =>
         /\ asks[pendingReply.ask].answer.is = "reply"
         /\ pendingReply.key
              = DeliveryKey(pendingReply.trigger, asks[pendingReply.ask].answer.text)

AnswersFit ==
  \A n \in 1 .. Len(asks) : asks[n].answer = Unanswered =>
    pendingReply.stage = "awaiting-command" /\ pendingReply.ask = n

CompletionFits ==
  /\ completing.ask <= Len(asks)
  /\ completing # NoCompletion =>
       /\ asks[completing.ask].answer.is = "reply"
       /\ pendingReply # NoPending /\ pendingReply.ask = completing.ask =>
            completing.lease = pendingReply.lease

ToldFits ==
  /\ OutcomeIsFinal
  /\ pendingReply.stage = "awaiting-delivery" =>
       \/ told[pendingReply.ask] = << >>
       \/ completing.ask = pendingReply.ask /\ Len(told[pendingReply.ask]) <= 1

StateFits ==
  ~closing =>
    /\ state = "ready" => pendingReply = NoPending
    /\ state = "processing" /\ stopping = "no" => pendingReply # NoPending

DataFits == PendingFits /\ AnswersFit /\ CompletionFits /\ ToldFits
WorkFits == DataFits /\ StateFits

LEMMA AnswersDiffer ==
  /\ \A x : Reply(x).is = "reply" /\ Reply(x).text = x /\ Reply(x) # Unanswered
  /\ Refused # Unanswered /\ Unanswered.is # "reply"
  BY DEF Reply, Refused, Unanswered

LEMMA PendingStages ==
  ASSUME WorkTyped
  PROVE  /\ pendingReply = NoPending <=> pendingReply.stage = "none"
         /\ pendingReply # NoPending =>
              /\ pendingReply.stage \in {"awaiting-command", "awaiting-delivery"}
              /\ pendingReply.ask \in Nat \ {0} /\ pendingReply.trigger \in AskedTriggers
         /\ pendingReply.stage = "awaiting-command" => pendingReply \in AwaitsCommand
         /\ pendingReply.stage = "awaiting-delivery" => pendingReply \in AwaitsDelivery
  BY DEF WorkTyped, AwaitsCommand, AwaitsDelivery, NoPending

LEMMA AsksAre ==
  ASSUME WorkTyped
  PROVE  /\ Len(asks) \in Nat /\ Len(told) = Len(asks)
         /\ \A n \in 1 .. Len(asks) : asks[n] \in Ask /\ told[n] \in Seq(Outcomes)
         /\ \A n \in 1 .. Len(asks) : Len(told[n]) \in Nat
<1>1. \A n \in 1 .. Len(asks) : asks[n] \in Ask
  BY ElementOfSeq DEF WorkTyped
<1>2. \A n \in 1 .. Len(told) : told[n] \in Seq(Outcomes)
  BY ElementOfSeq DEF WorkTyped
<1> QED BY <1>1, <1>2, LenProperties DEF WorkTyped

\* The promise of a generate takes its first value only.
LEMMA AnswersOnce ==
  ASSUME WorkTyped, NEW n \in 1 .. Len(asks), NEW a \in Answers
  PROVE  /\ WithAnswer(n, a) \in Seq(Ask) /\ Len(WithAnswer(n, a)) = Len(asks)
         /\ \A m \in 1 .. Len(asks) : m # n => WithAnswer(n, a)[m] = asks[m]
         /\ WithAnswer(n, a)[n].trigger = asks[n].trigger
         /\ WithAnswer(n, a)[n].answer = IF asks[n].answer = Unanswered THEN a ELSE asks[n].answer
<1>1. CASE asks[n].answer # Unanswered
  BY <1>1 DEF WithAnswer, WorkTyped
<1>2. CASE asks[n].answer = Unanswered
  <2> DEFINE b == [trigger |-> asks[n].trigger, lease |-> asks[n].lease, answer |-> a]
  <2>1. asks[n] \in Ask /\ b \in Ask
    BY AsksAre DEF Ask
  <2>2. [asks[n] EXCEPT !.answer = a] = b
    BY <2>1 DEF Ask
  <2>3. [asks EXCEPT ![n].answer = a] = [asks EXCEPT ![n] = b]
    BY <2>2
  <2>4. WithAnswer(n, a) = [asks EXCEPT ![n] = b]
    BY <1>2, <2>3 DEF WithAnswer
  <2>5. asks \in Seq(Ask)
    BY DEF WorkTyped
  <2> HIDE DEF b
  <2>6. /\ [asks EXCEPT ![n] = b] \in Seq(Ask)
        /\ Len([asks EXCEPT ![n] = b]) = Len(asks)
        /\ \A j \in 1 .. Len(asks) : [asks EXCEPT ![n] = b][j] = IF j = n THEN b ELSE asks[j]
    BY <2>1, <2>5, ExceptSeq
  <2> QED BY <1>2, <2>4, <2>6 DEF b
<1> QED BY <1>1, <1>2

LEMMA ClearsPending ==
  ASSUME WorkTyped, PendingFits, AnswersFit, ClearPendingReply
  PROVE  /\ pendingReply' = NoPending
         /\ asks' \in Seq(Ask) /\ Len(asks') = Len(asks)
         /\ \A n \in 1 .. Len(asks) :
              /\ asks'[n].trigger = asks[n].trigger
              /\ asks'[n].answer # Unanswered
              /\ asks[n].answer # Unanswered => asks'[n].answer = asks[n].answer
<1>1. CASE pendingReply.stage # "awaiting-command"
  BY <1>1 DEF ClearPendingReply, WorkTyped, AnswersFit
<1>2. CASE pendingReply.stage = "awaiting-command"
  <2>1. pendingReply.ask \in 1 .. Len(asks)
    BY <1>2, PendingStages DEF PendingFits
  <2>2. asks' = WithAnswer(pendingReply.ask, Refused) /\ Refused \in Answers
    BY <1>2 DEF ClearPendingReply, Answers
  <2> QED BY <1>2, <2>1, <2>2, AnswersOnce, AnswersDiffer DEF ClearPendingReply, AnswersFit
<1> QED BY <1>1, <1>2

LEMMA CompletionRests ==
  ASSUME WorkTyped, CompletionFits, completing' = completing, Len(asks') \in Nat,
         Len(asks) <= Len(asks'),
         \A n \in 1 .. Len(asks) : asks[n].answer.is = "reply" => asks'[n].answer.is = "reply",
         \/ pendingReply' = NoPending
         \/ pendingReply'.ask > Len(asks)
         \/ pendingReply # NoPending /\ pendingReply'.ask = pendingReply.ask
              /\ pendingReply'.lease = pendingReply.lease
  PROVE  CompletionFits'
<1>1. Len(asks) \in Nat /\ completing.ask \in Nat
      /\ (completing # NoCompletion => completing.ask \in 1 .. Len(asks))
  BY AsksAre DEF WorkTyped, CompletionFits, NoCompletion
<1> QED BY <1>1 DEF CompletionFits

LEMMA WorkRests ==
  ASSUME WorkTyped, DataFits, UNCHANGED <<pendingReply, asks, told, completing>>,
         pendingReply # NoPending => lease' = lease /\ leasePhase' = leasePhase
  PROVE  DataFits'
  BY DEF DataFits, PendingFits, AnswersFit, CompletionFits, ToldFits, OutcomeIsFinal

LEMMA WorkClears ==
  ASSUME WorkTyped, DataFits, ClearPendingReply, UNCHANGED <<told, completing, unsent, inbox>>
  PROVE  WorkTyped' /\ DataFits' /\ pendingReply' = NoPending
<1>1. /\ pendingReply' = NoPending
      /\ asks' \in Seq(Ask) /\ Len(asks') = Len(asks)
      /\ \A n \in 1 .. Len(asks) :
           /\ asks'[n].answer # Unanswered
           /\ asks[n].answer # Unanswered => asks'[n].answer = asks[n].answer
  BY ClearsPending DEF DataFits
<1>2. WorkTyped'
  BY <1>1 DEF WorkTyped
<1>3. PendingFits' /\ AnswersFit' /\ CompletionFits'
  BY <1>1, AsksAre, AnswersDiffer, CompletionRests DEF DataFits, PendingFits, AnswersFit, NoPending
<1>4. OutcomeIsFinal'
  BY <1>1, AsksAre, AnswersDiffer DEF DataFits, ToldFits, OutcomeIsFinal
<1>5. ToldFits'
  BY <1>1, <1>4 DEF ToldFits, NoPending
<1> QED BY <1>1, <1>2, <1>3, <1>5 DEF DataFits

\* The peer hears one more outcome of an ask.
LEMMA Tells ==
  ASSUME WorkTyped, NEW n \in 1 .. Len(asks), NEW o \in Outcomes,
         told' = [told EXCEPT ![n] = Append(@, o)]
  PROVE  /\ told' \in Seq(Seq(Outcomes)) /\ Len(told') = Len(told)
         /\ \A m \in 1 .. Len(told) : m # n => told'[m] = told[m]
         /\ Len(told'[n]) = Len(told[n]) + 1
         /\ \A i \in 1 .. Len(told[n]) : told'[n][i] = told[n][i]
         /\ told'[n][Len(told[n]) + 1] = o
<1>1. told[n] \in Seq(Outcomes) /\ told \in Seq(Seq(Outcomes)) /\ n \in 1 .. Len(told)
  BY AsksAre DEF WorkTyped
<1> DEFINE more == Append(told[n], o)
<1>2. /\ more \in Seq(Outcomes) /\ Len(more) = Len(told[n]) + 1
      /\ \A i \in 1 .. Len(told[n]) : more[i] = told[n][i]
      /\ more[Len(told[n]) + 1] = o
  BY <1>1
<1>3. told' = [told EXCEPT ![n] = more]
  OBVIOUS
<1> HIDE DEF more
<1>4. /\ [told EXCEPT ![n] = more] \in Seq(Seq(Outcomes))
      /\ Len([told EXCEPT ![n] = more]) = Len(told)
      /\ \A j \in 1 .. Len(told) : [told EXCEPT ![n] = more][j] = IF j = n THEN more ELSE told[j]
  BY <1>1, <1>2, ExceptSeq
<1> QED BY <1>1, <1>2, <1>3, <1>4

LEMMA WorkBegins == EngineInit => WorkTyped /\ WorkFits
<1> SUFFICES ASSUME EngineInit PROVE WorkTyped /\ WorkFits
  OBVIOUS
<1>1. asks = << >> /\ told = << >> /\ Len(asks) = 0 /\ Len(told) = 0
  BY EmptySeq DEF EngineInit
<1>2. WorkTyped
  BY <1>1, EmptySeq DEF EngineInit, WorkTyped
<1>3. DataFits
  BY <1>1 DEF EngineInit, DataFits, PendingFits, AnswersFit, CompletionFits, ToldFits, OutcomeIsFinal,
              NoPending, NoCompletion
<1>4. StateFits
  BY DEF EngineInit, StateFits
<1> QED BY <1>2, <1>3, <1>4 DEF WorkFits

\* The steps of the lease and its socket.
LEMMA LeaseStepKeepsWork ==
  ASSUME EngineTyped, LeaseFits, WorkFits,
         \/ StartEngine \/ StartFails \/ SocketOpens \/ ConnectFails \/ SocketCloses
         \/ DisconnectTimesOut \/ StopEnds \/ CloseEnds
  PROVE  WorkTyped' /\ WorkFits'
<1> USE DEF EngineTyped, WorkFits
<1>0. ~current => pendingReply = NoPending
  BY DEF DataFits, PendingFits, LeaseFits
<1>1. CASE StartEngine
  <2>1. UNCHANGED workVars /\ ~current /\ state' = "starting"
    BY <1>1 DEF StartEngine
  <2>2. DataFits'
    BY <1>0, <2>1, WorkRests DEF workVars
  <2> QED BY <2>1, <2>2 DEF workVars, WorkTyped, StateFits
<1>2. CASE StartFails
  <2>1. CASE ClearPendingReply /\ state' = "degraded"
    BY <1>2, <2>1, WorkClears DEF StartFails, StateFits
  <2>2. CASE UNCHANGED <<leasePhase, state, pendingReply, asks>>
    <3>1. DataFits' /\ WorkTyped'
      BY <1>2, <2>2, WorkRests DEF StartFails, WorkTyped
    <3> QED BY <1>2, <2>2, <3>1 DEF StartFails, StateFits
  <2> QED BY <1>2, <2>1, <2>2 DEF StartFails, InvalidateLease
<1>3. CASE SocketOpens
  <2>1. leasePhase # "ready" /\ pendingReply = NoPending
    BY <1>3 DEF SocketOpens, LeaseFits, DataFits, PendingFits
  <2>2. UNCHANGED workVars /\ state' \in {"ready", state} /\ closing' = closing /\ stopping' = stopping
    BY <1>3 DEF SocketOpens
  <2>3. DataFits'
    BY <2>1, <2>2, WorkRests DEF workVars
  <2> QED BY <2>1, <2>2, <2>3 DEF workVars, WorkTyped, StateFits
<1>4. CASE ConnectFails
  <2>1. DataFits' /\ WorkTyped'
    BY <1>4, WorkRests DEF ConnectFails, workVars, WorkTyped
  <2> QED BY <1>4, <2>1 DEF ConnectFails, workVars, StateFits
<1>5. CASE SocketCloses
  <2>1. CASE ClearPendingReply /\ state' = "degraded"
    BY <1>5, <2>1, WorkClears DEF SocketCloses, StateFits
  <2>2. CASE ~(IsCurrent(lease) /\ leasePhase \in {"connecting", "ready"})
    <3>1. pendingReply = NoPending /\ UNCHANGED <<state, pendingReply, asks>>
      BY <1>5, <2>2 DEF SocketCloses, EngineHearsClose, DataFits, PendingFits, LeaseFits, IsCurrent
    <3>2. DataFits' /\ WorkTyped'
      BY <1>5, <3>1, WorkRests DEF SocketCloses, WorkTyped
    <3>3. stopping' = stopping \/ stopping = "waiting"
      BY <1>5 DEF SocketCloses, LeaseFits
    <3>4. state = "processing" /\ ~closing => stopping # "no"
      BY <3>1 DEF StateFits
    <3>5. stopping' # "no" \/ stopping = "no"
      BY <1>5, <3>3 DEF SocketCloses
    <3> QED BY <1>5, <3>1, <3>2, <3>4, <3>5 DEF SocketCloses, StateFits
  <2> QED BY <1>5, <2>1, <2>2 DEF SocketCloses, EngineHearsClose, InvalidateLease
<1>6. CASE DisconnectTimesOut
  <2>1. DataFits' /\ WorkTyped'
    BY <1>6, WorkRests DEF DisconnectTimesOut, workVars, WorkTyped
  <2> QED BY <1>6, <2>1 DEF DisconnectTimesOut, workVars, StateFits, LeaseFits
<1>7. CASE StopEnds
  <2>1. pendingReply = NoPending
    BY <1>7 DEF StopEnds, LeaseFits, DataFits, PendingFits
  <2>2. DataFits' /\ WorkTyped'
    BY <1>7, <2>1, WorkRests DEF StopEnds, workVars, WorkTyped
  <2> QED BY <1>7, <2>2 DEF StopEnds, StateFits
<1>8. CASE CloseEnds
  BY <1>8, WorkClears DEF CloseEnds, StateFits
<1> QED BY <1>1, <1>2, <1>3, <1>4, <1>5, <1>6, <1>7, <1>8

LEMMA StopKeepsWork ==
  ASSUME EngineTyped, LeaseFits, WorkFits, NEW heard \in BOOLEAN, StopLease(heard),
         UNCHANGED <<unsent, completing, inbox>>
  PROVE  WorkTyped' /\ DataFits' /\ pendingReply' = NoPending
<1> USE DEF EngineTyped, WorkFits
<1>1. /\ pendingReply' = NoPending
      /\ asks' \in Seq(Ask) /\ Len(asks') = Len(asks)
      /\ \A n \in 1 .. Len(asks) :
           /\ asks'[n].answer # Unanswered
           /\ asks[n].answer # Unanswered => asks'[n].answer = asks[n].answer
  BY ClearsPending DEF StopLease, DataFits
<1>2. CASE UNCHANGED told
  BY <1>2, WorkClears DEF StopLease
<1>3. CASE /\ pendingReply.stage = "awaiting-delivery"
           /\ told' = [told EXCEPT ![pendingReply.ask] = Append(@, "stopped")]
  <2> DEFINE n == pendingReply.ask
  <2>1. n \in 1 .. Len(asks) /\ asks[n].answer.is = "reply" /\ Len(told[n]) \in {0, 1}
    <3>1. n \in 1 .. Len(asks) /\ asks[n].answer.is = "reply"
      BY <1>3, PendingStages DEF DataFits, PendingFits
    <3>2. told[n] \in Seq(Outcomes) /\ Len(told[n]) \in Nat
      BY <3>1, AsksAre
    <3>3. told[n] = << >> \/ Len(told[n]) <= 1
      BY <1>3 DEF DataFits, ToldFits
    <3>4. Len(told[n]) <= 1
      <4>1. Len(<< >>) <= 1
        BY EmptySeq
      <4> QED BY <3>3, <4>1, Zenon
    <3>5. \A k \in Nat : k <= 1 => k \in {0, 1}
      OBVIOUS
    <3> QED BY <3>1, <3>2, <3>4, <3>5, Zenon
  <2>2. /\ told' \in Seq(Seq(Outcomes)) /\ Len(told') = Len(told)
        /\ \A m \in 1 .. Len(told) : m # n => told'[m] = told[m]
        /\ Len(told'[n]) = Len(told[n]) + 1
        /\ \A i \in 1 .. Len(told[n]) : told'[n][i] = told[n][i]
        /\ told'[n][Len(told[n]) + 1] = "stopped"
    BY <1>3, <2>1, Tells DEF Outcomes
  <2>3. WorkTyped'
    BY <1>1, <2>2 DEF WorkTyped
  <2>4. PendingFits' /\ AnswersFit' /\ CompletionFits'
    BY <1>1, AsksAre, AnswersDiffer, CompletionRests DEF DataFits, PendingFits, AnswersFit, NoPending
  <2>5. ASSUME NEW m \in 1 .. Len(told)
        PROVE  /\ \A i \in 1 .. Len(told'[m]) : told'[m][i] # "stopped" => i = 1
               /\ Len(told'[m]) <= 2
               /\ told'[m] # << >> => asks'[m].answer.is = "reply"
    <3>1. /\ \A i \in 1 .. Len(told[m]) : told[m][i] # "stopped" => i = 1
          /\ Len(told[m]) <= 2
          /\ told[m] # << >> => asks[m].answer.is = "reply"
      BY DEF DataFits, ToldFits, OutcomeIsFinal
    <3>2. m \in 1 .. Len(asks) /\ (asks[m].answer.is = "reply" => asks'[m].answer.is = "reply")
      BY <1>1, AsksAre, AnswersDiffer
    <3>3. CASE m # n
      BY <2>2, <3>1, <3>2, <3>3
    <3>4. CASE m = n
      BY <2>1, <2>2, <3>1, <3>2, <3>4
    <3> QED BY <3>3, <3>4
  <2>6. ToldFits'
    BY <1>1, <2>2, <2>5 DEF ToldFits, OutcomeIsFinal, NoPending
  <2> QED BY <1>1, <2>3, <2>4, <2>6 DEF DataFits
<1> QED BY <1>2, <1>3 DEF StopLease, NotifyStopped

LEMMA CallKeepsWork ==
  ASSUME EngineTyped, LeaseFits, WorkFits, StopEngine \/ CloseEngine
  PROVE  WorkTyped' /\ WorkFits'
<1> USE DEF EngineTyped, WorkFits
<1>1. CASE StopEngine
  <2>1. WorkTyped' /\ DataFits' /\ pendingReply' = NoPending
    BY <1>1, StopKeepsWork DEF StopEngine
  <2>2. stopping' # "no" /\ UNCHANGED <<state, closing>>
    BY <1>1 DEF StopEngine, StopLease, Disconnect
  <2> QED BY <2>1, <2>2 DEF StateFits
<1>2. CASE CloseEngine
  <2>1. StateFits'
    BY <1>2 DEF CloseEngine, StateFits
  <2>2. CASE current /\ stopping = "no"
    BY <1>2, <2>1, <2>2, StopKeepsWork DEF CloseEngine
  <2>3. CASE ~(current /\ stopping = "no")
    <3>1. pendingReply = NoPending
      BY <2>3 DEF LeaseFits, DataFits, PendingFits
    <3>2. DataFits' /\ WorkTyped'
      BY <1>2, <2>3, <3>1, WorkRests DEF CloseEngine, WorkTyped
    <3> QED BY <2>1, <3>2
  <2> QED BY <2>2, <2>3
<1> QED BY <1>1, <1>2

LEMMA GenerateKeepsWork ==
  ASSUME EngineTyped, LeaseFits, WorkFits, NEW t \in AskedTriggers, Generate(t)
  PROVE  WorkTyped' /\ WorkFits'
<1> USE DEF EngineTyped, WorkFits
<1> DEFINE a == [trigger |-> t, lease |-> lease, answer |-> Unanswered]
           k == Len(asks) + 1
<1>1. /\ asks' = Append(asks, a) /\ told' = Append(told, << >>)
      /\ pendingReply = NoPending
      /\ pendingReply' = [stage |-> "awaiting-command", ask |-> k, lease |-> lease, trigger |-> t]
      /\ state' = "processing" /\ unsent' \subseteq unsent \union {k}
      /\ UNCHANGED <<closing, lease, leasePhase, stopping, completing, inbox>> /\ leasePhase = "ready"
  BY DEF Generate, IsReady, IsCurrent
<1>2. /\ asks \in Seq(Ask) /\ a \in Ask /\ told \in Seq(Seq(Outcomes)) /\ << >> \in Seq(Outcomes)
      /\ Len(asks) \in Nat /\ Len(told) = Len(asks)
  BY EmptySeq, AsksAre DEF WorkTyped, ControlTyped, Ask, Answers
<1>3. /\ a.trigger = t /\ a.answer = Unanswered
  OBVIOUS
<1> HIDE DEF a
<1>4. /\ asks' \in Seq(Ask) /\ Len(asks') = k
      /\ \A n \in 1 .. Len(asks) : asks'[n] = asks[n]
      /\ asks'[k] = a
  BY <1>1, <1>2
<1>5. /\ told' \in Seq(Seq(Outcomes)) /\ Len(told') = k
      /\ \A n \in 1 .. Len(asks) : told'[n] = told[n]
      /\ told'[k] = << >>
  BY <1>1, <1>2
<1>6. pendingReply' \in AwaitsCommand
  BY <1>1, <1>2 DEF AwaitsCommand, ControlTyped
<1>7. WorkTyped'
  <2>1. unsent' \subseteq 1 .. Len(asks')
    <3>1. unsent \subseteq 1 .. Len(asks)
      BY DEF WorkTyped
    <3> QED BY <1>1, <1>2, <1>4, <3>1
  <2>2. UNCHANGED <<completing, inbox>>
    BY <1>1
  <2> HIDE DEF k
  <2> QED BY <1>2, <1>4, <1>5, <1>6, <2>1, <2>2 DEF WorkTyped
<1>8. PendingFits'
  BY <1>1, <1>2, <1>3, <1>4 DEF PendingFits
<1>9. AnswersFit'
  BY <1>1, <1>2, <1>4, PendingStages DEF DataFits, AnswersFit, NoPending
<1>10. CompletionFits'
  BY <1>1, <1>2, <1>4, CompletionRests DEF DataFits
<1>11. ToldFits'
  <2>1. \A n \in 1 .. Len(told') : n \in 1 .. Len(told) \/ n = k
    <3>1. Len(told') = k /\ k = Len(told) + 1 /\ Len(told) \in Nat
      BY <1>2, <1>5
    <3> HIDE DEF k
    <3> QED BY <3>1
  <2>2. \A n \in 1 .. Len(told) : told'[n] = told[n] /\ asks'[n] = asks[n]
    BY <1>2, <1>4, <1>5
  <2>3. Len(<< >>) = 0 /\ \A i \in 1 .. Len(<< >>) : FALSE
    BY EmptySeq
  <2>4. ASSUME NEW n \in 1 .. Len(told')
        PROVE  /\ \A i \in 1 .. Len(told'[n]) : told'[n][i] # "stopped" => i = 1
               /\ Len(told'[n]) <= 2
               /\ told'[n] # << >> => asks'[n].answer.is = "reply"
    <3>1. CASE n \in 1 .. Len(told)
      BY <2>2, <3>1 DEF DataFits, ToldFits, OutcomeIsFinal
    <3>2. CASE n = k
      BY <1>5, <2>3, <3>2
    <3> QED BY <2>1, <3>1, <3>2
  <2>5. OutcomeIsFinal'
    BY <2>4 DEF OutcomeIsFinal
  <2> QED BY <1>1, <2>5 DEF ToldFits
<1>12. StateFits'
  BY <1>1, <1>6, PendingStages DEF StateFits, AwaitsCommand, NoPending
<1> QED BY <1>7, <1>8, <1>9, <1>10, <1>11, <1>12 DEF DataFits

LEMMA AnswerStepKeepsWork ==
  ASSUME EngineTyped, LeaseFits, WorkFits,
         (\E n \in unsent : GenerateFails(n)) \/ ResponseTimesOut
  PROVE  WorkTyped' /\ WorkFits'
<1> USE DEF EngineTyped, WorkFits
<1>1. ASSUME NEW n \in unsent, GenerateFails(n) PROVE WorkTyped' /\ WorkFits'
  <2>1. CASE ClearPendingReply /\ state' = "degraded"
    <3>1. /\ pendingReply' = NoPending
          /\ asks' \in Seq(Ask) /\ Len(asks') = Len(asks)
          /\ \A m \in 1 .. Len(asks) :
               /\ asks'[m].answer # Unanswered
               /\ asks[m].answer # Unanswered => asks'[m].answer = asks[m].answer
      BY <2>1, ClearsPending DEF DataFits
    <3>2. WorkTyped'
      BY <1>1, <3>1 DEF GenerateFails, WorkTyped
    <3>3. PendingFits' /\ AnswersFit' /\ CompletionFits'
      BY <1>1, <3>1, AsksAre, AnswersDiffer, CompletionRests
         DEF GenerateFails, DataFits, PendingFits, AnswersFit, NoPending
    <3>4. OutcomeIsFinal'
      BY <1>1, <3>1, AsksAre, AnswersDiffer DEF GenerateFails, DataFits, ToldFits, OutcomeIsFinal
    <3>5. ToldFits'
      BY <3>1, <3>4 DEF ToldFits, NoPending
    <3>6. StateFits'
      BY <2>1 DEF StateFits
    <3> QED BY <3>2, <3>3, <3>5, <3>6 DEF DataFits
  <2>2. CASE UNCHANGED <<pendingReply, asks, state>>
    <3>1. DataFits' /\ WorkTyped'
      BY <1>1, <2>2, WorkRests DEF GenerateFails, WorkTyped
    <3> QED BY <1>1, <2>2, <3>1 DEF GenerateFails, StateFits
  <2> QED BY <1>1, <2>1, <2>2 DEF GenerateFails
<1>2. CASE ResponseTimesOut
  BY <1>2, WorkClears DEF ResponseTimesOut, StateFits
<1> QED BY <1>1, <1>2

LEMMA MessageKeepsWork ==
  ASSUME EngineTyped, LeaseFits, WorkFits, HandleMessage
  PROVE  WorkTyped' /\ WorkFits'
<1> USE DEF EngineTyped, WorkFits
<1>0. inbox \in [lease : Nat, command : Commands]
  BY DEF HandleMessage, WorkTyped
<1>1. CASE UNCHANGED <<pendingReply, asks, seenEchoes>> /\ state' \in {state, "degraded"}
  <2>1. DataFits' /\ WorkTyped'
    BY <1>1, WorkRests DEF HandleMessage, WorkTyped
  <2> QED BY <1>1, <2>1 DEF HandleMessage, StateFits
<1>2. CASE Acceptable(inbox.command) /\ Accept(inbox.command)
  <2> DEFINE command == inbox.command
             n == pendingReply.ask
             p == [stage |-> "awaiting-delivery", ask |-> n, lease |-> pendingReply.lease,
                   trigger |-> pendingReply.trigger,
                   key |-> DeliveryKey(pendingReply.trigger, command.text)]
  <2>1. command.text \in Texts /\ pendingReply.stage = "awaiting-command"
    BY <1>0, <1>2 DEF Commands, Acceptable
  <2>2. /\ pendingReply' = p /\ asks' = WithAnswer(n, Reply(command.text)) /\ state' = "processing"
        /\ UNCHANGED <<closing, lease, leasePhase, stopping, unsent, completing, told>>
        /\ inbox' = NoMessage
    BY <1>2 DEF Accept, HandleMessage
  <2>3. /\ n \in 1 .. Len(asks) /\ asks[n].answer = Unanswered /\ leasePhase = "ready"
        /\ pendingReply.lease = lease /\ asks[n].trigger = pendingReply.trigger
        /\ pendingReply.trigger \in AskedTriggers /\ pendingReply # NoPending
    BY <2>1, PendingStages DEF DataFits, PendingFits
  <2>4. Reply(command.text) \in Answers
    BY <2>1 DEF Answers
  <2>5. /\ asks' \in Seq(Ask) /\ Len(asks') = Len(asks)
        /\ \A m \in 1 .. Len(asks) : m # n => asks'[m] = asks[m]
        /\ asks'[n].trigger = asks[n].trigger
        /\ asks'[n].answer = Reply(command.text)
    BY <2>2, <2>3, <2>4, AnswersOnce
  <2>6. pendingReply' \in AwaitsDelivery /\ pendingReply' # NoPending
    BY <2>1, <2>2, <2>3 DEF AwaitsDelivery, DeliveryKey, ControlTyped, NoPending
  <2>7. WorkTyped'
    BY <2>2, <2>5, <2>6 DEF WorkTyped
  <2>8. PendingFits'
    BY <2>2, <2>3, <2>5, AnswersDiffer DEF PendingFits
  <2>9. AnswersFit'
    BY <2>1, <2>3, <2>5, AnswersDiffer DEF DataFits, AnswersFit
  <2>10. CompletionFits'
    <3>1. \A m \in 1 .. Len(asks) : asks[m].answer.is = "reply" => asks'[m].answer.is = "reply"
      BY <2>3, <2>5, AnswersDiffer
    <3> QED BY <2>2, <2>3, <2>5, <3>1, AsksAre, CompletionRests DEF DataFits
  <2>11. told[n] = << >>
    BY <2>3, AsksAre, AnswersDiffer DEF DataFits, ToldFits, OutcomeIsFinal
  <2>12. OutcomeIsFinal'
    BY <2>2, <2>5, <2>11, AsksAre DEF DataFits, ToldFits, OutcomeIsFinal
  <2>13. ToldFits'
    BY <2>2, <2>11, <2>12 DEF ToldFits
  <2>14. StateFits'
    BY <2>2, <2>6 DEF StateFits
  <2> QED BY <2>7, <2>8, <2>9, <2>10, <2>13, <2>14 DEF DataFits
<1> QED BY <1>1, <1>2 DEF HandleMessage

LEMMA CompletionKeepsWork ==
  ASSUME EngineTyped, LeaseFits, WorkFits, CompletionEnds
  PROVE  WorkTyped' /\ WorkFits'
<1> USE DEF EngineTyped, WorkFits
<1>1. /\ completing' = NoCompletion /\ completing # NoCompletion
      /\ completing.ask \in 1 .. Len(asks)
      /\ UNCHANGED <<asks, told, unsent, inbox, closing, current, lease, leasePhase, stopping>>
  BY AsksAre DEF CompletionEnds, WorkTyped, DataFits, CompletionFits, NoCompletion
<1>2. CompletionFits' /\ OutcomeIsFinal'
  BY <1>1, AsksAre DEF DataFits, CompletionFits, ToldFits, OutcomeIsFinal, NoCompletion
<1>3. asks[completing.ask].answer # Unanswered
  BY <1>1, AnswersDiffer DEF DataFits, CompletionFits
<1>4. CASE IsReady(completing.lease) /\ pendingReply # NoPending /\ pendingReply.ask = completing.ask
  <2>1. pendingReply' = NoPending /\ state' \in {"ready", "degraded"}
    BY <1>4 DEF CompletionEnds
  <2>2. \A n \in 1 .. Len(asks) : asks[n].answer # Unanswered
    BY <1>1, <1>3, <1>4 DEF DataFits, AnswersFit
  <2>3. WorkTyped'
    BY <1>1, <2>1 DEF WorkTyped
  <2> QED BY <1>1, <1>2, <2>1, <2>2, <2>3
          DEF DataFits, PendingFits, AnswersFit, ToldFits, StateFits, NoPending
<1>5. CASE ~(IsReady(completing.lease) /\ pendingReply # NoPending /\ pendingReply.ask = completing.ask)
  <2>1. UNCHANGED <<pendingReply, state>>
    BY <1>5 DEF CompletionEnds
  <2>2. pendingReply # NoPending => pendingReply.ask # completing.ask
    BY <1>1, <1>5 DEF DataFits, PendingFits, CompletionFits, LeaseFits, IsReady, IsCurrent
  <2>3. ToldFits'
    BY <1>1, <1>2, <2>1, <2>2, PendingStages DEF DataFits, ToldFits
  <2>4. WorkTyped'
    BY <1>1, <2>1 DEF WorkTyped
  <2> QED BY <1>1, <1>2, <2>1, <2>3, <2>4 DEF DataFits, PendingFits, AnswersFit, StateFits
<1> QED BY <1>4, <1>5

LEMMA DeliveryKeepsWork ==
  ASSUME EngineTyped, LeaseFits, WorkFits, NEW receipt \in Receipts, CompleteDelivery(receipt)
  PROVE  WorkTyped' /\ WorkFits'
<1> USE DEF EngineTyped, WorkFits
<1> DEFINE n == pendingReply.ask
<1>1. /\ n \in 1 .. Len(asks) /\ n \in Nat \ {0} /\ asks[n].answer.is = "reply"
      /\ pendingReply.stage = "awaiting-delivery" /\ pendingReply.lease = lease
      /\ UNCHANGED <<engineVars, pendingReply, asks, unsent, inbox>>
  BY PendingStages DEF CompleteDelivery, DataFits, PendingFits
<1>2. /\ completing = NoCompletion /\ completing'.ask = n /\ completing'.lease = lease
      /\ completing' \in [ask : Nat \ {0}, lease : Nat, sent : BOOLEAN]
  <2>1. PICK x \in BOOLEAN : completing' = [ask |-> n, lease |-> lease, sent |-> x]
    BY Zenon DEF CompleteDelivery
  <2> QED BY <1>1, <2>1 DEF CompleteDelivery, ControlTyped
<1>3. told[n] = << >>
  BY <1>1, <1>2 DEF DataFits, ToldFits, NoCompletion
<1>4. PendingFits' /\ AnswersFit' /\ CompletionFits' /\ StateFits'
  BY <1>1, <1>2, AsksAre
     DEF DataFits, PendingFits, AnswersFit, CompletionFits, StateFits, engineVars
<1>5. CASE UNCHANGED told
  <2>1. WorkTyped'
    BY <1>1, <1>2, <1>5 DEF WorkTyped
  <2>2. ToldFits'
    BY <1>1, <1>3, <1>5 DEF DataFits, ToldFits, OutcomeIsFinal
  <2> QED BY <1>4, <2>1, <2>2 DEF DataFits
<1> DEFINE o == AnswerFor(receipt.status)
<1>6. CASE told' = [told EXCEPT ![n] = Append(@, o)]
  <2>1. o \in Outcomes
    BY DEF AnswerFor, Receipts, Outcomes
  <2> HIDE DEF o
  <2>2. Len(told[n]) = 0
    BY <1>3, EmptySeq
  <2>3. /\ told' \in Seq(Seq(Outcomes)) /\ Len(told') = Len(told)
        /\ \A m \in 1 .. Len(told) : m # n => told'[m] = told[m]
        /\ Len(told'[n]) = 1
    <3>1. /\ told' \in Seq(Seq(Outcomes)) /\ Len(told') = Len(told)
          /\ \A m \in 1 .. Len(told) : m # n => told'[m] = told[m]
          /\ Len(told'[n]) = Len(told[n]) + 1
      BY <1>1, <1>6, <2>1, Tells
    <3> QED BY <2>2, <3>1
  <2>4. WorkTyped'
    BY <1>1, <1>2, <2>3 DEF WorkTyped
  <2>5. OutcomeIsFinal'
    <3>1. ASSUME NEW m \in 1 .. Len(told'), m # n
          PROVE  /\ \A i \in 1 .. Len(told'[m]) : told'[m][i] # "stopped" => i = 1
                 /\ Len(told'[m]) <= 2
                 /\ told'[m] # << >> => asks'[m].answer.is = "reply"
      BY <1>1, <2>3, <3>1 DEF DataFits, ToldFits, OutcomeIsFinal
    <3>2. /\ \A i \in 1 .. Len(told'[n]) : told'[n][i] # "stopped" => i = 1
          /\ Len(told'[n]) <= 2
      BY <2>3
    <3>3. asks'[n].answer.is = "reply"
      BY <1>1
    <3> QED BY <3>1, <3>2, <3>3 DEF OutcomeIsFinal
  <2>6. ToldFits'
    BY <1>1, <1>2, <2>3, <2>5 DEF ToldFits
  <2> QED BY <1>4, <2>4, <2>6 DEF DataFits
<1> QED BY <1>5, <1>6 DEF CompleteDelivery

LEMMA WorkKeeps ==
  ASSUME EngineTyped, LeaseFits, WorkFits, [EngineNext]_engineAllVars
  PROVE  WorkTyped' /\ WorkFits'
<1>1. ASSUME NEW command \in Commands, Receive(command) PROVE WorkTyped' /\ WorkFits'
  <2>1. DataFits' /\ WorkTyped'
    BY <1>1, WorkRests DEF Receive, engineVars, EngineTyped, ControlTyped, WorkTyped, WorkFits
  <2> QED BY <1>1, <2>1 DEF Receive, engineVars, WorkFits, StateFits
<1>2. CASE UNCHANGED engineAllVars
  <2>1. DataFits' /\ WorkTyped'
    BY <1>2, WorkRests DEF engineAllVars, engineVars, workVars, EngineTyped, WorkTyped, WorkFits
  <2> QED BY <1>2, <2>1 DEF engineAllVars, engineVars, workVars, WorkFits, StateFits
<1> QED BY <1>1, <1>2, LeaseStepKeepsWork, CallKeepsWork, GenerateKeepsWork, AnswerStepKeepsWork,
           MessageKeepsWork, CompletionKeepsWork, DeliveryKeepsWork
        DEF EngineNext, Microtask, Timer, Peer, Caller

EngineInv == EngineTyped /\ LeaseFits /\ WorkFits

LEMMA EngineBegins == EngineInit => EngineInv
  BY LeaseBegins, WorkBegins DEF EngineInv, EngineTyped

LEMMA EngineKeeps ==
  ASSUME EngineInv, [EngineNext]_engineAllVars
  PROVE  EngineInv'
  BY LeaseKeeps, WorkKeeps DEF EngineInv, EngineTyped

LEMMA EngineImplies == EngineInv => EngineKeepsFaith
<1> SUFFICES ASSUME EngineInv PROVE EngineKeepsFaith
  OBVIOUS
<1> USE DEF EngineInv, EngineTyped, WorkFits
<1>1. NoAskForgotten
  BY DEF NoAskForgotten, DataFits, AnswersFit, PendingFits, LeaseFits, IsReady, IsCurrent
<1>2. AcceptedIsTold
  BY PendingStages DEF AcceptedIsTold, DataFits, PendingFits
<1>3. OutcomeIsFinal
  BY DEF DataFits, ToldFits
<1>4. StatusIsTrue
  BY DEF StatusIsTrue, StateFits, LeaseFits, IsReady, IsCurrent
<1>5. QuietTransport
  BY DEF QuietTransport, LeaseFits
<1> QED BY <1>1, <1>2, <1>3, <1>4, <1>5 DEF EngineKeepsFaith

(* EngineKeepsFaith: nobody who asked is forgotten, an accepted reply is its  *)
(* asker's, the peer hears one outcome, and the status is that of the socket. *)
THEOREM EngineIsFaithful == EngineSpec => []EngineKeepsFaith
  BY EngineBegins, EngineKeeps, EngineImplies, PTL DEF EngineSpec

(***************************************************************************)
(* A request: its steps are steps of its engine.                            *)
(***************************************************************************)
LEMMA RequestDrivesEngine ==
  ASSUME trigger \in AskedTriggers, [RequestNext]_requestAndEngine
  PROVE  [EngineNext]_engineAllVars
<1> USE DEF EngineNext, Microtask, Timer, Caller
<1>1. CASE RequestCreates \/ RequestAnswered \/ (\E b \in BoundTo : OtherOpens(b) \/ OtherCloses(b))
  BY <1>1 DEF RequestCreates, RequestAnswered, OtherOpens, OtherCloses
<1>2. CASE RequestStarts \/ RequestCloses \/ EngineCloses \/ EngineDisconnectTimesOut
  BY <1>2 DEF RequestStarts, RequestCloses, EngineCloses, EngineDisconnectTimesOut
<1>3. CASE EngineResumes
  BY <1>3 DEF EngineResumes
<1>4. CASE EngineEvent(ConnectFails) \/ EngineEvent(ResponseTimesOut) \/ EngineEvent(Peer)
  BY <1>4 DEF EngineEvent
<1>5. CASE RequestAsks
  BY <1>5 DEF RequestAsks
<1>6. CASE UNCHANGED requestAndEngine
  BY <1>6 DEF requestAndEngine
<1> QED BY <1>1, <1>2, <1>3, <1>4, <1>5, <1>6 DEF RequestNext

\* An ask keeps its trigger, and its answer once it has one.
LEMMA AsksGrow ==
  ASSUME EngineInv, [EngineNext]_engineAllVars
  PROVE  /\ \A n \in 1 .. Len(asks) :
              /\ n \in 1 .. Len(asks') /\ asks'[n].trigger = asks[n].trigger
              /\ asks[n].answer # Unanswered => asks'[n].answer = asks[n].answer
         /\ \/ Len(asks') = Len(asks)
            \/ \E t \in AskedTriggers : Generate(t)
<1> USE DEF EngineInv, EngineTyped, WorkFits, DataFits
<1>1. CASE UNCHANGED asks
  BY <1>1
<1>2. CASE ClearPendingReply
  BY <1>2, ClearsPending
<1>3. ASSUME NEW t \in AskedTriggers, Generate(t)
      PROVE  \A n \in 1 .. Len(asks) : n \in 1 .. Len(asks') /\ asks'[n] = asks[n]
  <2> DEFINE a == [trigger |-> t, lease |-> lease, answer |-> Unanswered]
  <2>1. asks' = Append(asks, a) /\ asks \in Seq(Ask) /\ a \in Ask
    BY <1>3 DEF Generate, WorkTyped, ControlTyped, Ask, Answers
  <2> HIDE DEF a
  <2> QED BY <2>1
<1>4. CASE HandleMessage
  <2>1. CASE UNCHANGED asks
    BY <2>1
  <2>2. CASE Acceptable(inbox.command) /\ Accept(inbox.command)
    <3>1. pendingReply.ask \in 1 .. Len(asks)
      BY <2>2, PendingStages DEF Acceptable, PendingFits
    <3>2. Reply(inbox.command.text) \in Answers
      BY <1>4, <2>2 DEF HandleMessage, WorkTyped, Acceptable, Commands, Answers
    <3>3. asks' = WithAnswer(pendingReply.ask, Reply(inbox.command.text))
      BY <2>2 DEF Accept
    <3> QED BY <3>1, <3>2, <3>3, AnswersOnce
  <2> QED BY <1>4, <2>1, <2>2 DEF HandleMessage
<1>5. \/ UNCHANGED asks \/ ClearPendingReply \/ HandleMessage
      \/ \E t \in AskedTriggers : Generate(t)
  BY DEF EngineNext, Microtask, Timer, Peer, Caller, StartFails, InvalidateLease, StopEnds, CloseEnds,
         CompletionEnds, GenerateFails, ConnectFails, DisconnectTimesOut, ResponseTimesOut, SocketOpens,
         SocketCloses, EngineHearsClose, Receive, StartEngine, StopEngine, StopLease, CloseEngine,
         CompleteDelivery, workVars, engineAllVars
<1> QED BY <1>1, <1>2, <1>3, <1>4, <1>5

(***************************************************************************)
(* The identities in use.  Live counts the engines of a binding.             *)
(***************************************************************************)
Live(b) ==
  others[b] + (IF b = OwnBinding /\ requestStep \notin {"asked", "ended"} THEN 1 ELSE 0)

TableFits ==
  /\ others \in [BoundTo -> Nat]
  /\ reservations \in [UserIds -> {Free} \union [binding : BoundTo, count : Nat \ {0}]]
  /\ \A b \in BoundTo : Live(b) > 0 =>
       reservations[UserId(b)] = [binding |-> b, count |-> Live(b)]
  /\ \A id \in UserIds : (\A b \in BoundTo : UserId(b) = id => Live(b) = 0) => reservations[id] = Free

LEMMA LiveIsNumber ==
  ASSUME others \in [BoundTo -> Nat], NEW b \in BoundTo
  PROVE  Live(b) \in Nat /\ UserId(b) \in UserIds
  BY DEF Live, UserIds

LEMMA TableGrows ==
  ASSUME TableFits, NEW b \in BoundTo, MayReserve(b), ReserveMapping(b), others' \in [BoundTo -> Nat],
         Live(b)' = Live(b) + 1, \A d \in BoundTo \ {b} : Live(d)' = Live(d)
  PROVE  TableFits'
<1> DEFINE id == UserId(b)
           r == [binding |-> b, count |-> Live(b) + 1]
<1>1. /\ Live(b) \in Nat /\ id \in UserIds
      /\ \A d \in BoundTo : Live(d) \in Nat /\ UserId(d) \in UserIds
  BY LiveIsNumber DEF TableFits
<1>2. \A d \in BoundTo \ {b} : UserId(d) = id => Live(d) = 0
  <2> SUFFICES ASSUME NEW d \in BoundTo \ {b}, UserId(d) = id, Live(d) > 0 PROVE FALSE
    BY <1>1
  <2>1. reservations[id] = [binding |-> d, count |-> Live(d)]
    BY DEF TableFits
  <2>2. reservations[id].binding = d /\ reservations[id].count # 0
    BY <2>1
  <2> QED BY <2>2 DEF MayReserve
<1>3. reservations[id].count = Live(b)
  <2>1. CASE Live(b) > 0
    <3>1. reservations[id] = [binding |-> b, count |-> Live(b)]
      BY <2>1 DEF TableFits
    <3> HIDE DEF Live
    <3> QED BY <3>1
  <2>2. CASE Live(b) = 0
    BY <1>1, <1>2, <2>2 DEF TableFits, Free
  <2> QED BY <1>1, <2>1, <2>2
<1>4. reservations' = [reservations EXCEPT ![id] = r]
  BY <1>3 DEF ReserveMapping
<1>5. r \in [binding : BoundTo, count : Nat \ {0}]
  BY <1>1
<1>6. Live(b)' = Live(b) + 1 /\ Live(b) + 1 > 0
  BY <1>1
<1> HIDE DEF Live
<1>7. /\ reservations' \in [UserIds -> {Free} \union [binding : BoundTo, count : Nat \ {0}]]
      /\ reservations'[id] = [binding |-> b, count |-> Live(b)']
      /\ \A i \in UserIds \ {id} : reservations'[i] = reservations[i]
  BY <1>1, <1>4, <1>5, <1>6 DEF TableFits
<1>8. \A d \in BoundTo : Live(d)' > 0 =>
        reservations'[UserId(d)] = [binding |-> d, count |-> Live(d)']
  BY <1>1, <1>2, <1>7 DEF TableFits
<1>9. \A i \in UserIds : (\A d \in BoundTo : UserId(d) = i => Live(d)' = 0) => reservations'[i] = Free
  BY <1>1, <1>6, <1>7 DEF TableFits
<1> QED BY <1>7, <1>8, <1>9 DEF TableFits

LEMMA TableShrinks ==
  ASSUME TableFits, NEW b \in BoundTo, ReleaseMapping(b), others' \in [BoundTo -> Nat],
         Live(b) > 0, Live(b)' = Live(b) - 1, \A d \in BoundTo \ {b} : Live(d)' = Live(d)
  PROVE  TableFits'
<1> DEFINE id == UserId(b)
<1>1. /\ Live(b) \in Nat /\ id \in UserIds
      /\ \A d \in BoundTo : Live(d) \in Nat /\ UserId(d) \in UserIds
  BY LiveIsNumber DEF TableFits
<1>2. reservations[id] = [binding |-> b, count |-> Live(b)]
  BY DEF TableFits
<1>3. \A d \in BoundTo \ {b} : UserId(d) = id => Live(d) = 0
  <2> SUFFICES ASSUME NEW d \in BoundTo \ {b}, UserId(d) = id, Live(d) > 0 PROVE FALSE
    BY <1>1
  <2>1. reservations[id] = [binding |-> d, count |-> Live(d)]
    BY DEF TableFits
  <2> HIDE DEF Live
  <2>2. reservations[id].binding = d /\ reservations[id].binding = b
    BY <1>2, <2>1
  <2> QED BY <2>2
<1> DEFINE r == IF Live(b) > 1 THEN [binding |-> b, count |-> Live(b) - 1] ELSE Free
<1>4. reservations' = [reservations EXCEPT ![id] = r]
  <2> HIDE DEF Live
  <2>1. reservations[id].binding = b /\ reservations[id].count = Live(b)
    BY <1>2
  <2> QED BY <2>1 DEF ReleaseMapping
<1>5. r \in {Free} \union [binding : BoundTo, count : Nat \ {0}]
  BY <1>1
<1>6. /\ Live(b)' > 0 => r = [binding |-> b, count |-> Live(b)']
      /\ Live(b)' = 0 => r = Free
  BY <1>1
<1> HIDE DEF r
<1>7. /\ reservations' \in [UserIds -> {Free} \union [binding : BoundTo, count : Nat \ {0}]]
      /\ reservations'[id] = r
      /\ \A i \in UserIds \ {id} : reservations'[i] = reservations[i]
  BY <1>1, <1>4, <1>5 DEF TableFits
<1>8. \A d \in BoundTo : Live(d)' > 0 =>
        reservations'[UserId(d)] = [binding |-> d, count |-> Live(d)']
  BY <1>1, <1>3, <1>6, <1>7 DEF TableFits
<1>9. \A i \in UserIds : (\A d \in BoundTo : UserId(d) = i => Live(d)' = 0) => reservations'[i] = Free
  BY <1>1, <1>6, <1>7 DEF TableFits
<1> QED BY <1>7, <1>8, <1>9 DEF TableFits

LEMMA TableRests ==
  ASSUME TableFits, UNCHANGED <<others, reservations>>,
         requestStep' \in {"asked", "ended"} <=> requestStep \in {"asked", "ended"}
  PROVE  TableFits'
<1>1. \A b \in BoundTo : Live(b)' = Live(b)
  BY DEF Live
<1> QED BY <1>1 DEF TableFits

(***************************************************************************)
(* The request: where it is, what it asked and what its answer rests on.     *)
(***************************************************************************)
RequestTyped ==
  /\ requestStep \in {"asked", "created", "starting", "asking", "closing", "ended"}
  /\ trigger \in AskedTriggers

AskFits ==
  /\ requestStep \in {"asked", "created", "starting"} => asks = << >>
  /\ asks # << >> => asks[1].trigger = trigger

CloseFits ==
  /\ closer = "stopping" => requestStep = "closing"
  /\ result = "reply" =>
       closer = "closed" /\ ~unclean /\ asks # << >> /\ asks[1].answer.is = "reply"

RequestInv == EngineInv /\ TableFits /\ RequestTyped /\ AskFits /\ CloseFits

LEMMA RequestBegins == RequestInit => RequestInv
<1> SUFFICES ASSUME RequestInit PROVE RequestInv
  OBVIOUS
<1>1. EngineInv
  BY EngineBegins DEF RequestInit
<1>2. RequestTyped /\ AskFits /\ CloseFits
  BY DEF RequestInit, EngineInit, RequestTyped, AskFits, CloseFits
<1>3. /\ \A b \in BoundTo : others[b] = 0 /\ Live(b) = 0
      /\ others \in [BoundTo -> Nat]
  BY DEF RequestInit, Live
<1>4. \A id \in UserIds : reservations[id] = Free
  BY DEF RequestInit
<1>5. reservations \in [UserIds -> {Free} \union [binding : BoundTo, count : Nat \ {0}]]
  BY DEF RequestInit
<1>6. TableFits
  BY <1>3, <1>4, <1>5 DEF TableFits
<1> QED BY <1>1, <1>2, <1>6 DEF RequestInv

LEMMA RequestKeepsTable ==
  ASSUME RequestInv, RequestNext
  PROVE  TableFits'
<1> USE DEF RequestInv
<1>0. /\ OwnBinding \in BoundTo /\ others \in [BoundTo -> Nat]
      /\ \A b \in BoundTo : others[b] \in Nat /\ Live(b) \in Nat
  BY OneBotRequestBounds, LiveIsNumber DEF TableFits
<1>1. CASE RequestCreates
  <2>1. CASE MayReserve(OwnBinding) /\ ReserveMapping(OwnBinding) /\ requestStep' = "created"
    <3>1. UNCHANGED others /\ requestStep = "asked"
      BY <1>1 DEF RequestCreates
    <3>2. /\ Live(OwnBinding)' = Live(OwnBinding) + 1
          /\ \A d \in BoundTo \ {OwnBinding} : Live(d)' = Live(d)
      BY <1>0, <2>1, <3>1 DEF Live
    <3> QED BY <1>0, <2>1, <3>1, <3>2, TableGrows
  <2>2. CASE EndsWith("failed") /\ UNCHANGED reservations
    <3>1. requestStep \in {"asked", "ended"} /\ requestStep' \in {"asked", "ended"}
      BY <1>1, <2>2 DEF RequestCreates, EndsWith
    <3>2. UNCHANGED <<others, reservations>>
      BY <1>1, <2>2 DEF RequestCreates
    <3> QED BY <3>1, <3>2, TableRests
  <2> QED BY <1>1, <2>1, <2>2 DEF RequestCreates
<1>2. CASE EngineCloses
  <2>1. closer = "stopping" /\ requestStep = "closing" /\ requestStep' = "ended" /\ UNCHANGED others
    BY <1>2 DEF EngineCloses, CloseEnds, EndsWith, CloseFits
  <2>2. /\ Live(OwnBinding) > 0 /\ Live(OwnBinding)' = Live(OwnBinding) - 1
        /\ \A d \in BoundTo \ {OwnBinding} : Live(d)' = Live(d)
    BY <1>0, <2>1 DEF Live
  <2> QED BY <1>0, <1>2, <2>1, <2>2, TableShrinks DEF EngineCloses
<1>3. ASSUME NEW b \in BoundTo, OtherOpens(b) PROVE TableFits'
  <2>1. /\ others' = [others EXCEPT ![b] = others[b] + 1] /\ UNCHANGED requestStep
        /\ MayReserve(b) /\ ReserveMapping(b)
    BY <1>3 DEF OtherOpens, requestVars
  <2>2. others' \in [BoundTo -> Nat]
    BY <1>0, <2>1
  <2>3. Live(b)' = Live(b) + 1 /\ \A d \in BoundTo \ {b} : Live(d)' = Live(d)
    BY <1>0, <2>1 DEF Live
  <2> QED BY <2>1, <2>2, <2>3, TableGrows
<1>4. ASSUME NEW b \in BoundTo, OtherCloses(b) PROVE TableFits'
  <2>1. /\ others' = [others EXCEPT ![b] = others[b] - 1] /\ UNCHANGED requestStep
        /\ others[b] > 0 /\ ReleaseMapping(b)
    BY <1>4 DEF OtherCloses, requestVars
  <2>2. others' \in [BoundTo -> Nat]
    BY <1>0, <2>1
  <2>3. /\ Live(b) > 0 /\ Live(b)' = Live(b) - 1
        /\ \A d \in BoundTo \ {b} : Live(d)' = Live(d)
    BY <1>0, <2>1 DEF Live
  <2> QED BY <2>1, <2>2, <2>3, TableShrinks
<1>5. CASE RequestStarts \/ RequestAsks \/ RequestAnswered
  <2>1. UNCHANGED <<others, reservations>>
    BY <1>5 DEF RequestStarts, RequestAsks, RequestAnswered, tableVars
  <2>2. requestStep \notin {"asked", "ended"} /\ requestStep' \notin {"asked", "ended"}
    BY <1>5 DEF RequestStarts, RequestAsks, RequestAnswered, StartSettled, AskSettled
  <2> QED BY <2>1, <2>2, TableRests
<1>6. CASE \/ RequestCloses \/ EngineResumes \/ EngineDisconnectTimesOut
           \/ EngineEvent(ConnectFails) \/ EngineEvent(ResponseTimesOut) \/ EngineEvent(Peer)
  <2>1. UNCHANGED <<others, reservations, requestStep>>
    BY <1>6 DEF RequestCloses, EngineResumes, EngineDisconnectTimesOut, EngineEvent, tableVars,
                requestVars
  <2> QED BY <2>1, TableRests
<1> QED BY <1>1, <1>2, <1>3, <1>4, <1>5, <1>6 DEF RequestNext

\* Only generate adds an ask, and only its close moves the closer.
LEMMA NothingAsked ==
  ASSUME EngineInv, asks = << >>,
         \/ Microtask \/ Timer \/ Peer \/ StartEngine \/ CloseEngine
  PROVE  UNCHANGED asks
<1> USE DEF EngineInv, EngineTyped, WorkFits
<1>1. pendingReply = NoPending
  <2>1. Len(asks) = 0
    BY EmptySeq
  <2> QED BY <2>1 DEF DataFits, PendingFits
<1>2. ClearPendingReply => UNCHANGED asks
  BY <1>1 DEF ClearPendingReply, NoPending
<1>3. CASE HandleMessage
  BY <1>1, <1>3 DEF HandleMessage, Acceptable, NoPending
<1> QED BY <1>2, <1>3
        DEF Microtask, Timer, Peer, StartFails, InvalidateLease, StopEnds, CloseEnds, CompletionEnds,
            GenerateFails, ConnectFails, DisconnectTimesOut, ResponseTimesOut, SocketOpens, SocketCloses,
            EngineHearsClose, Receive, StartEngine, CloseEngine, StopLease, workVars

LEMMA CloserRests ==
  ASSUME [EngineNext]_engineAllVars
  PROVE  UNCHANGED closer \/ CloseEngine \/ CloseEnds
  BY DEF EngineNext, Microtask, Timer, Peer, Caller, StartFails, InvalidateLease, StopEnds,
         CompletionEnds, GenerateFails, ConnectFails, DisconnectTimesOut, ResponseTimesOut, SocketOpens,
         SocketCloses, HandleMessage, Receive, StartEngine, StopEngine, Generate, CompleteDelivery,
         engineVars, engineAllVars

LEMMA RequestKeepsAsk ==
  ASSUME RequestInv, RequestNext
  PROVE  RequestTyped' /\ AskFits'
<1> USE DEF RequestInv
<1>1. [EngineNext]_engineAllVars
  BY RequestDrivesEngine DEF RequestTyped
<1>2. \A n \in 1 .. Len(asks) : n \in 1 .. Len(asks') /\ asks'[n].trigger = asks[n].trigger
  BY <1>1, AsksGrow
<1>3. asks \in Seq(Ask) /\ (asks # << >> => 1 \in 1 .. Len(asks))
  BY AsksAre, EmptySeq DEF EngineInv, EngineTyped, WorkTyped
<1>4. trigger' = trigger /\ RequestTyped'
  BY DEF RequestNext, RequestCreates, RequestStarts, RequestAsks, RequestAnswered, RequestCloses,
         EngineCloses, EndsWith, EngineResumes, EngineDisconnectTimesOut, EngineEvent, OtherOpens,
         OtherCloses, requestVars, RequestTyped
<1>5. CASE RequestAsks /\ Generate(trigger)
  <2>1. asks = << >> /\ requestStep' = "asking"
    BY <1>5 DEF RequestAsks, StartSettled, AskFits, Generate, WorkTyped, IsReady
  <2> DEFINE a == [trigger |-> trigger, lease |-> lease, answer |-> Unanswered]
  <2>2. asks' = Append(asks, a) /\ a \in Ask
    BY <1>5 DEF Generate, Ask, Answers, RequestTyped, EngineInv, EngineTyped, ControlTyped
  <2>3. a.trigger = trigger
    OBVIOUS
  <2> HIDE DEF a
  <2>4. asks'[1] = a
    BY <2>1, <2>2
  <2> QED BY <1>4, <2>1, <2>3, <2>4 DEF AskFits
<1>6. CASE ~(RequestAsks /\ Generate(trigger))
  <2>1. asks = << >> => UNCHANGED asks
    BY <1>6, NothingAsked
       DEF RequestNext, RequestCreates, RequestStarts, RequestAsks, RequestAnswered, RequestCloses,
           EngineCloses, EngineResumes, EngineDisconnectTimesOut, EngineEvent, OtherOpens, OtherCloses,
           Microtask, Timer, workVars, engineAllVars
  <2>2. asks # << >> => asks'[1].trigger = trigger'
    BY <1>2, <1>3, <1>4 DEF AskFits
  <2>3. requestStep' \in {"asked", "created", "starting"} =>
          requestStep \in {"asked", "created", "starting"}
    BY DEF RequestNext, RequestCreates, RequestStarts, RequestAsks, RequestAnswered, RequestCloses,
           EngineCloses, EndsWith, EngineResumes, EngineDisconnectTimesOut, EngineEvent, OtherOpens,
           OtherCloses, requestVars
  <2> QED BY <1>4, <2>1, <2>2, <2>3 DEF AskFits
<1> QED BY <1>5, <1>6

LEMMA RequestKeepsClose ==
  ASSUME RequestInv, RequestNext
  PROVE  CloseFits'
<1> USE DEF RequestInv
<1>1. [EngineNext]_engineAllVars
  BY RequestDrivesEngine DEF RequestTyped
<1>2. /\ \A n \in 1 .. Len(asks) : n \in 1 .. Len(asks')
      /\ \A n \in 1 .. Len(asks) : asks[n].answer.is = "reply" => asks'[n].answer.is = "reply"
  BY <1>1, AsksGrow DEF Unanswered
<1>3. /\ asks \in Seq(Ask) /\ (asks # << >> => 1 \in 1 .. Len(asks))
      /\ asks # << >> /\ asks[1].answer.is = "reply" => asks' # << >> /\ asks'[1].answer.is = "reply"
  <2>1. asks \in Seq(Ask) /\ (asks # << >> => 1 \in 1 .. Len(asks))
    BY AsksAre, EmptySeq DEF EngineInv, EngineTyped, WorkTyped
  <2>2. Len(<< >>) = 0
    BY EmptySeq
  <2> QED BY <1>2, <2>1, <2>2
<1>4. CASE EngineCloses
  <2>1. /\ closer' = "closed" /\ unclean' = unclean
        /\ result' = IF unclean \/ asks = << >> THEN "failed" ELSE asks[1].answer.is
    BY <1>4 DEF EngineCloses, CloseEnds, EndsWith
  <2> QED BY <1>3, <2>1 DEF CloseFits
<1>5. CASE RequestCloses
  <2>1. /\ ~closing /\ requestStep' = "closing" /\ UNCHANGED result
    BY <1>5 DEF RequestCloses, CloseEngine, requestVars, CloseFits
  <2>2. closer # "closed"
    BY <2>1 DEF EngineInv, LeaseFits
  <2> QED BY <2>1, <2>2, <1>5 DEF CloseFits, RequestCloses, requestVars
<1>6. CASE ~EngineCloses /\ ~RequestCloses
  <2>1. UNCHANGED closer
    BY <1>6
       DEF RequestNext, RequestCreates, RequestStarts, RequestAsks, RequestAnswered,
           EngineResumes, EngineDisconnectTimesOut, EngineEvent, OtherOpens, OtherCloses,
           StartEngine, Generate, StartFails, StopEnds, HandleMessage, GenerateFails, ConnectFails,
           ResponseTimesOut, Peer, SocketOpens, SocketCloses, Receive, DisconnectTimesOut, engineVars,
           engineAllVars
  <2>2. requestStep = "closing" => requestStep' = "closing"
    BY <1>6 DEF RequestNext, RequestCreates, RequestStarts, RequestAsks, RequestAnswered, StartSettled,
           AskSettled, EngineResumes, EngineDisconnectTimesOut, EngineEvent, OtherOpens,
           OtherCloses, requestVars
  <2>3. result' = "reply" => result = "reply"
    BY <1>6 DEF RequestNext, RequestCreates, EndsWith, RequestStarts, RequestAsks, RequestAnswered,
           EngineResumes, EngineDisconnectTimesOut, EngineEvent, OtherOpens, OtherCloses, requestVars
  <2>4. closer = "closed" => UNCHANGED unclean
    <3>1. closer = "closed" => ~EngineDisconnectTimesOut
      BY DEF EngineInv, LeaseFits, EngineDisconnectTimesOut, DisconnectTimesOut
    <3> QED BY <1>6, <3>1
         DEF RequestNext, RequestCreates, EndsWith, RequestStarts, RequestAsks, RequestAnswered,
             EngineResumes, EngineEvent, OtherOpens, OtherCloses, requestVars
  <2> QED BY <1>3, <2>1, <2>2, <2>3, <2>4 DEF CloseFits
<1> QED BY <1>4, <1>5, <1>6

LEMMA RequestKeeps ==
  ASSUME RequestInv, [RequestNext]_requestAndEngine
  PROVE  RequestInv'
<1>1. [EngineNext]_engineAllVars
  BY RequestDrivesEngine DEF RequestInv, RequestTyped
<1>2. EngineInv'
  BY <1>1, EngineKeeps DEF RequestInv
<1>3. CASE UNCHANGED requestAndEngine
  <2>1. TableFits'
    BY <1>3, TableRests DEF requestAndEngine, requestVars, tableVars, RequestInv
  <2> QED BY <1>2, <1>3, <2>1
          DEF requestAndEngine, engineAllVars, engineVars, workVars, requestVars, RequestInv,
              RequestTyped, AskFits, CloseFits
<1> QED BY <1>2, <1>3, RequestKeepsTable, RequestKeepsAsk, RequestKeepsClose DEF RequestInv

LEMMA RequestImplies == RequestInv => RequestIsItsOwn
<1> SUFFICES ASSUME RequestInv PROVE RequestIsItsOwn
  OBVIOUS
<1> USE DEF RequestInv
<1>1. ReplyIsOwn
  BY DEF ReplyIsOwn, CloseFits, AskFits, EngineInv, LeaseFits
<1>2. ReservationsAreExact
  <2>1. \A b \in BoundTo : Live(b) \in Nat
    BY LiveIsNumber DEF TableFits
  <2>2. \A b \in BoundTo :
          others[b] + (IF b = OwnBinding THEN (IF requestStep \in {"asked", "ended"} THEN 0 ELSE 1) ELSE 0)
            = Live(b)
    BY DEF Live
  <2>3. SUFFICES ASSUME NEW id \in UserIds
                 PROVE  LET users == {b \in BoundTo : UserId(b) = id /\ Live(b) > 0}
                        IN  IF users = {} THEN reservations[id] = Free
                            ELSE \A b \in users : reservations[id] = [binding |-> b, count |-> Live(b)]
    BY <2>2 DEF ReservationsAreExact
  <2> DEFINE users == {b \in BoundTo : UserId(b) = id /\ Live(b) > 0}
  <2>4. users = {} => reservations[id] = Free
    BY <2>1 DEF TableFits
  <2>5. \A b \in users : reservations[id] = [binding |-> b, count |-> Live(b)]
    BY DEF TableFits
  <2> QED BY <2>4, <2>5
<1> QED BY <1>1, <1>2 DEF RequestIsItsOwn

(* RequestIsItsOwn: whatever other requests open and close, an identity is   *)
(* reserved by exactly those who use it, and a reply that reaches the service *)
(* is the peer's to this request's trigger, from an engine that is gone.      *)
THEOREM RequestsAreTheirOwn == RequestSpec => []RequestIsItsOwn
  BY RequestBegins, RequestKeeps, RequestImplies, PTL DEF RequestSpec
===============================================================================
