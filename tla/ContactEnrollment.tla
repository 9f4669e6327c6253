-------------------------- MODULE ContactEnrollment -------------------------
(***************************************************************************)
(* How a chat becomes a contact that may be written to: candidates that a   *)
(* scan observes, a confirmation by the user that enrolls the identity,     *)
(* registers the contact and consumes the candidate, the migration of the   *)
(* legacy enrollment, and the directory that hands out targets.             *)
(*                                                                          *)
(* Each file is changed in transactions under its own lock, by any number   *)
(* of processes; between two transactions anything may happen.  A contact   *)
(* stands for the candidate it is derived from: the hash of name, preview   *)
(* and window.  Names do not change.  A call that throws and changes        *)
(* nothing is no action, unless others must see its caller give up.         *)
(***************************************************************************)
EXTENDS Integers, FiniteSets

CONSTANTS
  Proposed,     \* the contacts that candidates propose
  Legacy,       \* EXAMPLE_CONTACT_CONTACT_ID
  NameOf(_),    \* the display name of a contact
  Samples,      \* what a capture of the identity may yield
  Confirmers,   \* the calls of confirmCandidate at a time
  Readers,      \* the calls of the directory at a time
  Ttl,          \* how long a candidate, and a consumed one, is kept
  MaxCandidates,\* 512 in the code
  MaxTime,      \* bound: the clock
  MaxUpdates    \* bound: updates of a contact

ASSUME EnrollmentBounds ==
  /\ Legacy \notin Proposed
  /\ "nobody" \notin Confirmers
  /\ Ttl \in Nat \ {0} /\ MaxCandidates \in Nat \ {0}
  /\ MaxTime \in Nat /\ MaxUpdates \in Nat

Known == Proposed \union {Legacy}

VARIABLES
  time,        \* the clock of the callers
  candidates,  \* contact-candidates.enc: for each contact when it expires, 0 for none
  consumed,    \* its tombstones, likewise
  claims,      \* the .claim markers
  enrollments, \* wechat-identity-enrollment.enc
  writer,      \* who holds its lock between the marker and the write
  registry,    \* contacts.enc
  confirms,    \* the confirmations under way
  reads,       \* the calls of the directory under way
  targets      \* the authorized targets handed out

files == <<candidates, consumed, claims, enrollments, registry>>
enrollmentVars == <<time, files, writer, confirms, reads, targets>>

NotEnrolled == [version |-> 0]
Enrolled(samples, at) == [version |-> 2, samples |-> samples, at |-> at]
LegacyEnrolled(samples) == [version |-> 1, samples |-> samples, at |-> 0]

(* The form an enrollment gets in the migration *)
Renewed(enrollment) == Enrolled(enrollment.samples, enrollment.at)

(* wechatIdentityEnrollmentFingerprint, of one contact and its one name *)
Fingerprint(enrollment) == <<enrollment.version, enrollment.samples>>

NotRegistered == [revision |-> 0, lifecycle |-> "none"]

(* The record of a new contact, confirmed or seeded *)
NewContact(enrollment) ==
  [revision |-> 1, lifecycle |-> "active", binding |-> Fingerprint(enrollment)]

Nobody == "nobody"
NoCall == [step |-> "idle"]

EnrollmentInit ==
  /\ time = 0
  /\ candidates = [c \in Proposed |-> 0] /\ consumed = candidates
  /\ claims = {} /\ writer = Nobody
  /\ \E old \in {NotEnrolled} \union {LegacyEnrolled(s) : s \in Samples} :
       enrollments = [c \in Known |-> IF c = Legacy THEN old ELSE NotEnrolled]
  /\ registry = [c \in Known |-> NotRegistered]
  /\ confirms = [p \in Confirmers |-> NoCall]
  /\ reads = [r \in Readers |-> NoCall]
  /\ targets = {}

-----------------------------------------------------------------------------
(* The candidate repository: every call first drops what is past at its now *)
Fresh(list, now) == [c \in Proposed |-> IF list[c] > now THEN list[c] ELSE 0]
FreshAt(now) == Fresh(candidates, now)
TombstonesAt(now) == Fresh(consumed, now)
Offers(list, c) == list[c] > 0
Without(list, c) == [list EXCEPT ![c] = 0]

(* At the limit the oldest of the others makes room. *)
Oldest(list, c) ==
  {d \in Proposed \ {c} : Offers(list, d)
     /\ \A e \in Proposed \ {c} : Offers(list, e) => list[d] <= list[e]}

Offered(list, c) ==
  LET all == [list EXCEPT ![c] = time + Ttl]
  IN  IF Cardinality({d \in Proposed : Offers(all, d)}) <= MaxCandidates THEN {all}
      ELSE {Without(all, d) : d \in Oldest(all, c)}

Observe(c) ==
  /\ TombstonesAt(time)[c] = 0
  /\ IF Offers(FreshAt(time), c) THEN candidates' = FreshAt(time)
     ELSE candidates' \in Offered(FreshAt(time), c)
  /\ consumed' = TombstonesAt(time)
  /\ UNCHANGED <<time, claims, enrollments, registry, writer, confirms, reads, targets>>

(* listFresh, and every call that finds nothing, only prunes. *)
ListFresh ==
  /\ candidates' = FreshAt(time)
  /\ consumed' = TombstonesAt(time)
  /\ UNCHANGED <<time, claims, enrollments, registry, writer, confirms, reads, targets>>

TimePasses ==
  /\ time < MaxTime
  /\ time' = time + 1
  /\ UNCHANGED <<files, writer, confirms, reads, targets>>

-----------------------------------------------------------------------------
(* A confirmation: the user names a candidate in its window. *)
ConfirmsAt(p, step) == confirms[p].step = step
GoTo(p, step) == confirms' = [confirms EXCEPT ![p].step = step]
GoWith(p, step, enrollment) ==
  confirms' = [confirms EXCEPT ![p].step = step, ![p].enrollment = enrollment]
Ends(p) == confirms' = [confirms EXCEPT ![p] = NoCall]

GetCandidate(p, c) ==
  /\ ConfirmsAt(p, "idle")
  /\ Offers(FreshAt(time), c)
  /\ candidates' = FreshAt(time)
  /\ consumed' = TombstonesAt(time)
  /\ confirms' = [confirms EXCEPT ![p] =
       [step |-> "finding", contact |-> c, now |-> time, enrollment |-> NotEnrolled]]
  /\ UNCHANGED <<time, claims, enrollments, registry, writer, reads, targets>>

(* requireContact: the enrollment in a transaction of its own *)
RequireContact(c) ==
  IF enrollments[c].version = 2 THEN enrollments[c] ELSE NotEnrolled

FindExisting(p) ==
  /\ ConfirmsAt(p, "finding") /\ writer = Nobody
  /\ GoWith(p, "reading", RequireContact(confirms[p].contact))
  /\ UNCHANGED <<time, files, writer, reads, targets>>

(* What validateEvidence lets through is the enrollment that is requested;  *)
(* each capture has samples of its own.                                     *)
Evidence(p) == {Enrolled(s, confirms[p].now) : s \in Samples}

(* readEnrollmentEvidence: the window, the capture, the comparison with an  *)
(* enrollment there is, the attestation and the validation may each fail.   *)
ReadEvidence(p) ==
  /\ ConfirmsAt(p, "reading")
  /\ \/ Ends(p)
     \/ confirms[p].enrollment # NotEnrolled /\ GoTo(p, "creating")
     \/ /\ confirms[p].enrollment = NotEnrolled
        /\ \E requested \in Evidence(p) : GoWith(p, "requiring", requested)
  /\ UNCHANGED <<time, files, writer, reads, targets>>

(* A variant that goes on with what it captured itself *)
RequireAgainOwn(p) ==
  /\ ConfirmsAt(p, "requiring") /\ writer = Nobody
  /\ GoTo(p, IF RequireContact(confirms[p].contact) = NotEnrolled
             THEN "enrolling" ELSE "creating")
  /\ UNCHANGED <<time, files, writer, reads, targets>>

(* requireOrCreateEnrollment: what another confirmation enrolled meanwhile  *)
(* is taken, once the chat has been compared with it; else this one enrolls. *)
RequireAgain(p) ==
  /\ ConfirmsAt(p, "requiring") /\ writer = Nobody
  /\ LET found == RequireContact(confirms[p].contact)
     IN  IF found = NotEnrolled THEN GoTo(p, "enrolling")
         ELSE Ends(p) \/ GoWith(p, "creating", found)
  /\ UNCHANGED <<time, files, writer, reads, targets>>

(* enrollSupervised up to the marker: another enrollment is final, and a    *)
(* marker without an enrollment is somebody else's work.                    *)
ClaimEnrollment(p) ==
  /\ ConfirmsAt(p, "enrolling") /\ writer = Nobody
  /\ LET c == confirms[p].contact
     IN  IF enrollments[c] # NotEnrolled
           THEN /\ IF enrollments[c] = confirms[p].enrollment
                     THEN GoTo(p, "enrolled") ELSE Ends(p)
                /\ UNCHANGED <<claims, writer>>
         ELSE IF c \in claims
           THEN Ends(p) /\ UNCHANGED <<claims, writer>>
         ELSE /\ claims' = claims \union {c}
              /\ writer' = p
              /\ GoTo(p, "writing")
  /\ UNCHANGED <<time, candidates, consumed, enrollments, registry, reads, targets>>

WriteEnrollment(p) ==
  /\ ConfirmsAt(p, "writing")
  /\ enrollments' = [enrollments EXCEPT ![confirms[p].contact] = confirms[p].enrollment]
  /\ writer' = Nobody
  /\ GoTo(p, "enrolled")
  /\ UNCHANGED <<time, candidates, consumed, claims, registry, reads, targets>>

(* The enrollment is read back before it is bound. *)
ReadBack(p) ==
  /\ ConfirmsAt(p, "enrolled") /\ writer = Nobody
  /\ GoWith(p, "creating", RequireContact(confirms[p].contact))
  /\ UNCHANGED <<time, files, writer, reads, targets>>

(* createOrRequireMatching: createConfirmed, or else a second look at the   *)
(* record there is.                                                         *)
CreateConfirmed(p) ==
  /\ ConfirmsAt(p, "creating")
  /\ LET c == confirms[p].contact
     IN  IF registry[c] = NotRegistered
           THEN /\ registry' = [registry EXCEPT ![c] = NewContact(confirms[p].enrollment)]
                /\ GoTo(p, "consuming")
           ELSE GoTo(p, "matching") /\ UNCHANGED registry
  /\ UNCHANGED <<time, candidates, consumed, claims, enrollments, writer, reads, targets>>

RequireMatching(p) ==
  /\ ConfirmsAt(p, "matching")
  /\ IF registry[confirms[p].contact].binding = Fingerprint(confirms[p].enrollment)
       THEN GoTo(p, "consuming") ELSE Ends(p)
  /\ UNCHANGED <<time, files, writer, reads, targets>>

(* consume, at the now of the confirmation: the candidate may have expired  *)
(* for somebody else, made room or been consumed; then the contact stays    *)
(* and the caller hears of a failure.                                       *)
Consume(p) ==
  /\ ConfirmsAt(p, "consuming")
  /\ LET c == confirms[p].contact
         now == confirms[p].now
     IN  IF Offers(FreshAt(now), c)
           THEN /\ candidates' = Without(FreshAt(now), c)
                /\ consumed' = [TombstonesAt(now) EXCEPT ![c] = now + Ttl]
           ELSE candidates' = FreshAt(now) /\ consumed' = TombstonesAt(now)
  /\ Ends(p)
  /\ UNCHANGED <<time, claims, enrollments, registry, writer, reads, targets>>

(* The process dies; the system gives back its lock, the marker stays.      *)
ConfirmerDies(p) ==
  /\ ~ConfirmsAt(p, "idle")
  /\ Ends(p)
  /\ writer' = IF writer = p THEN Nobody ELSE writer
  /\ UNCHANGED <<time, files, reads, targets>>

-----------------------------------------------------------------------------
(* update: the caller's revision is current, or it throws.  Whether replies *)
(* are on matters only to those who ask for a reply target, and is left out. *)
Update(c) ==
  /\ registry[c] # NotRegistered
  /\ registry[c].revision < MaxUpdates
  /\ \E lifecycle \in {"active", "paused", "deleted"} :
       registry' = [registry EXCEPT ![c].lifecycle = lifecycle, ![c].revision = @ + 1]
  /\ UNCHANGED <<time, candidates, consumed, claims, enrollments, writer,
                 confirms, reads, targets>>

-----------------------------------------------------------------------------
(* A call of the directory; the legacy contact is migrated first.  It may   *)
(* throw at any step, as when the revision is not the caller's: ReaderDies. *)
Reads(r, step) == reads[r].step = step
ReadsOn(r, with) == reads' = [reads EXCEPT ![r] = with]
Throws(r) == ReadsOn(r, NoCall)

PrepareMigration(r) ==
  /\ Reads(r, "idle") /\ writer = Nobody
  /\ ReadsOn(r, IF enrollments[Legacy].version = 1
                  THEN [step |-> "seeding", old |-> enrollments[Legacy]]
                  ELSE [step |-> "asking", contact |-> Legacy])
  /\ UNCHANGED <<time, files, writer, confirms, targets>>

(* seedExampleContactFromConfirmedIdentityBinding, and that it is bound so  *)
SeedLegacy(r) ==
  /\ Reads(r, "seeding")
  /\ IF registry[Legacy] = NotRegistered
       THEN /\ registry' = [registry EXCEPT ![Legacy] = NewContact(Renewed(reads[r].old))]
            /\ ReadsOn(r, [reads[r] EXCEPT !.step = "replacing"])
       ELSE /\ IF registry[Legacy].binding = Fingerprint(Renewed(reads[r].old))
                 THEN ReadsOn(r, [reads[r] EXCEPT !.step = "replacing"]) ELSE Throws(r)
            /\ UNCHANGED registry
  /\ UNCHANGED <<time, candidates, consumed, claims, enrollments, writer, confirms, targets>>

ReplaceLegacy(r) ==
  /\ Reads(r, "replacing") /\ writer = Nobody
  /\ LET new == Renewed(reads[r].old)
         now == enrollments[Legacy]
     IN  IF now = reads[r].old
           THEN /\ enrollments' = [enrollments EXCEPT ![Legacy] = new]
                /\ ReadsOn(r, [step |-> "asking", contact |-> Legacy])
           ELSE /\ IF now = new THEN ReadsOn(r, [step |-> "asking", contact |-> Legacy])
                   ELSE Throws(r)
                /\ UNCHANGED enrollments
  /\ UNCHANGED <<time, candidates, consumed, claims, registry, writer, confirms, targets>>

(* #requireTarget of any other contact begins with the record. *)
Asks(r, c) ==
  /\ Reads(r, "idle")
  /\ ReadsOn(r, [step |-> "asking", contact |-> c])
  /\ UNCHANGED <<time, files, writer, confirms, targets>>

GetContact(r) ==
  /\ Reads(r, "asking")
  /\ LET c == reads[r].contact
     IN  IF registry[c].lifecycle = "active"
           THEN ReadsOn(r, [step |-> "naming", contact |-> c, record |-> registry[c]])
           ELSE Throws(r)
  /\ UNCHANGED <<time, files, writer, confirms, targets>>

(* A variant that compares the identities instead of the names *)
AmbiguousIdentity(c) ==
  \E other \in Known \ {c} :
    /\ registry[other].lifecycle \in {"active", "paused"}
    /\ registry[other].binding = registry[c].binding

(* #assertDisplayNameUnambiguous, in a second look at the registry *)
Ambiguous(c) ==
  \E other \in Known \ {c} :
    /\ registry[other].lifecycle \in {"active", "paused"}
    /\ NameOf(other) = NameOf(c)

AssertUnambiguous(r) ==
  /\ Reads(r, "naming")
  /\ IF Ambiguous(reads[r].contact) THEN Throws(r)
     ELSE ReadsOn(r, [reads[r] EXCEPT !.step = "binding"])
  /\ UNCHANGED <<time, files, writer, confirms, targets>>

(* The enrollment, in a third; then the target is handed out. *)
Authorize(r) ==
  /\ Reads(r, "binding") /\ writer = Nobody
  /\ LET c == reads[r].contact
         enrollment == RequireContact(c)
     IN  targets' = IF enrollment # NotEnrolled
                       /\ Fingerprint(enrollment) = reads[r].record.binding
                    THEN targets \union
                      {[contact |-> c, revision |-> reads[r].record.revision,
                        enrollment |-> enrollment]}
                    ELSE targets
  /\ Throws(r)
  /\ UNCHANGED <<time, files, writer, confirms>>

ReaderDies(r) ==
  /\ ~Reads(r, "idle")
  /\ Throws(r)
  /\ UNCHANGED <<time, files, writer, confirms, targets>>

-----------------------------------------------------------------------------
Confirmation(p) ==
  \/ \E c \in Proposed : GetCandidate(p, c)
  \/ FindExisting(p) \/ ReadEvidence(p) \/ RequireAgain(p)
  \/ ClaimEnrollment(p) \/ WriteEnrollment(p) \/ ReadBack(p)
  \/ CreateConfirmed(p) \/ RequireMatching(p) \/ Consume(p)
  \/ ConfirmerDies(p)

Reading(r) ==
  \/ PrepareMigration(r) \/ SeedLegacy(r) \/ ReplaceLegacy(r)
  \/ \E c \in Proposed : Asks(r, c)
  \/ GetContact(r) \/ AssertUnambiguous(r) \/ Authorize(r)
  \/ ReaderDies(r)

EnrollmentNext ==
  \/ \E c \in Proposed : Observe(c)
  \/ ListFresh \/ TimePasses
  \/ \E p \in Confirmers : Confirmation(p)
  \/ \E c \in Known : Update(c)
  \/ \E r \in Readers : Reading(r)

EnrollmentSpec == EnrollmentInit /\ [][EnrollmentNext]_enrollmentVars

-----------------------------------------------------------------------------
(* A contact is registered with the identity that is enrolled for it, or    *)
(* that the legacy enrollment gets, however confirmations of one candidate, *)
(* migrations and crashes interleave and whatever samples each captured.    *)
BindingIsEnrolled ==
  \A c \in Known : registry[c] # NotRegistered =>
    enrollments[c] # NotEnrolled /\ registry[c].binding = Fingerprint(Renewed(enrollments[c]))

(* A candidate is consumed only when its contact is registered, and while   *)
(* the tombstone lasts it is on offer to nobody.                            *)
ConsumedIsContact ==
  \A c \in Proposed : consumed[c] > 0 =>
    registry[c] # NotRegistered /\ ~Offers(candidates, c)

(* A contact has the identity it was confirmed with, and no second one by a   *)
(* candidate that comes back.                                               *)
ContactIsEnrolled == BindingIsEnrolled /\ ConsumedIsContact

(* Of the targets that are still current - the contact active, its revision *)
(* the one handed out - no two have one name, although name and record are  *)
(* read at different moments: no reply to one can go to the other.          *)
NamesAreUnambiguous ==
  LET current == {t \in targets : registry[t.contact].lifecycle = "active"
                                   /\ registry[t.contact].revision = t.revision}
  IN  \A t, u \in current : t.contact # u.contact => NameOf(t.contact) # NameOf(u.contact)

=============================================================================
