------------------------- MODULE DispatcherAdmission -------------------------
(***************************************************************************)
(* Who may drive the one WeChat window: runtime-v2/                         *)
(* single-dispatcher-admission.ts.                                         *)
(*                                                                         *)
(* A caller is admitted on a lane, gets an owner and a session, and closes   *)
(* it.  Nothing queues: whoever finds the reservation taken is refused, and  *)
(* a refused caller changes nothing, so a refusal is no step.  "p0" (the     *)
(* scheduled care cycles) asks twice whether realtime replies are pending,    *)
(* before and after its owner is acquired; "p1" (the replies) takes over a    *)
(* p0 reservation that has no owner yet.                                    *)
(*                                                                         *)
(* A step is what runs between two awaits of admit or close.  The            *)
(* reservation symbol of an attempt is its caller: a caller makes one         *)
(* attempt at a time, and one whose reservation outlives its attempt is       *)
(* never admitted again (NoForgottenReservation).                           *)
(***************************************************************************)
EXTENDS Integers

CONSTANTS
  Callers,           \* who asks for the dispatcher
  Lane,              \* the lane each of them asks for
  NoCaller,
  CloseResults,      \* what the close of an owner can come to
  LateCloseResults,  \* ... of an owner that arrived after its reservation was lost
  MaxAnnounced       \* bound: announcements of pending replies

AdmissionLanes == {"p0", "p1", "acceptance"}
Results == {"released", "unproven", "throws"}

ASSUME LaneAssumption == Lane \in [Callers -> AdmissionLanes]
ASSUME NoCallerAssumption == NoCaller \notin Callers
ASSUME ResultsAssumption == CloseResults \subseteq Results /\ LateCloseResults \subseteq Results
ASSUME MaxAnnouncedAssumption == MaxAnnounced \in Nat

VARIABLES
  reservation,   \* the caller that holds the dispatcher
  pending,       \* the attempt that cancelPendingAcquisition would cancel
  quarantined,
  announced,     \* announcements of pending p1 work
  durable,       \* the ledger has pending work: RealtimeReplyRepository.hasPendingWork
  step,          \* per caller, where its attempt or session stands
  answer,        \* per caller, what its last query of the ledger came to
  owners,        \* callers whose owner was acquired and not proven released
  overdue        \* observer: p0 owners acquired over durable work that never went away

vars == <<reservation, pending, quarantined, announced, durable, step, answer, owners, overdue>>
environment == <<quarantined, announced, durable>>

NoPending == [caller |-> NoCaller, phase |-> "none"]
Steps   == {"idle", "asking", "answered", "acquiring", "acquired", "late",
            "askingAgain", "answeredAgain", "rejected", "open"}
Answers == {"none", "clear", "work", "error"}

At(c, s) == step[c] = s
Goto(c, s) == step' = [step EXCEPT ![c] = s]

(* releaseReservation: an attempt gives back what is still its own.          *)
Withdrawn(c) == IF pending.caller = c THEN NoPending ELSE pending
(* Mutant: only the pending mark is withdrawn.                              *)
ReleasePendingMark(c) == pending' = Withdrawn(c) /\ UNCHANGED reservation

ReleaseReservation(c) ==
  /\ reservation' = IF reservation = c THEN NoCaller ELSE reservation
  /\ pending' = Withdrawn(c)

-----------------------------------------------------------------------------
(* admit.                                                                  *)

(* A p0 attempt that has no owner yet gives way to p1.                      *)
Preempts(c) ==
  /\ Lane[c] = "p1"
  /\ pending.phase = "pre-owner"
  /\ reservation = pending.caller
  /\ Lane[pending.caller] = "p0"

Admit(c) ==
  /\ At(c, "idle")
  /\ ~quarantined
  /\ reservation = NoCaller \/ Preempts(c)
  /\ reservation' = c
  /\ pending' = [caller |-> c, phase |-> "pre-owner"]
  /\ Goto(c, IF Lane[c] = "p0" THEN "asking" ELSE "acquiring")
  /\ UNCHANGED <<environment, answer, owners, overdue>>

(* hasPendingPriorityLane reads the ledger; the answer arrives later.        *)
Answer(c) ==
  /\ \/ At(c, "asking") /\ Goto(c, "answered")
     \/ At(c, "askingAgain") /\ Goto(c, "answeredAgain")
  /\ \E a \in {IF durable THEN "work" ELSE "clear", "error"} :
       answer' = [answer EXCEPT ![c] = a]
  /\ UNCHANGED <<reservation, pending, environment, owners, overdue>>

IncomingPending(c) == announced > 0 \/ answer[c] # "clear" \/ reservation # c

Proceed(c) ==
  /\ At(c, "answered")
  /\ \/ /\ IncomingPending(c) \/ quarantined
        /\ ReleaseReservation(c)
        /\ Goto(c, "idle")
     \/ /\ ~IncomingPending(c) /\ ~quarantined
        /\ Goto(c, "acquiring")
        /\ UNCHANGED <<reservation, pending>>
  /\ UNCHANGED <<environment, answer, owners, overdue>>

(* acquireOwner gives an owner or fails.                                    *)
Acquire(c) ==
  /\ At(c, "acquiring")
  /\ \/ /\ owners' = owners \cup {c}
        /\ overdue' = IF durable THEN overdue \cup {c} ELSE overdue
        /\ Goto(c, "acquired")
        /\ UNCHANGED <<reservation, pending>>
     \/ /\ ReleaseReservation(c)
        /\ Goto(c, "idle")
        /\ UNCHANGED <<owners, overdue>>
  /\ UNCHANGED <<environment, answer>>

(* Mutant: the reservation is not looked at again once the owner is there.   *)
ConfirmUnseen(c) ==
  /\ At(c, "acquired")
  /\ pending' = Withdrawn(c)
  /\ Goto(c, IF Lane[c] = "p0" THEN "askingAgain" ELSE "open")
  /\ UNCHANGED <<reservation, environment, answer, owners, overdue>>

(* Mutant: p0 asks only once, before it has its owner.                       *)
ConfirmUnasked(c) ==
  /\ At(c, "acquired")
  /\ \/ reservation # c /\ Goto(c, "late") /\ UNCHANGED pending
     \/ reservation = c /\ pending' = Withdrawn(c) /\ Goto(c, "open")
  /\ UNCHANGED <<reservation, environment, answer, owners, overdue>>

(* The owner is late when the reservation went to somebody else meanwhile;   *)
(* otherwise p0 asks again and everybody else has a session.                 *)
Confirm(c) ==
  /\ At(c, "acquired")
  /\ \/ reservation # c /\ Goto(c, "late") /\ UNCHANGED pending
     \/ /\ reservation = c /\ Lane[c] = "p0"
        /\ pending' = IF pending.caller = c THEN [pending EXCEPT !.phase = "owner-acquired"]
                      ELSE pending
        /\ Goto(c, "askingAgain")
     \/ /\ reservation = c /\ Lane[c] # "p0"
        /\ pending' = Withdrawn(c)
        /\ Goto(c, "open")
  /\ UNCHANGED <<reservation, environment, answer, owners, overdue>>

Gone(c) == owners' = owners \ {c} /\ overdue' = overdue \ {c}
Kept == UNCHANGED <<owners, overdue>>

(* A late owner is closed: only an answer without proof quarantines.         *)
CloseLate(c) ==
  /\ At(c, "late")
  /\ \E result \in LateCloseResults :
       /\ quarantined' = (quarantined \/ result = "unproven")
       /\ IF result = "released" THEN Gone(c) ELSE Kept
  /\ Goto(c, "idle")
  /\ UNCHANGED <<reservation, pending, announced, durable, answer>>

ProceedAgain(c) ==
  /\ At(c, "answeredAgain")
  /\ \/ IncomingPending(c) /\ Goto(c, "rejected") /\ UNCHANGED pending
     \/ ~IncomingPending(c) /\ Goto(c, "open") /\ pending' = Withdrawn(c)
  /\ UNCHANGED <<reservation, environment, answer, owners, overdue>>

(* Mutant: nobody looks whether the gate of a rejected owner was released.   *)
CloseRejectedUnseen(c) ==
  /\ At(c, "rejected")
  /\ \E result \in CloseResults : IF result = "released" THEN Gone(c) ELSE Kept
  /\ ReleaseReservation(c)
  /\ Goto(c, "idle")
  /\ UNCHANGED <<environment, answer>>

(* closeRejectedOwner: the reservation is given back whatever happens.       *)
CloseRejected(c) ==
  /\ At(c, "rejected")
  /\ \E result \in CloseResults :
       /\ quarantined' = (quarantined \/ result # "released")
       /\ IF result = "released" THEN Gone(c) ELSE Kept
  /\ ReleaseReservation(c)
  /\ Goto(c, "idle")
  /\ UNCHANGED <<announced, durable, answer>>

-----------------------------------------------------------------------------
(* The session and the controls.                                           *)

(* closeOwner: without a proof of release the reservation is never given     *)
(* back, and nobody is admitted any more.                                   *)
Close(c) ==
  /\ At(c, "open")
  /\ \E result \in CloseResults :
       /\ quarantined' = (quarantined \/ result # "released" \/ reservation # c)
       /\ reservation' = IF result = "released" /\ reservation = c THEN NoCaller
                         ELSE reservation
       /\ IF result = "released" THEN Gone(c) ELSE Kept
  /\ Goto(c, "idle")
  /\ UNCHANGED <<pending, announced, durable, answer>>

(* Mutant: an attempt that has its owner cannot be cancelled.                *)
CancelPreOwner ==
  /\ pending.phase = "pre-owner"
  /\ reservation' = IF reservation = pending.caller THEN NoCaller ELSE reservation
  /\ pending' = NoPending
  /\ UNCHANGED <<environment, step, answer, owners, overdue>>

(* cancelPendingAcquisition: called by the heartbeat when its own admission   *)
(* takes too long, it cancels whichever attempt is pending.                 *)
CancelPendingAcquisition ==
  /\ pending.caller # NoCaller
  /\ \/ /\ pending.phase = "owner-acquired"
        /\ At(pending.caller, "askingAgain")
        /\ Goto(pending.caller, "rejected")
        /\ UNCHANGED <<reservation, pending>>
     \/ /\ pending.phase = "pre-owner"
        /\ reservation' = IF reservation = pending.caller THEN NoCaller ELSE reservation
        /\ pending' = NoPending
        /\ UNCHANGED step
  /\ UNCHANGED <<environment, answer, owners, overdue>>

Quarantine ==
  /\ ~quarantined
  /\ quarantined' = TRUE
  /\ UNCHANGED <<reservation, pending, announced, durable, step, answer, owners, overdue>>

AnnouncePending ==
  /\ announced < MaxAnnounced
  /\ announced' = announced + 1
  /\ UNCHANGED <<reservation, pending, quarantined, durable, step, answer, owners, overdue>>

ReleasePending ==
  /\ announced > 0
  /\ announced' = announced - 1
  /\ UNCHANGED <<reservation, pending, quarantined, durable, step, answer, owners, overdue>>

(* The ledger gets its first pending work, or loses the last.                *)
WorkArrives ==
  /\ ~durable
  /\ durable' = TRUE
  /\ UNCHANGED <<reservation, pending, quarantined, announced, step, answer, owners, overdue>>

WorkSettles ==
  /\ durable
  /\ durable' = FALSE
  /\ overdue' = {}
  /\ UNCHANGED <<reservation, pending, quarantined, announced, step, answer, owners>>

-----------------------------------------------------------------------------
Init ==
  /\ reservation = NoCaller
  /\ pending = NoPending
  /\ quarantined = FALSE
  /\ announced = 0
  /\ durable \in BOOLEAN
  /\ step = [c \in Callers |-> "idle"]
  /\ answer = [c \in Callers |-> "none"]
  /\ owners = {}
  /\ overdue = {}

(* What the event loop owes an attempt: everything but the answers of the     *)
(* ledger, which may hang.                                                 *)
Continue(c) ==
  \/ Proceed(c) \/ Acquire(c) \/ Confirm(c) \/ CloseLate(c)
  \/ ProceedAgain(c) \/ CloseRejected(c)

Next ==
  \/ \E c \in Callers : Admit(c) \/ Answer(c) \/ Continue(c) \/ Close(c)
  \/ CancelPendingAcquisition \/ Quarantine
  \/ AnnouncePending \/ ReleasePending \/ WorkArrives \/ WorkSettles

Spec == Init /\ [][Next]_vars

Fairness ==
  /\ \A c \in Callers : WF_vars(Continue(c))
  /\ WF_vars(CancelPendingAcquisition)

FairSpec == Spec /\ Fairness

-----------------------------------------------------------------------------
(* Properties.                                                             *)

TypeOK ==
  /\ reservation \in Callers \cup {NoCaller}
  /\ pending \in [caller : Callers, phase : {"pre-owner", "owner-acquired"}]
                   \cup {NoPending}
  /\ quarantined \in BOOLEAN
  /\ announced \in 0 .. MaxAnnounced
  /\ durable \in BOOLEAN
  /\ step \in [Callers -> Steps]
  /\ answer \in [Callers -> Answers]
  /\ owners \subseteq Callers
  /\ overdue \subseteq owners

(* At most one session is open, whatever attempts overlap with it: taken     *)
(* over, cancelled, late, or started after its close began.                 *)
OneSession == \A c, d \in Callers : At(c, "open") /\ At(d, "open") => c = d

(* Once its owner is confirmed a caller keeps the dispatcher until it gives    *)
(* it back: no p1 and no cancellation takes it away, and the reservation      *)
(* mismatch that closeOwner looks for cannot happen.                        *)
Confirmed == {"askingAgain", "answeredAgain", "rejected", "open"}
OwnerKeepsReservation ==
  \A c \in Callers : step[c] \in Confirmed => reservation = c

(* A reservation belongs to an attempt or a session that is under way, unless *)
(* the dispatcher is quarantined: no refusal, failure, takeover or            *)
(* cancellation leaves it busy for good.                                    *)
NoForgottenReservation ==
  \A c \in Callers : At(c, "idle") /\ reservation = c => quarantined

(* The dispatcher is held by one session, and for no other reason.           *)
AdmissionIsExact == OneSession /\ NoForgottenReservation

(* An owner that was never proven released quarantines the dispatcher, so     *)
(* that nobody else is admitted next to it.                                 *)
UnprovenIsQuarantined ==
  \A c \in Callers : At(c, "idle") /\ c \in owners => quarantined

(* A p0 session never opens over a reply that is announced, nor over one that *)
(* has been in the ledger since before its owner was acquired.               *)
P0YieldsToReplies ==
  [][\A c \in Callers :
       Lane[c] = "p0" /\ ~At(c, "open") /\ At(c, "open")' =>
         announced = 0 /\ c \notin overdue]_vars

(* An attempt does not hold the dispatcher for ever: even when the ledger      *)
(* never answers, the deadline of the caller frees it.                       *)
AttemptsEnd ==
  \A c \in Callers :
    (reservation = c /\ step[c] \notin {"idle", "open"}) ~> (reservation # c \/ At(c, "open"))

=============================================================================
