--------------------------- MODULE OneBotRequest ----------------------------
(***************************************************************************)
(* A request of the realtime service to the production engine: each makes   *)
(* an engine of its own, starts it, asks it once and closes it whatever     *)
(* came of it.  The engines of a process share the table of the OneBot      *)
(* identities in use, where two contacts may hash to one identity.          *)
(***************************************************************************)
EXTENDS OneBotEngine

CONSTANTS
  BoundTo,   \* contacts, with revision and binding
  OwnBinding, \* that of this request
  UserId(_),  \* deriveOneBotContactUserId, a hash
  MaxOthers   \* bound: engines of other requests at a time, per binding

ASSUME OneBotRequestBounds == OwnBinding \in BoundTo /\ MaxOthers \in Nat

VARIABLES
  requestStep,         \* how far the request is
  trigger,      \* what it asks
  result,       \* what the service gets
  unclean,      \* a disconnect of its engine timed out: close will reject
  reservations, \* activeMappingReservations of the owner's identity
  others        \* the engines of other requests, by binding

requestVars == <<requestStep, trigger, result, unclean>>
tableVars == <<reservations, others>>

Free == [binding |-> "none", count |-> 0]
UserIds == {UserId(b) : b \in BoundTo}

RequestInit ==
  /\ EngineInit
  /\ requestStep = "asked" /\ trigger \in AskedTriggers /\ result = "none" /\ unclean = FALSE
  /\ reservations = [id \in UserIds |-> Free]
  /\ others = [b \in BoundTo |-> 0]

-----------------------------------------------------------------------------
(* A variant that does not look whose the identity is *)
MayReserveAny(b) == TRUE

(* reserveMapping: an identity in use for another contact is refused. *)
MayReserve(b) == reservations[UserId(b)].count = 0 \/ reservations[UserId(b)].binding = b
ReserveMapping(b) ==
  reservations' = [reservations EXCEPT ![UserId(b)] = [binding |-> b, count |-> @.count + 1]]

(* releaseMapping *)
ReleaseMapping(b) ==
  reservations' = [reservations EXCEPT ![UserId(b)] =
    IF @.binding # b THEN @
    ELSE IF @.count > 1 THEN [binding |-> b, count |-> @.count - 1] ELSE Free]

EndsWith(with) == requestStep' = "ended" /\ result' = with /\ UNCHANGED <<trigger, unclean>>

(* create: the contact may be gone or have another revision, or its identity *)
(* be taken; then there is no engine to close.                               *)
RequestCreates ==
  /\ requestStep = "asked"
  /\ \/ /\ MayReserve(OwnBinding) /\ ReserveMapping(OwnBinding)
        /\ requestStep' = "created" /\ UNCHANGED <<trigger, result, unclean>>
     \/ EndsWith("failed") /\ UNCHANGED reservations
  /\ UNCHANGED <<engineAllVars, others>>

RequestStarts ==
  /\ requestStep = "created"
  /\ StartEngine
  /\ requestStep' = "starting"
  /\ UNCHANGED <<trigger, result, unclean, tableVars>>

(* When start is through the request asks; when it threw it only closes. *)
StartSettled == requestStep = "starting" /\ ~dialing /\ ~failing

RequestAsks ==
  /\ StartSettled
  /\ \/ Generate(trigger) /\ requestStep' = "asking"
     \/ /\ leasePhase = "disconnected"
        /\ requestStep' = "closing"
        /\ UNCHANGED engineAllVars
  /\ UNCHANGED <<trigger, result, unclean, tableVars>>

AskSettled == requestStep = "asking" /\ asks[1].answer # Unanswered

RequestAnswered ==
  /\ AskSettled
  /\ requestStep' = "closing"
  /\ UNCHANGED <<engineAllVars, trigger, result, unclean, tableVars>>

RequestCloses ==
  /\ requestStep = "closing"
  /\ CloseEngine
  /\ UNCHANGED <<requestVars, tableVars>>

(* The end of closeInternal gives the identity back; a close that rejects   *)
(* takes the place of the answer.                                           *)
EngineCloses ==
  /\ CloseEnds
  /\ ReleaseMapping(OwnBinding)
  /\ EndsWith(IF unclean \/ asks = <<>> THEN "failed" ELSE asks[1].answer.is)
  /\ UNCHANGED others

EngineResumes ==
  /\ StartFails \/ StopEnds \/ HandleMessage \/ \E n \in unsent : GenerateFails(n)
  /\ UNCHANGED <<requestVars, tableVars>>

(* An event waits until the request, which resumes in microtasks, is done. *)
RequestQuiet == ~StartSettled /\ ~AskSettled /\ (requestStep = "closing" => closing)

EngineEvent(event) == RequestQuiet /\ event /\ UNCHANGED <<requestVars, tableVars>>

EngineDisconnectTimesOut ==
  /\ RequestQuiet
  /\ DisconnectTimesOut
  /\ unclean' = TRUE
  /\ UNCHANGED <<requestStep, trigger, result, tableVars>>

(* Other requests of the process, to any contact *)
OtherOpens(b) ==
  /\ others[b] < MaxOthers
  /\ MayReserve(b) /\ ReserveMapping(b)
  /\ others' = [others EXCEPT ![b] = @ + 1]
  /\ UNCHANGED <<engineAllVars, requestVars>>

OtherCloses(b) ==
  /\ others[b] > 0
  /\ ReleaseMapping(b)
  /\ others' = [others EXCEPT ![b] = @ - 1]
  /\ UNCHANGED <<engineAllVars, requestVars>>

RequestNext ==
  \/ RequestCreates \/ RequestStarts \/ RequestAsks \/ RequestAnswered
  \/ RequestCloses \/ EngineCloses \/ EngineResumes \/ EngineDisconnectTimesOut
  \/ EngineEvent(ConnectFails) \/ EngineEvent(ResponseTimesOut) \/ EngineEvent(Peer)
  \/ \E b \in BoundTo : OtherOpens(b) \/ OtherCloses(b)

requestAndEngine == <<engineAllVars, requestVars, tableVars>>

RequestSpec == RequestInit /\ [][RequestNext]_requestAndEngine

-----------------------------------------------------------------------------
(* An identity is reserved for one contact, by as many engines as live:     *)
(* none gives away what another still uses, none keeps it for ever.         *)
ReservationsAreExact ==
  \A id \in UserIds :
    LET own == IF requestStep \in {"asked", "ended"} THEN 0 ELSE 1
        live(b) == others[b] + (IF b = OwnBinding THEN own ELSE 0)
        users == {b \in BoundTo : UserId(b) = id /\ live(b) > 0}
    IN  IF users = {} THEN reservations[id] = Free
        ELSE \A b \in users : reservations[id] = [binding |-> b, count |-> live(b)]

(* A reply reaches the service only from the peer's command for the trigger *)
(* of the request, and after the engine and its socket are gone.            *)
ReplyIsOwn ==
  result = "reply" =>
    /\ asks[1].trigger = trigger /\ asks[1].answer.is = "reply"
    /\ state = "closed" /\ socket = "closed" /\ ~unclean

(* A request has its identity and its reply to itself.                       *)
RequestIsItsOwn == ReservationsAreExact /\ ReplyIsOwn

=============================================================================
