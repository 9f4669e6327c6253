------------------------------ MODULE DailyCare ------------------------------
(***************************************************************************)
(* The broadcast of one daily-care slot: the durable record of the slot    *)
(* (storage/daily-care-broadcast-repository.ts), the sessions that work on *)
(* it one after the other (mcp/daily-care-runtime.ts, the production       *)
(* runtime, behind mcp/daily-care-session.ts) and the composer of the chat *)
(* they write into. A session is given up at its deadline: the operation   *)
(* under way goes on as nobody's, beside the close of the session and     *)
(* beside the sessions that follow.                                        *)
(***************************************************************************)
EXTENDS Naturals, Sequences, SequencesExt, FiniteSets

CONSTANTS MaxSessions,   \* sessions that work on the slot
          MaxAttempts,   \* attempts the record grants (3 in the code)
          MaxFaults,     \* native calls that fail
          MaxEdits,      \* times the owner touches the composer
          MaxCrashes     \* ends of the process

ASSUME DailyCareAssumption ==
    /\ MaxSessions \in Nat \ {0} /\ MaxAttempts \in Nat
    /\ MaxFaults \in Nat /\ MaxEdits \in Nat /\ MaxCrashes \in Nat

VARIABLES kind,       \* "morning" needs weather, "night" does not
          record,     \* the record of the slot
          marker,     \* the exclusive claim marker is on disk
          composer,   \* what the composer of the chat holds
          sent,       \* the broadcasts in the chat, in the order they went
          window,     \* "open" until the grace of the slot is over
          session,    \* session[s], see Fresh; session[Lane] is the scheduler's skip
          current,    \* the session last begun
          orphan,     \* the text of a press whose process died
          faults, edits, crashes

vars == <<kind, record, marker, composer, sent, window, session,
          current, orphan, faults, edits, crashes>>
world == <<kind, window, current, orphan, edits, crashes>>
disk == <<record, marker>>
chat == <<composer, sent>>

Lane == 0
Sessions == 1 .. MaxSessions
Workers == Sessions \cup {Lane}
Empty == 0
Foreign == MaxSessions + 1          \* text the owner left in the composer
Texts == Sessions                   \* the candidate a session writes

Statuses == {"none", "pending", "submitted-uncertain", "verified", "skipped"}
RecordPhases == {"claimed", "candidate-prepared", "draft-verified",
                 "submit-started", "terminal"}
Unclaimed == [status |-> "none", phase |-> "claimed", text |-> 0,
              quarantined |-> FALSE, attempts |-> 0]

Fresh == [phase |-> "idle",     \* the phase of the runtime
          outer |-> "idle",     \* the phase of the session in front of it
          slot |-> FALSE,       \* it holds the slot
          timer |-> "off",      \* the timer of the deadline
          late |-> FALSE,       \* the deadline lies in the past
          reached |-> FALSE,    \* deadlineReached
          closing |-> FALSE,
          bound |-> FALSE,      \* the surface is bound to the write context
          text |-> 0,           \* candidateText
          prepared |-> 0,       \* the surface's preparedDraft
          op |-> "none", at |-> "idle",
          close |-> "none"]

\* A session that can do nothing any more: closed, or of a process that is gone.
Gone == [Fresh EXCEPT !.outer = "closed", !.closing = TRUE, !.close = "closed"]

Set(s, next) ==
    session' = [session EXCEPT ![s] =
                  IF next.close = "closed" /\ next.op = "none" THEN Gone ELSE next]
Ended(s) == [session[s] EXCEPT !.op = "none", !.at = "idle"]
Throws(s) == Set(s, Ended(s))
Returns(s, outer) == Set(s, [Ended(s) EXCEPT !.outer = outer])
Goes(s, at) == Set(s, [session[s] EXCEPT !.at = at])

(***************************************************************************)
(* The record. update refuses a record that is missing, verified or        *)
(* skipped.                                                                *)
(***************************************************************************)
Terminal == record.status \in {"verified", "skipped"}
Updatable == record.status # "none" /\ ~Terminal
PendingIn(phase) == record.status = "pending" /\ record.phase = phase

CanSave(text) ==
    /\ Updatable
    /\ IF record.phase = "candidate-prepared" THEN record.text = text
       ELSE PendingIn("claimed")
CandidateSaved(text) == [record EXCEPT !.text = text, !.phase = "candidate-prepared"]
DraftVerified == [record EXCEPT !.phase = "draft-verified"]
SubmitStartedUnsaved == record                 \* the bug: not written
SubmitStarted == [record EXCEPT !.phase = "submit-started",
                                !.status = "submitted-uncertain"]
CanVerify == record.status = "submitted-uncertain" /\ record.phase = "submit-started"
Verified == [record EXCEPT !.status = "verified", !.phase = "terminal"]
CanSkip == record.status = "pending"
Skipped == [record EXCEPT !.status = "skipped", !.phase = "terminal"]
Quarantined == [record EXCEPT !.quarantined = TRUE]
Claimed == [Unclaimed EXCEPT !.status = "pending"]

\* startSessionAttempt: only a broadcast that is not yet submitted has a next
\* attempt, and the record is skipped when the attempts are used up.
AttemptOpen == record.status = "pending" /\ record.phase \notin {"submit-started", "terminal"}

AttemptCounted ==
    IF ~AttemptOpen THEN record
    ELSE IF record.attempts >= MaxAttempts THEN Skipped
    ELSE [record EXCEPT !.attempts = @ + 1]

(***************************************************************************)
(* Commands. A command is refused once the session closes, and one at a    *)
(* time runs. Those that touch the chat look at the clock first.           *)
(***************************************************************************)
Ready(s) == session[s].op = "none" /\ ~session[s].closing
Starts(s, op, at) == Set(s, [session[s] EXCEPT !.op = op, !.at = at])
Past(s) == session[s].late \/ session[s].reached

\* assertDeadline throws, and remembers that it did.
Notices(s) == Set(s, [session[s] EXCEPT !.reached = TRUE])

\* The bug: the surface does not look at the clock.
ExpiredNever(s) == FALSE

\* A native call of a surface bound to the write context of the session is
\* refused after the deadline.
Expired(s) == session[s].bound /\ session[s].late

NoSession == \A s \in Workers : \/ s = Lane /\ session[s].at = "idle"
                                \/ s > current
                                \/ session[s].close = "closed"

SessionOpens ==
    /\ NoSession /\ current < MaxSessions
    /\ current' = current + 1
    /\ UNCHANGED <<disk, chat, kind, session, window, orphan, faults, edits, crashes>>

BeginStarts(s) ==
    /\ s = current /\ Ready(s) /\ session[s].outer = "idle" /\ session[s].phase = "idle"
    /\ Starts(s, "begin", IF window = "over" THEN "begin-expire" ELSE "begin-read")
    /\ UNCHANGED <<disk, chat, world, faults>>

\* terminalizeExpiredPendingSlot, and DAILY_CARE_OUTSIDE_PRODUCTION_WINDOW.
BeginExpires(s) ==
    /\ session[s].at = "begin-expire"
    /\ record' = IF record.status = "pending" THEN Skipped ELSE record
    /\ Throws(s)
    /\ UNCHANGED <<marker, chat, world, faults>>

BeginReads(s) ==
    /\ session[s].at = "begin-read"
    /\ Goes(s, IF record.status = "none" THEN "claim-marker" ELSE "attempt")
    /\ UNCHANGED <<disk, chat, world, faults>>

\* claimSlot: the marker first, then the record.
AfterClaim(s) == IF s = Lane THEN "lane-skip" ELSE "attempt"

ClaimMarks(s) ==
    /\ session[s].at = "claim-marker"
    /\ marker' = TRUE
    /\ Goes(s, IF marker THEN "reread" ELSE "claim-record")
    /\ UNCHANGED <<record, chat, world, faults>>

ClaimRecords(s) ==
    /\ session[s].at = "claim-record"
    /\ IF record.status = "none"
       THEN record' = Claimed /\ Goes(s, AfterClaim(s))
       ELSE Goes(s, "reread") /\ UNCHANGED record
    /\ UNCHANGED <<marker, chat, world, faults>>

\* BROADCAST_SLOT_ALREADY_CLAIMED: read the record again, which may be missing.
ClaimRereads(s) ==
    /\ session[s].at = "reread"
    /\ IF record.status = "none" THEN Throws(s) ELSE Goes(s, AfterClaim(s))
    /\ UNCHANGED <<disk, chat, world, faults>>

\* The attempt is counted; then the slot is taken, unless the record refuses it,
\* and the timer of the deadline set.
BeginAttempts(s) ==
    /\ session[s].at = "attempt"
    /\ record' = AttemptCounted
    /\ IF ~AttemptOpen \/ record'.status = "skipped" \/ record.quarantined
       THEN Throws(s)
       ELSE CASE record.phase = "claimed" ->
                   Set(s, [Ended(s) EXCEPT !.slot = TRUE, !.timer = "set",
                                           !.phase = "begun", !.outer = "begun"])
              [] record.phase = "draft-verified" ->
                   Set(s, [Ended(s) EXCEPT !.slot = TRUE, !.timer = "set",
                                           !.phase = "draft-verified",
                                           !.outer = "draft-verified",
                                           !.text = record.text])
              [] record.phase = "candidate-prepared" ->
                   Set(s, [session[s] EXCEPT !.slot = TRUE, !.timer = "set",
                                             !.phase = "prepared", !.text = record.text,
                                             !.at = "restore"])
    /\ UNCHANGED <<marker, chat, world, faults>>

\* verifyOrRestorePreparedDraft: the boundary, the stop, the write context, and
\* then what the composer holds.
Restores(s) ==
    /\ session[s].at = "restore"
    /\ \/ Past(s) /\ Set(s, [Ended(s) EXCEPT !.reached = TRUE])
       \/ ~Past(s) /\ window = "over" /\ Goes(s, "clear")
       \/ ~Past(s) /\ window = "open" /\ Throws(s)         \* SYSTEM_STOPPED
       \/ ~Past(s) /\ window = "open" /\ Set(s, [session[s] EXCEPT !.bound = TRUE,
                                                                !.at = "restore-look"])
    /\ UNCHANGED <<disk, chat, world, faults>>

RestoreLooks(s) ==
    /\ session[s].at = "restore-look" /\ ~Expired(s)
    /\ CASE composer = session[s].text -> Returns(s, "prepared")
         [] composer = Empty -> Goes(s, "type")
         [] OTHER -> Goes(s, "restore-clear")
    /\ UNCHANGED <<disk, chat, world, faults>>

RestoreClears(s) ==
    /\ session[s].at = "restore-clear" /\ ~Expired(s)
    /\ composer' = Empty
    /\ Goes(s, "restore-quarantine")
    /\ UNCHANGED <<disk, sent, world, faults>>

RestoreQuarantines(s) ==
    /\ session[s].at = "restore-quarantine"
    /\ record' = IF session[s].slot /\ Updatable THEN Quarantined ELSE record
    /\ Throws(s)
    /\ UNCHANGED <<marker, chat, world, faults>>

(***************************************************************************)
(* The commands between begin and close.                                   *)
(***************************************************************************)
ResearchStarts(s) ==
    /\ Ready(s) /\ kind = "morning"
    /\ session[s].outer = "begun" /\ session[s].phase = "begun"
    /\ Starts(s, "research", "research")
    /\ UNCHANGED <<disk, chat, world, faults>>

\* The facts, or none to be had today, or a permanent failure: the slot is skipped.
ResearchAnswers(s) ==
    /\ session[s].at = "research"
    /\ \/ \E outer \in {"researched", "weather-unavailable"} :
             Set(s, [Ended(s) EXCEPT !.phase = "researched", !.outer = outer])
       \/ Goes(s, "skip")
    /\ UNCHANGED <<disk, chat, world, faults>>

\* markSkipped before anything was written, and the error the operation ends with.
Skips(s) ==
    /\ session[s].at = "skip"
    /\ IF CanSkip THEN /\ record' = Skipped
                       /\ Set(s, [Ended(s) EXCEPT !.phase = "aborted"])
       ELSE Throws(s) /\ UNCHANGED record
    /\ UNCHANGED <<marker, chat, world, faults>>

\* prepareBroadcast up to the validation of the text. It ends here when the owner
\* has stopped the system or the text is invalid; the third invalid text, which any
\* of them may be, skips the slot.
PrepareStarts(s) ==
    /\ Ready(s)
    /\ LET ready == IF kind = "morning" THEN "researched" ELSE "begun"
       IN  session[s].outer = ready /\ session[s].phase = ready
    /\ \/ Past(s) /\ Notices(s)
       \/ ~Past(s) /\ Starts(s, "prepare", "skip")
       \/ ~Past(s) /\ window = "open" /\ Starts(s, "prepare", "save")
    /\ UNCHANGED <<disk, chat, world, faults>>

\* saveCandidate for the slot the operation began with; the write context can be
\* bound only while the session holds its slot and before its deadline.
Saves(s) ==
    /\ session[s].at = "save"
    /\ IF CanSave(s)
       THEN /\ record' = CandidateSaved(s)
            /\ IF session[s].slot /\ ~session[s].late
               THEN Set(s, [session[s] EXCEPT !.text = s, !.phase = "prepared",
                                              !.bound = TRUE, !.at = "type"])
               ELSE Set(s, [Ended(s) EXCEPT !.text = s, !.phase = "prepared"])
       ELSE Throws(s) /\ UNCHANGED record
    /\ UNCHANGED <<marker, chat, world, faults>>

\* replaceDraft: the text is typed, and the surface keeps it as its prepared
\* draft once the receipt is proved.
Types(s) ==
    /\ session[s].at = "type" /\ ~Expired(s)
    /\ composer' = session[s].text
    /\ Goes(s, "typed")
    /\ UNCHANGED <<disk, sent, world, faults>>

TypingProved(s) ==
    /\ session[s].at = "typed"
    /\ Set(s, [session[s] EXCEPT !.prepared = session[s].text, !.at = "exact"])
    /\ UNCHANGED <<disk, chat, world, faults>>

VerifyStarts(s) ==
    /\ Ready(s) /\ session[s].outer = "prepared" /\ session[s].phase = "prepared"
    /\ CASE Past(s) -> Notices(s)
         [] ~Past(s) /\ window = "over" -> Starts(s, "verify", "clear")
         [] OTHER -> Starts(s, "verify", "exact")
    /\ UNCHANGED <<disk, chat, world, faults>>

\* The session counts the broadcast as submitted before it asks the runtime.
SubmitStarts(s) ==
    /\ Ready(s) /\ session[s].outer = "draft-verified"
    /\ session[s].phase = "draft-verified"
    /\ LET asked == [session[s] EXCEPT !.outer = "submitted"]
       IN  \/ Past(s) /\ Set(s, [asked EXCEPT !.reached = TRUE])
           \/ /\ ~Past(s) /\ window = "over"
              /\ Set(s, [asked EXCEPT !.op = "submit", !.at = "clear"])
           \/ ~Past(s) /\ window = "open" /\ Set(s, asked)   \* SYSTEM_STOPPED
           \/ /\ ~Past(s) /\ window = "open"
              /\ Set(s, [asked EXCEPT !.op = "submit", !.at = "exact"])
    /\ UNCHANGED <<disk, chat, world, faults>>

\* assertExactProductionDraft, and where each operation goes from it.
Exact(s) ==
    /\ session[s].at = "exact" /\ ~Expired(s)
    /\ CASE composer # session[s].text -> Throws(s)
         [] composer = session[s].text /\ session[s].op \in {"begin", "prepare"} ->
              Returns(s, "prepared")
         [] composer = session[s].text /\ session[s].op = "verify" ->
              Goes(s, "mark-draft-verified")
         [] OTHER -> Goes(s, "mark-submit-started")
    /\ UNCHANGED <<disk, chat, world, faults>>

MarksDraftVerified(s) ==
    /\ session[s].at = "mark-draft-verified"
    /\ IF session[s].slot /\ PendingIn("candidate-prepared")
       THEN /\ record' = DraftVerified
            /\ Set(s, [Ended(s) EXCEPT !.phase = "draft-verified",
                                       !.outer = "draft-verified"])
       ELSE Throws(s) /\ UNCHANGED record
    /\ UNCHANGED <<marker, chat, world, faults>>

MarksSubmitStarted(s) ==
    /\ session[s].at = "mark-submit-started"
    /\ IF session[s].slot /\ PendingIn("draft-verified")
       THEN /\ record' = SubmitStarted
            /\ Set(s, [session[s] EXCEPT !.phase = "submitted", !.at = "submit"])
       ELSE Throws(s) /\ UNCHANGED record
    /\ UNCHANGED <<marker, chat, world, faults>>

\* submitDraft before the bridge presses: a surface that has not typed the draft
\* itself has nothing to submit (WRITE_CAPABILITY_BINDING_REQUIRED).
AsksForPress(s) ==
    /\ session[s].at = "submit"
    /\ IF session[s].prepared = 0 \/ Expired(s) THEN Throws(s) ELSE Goes(s, "press")
    /\ UNCHANGED <<disk, chat, world, faults>>

\* The bridge presses when the composer holds the draft it is asked to submit.
Presses(s) ==
    /\ session[s].at = "press" /\ composer = session[s].prepared
    /\ sent' = Append(sent, composer)
    /\ composer' = Empty
    /\ Throws(s)
    /\ UNCHANGED <<disk, world, faults>>

VerifySendStarts(s) ==
    /\ Ready(s) /\ session[s].outer = "submitted" /\ session[s].phase = "submitted"
    /\ Starts(s, "verify-send", "look")
    /\ UNCHANGED <<disk, chat, world, faults>>

\* The latest outgoing message is the broadcast.
SendLooks(s) ==
    /\ session[s].at = "look" /\ ~Expired(s)
    /\ IF session[s].text # 0 /\ sent # <<>> /\ Last(sent) = session[s].text
       THEN Goes(s, "mark-verified") ELSE Throws(s)
    /\ UNCHANGED <<disk, chat, world, faults>>

MarksVerified(s) ==
    /\ session[s].at = "mark-verified"
    /\ IF session[s].slot /\ CanVerify
       THEN /\ record' = Verified
            /\ Set(s, [Ended(s) EXCEPT !.phase = "verified", !.outer = "send-verified"])
       ELSE Throws(s) /\ UNCHANGED record
    /\ UNCHANGED <<marker, chat, world, faults>>

\* abort-draft, which is also what the session's close command does first with a
\* draft that was written.
AbortStarts(s) ==
    /\ Ready(s) /\ session[s].outer \in {"prepared", "draft-verified"}
    /\ session[s].phase \in {"prepared", "draft-verified"}
    /\ Starts(s, "abort", "clear")
    /\ UNCHANGED <<disk, chat, world, faults>>

(***************************************************************************)
(* clearPreparedDraft, by an operation (t = "at") or by the close of the   *)
(* session (t = "close"): empty the composer, prove it, skip the slot.     *)
(***************************************************************************)
Threads == {"at", "close"}
ClearThrowsQuietly(s, t) ==                    \* the bug: nothing is recorded
    IF t = "at" THEN Ended(s) ELSE [session[s] EXCEPT !.close = "release"]
ClearThrows(s, t) ==
    IF t = "at" THEN Ended(s) ELSE [session[s] EXCEPT !.close = "quarantine"]

Clears(s, t) ==
    /\ session[s][t] = "clear" /\ ~Expired(s)
    /\ composer' = Empty
    /\ Set(s, [session[s] EXCEPT !.prepared = 0, ![t] = "clear-skip"])
    /\ UNCHANGED <<disk, sent, world, faults>>

ClearSkips(s, t) ==
    /\ session[s][t] = "clear-skip"
    /\ IF session[s].slot /\ CanSkip
       THEN /\ record' = Skipped
            /\ CASE t = "close" ->
                      Set(s, [session[s] EXCEPT !.phase = "aborted", !.text = 0,
                                                !.close = "release"])
                 [] t = "at" /\ session[s].op = "abort" ->
                      Set(s, [Ended(s) EXCEPT !.phase = "aborted", !.text = 0,
                                              !.outer = "send-verified"])
                 [] OTHER -> Set(s, [Ended(s) EXCEPT !.phase = "aborted", !.text = 0])
       ELSE Set(s, ClearThrows(s, t)) /\ UNCHANGED record
    /\ UNCHANGED <<marker, chat, world, faults>>

\* A native call fails, because its capability has expired or for a reason of its
\* own; one that clears may have cleared, and a press may find another text.
ClearFails(s, t) ==
    /\ session[s][t] = "clear"
    /\ \/ Expired(s) /\ UNCHANGED <<composer, faults>>
       \/ /\ faults < MaxFaults /\ faults' = faults + 1
          /\ composer' \in {composer, Empty}
    /\ Set(s, ClearThrows(s, t))
    /\ UNCHANGED <<disk, sent, world>>

NativeFails(s) ==
    /\ session[s].at \in {"restore-look", "restore-clear", "type", "typed", "exact", "press", "look"}
    /\ \/ Expired(s) /\ session[s].at # "press" /\ UNCHANGED faults
       \/ session[s].at = "press" /\ composer # session[s].prepared /\ UNCHANGED faults
       \/ faults < MaxFaults /\ faults' = faults + 1
    /\ Throws(s)
    /\ UNCHANGED <<disk, chat, world>>

(***************************************************************************)
(* The deadline and the close. The timer gives up the operation under way, *)
(* but for begin, which was queued before there was a deadline; it does    *)
(* nothing when an operation has noticed the deadline before it.           *)
(***************************************************************************)
DeadlinePasses(s) ==
    /\ session[s].timer = "set" /\ ~session[s].late
    /\ Set(s, [session[s] EXCEPT !.late = TRUE])
    /\ UNCHANGED <<disk, chat, world, faults>>

TimerFires(s) ==
    /\ session[s].timer = "set" /\ session[s].late
    /\ Set(s, IF session[s].reached THEN [session[s] EXCEPT !.timer = "spent"]
              ELSE [session[s] EXCEPT !.timer = "rejected", !.reached = TRUE,
                                      !.closing = TRUE,
                                      !.close = IF @ = "none" THEN "wait" ELSE @])
    /\ UNCHANGED <<disk, chat, world, faults>>

\* The client's close, or the end of its connection.
CloseRequested(s) ==
    /\ s = current /\ ~session[s].closing
    /\ Set(s, [session[s] EXCEPT !.closing = TRUE, !.close = "wait"])
    /\ UNCHANGED <<disk, chat, world, faults>>

\* The bug: the deadline gives up no operation.
TailResolvedUnraced(s) == session[s].op = "none"

\* The queue is empty: its last operation has ended or was given up.
TailResolved(s) ==
    \/ session[s].op = "none"
    \/ session[s].timer = "rejected" /\ session[s].op # "begin"

CloseStarts(s) ==
    /\ session[s].close = "wait" /\ TailResolved(s)
    /\ Set(s, CASE session[s].phase \in {"prepared", "draft-verified"} ->
                     [session[s] EXCEPT !.close = "clear"]
                [] session[s].phase \in {"begun", "researched"} ->
                     [session[s] EXCEPT !.phase = "aborted", !.close = "release"]
                [] OTHER -> [session[s] EXCEPT !.close = "release"])
    /\ UNCHANGED <<disk, chat, world, faults>>

CloseQuarantines(s) ==
    /\ session[s].close = "quarantine"
    /\ record' = IF session[s].slot /\ Updatable THEN Quarantined ELSE record
    /\ Set(s, [session[s] EXCEPT !.close = "release"])
    /\ UNCHANGED <<marker, chat, world, faults>>

CloseReleases(s) ==
    /\ session[s].close = "release"
    /\ Set(s, [session[s] EXCEPT !.close = "closed", !.outer = "closed",
                                  !.slot = FALSE, !.text = 0,
                                  !.timer = IF @ = "set" THEN "off" ELSE @])
    /\ UNCHANGED <<disk, chat, world, faults>>

(***************************************************************************)
(* The scheduler skips the slot of a natural conversation; the owner; the  *)
(* end of the process. A press under way may outlive it.                   *)
(***************************************************************************)
LaneStarts ==
    /\ NoSession /\ window = "open" /\ ~Terminal
    /\ Goes(Lane, IF record.status = "none" THEN "claim-marker" ELSE "lane-skip")
    /\ UNCHANGED <<disk, chat, world, faults>>

LaneSkips ==
    /\ session[Lane].at = "lane-skip"
    /\ record' = IF CanSkip THEN Skipped ELSE record
    /\ Throws(Lane)
    /\ UNCHANGED <<marker, chat, world, faults>>

OwnerEdits ==
    /\ edits < MaxEdits
    /\ edits' = edits + 1
    /\ composer' \in {Empty, Foreign} \ {composer}
    /\ UNCHANGED <<disk, sent, kind, window, session, current, orphan, faults, crashes>>

WindowEnds ==
    /\ window = "open" /\ window' = "over"
    /\ UNCHANGED <<disk, chat, kind, session, current, orphan, faults, edits, crashes>>

Crash ==
    /\ crashes < MaxCrashes
    /\ \E s \in Workers : session[s] \notin {Fresh, Gone}
    /\ crashes' = crashes + 1
    /\ session' = [s \in Workers |->
                      IF s = Lane \/ s > current THEN Fresh ELSE Gone]
    /\ orphan' = LET pressing == {s \in Sessions : session[s].at = "press"}
                 IN  IF pressing = {} THEN orphan
                     ELSE session[CHOOSE s \in pressing : TRUE].prepared
    /\ UNCHANGED <<disk, chat, kind, window, current, faults, edits>>

OrphanPresses ==
    /\ orphan # 0
    /\ orphan' = 0
    /\ \/ composer = orphan /\ sent' = Append(sent, composer) /\ composer' = Empty
       \/ UNCHANGED <<composer, sent>>
    /\ UNCHANGED <<disk, kind, window, session, current, faults, edits, crashes>>

(***************************************************************************)
(* The specification.                                                      *)
(***************************************************************************)
\* The slot as n earlier sessions left it, none of which lives.
InitAfter(n, known, draft) ==
    /\ kind \in {"morning", "night"}
    /\ record = known /\ marker = (known # Unclaimed)
    /\ composer = draft /\ sent = <<>>
    /\ window = "open"
    /\ session = [s \in Workers |-> IF s \in 1 .. n THEN Gone ELSE Fresh]
    /\ current = n
    /\ orphan = 0
    /\ faults = 0 /\ edits = 0 /\ crashes = 0

Init == InitAfter(0, Unclaimed, Empty)

\* The steps of the operation under way.
OperationStep(s) ==
    \/ BeginExpires(s) \/ BeginReads(s) \/ ClaimMarks(s) \/ ClaimRecords(s)
    \/ ClaimRereads(s) \/ BeginAttempts(s) \/ Restores(s) \/ RestoreLooks(s)
    \/ RestoreClears(s) \/ RestoreQuarantines(s)
    \/ ResearchAnswers(s) \/ Skips(s) \/ Saves(s) \/ Types(s) \/ TypingProved(s)
    \/ Exact(s) \/ MarksDraftVerified(s) \/ MarksSubmitStarted(s) \/ AsksForPress(s)
    \/ Presses(s) \/ SendLooks(s) \/ MarksVerified(s)
    \/ Clears(s, "at") \/ ClearSkips(s, "at") \/ ClearFails(s, "at") \/ NativeFails(s)

CommandStarts(s) ==
    \/ BeginStarts(s) \/ ResearchStarts(s) \/ PrepareStarts(s) \/ VerifyStarts(s)
    \/ SubmitStarts(s) \/ VerifySendStarts(s) \/ AbortStarts(s)

CloseStep(s) ==
    \/ CloseStarts(s) \/ Clears(s, "close") \/ ClearSkips(s, "close")
    \/ ClearFails(s, "close") \/ CloseQuarantines(s) \/ CloseReleases(s)

Next ==
    \/ SessionOpens
    \/ \E s \in Sessions : \/ CommandStarts(s) \/ OperationStep(s) \/ CloseStep(s)
                            \/ DeadlinePasses(s) \/ TimerFires(s) \/ CloseRequested(s)
    \/ LaneStarts \/ LaneSkips
    \/ ClaimMarks(Lane) \/ ClaimRecords(Lane) \/ ClaimRereads(Lane)
    \/ OwnerEdits \/ WindowEnds \/ Crash \/ OrphanPresses

\* Fair are the steps of a close and those of begin, whose native calls have
\* timeouts of their own. An operation that hangs, and whatever people do, is not.
Fairness ==
    \A s \in Sessions : /\ WF_vars(CloseStep(s))
                        /\ WF_vars(session[s].op = "begin" /\ OperationStep(s))

Spec == Init /\ [][Next]_vars
FairSpec == Spec /\ Fairness

(***************************************************************************)
(* Properties.                                                             *)
(***************************************************************************)

\* Types.
Positions == {"idle", "begin-expire", "begin-read", "claim-marker", "claim-record",
              "reread", "attempt", "lane-skip", "restore", "restore-look",
              "restore-clear", "restore-quarantine", "research", "skip", "save",
              "type", "typed", "exact", "mark-draft-verified", "mark-submit-started",
              "submit", "press", "look", "mark-verified", "clear", "clear-skip"}

Phases == {"idle", "begun", "researched", "prepared", "draft-verified", "submitted",
           "verified", "aborted"}
Outers == {"idle", "begun", "researched", "weather-unavailable", "prepared",
           "draft-verified", "submitted", "send-verified", "closed"}
Timers == {"off", "set", "rejected", "spent"}
Operations == {"none", "begin", "research", "prepare", "verify", "submit", "verify-send",
               "abort"}
Closes == {"none", "wait", "clear", "clear-skip", "quarantine", "release", "closed"}

Session ==
    [phase : Phases, outer : Outers, slot : BOOLEAN, timer : Timers,
     late : BOOLEAN, reached : BOOLEAN, closing : BOOLEAN, bound : BOOLEAN,
     text : Texts \cup {0}, prepared : Texts \cup {0},
     op : Operations, at : Positions, close : Closes]

Slot == [status : Statuses, phase : RecordPhases, text : Texts \cup {0},
         quarantined : BOOLEAN, attempts : 0 .. MaxAttempts]

DailyCareTypeOK ==
    /\ kind \in {"morning", "night"}
    /\ record \in Slot
    /\ marker \in BOOLEAN /\ window \in {"open", "over"}
    /\ composer \in Texts \cup {Empty, Foreign}
    /\ sent \in Seq(Texts)
    /\ session \in [Workers -> Session]
    /\ current \in 0 .. MaxSessions
    /\ orphan \in Texts \cup {0}

\* A slot is broadcast at most once, over all sessions, retries, crashes, presses
\* that outlive their process and operations given up at a deadline; and what was
\* sent is the text on record, whose record never again says that it was not.
BroadcastOnce ==
    sent # <<>> => /\ Len(sent) = 1 /\ sent[1] = record.text
                   /\ record.status \in {"submitted-uncertain", "verified"}

\* Once the draft of a slot is quarantined nothing of this slot is sent any more:
\* not by the operation given up at the deadline, not by a later session.
QuarantineHolds == [][record.quarantined => sent' = sent]_vars

\* A session that closes while it holds the slot leaves no draft behind that the
\* record does not speak of, unless the slot was skipped under it by an operation
\* of an earlier session and nothing can be recorded any more.
ClosedIsAccounted ==
    [][\A s \in Sessions :
          session[s].close = "release" /\ session'[s].close = "closed" /\ session[s].slot
             => \/ composer \notin Texts
                \/ record.quarantined \/ record.status = "submitted-uncertain"
                \/ record.status = "skipped" /\ session[s].phase # "aborted"]_vars

\* The deadline closes a session even if the operation under way hangs for ever
\* (the test "actively aborts a hung UI operation at the whole-session deadline").
DeadlineCloses ==
    \A s \in Sessions : session[s].timer = "rejected" ~> session[s].close = "closed"

\* What a test states of a restart (daily-care-production-runtime.test.ts:312,
\* "hydrates draft-verified state and performs the pending submit exactly once"): a
\* submit that has been recorded is one that the surface can perform.
PendingSubmitIsPerformed ==
    \A s \in Sessions : session[s].at = "submit" => session[s].prepared = session[s].text

=============================================================================
