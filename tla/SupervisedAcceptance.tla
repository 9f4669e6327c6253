-------------------------- MODULE SupervisedAcceptance --------------------------
(***************************************************************************)
(* The acceptance of an installed release (runtime-v2/supervised-          *)
(* acceptance.ts and production-acceptance-driver.ts) and the consent it   *)
(* earns (runtime-activation.ts).  Stage A sends a message to the owner's  *)
(* own file transfer, B0 only looks at the contact's chat, B1 sends a      *)
(* message there.  What was done is on file, and bound to the release; a   *)
(* command runs under the lease of the file.  The texts name the stage and *)
(* the binding.                                                            *)
(*                                                                         *)
(* B0 and B1 are in one chat.  A chat is read through a window of its last *)
(* messages.  The report, the control boundary and the owner's stop, which *)
(* the activation asks for before a stage, are left out: a stage may be    *)
(* asked for at any time.                                                  *)
(***************************************************************************)
EXTENDS Naturals, FiniteSets, SequencesExt

CONSTANTS
  Bindings,        \* of the releases that may be installed
  Acceptors,        \* processes of the activation CLI
  Window,          \* messages of a chat that are visible
  MaxMessages,     \* bound: length of a chat before nobody else writes to it
  MaxFailures,       \* bound: failing calls and kills
  MaxSwitches      \* bound: changes of the installed release

NoBinding == "none"
Foreign == "foreign"     \* the text of a message of somebody else

ASSUME AcceptanceAssumption ==
  /\ {NoBinding, Foreign} \intersect Bindings = {}
  /\ Window \in Nat \ {0}
  /\ MaxMessages \in Nat /\ MaxFailures \in Nat /\ MaxSwitches \in Nat

Sending == {"A", "B1"}
Stages  == Sending \union {"B0"}

VARIABLES
  file,            \* supervised-acceptance.json, or its absence
  asked,           \* of each command: what it is about to do, for which release
  run,             \* the stage under way, of the one that has the lease
  chat,            \* the messages in each chat
  composer,        \* the draft in each chat's composer: its binding, or none
  orphans,         \* native submits whose command was killed
  consent,         \* the binding in state/consent.enc
  installed,       \* the binding of the current release
  failures, switches,
  landed           \* observer: the messages sent since the file was begun afresh

acceptanceVars == <<file, asked, run, chat, composer, orphans, consent, installed, failures, switches, landed>>

NoFile == [binding |-> NoBinding, stages |-> [s \in Stages |-> [status |-> NoBinding]]]
NoRun  == [at |-> "over"]
NoBaseline == [count |-> 0, text |-> NoBinding, nth |-> 0]

Chat(s) == IF s = "A" THEN "A" ELSE "B1"

-----------------------------------------------------------------------------
\* What the driver reads off the screen.
Visible(s) == LET c == chat[Chat(s)] IN
  SubSeq(c, IF Len(c) > Window THEN Len(c) - Window + 1 ELSE 1, Len(c))

Occurrences(messages, text) == Cardinality({i \in DOMAIN messages : messages[i] = text})

\* createOutgoingBaseline: how many of ours, and which occurrence of its text
\* the last message is.
Baseline(s, b) == LET seen == Visible(s) IN
  IF seen = <<>> THEN NoBaseline
  ELSE [count |-> Occurrences(seen, b), text |-> Last(seen),
        nth |-> Occurrences(seen, Last(seen))]

\* findMessageOccurrence.
Anchors(seen, base) ==
  {i \in DOMAIN seen : seen[i] = base.text /\ Occurrences(SubSeq(seen, 1, i), base.text) = base.nth}

\* readOutgoingFixedMessageAfterBaseline; and the bug that compares nothing
\* with what was there before.
ReadsAnyMessage(s, b, base) == Occurrences(Visible(s), b) > 0
ReadsAfter(s, b, base) ==
  LET seen == Visible(s) IN
  /\ Occurrences(seen, b) > base.count
  /\ \/ base.text = NoBinding /\ base.count = 0
     \/ base.text # NoBinding /\ Anchors(seen, base) = {}
          /\ base.count = 0 /\ Occurrences(seen, b) = 1
     \/ \E i \in Anchors(seen, base) : \E j \in DOMAIN seen : j > i /\ seen[j] = b

-----------------------------------------------------------------------------
\* The file.
Receipt(s) == file.stages[s]
Verified(s) == Receipt(s).status = "verified"
Invocations(s) == IF Receipt(s).status = NoBinding THEN 0 ELSE Receipt(s).invocations
Put(s, receipt) == file' = [file EXCEPT !.stages[s] = receipt]

Started(n) ==
  [status |-> "invocation-started", invocations |-> n, submits |-> 0,
   baseline |-> NoBaseline, seen |-> FALSE, released |-> FALSE]

\* A submit that may have happened is read back, never done again.
ReadbackOfAnswered(s) == Receipt(s).status = "submitted-uncertain"   \* the bug
NeedsReadback(s) == Receipt(s).status \in {"submit-started", "submitted-uncertain"}

RetryLimit(s) == IF s = "B0" THEN 3 ELSE 2

InOrder(s) ==
  /\ s \in {"B0", "B1"} => Verified("A")
  /\ s = "B1" => Verified("B0")

Mine(b) == file.binding = b

-----------------------------------------------------------------------------
\* A command of the installed release, for as long as it runs.
Asks(p, s) ==
  /\ asked[p] = NoRun
  /\ asked' = [asked EXCEPT ![p] = [at |-> "begin", stage |-> s, binding |-> installed]]
  /\ UNCHANGED <<file, run, chat, composer, orphans, consent, installed, failures, switches, landed>>

Asked(p, s, b) == asked[p] = [at |-> "begin", stage |-> s, binding |-> b]

LeaseFree == run = NoRun

Runs(p, s, b, mode, n, submits, base) ==
  /\ run' = [at |-> "admit", command |-> p, stage |-> s, binding |-> b, mode |-> mode,
             invocations |-> n, submits |-> submits, baseline |-> base,
             written |-> FALSE, failed |-> FALSE, seen |-> FALSE, released |-> FALSE]
  /\ asked' = [asked EXCEPT ![p] = NoRun]
  /\ UNCHANGED <<chat, composer, orphans, consent, installed, failures, switches>>

\* begin and the first save of execute: a file of another release is dropped.
\* An upgrade lies in between, so a native submit (it has seconds) is over.
BeginsAfresh(p, b) ==
  /\ Asked(p, "A", b) /\ LeaseFree /\ orphans = {}
  /\ ~Mine(b)
  /\ file' = [NoFile EXCEPT !.binding = b, !.stages["A"] = Started(1)]
  /\ landed' = [s \in Sending |-> 0]
  /\ Runs(p, "A", b, "execute", 1, 0, NoBaseline)

BeginsAgain(p, s, b) ==
  /\ Asked(p, s, b) /\ LeaseFree
  /\ Mine(b)
  /\ ~Verified(s) /\ ~NeedsReadback(s)
  /\ Invocations(s) < RetryLimit(s) /\ InOrder(s)
  /\ Put(s, Started(Invocations(s) + 1))
  /\ Runs(p, s, b, "execute", Invocations(s) + 1, 0, NoBaseline)
  /\ UNCHANGED landed

\* recoverSubmitted.
BeginsReadback(p, s, b) ==
  /\ Asked(p, s, b) /\ LeaseFree
  /\ Mine(b) /\ ~Verified(s) /\ NeedsReadback(s)
  /\ Invocations(s) < 3
  /\ Put(s, [Receipt(s) EXCEPT !.invocations = @ + 1])
  /\ Runs(p, s, b, "recover", Invocations(s) + 1, Receipt(s).submits, Receipt(s).baseline)
  /\ UNCHANGED landed

\* Busy, verified already, out of order, another release's, or too often.
TurnedAway(p, s, b) ==
  /\ Asked(p, s, b)
  /\ \/ ~LeaseFree
     \/ ~Mine(b) /\ s # "A"
     \/ Mine(b) /\ \/ Verified(s)
                   \/ NeedsReadback(s) /\ Invocations(s) >= 3
                   \/ ~NeedsReadback(s) /\ (Invocations(s) >= RetryLimit(s) \/ ~InOrder(s))
  /\ asked' = [asked EXCEPT ![p] = NoRun]
  /\ UNCHANGED <<file, run, chat, composer, orphans, consent, installed, failures, switches, landed>>

-----------------------------------------------------------------------------
\* The stage under way.
RunAt(where) == run.at = where
Goes(where) == run' = [run EXCEPT !.at = where]
ThisStage == run.stage
Draft == composer[Chat(ThisStage)]
Driven == UNCHANGED <<asked, orphans, consent, installed, switches>>

\* execute's way out: its own draft is cleared unless it may have been sent.
CleansUp == IF run.written /\ run.submits = 0 THEN "clear" ELSE "close"
GivesUp == run' = [run EXCEPT !.at = CleansUp, !.failed = TRUE]

\* admit: the owner has the live operation's lease.
Admits ==
  /\ RunAt("admit")
  /\ Goes(IF run.mode = "recover" THEN "readback" ELSE "look")
  /\ Driven /\ UNCHANGED <<file, chat, composer, failures, landed>>

\* The target is located and the composer is empty; B0 is done with that.
Looks ==
  /\ RunAt("look")
  /\ IF Draft # NoBinding THEN GivesUp
     ELSE Goes(IF ThisStage = "B0" THEN "close" ELSE "write")
  /\ Driven /\ UNCHANGED <<file, chat, composer, failures, landed>>

\* The operator says abort.
Aborts ==
  /\ RunAt("look") /\ ThisStage = "B1"
  /\ GivesUp
  /\ Driven /\ UNCHANGED <<file, chat, composer, failures, landed>>

Writes ==
  /\ RunAt("write")
  /\ composer' = [composer EXCEPT ![Chat(ThisStage)] = run.binding]
  /\ run' = [run EXCEPT !.at = "baseline", !.written = TRUE]
  /\ Driven /\ UNCHANGED <<file, chat, failures, landed>>

TakesBaseline ==
  /\ RunAt("baseline")
  /\ run' = [run EXCEPT !.at = "fence", !.baseline = Baseline(ThisStage, run.binding)]
  /\ Driven /\ UNCHANGED <<file, chat, composer, failures, landed>>

\* beforeSubmit.
Fence == Put(ThisStage, [Started(run.invocations) EXCEPT !.status = "submit-started",
                                                     !.baseline = run.baseline])

Fences ==
  /\ RunAt("fence")
  /\ Fence
  /\ run' = [run EXCEPT !.at = "press", !.submits = 1]
  /\ Driven /\ UNCHANGED <<chat, composer, failures, landed>>

\* The native command presses only the draft it was bound to.
Presses(s, b) ==
  /\ chat' = [chat EXCEPT ![Chat(s)] = Append(@, b)]
  /\ composer' = [composer EXCEPT ![Chat(s)] = NoBinding]
  /\ landed' = IF Mine(b) THEN [landed EXCEPT ![s] = @ + 1] ELSE landed

Submits ==
  /\ RunAt("press")
  /\ IF Draft = run.binding
     THEN /\ Presses(ThisStage, run.binding)
          /\ run' = [run EXCEPT !.at = "readback", !.written = FALSE]
     ELSE GivesUp /\ UNCHANGED <<chat, composer, landed>>
  /\ Driven /\ UNCHANGED <<file, failures>>

ReadsBack ==
  /\ RunAt("readback")
  /\ LET seen == ReadsAfter(ThisStage, run.binding, run.baseline)
     IN run' = [run EXCEPT !.at = "close", !.seen = seen,
                           !.failed = @ \/ (run.mode = "execute" /\ ~seen)]
  /\ Driven /\ UNCHANGED <<file, chat, composer, failures, landed>>

ClearsDraft ==
  /\ RunAt("clear")
  /\ composer' = [composer EXCEPT ![Chat(ThisStage)] = NoBinding]
  /\ run' = [run EXCEPT !.at = "close", !.written = FALSE]
  /\ Driven /\ UNCHANGED <<file, chat, failures, landed>>

\* The driver clears a draft it does not know to be sent, and gives the lease back.
Closes ==
  /\ RunAt("close")
  /\ composer' = IF run.written THEN [composer EXCEPT ![Chat(ThisStage)] = NoBinding] ELSE composer
  /\ run' = [run EXCEPT !.at = "save", !.released = TRUE]
  /\ Driven /\ UNCHANGED <<file, chat, failures, landed>>

Outcome ==
  CASE run.mode = "recover" ->
         IF run.seen /\ ~run.failed /\ run.released THEN "verified" ELSE "submitted-uncertain"
    [] run.mode = "execute" /\ run.submits > 0 /\ (run.failed \/ ~run.seen \/ ~run.released) ->
         "submitted-uncertain"
    [] OTHER -> IF ~run.failed /\ run.released THEN "verified" ELSE "failed"

Saves ==
  /\ RunAt("save")
  /\ Put(ThisStage, [status |-> Outcome, invocations |-> run.invocations, submits |-> run.submits,
                 baseline |-> run.baseline, seen |-> run.seen, released |-> run.released])
  /\ run' = NoRun
  /\ Driven /\ UNCHANGED <<chat, composer, failures, landed>>

-----------------------------------------------------------------------------
\* A call fails before or after its effect, the clearing of a draft included.
Mishap == failures < MaxFailures /\ failures' = failures + 1

AdmitFails ==
  /\ RunAt("admit") /\ Mishap
  /\ run' = [run EXCEPT !.at = IF run.mode = "recover" THEN "unsaved" ELSE "save", !.failed = TRUE]
  /\ Driven /\ UNCHANGED <<file, chat, composer, landed>>

\* recoverSubmitted's admit is outside its try: nothing more is saved.
Leaves ==
  /\ RunAt("unsaved")
  /\ run' = NoRun
  /\ Driven /\ UNCHANGED <<file, chat, composer, failures, landed>>

CallFails ==
  /\ run.at \in {"look", "baseline", "readback"} /\ Mishap
  /\ GivesUp
  /\ Driven /\ UNCHANGED <<file, chat, composer, landed>>

FenceFails ==
  /\ RunAt("fence") /\ Mishap
  /\ Fence \/ UNCHANGED file
  /\ GivesUp
  /\ Driven /\ UNCHANGED <<chat, composer, landed>>

\* The answer to the write is lost: nobody knows of the draft.
WriteFails ==
  /\ RunAt("write") /\ Mishap
  /\ \E draft \in {NoBinding, run.binding} : composer' = [composer EXCEPT ![Chat(ThisStage)] = draft]
  /\ GivesUp
  /\ Driven /\ UNCHANGED <<file, chat, landed>>

SubmitFails ==
  /\ RunAt("press") /\ Mishap
  /\ \/ UNCHANGED <<chat, composer, landed>>
     \/ Draft = run.binding /\ Presses(ThisStage, run.binding)
  /\ GivesUp
  /\ Driven /\ UNCHANGED file

ClearFails ==
  /\ RunAt("clear") /\ Mishap
  /\ Goes("close")
  /\ Driven /\ UNCHANGED <<file, chat, composer, landed>>

CloseFails ==
  /\ RunAt("close") /\ Mishap
  /\ run' = [run EXCEPT !.at = "save", !.failed = TRUE]
  /\ \/ UNCHANGED composer
     \/ run.written /\ composer' = [composer EXCEPT ![Chat(ThisStage)] = NoBinding]
  /\ Driven /\ UNCHANGED <<file, chat, landed>>

SaveFails ==
  /\ RunAt("save") /\ Mishap
  /\ run' = NoRun
  /\ Driven /\ UNCHANGED <<file, chat, composer, landed>>

\* AcceptorKilled: the kernel closes the leases; a native submit may still go on.
AcceptorKilled ==
  /\ run # NoRun /\ Mishap
  /\ orphans' = IF RunAt("press") THEN orphans \union {[stage |-> ThisStage, binding |-> run.binding]}
                ELSE orphans
  /\ run' = NoRun
  /\ UNCHANGED <<file, asked, chat, composer, consent, installed, switches, landed>>

OrphanEnds ==
  \E o \in orphans :
    /\ orphans' = orphans \ {o}
    /\ \/ UNCHANGED <<chat, composer, landed>>
       \/ composer[Chat(o.stage)] = o.binding /\ Presses(o.stage, o.binding)
    /\ UNCHANGED <<file, asked, run, consent, installed, failures, switches>>

-----------------------------------------------------------------------------
\* isVerifiedReceipt.
Accepted(s) ==
  /\ Verified(s) /\ Receipt(s).released
  /\ s = "B0" \/ (Receipt(s).submits = 1 /\ Receipt(s).seen)

EvidenceOfAny(b) == \A s \in Stages : Accepted(s)                     \* the bug
Evidence(b) == Mine(b) /\ \A s \in Stages : Accepted(s)

\* finalize reads its evidence, then writes the consent, under no lease.
Finalizes(p) ==
  /\ asked[p] = NoRun
  /\ Evidence(installed)
  /\ asked' = [asked EXCEPT ![p] = [at |-> "consent", binding |-> installed]]
  /\ UNCHANGED <<file, run, chat, composer, orphans, consent, installed, failures, switches, landed>>

WritesConsent(p) ==
  /\ asked[p].at = "consent"
  /\ consent' = asked[p].binding
  /\ asked' = [asked EXCEPT ![p] = NoRun]
  /\ UNCHANGED <<file, run, chat, composer, orphans, installed, failures, switches, landed>>

-----------------------------------------------------------------------------
\* The other side of a chat writes.
MessageArrives(c) ==
  /\ Len(chat[c]) < MaxMessages
  /\ chat' = [chat EXCEPT ![c] = Append(@, Foreign)]
  /\ UNCHANGED <<file, asked, run, composer, orphans, consent, installed, failures, switches, landed>>

\* An upgrade or a rollback, under the live operation's lease: a command that
\* was already asked for goes on for its own release.
Switches(b) ==
  /\ b # installed /\ switches < MaxSwitches
  /\ run = NoRun \/ run.at \in {"admit", "save", "unsaved"}
  /\ installed' = b /\ switches' = switches + 1
  /\ UNCHANGED <<file, asked, run, chat, composer, orphans, consent, failures, landed>>

AcceptanceInit ==
  /\ file = NoFile
  /\ asked = [p \in Acceptors |-> NoRun]
  /\ run = NoRun
  /\ chat = [c \in Sending |-> <<>>]
  /\ composer = [c \in Sending |-> NoBinding]
  /\ orphans = {}
  /\ consent = NoBinding
  /\ installed \in Bindings
  /\ failures = 0 /\ switches = 0
  /\ landed = [s \in Sending |-> 0]

StageStep ==
  \/ Admits \/ Looks \/ Aborts \/ Writes \/ TakesBaseline \/ Fences \/ Submits
  \/ ReadsBack \/ ClearsDraft \/ Closes \/ Saves \/ Leaves
  \/ AdmitFails \/ CallFails \/ FenceFails \/ WriteFails \/ SubmitFails \/ ClearFails
  \/ CloseFails \/ SaveFails \/ AcceptorKilled

AcceptanceNext ==
  \/ \E p \in Acceptors :
       \/ \E s \in Stages :
            \/ Asks(p, s)
            \/ \E b \in Bindings :
                 BeginsAgain(p, s, b) \/ BeginsReadback(p, s, b) \/ TurnedAway(p, s, b)
       \/ \E b \in Bindings : BeginsAfresh(p, b)
       \/ Finalizes(p) \/ WritesConsent(p)
  \/ StageStep
  \/ OrphanEnds
  \/ \E c \in Sending : MessageArrives(c)
  \/ \E b \in Bindings : Switches(b)

AcceptanceSpec == AcceptanceInit /\ [][AcceptanceNext]_acceptanceVars

-----------------------------------------------------------------------------
Position == {"admit", "look", "write", "baseline", "fence", "press", "readback",
             "clear", "close", "save", "unsaved"}

AcceptanceTypeOK ==
  /\ file.binding \in Bindings \union {NoBinding} /\ DOMAIN file.stages = Stages
  /\ \A p \in Acceptors : asked[p].at \in {"over", "begin", "consent"}
  /\ run.at \in Position \union {"over"}
  /\ chat \in [Sending -> Seq(Bindings \union {Foreign})]
  /\ composer \in [Sending -> Bindings \union {NoBinding}]
  /\ consent \in Bindings \union {NoBinding} /\ installed \in Bindings
  /\ failures \in 0 .. MaxFailures /\ switches \in 0 .. MaxSwitches

(* Of the acceptance a file tells of, no stage sends its message twice,       *)
(* whatever is killed, fails, is retried or read back (begin, beforeSubmit,   *)
(* recoverSubmitted).                                                      *)
SentOnce == \A s \in Sending : landed[s] <= 1

(* A stage that is verified has its message in the chat: the readback takes    *)
(* no older message of the same text for it, however the window has moved    *)
(* since the baseline (readOutgoingFixedMessageAfterBaseline).                *)
VerifiedWasSent == \A s \in Sending : Verified(s) => landed[s] > 0

(* The receipt of an acceptance and the chat tell the same story.            *)
ReceiptIsTrue == SentOnce /\ VerifiedWasSent

(* Consent is bound to a release whose own two messages have been sent: not    *)
(* to one that was switched to while the evidence was read, nor to one whose   *)
(* file another release's acceptance has dropped (finalize).                  *)
ConsentIsEarned ==
  \A b \in Bindings : consent = b =>
    \A s \in Sending : Occurrences(chat[s], b) > 0

(* What a stage is told is verified, finalize accepts: a stage that is        *)
(* verified is never run again, so nothing else could make it acceptable.     *)
VerifiedIsAccepted == \A s \in Stages : Verified(s) => Accepted(s)
=============================================================================
