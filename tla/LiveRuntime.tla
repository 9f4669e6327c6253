---------------------------- MODULE LiveRuntime ----------------------------
(***************************************************************************)
(* The live runtime: mcp/live-runtime.ts, with the session that drives it    *)
(* (mcp/live-supervisor-session.ts), the control and reply state, the        *)
(* pending send and the abort intent (storage/repositories.ts), the reads of *)
(* the chats (adapters/wechat.ts) and the ledger of the comfort-station card.*)
(*                                                                         *)
(* One process at a time holds the kernel lease.  It hosts either a          *)
(* supervisor session, that reads the control chat first or (direct) trusts  *)
(* the durable stop gate, or the tools of the MCP server, whose client types *)
(* and presses Return itself.  Its operations run one after the other; a     *)
(* step is one durable write or one call of the surface, with the code       *)
(* around it.  Between any two steps the contact and the owner write, the    *)
(* owner types into the composer, the step fails, or the process dies.       *)
(*                                                                         *)
(* An operation carries the steps it still has to take; a step that fails    *)
(* replaces them with the recovery of the code's catch.                     *)
(*                                                                         *)
(* Abstractions.  A chat only grows and is seen whole.  The id of a message  *)
(* is the hash of its direction and text, so it is the message itself.  A    *)
(* random capability, token, gate revision or trigger id is any number not   *)
(* in use.  The send gate's consent is given; the card is no text message;   *)
(* travel demos, audit records and prepareDraft to the control chat are left *)
(* out.                                                                     *)
(***************************************************************************)
EXTENDS Naturals, FiniteSets, Sequences, SequencesExt

CONSTANTS
  Msgs,         \* what the contact writes
  Wakes,        \* those of Msgs that ask for the card
  Replies,      \* texts the client may ask to send
  Own,          \* what the owner types in the chat
  None,
  Budgets       \* bounds: a history is given one of them, and spends it

Commands == {"establish", "read-control", "read-target", "read-direct", "read-chat", "get-state",
             "prepare", "show-card", "accept-card", "verify-draft", "submit", "abort", "verify-send",
             "prepare-draft", "abort-draft"}
Empty == "empty"

ASSUME LiveAssumption ==
  /\ Wakes \subseteq Msgs
  /\ {None, Empty} \cap (Replies \cup {Own}) = {}
  /\ None \notin Nat
  /\ LET texts == Replies \cup Msgs \cup {Own, "marker", None, Empty}    \* null is no record
     IN /\ None \notin [token : Nat \cup {None}, text : texts]
        /\ None \notin [conv : {"target", "control"}, text : texts, token : Nat \cup {None},
                        base : Seq([dir : {"in", "out"}, text : texts]), verified : BOOLEAN]
  /\ Budgets \subseteq
       [in : Nat, owner : Nat, typed : Nat, faults : Nat, starts : Nat, tokens : Nat,  \* how often, at most
        ahead : Nat,                         \* commands behind the running one
        unread : SUBSET BOOLEAN,             \* what the unread mark may show
        begun : BOOLEAN,                     \* an earlier process has run
        msgs : SUBSET Msgs, texts : SUBSET Replies, calls : SUBSET Commands,
        commands : SUBSET {"stop", "resume", "marker"},
        hosts : SUBSET {"session", "direct", "tools"}]

VARIABLES
  chat,       \* the target chat
  commands,   \* the control chat
  composer,   \* per chat, the text in its composer
  control,    \* durable: control boundary and stop gate
  outgoing,   \* durable: per reply, its claim
  target,     \* durable: baseline of the chat and pending trigger
  known,      \* durable: messages of the vault
  pending,    \* durable: the pending send
  intent,     \* durable: the abort intent
  ledger,     \* durable: per card key, the delivery of the card
  host,       \* the process: what it hosts and its proof registries
  session,    \* its session
  client,     \* the client of the tools: the draft it works on
  waiting,    \* commands accepted and not begun
  op,         \* the operation under way
  orphan,     \* a key press that outlived its process
  presses,    \* history: what the runtime has sent
  budget      \* bounds: what may still happen

durable == <<control, outgoing, target, known, pending, intent, ledger>>
vars == <<chat, commands, composer, durable, host, session, client, waiting, op, orphan, presses, budget>>

In(m)  == [dir |-> "in", text |-> m]
Out(m) == [dir |-> "out", text |-> m]
Marker == "marker"
Acceptance == "acceptance"

Count(s, x) == Cardinality({i \in DOMAIN s : s[i] = x})
Fresh(S) == CHOOSE n \in 1 .. Cardinality(S) + 1 : n \notin S

NoOp == [cmd |-> "none", todo |-> <<>>]
Busy == op.cmd # "none"
NoHost == [kind |-> "none", controls |-> {}, targets |-> {}, consumed |-> {}, prepared |-> {}]
NoSession == [phase |-> "closed", cp |-> None, tp |-> None, token |-> None, saw |-> <<>>, text |-> None]
NoDraft == [stage |-> "none", token |-> None, text |-> None]
NewSession == [NoSession EXCEPT !.phase = "idle"]

-----------------------------------------------------------------------------
(* Proofs.                                                                 *)

Held == {o \in Range(waiting) \cup {op} : o.cmd # "none"} \cup {session}
ControlProofs == {o.cp : o \in Held} \ {None}
TargetProofs  == {o.tp : o \in Held} \ {None}

Gates == {control.gate} \cup {p.gate : p \in ControlProofs} \cup {p.trigger.gate : p \in TargetProofs}
           \cup (IF target.trigger = None THEN {} ELSE {target.trigger.gate})
Triggers == {p.trigger.id : p \in TargetProofs} \cup {p.trigger : p \in host.prepared}
              \cup (IF target.trigger = None THEN {} ELSE {target.trigger.id})
NewControlCap == Fresh(host.controls \cup {p.cap : p \in ControlProofs} \cup {p.control : p \in host.prepared})
NewTargetCap  == Fresh(host.targets \cup {p.cap : p \in TargetProofs} \cup {p.target : p \in host.prepared})

ControlProof(kind) == [cap |-> NewControlCap, gate |-> control.gate, seen |-> control.seen, kind |-> kind]
TargetProof(snapshot) ==
  [cap |-> NewTargetCap, trigger |-> target.trigger, wake |-> Last(snapshot).text \in Wakes]

(* assertPersistentGate: the state is still the one the proof was made from. *)
GateHolds(gate, seen) == control.active /\ ~control.stopped /\ control.gate = gate /\ control.seen = seen
Bound(cp) == GateHolds(cp.gate, cp.seen)
Binding(tp, cp) == tp.trigger.gate = cp.gate /\ tp.trigger.seen = cp.seen

-----------------------------------------------------------------------------
(* The steps of an operation.                                              *)

(* Mutant: the control chat is not read again before a reply.               *)
RereadGate(cp) == <<"bound">>

Reread(cp) == <<"bound">> \o (IF cp.kind = "ui-observed" THEN <<"control", "consume">> ELSE <<>>)
Check == <<"read", "evaluate">>

Cancel == <<"clear", "proven", "clearPending", "release">>
Consume(token) == IF \E p \in host.prepared : p.token = token THEN <<"consume-trigger">> ELSE <<>>
Finalize(token) == <<"uncertain">> \o Consume(token) \o <<"clear-if-present">>

Program(o) ==
  CASE o.cmd = "read-control"  -> (IF host.kind = "tools" THEN <<>> ELSE <<"recover">>) \o <<"control", "consume">>
    [] o.cmd = "read-target"   -> Check
    [] o.cmd = "read-direct"   -> <<"recover", "gate">> \o Check
    [] o.cmd = "read-chat"     -> Check
    [] o.cmd = "prepare"       -> Reread(o.cp) \o Check \o <<"claim", "put", "type">>
    [] o.cmd = "show-card"     -> IF o.tp.wake THEN <<"card-intent">> \o Reread(o.cp) \o Check
                                       \o <<"send-card", "card-verified", "consume-trigger">> ELSE <<>>
    [] o.cmd = "accept-card"   -> <<"card-intent", "look", "send-card", "card-verified">>
    [] o.cmd = "verify-draft"  -> <<"verify-draft">>
    [] o.cmd = "submit"        -> Reread(o.cp) \o Check \o <<"press">>
    [] o.cmd = "abort"         -> Cancel
    [] o.cmd = "verify-send"   -> <<"see-sent", "verified">> \o Consume(o.token) \o <<"clearPending">>
    [] o.cmd = "prepare-draft" -> <<"look", "claim", "put">>
    [] o.cmd = "abort-draft"   -> <<"look", "put-intent", "release", "clear-if-present", "clear-intent">>
    [] o.cmd = "get-state"     -> <<"recover">>
    [] o.cmd = "establish"     -> IF control.active /\ pending = None THEN <<>> ELSE <<"look-at-marker">>

SubmitFailed(o) == IF Head(o.todo) = "press" THEN Finalize(o.token) ELSE Cancel

(* What the catch around a failing step does.  A cleanup that fails gives    *)
(* up, but for finalizeUncertainSendAttempt, which ignores a lost mark.      *)
Recovery(o) ==
  LET step == Head(o.todo)
  IN IF step = "uncertain" THEN Tail(o.todo)
     ELSE IF o.failed THEN <<>>
     ELSE CASE step = "put" /\ o.conv = "target"   -> <<"release">>
            [] o.cmd = "prepare" /\ step = "type"  -> Cancel
            [] o.cmd = "submit"                    -> SubmitFailed(o)
            [] o.cmd = "verify-send"               -> Finalize(o.token)
            [] o.cmd \in {"show-card", "accept-card"} /\ step \notin {"card-intent", "consume-trigger"}
                                                   -> <<"card-uncertain">>
            [] o.cmd = "establish" /\ step \in {"type", "verify-draft"}
                                                   -> <<"clear", "proven", "clear-if-present">>
            [] OTHER                               -> <<>>

Spend(thing) == budget[thing] > 0 /\ budget' = [budget EXCEPT ![thing] = @ - 1]

At(step) == Busy /\ op.todo # <<>> /\ Head(op.todo) = step
Then(o) == op' = [o EXCEPT !.todo = Tail(@)]
Done == Then(op)
Fail == op' = [op EXCEPT !.todo = Recovery(op), !.failed = TRUE]
Require(P) == IF P THEN Done ELSE Fail

Fault == Spend("faults")
(* A call of the surface has had its effect; its answer may still be lost.  *)
Answered(answer) == (answer /\ UNCHANGED budget) \/ (Fail /\ Fault)

Process == <<host, session, client, waiting>>
World   == <<chat, commands, composer, orphan, presses>>
SetComposer(c, text) == composer' = [composer EXCEPT ![c] = text]

ForgetPrepared == host' = [host EXCEPT !.prepared = {p \in @ : p.token # op.token}]
ForgetProofs(o) ==
  host' = [host EXCEPT !.controls = @ \ {o.cp.cap}, !.targets = @ \ {o.tp.cap}]

-----------------------------------------------------------------------------
(* The control chat: readControlConversation of adapters/wechat.ts.         *)

Reader == op.cmd \in {"read-control", "establish"}
Suffix(n) == SubSeq(commands, 1 + SelectInSeq(commands, LAMBDA x : x = Marker), n)
Unseen(n) == SubSeq(Suffix(n), control.seen + 1, Len(Suffix(n)))
Stopped == [control EXCEPT !.stopped = TRUE, !.reason = "user", !.gate = Fresh(Gates)]

Running == [control EXCEPT !.stopped = FALSE, !.reason = None, !.gate = Fresh(Gates)]
Activated ==
  IF control.active THEN control
  ELSE IF control.stopped /\ control.reason = "boundary" THEN [Running EXCEPT !.active = TRUE]
  ELSE [control EXCEPT !.active = TRUE]

AssertBound ==
  /\ At("bound")
  /\ Require(Bound(op.cp))
  /\ UNCHANGED <<World, durable, Process, budget>>

(* The chat is read; a boundary found for the first time becomes active, and *)
(* a chat without exactly one marker is refused, but not before a stop       *)
(* anywhere in it has been obeyed.                                          *)
ReadControl ==
  /\ At("control")
  /\ IF Count(commands, Marker) = 1
       THEN /\ control' = Activated
            /\ Then([op EXCEPT !.ctl = Len(commands)])
       ELSE IF "stop" \in Range(commands)
       THEN /\ control' = Stopped
            /\ op' = [op EXCEPT !.batch = "ambiguous", !.todo = <<"stop-clear", "stop-proven">>]
       ELSE UNCHANGED control /\ Fail
  /\ UNCHANGED <<World, outgoing, target, known, pending, intent, ledger, Process, budget>>

(* A stop among the unseen messages stops, whatever follows it; otherwise a  *)
(* resume takes back a stop of the owner.  An operation on a reply goes on   *)
(* only when nothing was unseen and nothing is stopped.                     *)
ConsumeControl ==
  /\ At("consume")
  /\ LET unseen == Unseen(op.ctl)
         counted == [control EXCEPT !.seen = Len(Suffix(op.ctl))]
     IN IF "stop" \in Range(unseen)
          THEN /\ control' = Stopped
               /\ op' = [op EXCEPT !.batch = "stop",
                                   !.todo = <<"stop-clear", "stop-proven">> \o Tail(@)]
          ELSE /\ control' = IF unseen = <<>> THEN control
                             ELSE IF "resume" \in Range(unseen) /\ control.stopped /\ control.reason = "user"
                             THEN [Running EXCEPT !.seen = counted.seen]
                             ELSE counted
               /\ Require(Reader \/ (unseen = <<>> /\ ~control.stopped))
  /\ UNCHANGED <<World, outgoing, target, known, pending, intent, ledger, Process, budget>>

StopClear ==
  /\ At("stop-clear")
  /\ SetComposer("target", Empty)
  /\ Answered(Done)
  /\ UNCHANGED <<chat, commands, orphan, presses, durable, Process>>

StopProven ==
  /\ At("stop-proven")
  /\ IF composer["target"] = Empty /\ op.batch = "stop"
       THEN control' = [control EXCEPT !.seen = Len(Suffix(op.ctl))] /\ Require(Reader)
       ELSE UNCHANGED control /\ Fail
  /\ UNCHANGED <<World, outgoing, target, known, pending, intent, ledger, Process, budget>>

-----------------------------------------------------------------------------
(* The boundary: establishControlBoundaryForSupervisor.                     *)

IsCandidate == pending # None /\ pending.conv = "control"
ClearCandidate ==
  IF composer["control"] = Empty THEN <<"clearPending">> ELSE <<"clear", "proven", "clearPending">>

LookAtMarker ==
  /\ At("look-at-marker")
  /\ LET marks == Count(commands, Marker)
         mine == [op EXCEPT !.token = IF IsCandidate THEN pending.token ELSE budget.tokens]
     IN \/ /\ marks = 1 /\ (pending = None \/ IsCandidate)
           /\ op' = [mine EXCEPT !.todo = (IF control.active THEN <<>> ELSE <<"activate">>)
                                          \o (IF IsCandidate THEN ClearCandidate ELSE <<>>)]
           /\ UNCHANGED budget
        \/ /\ marks = 0 /\ ~control.active /\ pending = None /\ composer["control"] = Empty
           /\ Spend("tokens")
           /\ op' = [mine EXCEPT !.todo = <<"put", "type", "verify-draft", "press-marker",
                                            "control", "consume", "activate", "clearPending">>]
        \/ /\ \/ marks > 1
              \/ pending # None /\ ~IsCandidate
              \/ marks = 0 /\ (control.active \/ pending # None \/ composer["control"] # Empty)
           /\ Fail /\ UNCHANGED budget
  /\ UNCHANGED <<World, durable, Process>>

Activate ==
  /\ At("activate")
  /\ control' = Activated
  /\ Done
  /\ UNCHANGED <<World, outgoing, target, known, pending, intent, ledger, Process, budget>>

Unasked(kind, what) ==
  [kind |-> kind, what |-> what, trigger |-> None, saw |-> <<>>, checked |-> <<>>, heard |-> <<>>]

PressMarker ==
  /\ At("press-marker")
  /\ IF composer["control"] = Marker
       THEN /\ commands' = Append(commands, Marker)
            /\ presses' = Append(presses, Unasked("marker", Marker))
            /\ SetComposer("control", Empty)
            /\ Answered(Done)
       ELSE Fail /\ UNCHANGED <<commands, presses, composer, budget>>
  /\ UNCHANGED <<chat, orphan, durable, Process>>

-----------------------------------------------------------------------------
(* Reading the target chat: evaluateTargetReply.                           *)

Continues(base, seen) ==
  \/ base = seen
  \/ base # <<>> /\ Count(seen, Last(base)) = 1

(* A trigger is made for a last message that is incoming and new to the      *)
(* vault, or whose chat has become unread; it is kept while the chat and the *)
(* gate stay as they are.                                                  *)
Evaluated(snapshot, new, unread, gate, seen) ==
  LET next == [base |-> snapshot, unread |-> unread, trigger |-> None]
      old  == target.trigger
      continues == target.base # None /\ Continues(target.base, snapshot)
      incoming == snapshot # <<>> /\ Last(snapshot).dir = "in"
      current == old = None \/ (old.gate = gate /\ old.seen = seen)
      arrived == target.base # <<>> /\ Last(snapshot) # Last(target.base) /\ new
      flagged == target.base = snapshot /\ ~target.unread /\ unread
  IN IF ~continues \/ ~incoming \/ ~current THEN next
     ELSE IF old # None /\ old.chat = snapshot THEN [next EXCEPT !.trigger = old]
     ELSE IF arrived \/ flagged
       THEN [next EXCEPT !.trigger = [id |-> Fresh(Triggers), msg |-> Last(snapshot).text,
                                      gate |-> gate, seen |-> seen, chat |-> snapshot]]
     ELSE next

Appended(messages) == known \cup Range(messages)

(* The chat is read, for the card with an empty composer, and its messages    *)
(* enter the vault.                                                        *)
ReadChat ==
  /\ At("read")
  /\ IF control.stopped \/ (op.cmd = "show-card" /\ composer["target"] # Empty)
       THEN Fail /\ UNCHANGED known
       ELSE /\ known' = Appended(chat)
            /\ Then([op EXCEPT !.chat = chat, !.free = (composer["target"] = Empty),
                               !.new = (chat # <<>> /\ Last(chat) \notin known)])
  /\ UNCHANGED <<World, control, outgoing, target, pending, intent, ledger, Process, budget>>

(* Mutant: any trigger will do for a reply.                                  *)
TriggerExists(trigger) == op.tp = None \/ trigger # None

(* The trigger of the reply is still the one of the chat.                    *)
TriggerHolds(trigger) == op.tp = None \/ (trigger # None /\ trigger.id = op.tp.trigger.id)

Gate == IF op.cp = None THEN control ELSE op.cp

EvaluateReply ==
  /\ At("evaluate")
  /\ \E unread \in budget.unread :
       IF GateHolds(Gate.gate, Gate.seen)
         THEN /\ target' = Evaluated(op.chat, op.new, unread, Gate.gate, Gate.seen)
              /\ Require(TriggerHolds(target'.trigger))
         ELSE UNCHANGED target /\ Fail
  /\ UNCHANGED <<World, control, outgoing, known, pending, intent, ledger, Process, budget>>

(* readTargetDirectForSupervisor makes its control proof of the durable gate. *)
TakeGate ==
  /\ At("gate")
  /\ IF control.stopped
       THEN op' = [op EXCEPT !.todo = <<>>] /\ UNCHANGED host
       ELSE LET proof == ControlProof("persistent-stop-gate")
            IN /\ Then([op EXCEPT !.cp = proof])
               /\ host' = [host EXCEPT !.controls = @ \cup {proof.cap}]
  /\ UNCHANGED <<World, durable, session, client, waiting, budget>>

(* recoverTerminalUncertainPending, a write at a time: the trigger of a      *)
(* pending send that is marked uncertain, then the pending send.            *)
Recover ==
  /\ At("recover")
  /\ IF /\ pending # None /\ pending.conv = "target" /\ pending.verified
        /\ ~control.stopped /\ outgoing[pending.text] = "uncertain"
       THEN IF target.trigger # None /\ pending.base # <<>> /\ Last(pending.base) = In(target.trigger.msg)
              THEN target' = [target EXCEPT !.trigger = None] /\ UNCHANGED <<op, pending>>
              ELSE pending' = None /\ Done /\ UNCHANGED target
       ELSE Done /\ UNCHANGED <<target, pending>>
  /\ UNCHANGED <<World, control, outgoing, known, intent, ledger, Process, budget>>

-----------------------------------------------------------------------------
(* A reply: prepareDraftFromSnapshot, replaceDraft, submit, verify, cancel.  *)

(* The chat is read outside an evaluation: with an empty composer, and for a *)
(* draft of the tools without the text in the chat.                        *)
Look ==
  /\ At("look")
  /\ LET free == ~control.stopped /\ composer["target"] = Empty
     IN /\ IF free THEN Then([op EXCEPT !.chat = chat, !.free = TRUE]) ELSE Fail
        /\ known' = IF free /\ op.cmd = "accept-card" THEN Appended(chat) ELSE known
  /\ UNCHANGED <<World, control, outgoing, target, pending, intent, ledger, Process, budget>>

Claim ==
  /\ At("claim")
  /\ budget.tokens > 0
  /\ IF /\ op.free /\ Out(op.text) \notin Range(op.chat)
        /\ IF op.cp = None THEN ~control.stopped ELSE Bound(op.cp)
        /\ outgoing[op.text] = "none"
       THEN /\ outgoing' = [outgoing EXCEPT ![op.text] = "claimed"]
            /\ Then([op EXCEPT !.token = budget.tokens])
            /\ Spend("tokens")
       ELSE Fail /\ UNCHANGED <<outgoing, budget>>
  /\ UNCHANGED <<World, control, target, known, pending, intent, ledger, Process>>

PutPending ==
  /\ At("put")
  /\ pending' = [conv |-> op.conv, text |-> op.text, token |-> op.token, base |-> op.chat, verified |-> FALSE]
  /\ Done
  /\ UNCHANGED <<World, control, outgoing, target, known, intent, ledger, Process, budget>>

Type ==
  /\ At("type")
  /\ SetComposer(op.conv, op.text)
  /\ \/ /\ Done /\ UNCHANGED budget
        /\ host' = IF op.cmd # "prepare" THEN host
                   ELSE [host EXCEPT !.prepared = @ \cup {[token |-> op.token, trigger |-> op.tp.trigger.id,
                                                          control |-> op.cp.cap, target |-> op.tp.cap]},
                                     !.controls = @ \ {op.cp.cap}, !.targets = @ \ {op.tp.cap}]
     \/ Fail /\ Fault /\ UNCHANGED host
  /\ UNCHANGED <<chat, commands, orphan, presses, durable, session, client, waiting>>

VerifyDraft ==
  /\ At("verify-draft")
  /\ IF (op.conv = "target" => ~control.stopped) /\ composer[op.conv] = pending.text
       THEN pending' = [pending EXCEPT !.verified = TRUE] /\ Done
       ELSE UNCHANGED pending /\ Fail
  /\ UNCHANGED <<World, control, outgoing, target, known, intent, ledger, Process, budget>>

(* What the press of a reply, or the card, answers, and what was seen.      *)
Heard == IF op.cp.kind = "ui-observed" THEN Suffix(op.began)
         ELSE SubSeq(Suffix(Len(commands)), 1, control.seen)
Sending(kind, what) ==
  [kind |-> kind, what |-> what, trigger |-> op.tp.trigger.msg, saw |-> op.saw, checked |-> op.chat, heard |-> Heard]

Press ==
  /\ At("press")
  /\ IF Bound(op.cp) /\ composer["target"] = op.text
       THEN /\ chat' = Append(chat, Out(op.text))
            /\ SetComposer("target", Empty)
            /\ presses' = Append(presses, Sending("reply", op.text))
            /\ Answered(Done)
       ELSE Fail /\ UNCHANGED <<chat, composer, presses, budget>>
  /\ UNCHANGED <<commands, orphan, durable, Process>>

SentSeen == Out(pending.text) \in Range(chat) \ Range(pending.base)

SeeSent ==
  /\ At("see-sent")
  /\ IF ~control.stopped /\ composer["target"] = Empty /\ SentSeen
       THEN Then([op EXCEPT !.chat = chat])
       ELSE Fail
  /\ UNCHANGED <<World, durable, Process, budget>>

Settle(status) ==
  IF outgoing[pending.text] = "claimed"
    THEN outgoing' = [outgoing EXCEPT ![pending.text] = status] /\ Done
    ELSE UNCHANGED outgoing /\ Fail

(* The mark, and then the messages of the same snapshot enter the vault.    *)
MarkVerified ==
  /\ At("verified")
  /\ Settle("verified")
  /\ known' = IF outgoing'[pending.text] = "verified" THEN Appended(op.chat) ELSE known
  /\ UNCHANGED <<World, control, target, pending, intent, ledger, Process, budget>>

MarkUncertain ==
  /\ At("uncertain")
  /\ Settle("uncertain")
  /\ UNCHANGED <<World, control, target, known, pending, intent, ledger, Process, budget>>

TriggerOf ==
  IF op.cmd = "show-card" THEN op.tp.trigger.id
  ELSE (CHOOSE p \in host.prepared : p.token = op.token).trigger

ConsumeTrigger ==
  /\ At("consume-trigger")
  /\ IF target.trigger # None /\ target.trigger.id = TriggerOf
       THEN /\ target' = [target EXCEPT !.trigger = None]
            /\ Done
            /\ IF op.cmd = "verify-send" /\ ~op.failed THEN ForgetPrepared ELSE UNCHANGED host
       ELSE Fail /\ UNCHANGED <<target, host>>
  /\ UNCHANGED <<World, control, outgoing, known, pending, intent, ledger, session, client, waiting, budget>>

ClearPending ==
  /\ At("clearPending") \/ At("clear-if-present")
  /\ IF pending = None
       THEN Require(At("clear-if-present")) /\ UNCHANGED pending
       ELSE IF pending.token = op.token THEN pending' = None /\ Done
       ELSE Fail /\ UNCHANGED pending
  /\ IF At("clear-if-present") THEN ForgetPrepared ELSE UNCHANGED host
  /\ UNCHANGED <<World, control, outgoing, target, known, intent, ledger, session, client, waiting, budget>>

(* releaseOutgoingClaim and releaseOutgoingClaimForAbort.                   *)
Release ==
  /\ At("release")
  /\ IF outgoing[op.text] \in {"claimed", "none"}
       THEN /\ outgoing' = [outgoing EXCEPT ![op.text] = "none"]
            /\ Done
            /\ ForgetPrepared
       ELSE Fail /\ UNCHANGED <<outgoing, host>>
  /\ UNCHANGED <<World, control, target, known, pending, intent, ledger, session, client, waiting, budget>>

ClearDraft ==
  /\ At("clear")
  /\ SetComposer(op.conv, Empty)
  /\ Answered(Done)
  /\ UNCHANGED <<chat, commands, orphan, presses, durable, Process>>

Proven ==
  /\ At("proven")
  /\ Require(composer[op.conv] = Empty)
  /\ UNCHANGED <<World, durable, Process, budget>>

PutIntent ==
  /\ At("put-intent")
  /\ IF intent = None
       THEN IF outgoing[op.text] = "claimed"
              THEN intent' = [token |-> op.token, text |-> op.text] /\ Done
              ELSE UNCHANGED intent /\ Fail
       ELSE UNCHANGED intent /\ Done
  /\ UNCHANGED <<World, control, outgoing, target, known, pending, ledger, Process, budget>>

ClearIntent ==
  /\ At("clear-intent")
  /\ intent' = None
  /\ Done
  /\ UNCHANGED <<World, control, outgoing, target, known, pending, ledger, Process, budget>>

-----------------------------------------------------------------------------
(* The card: deliverComfortStationCard and its ledger.                      *)

CardKey == IF op.cmd = "accept-card" THEN Acceptance ELSE op.tp.trigger.msg
SetCard(status) == ledger' = [ledger EXCEPT ![CardKey] = status]

(* Mutant: a card that may have been sent is sent again.                     *)
CardUnverified == ledger[CardKey] # "verified"

CardFree == ledger[CardKey] = "none"

ClaimCard ==
  /\ At("card-intent")
  /\ IF CardFree
       THEN SetCard("intent") /\ Done
       ELSE /\ UNCHANGED ledger
            /\ op' = [op EXCEPT !.todo = IF op.cmd = "show-card" THEN <<"consume-trigger">> ELSE <<>>]
  /\ UNCHANGED <<World, control, outgoing, target, known, pending, intent, Process, budget>>

SendCard ==
  /\ At("send-card")
  /\ presses' = Append(presses,
       IF op.cmd = "show-card" THEN Sending("card", CardKey) ELSE Unasked("card", Acceptance))
  /\ Answered(Done)
  /\ UNCHANGED <<chat, commands, composer, orphan, durable, Process>>

SettleCard ==
  /\ At("card-verified") \/ At("card-uncertain")
  /\ IF ledger[CardKey] = "intent"
       THEN SetCard(IF At("card-verified") THEN "verified" ELSE "uncertain") /\ Done
       ELSE UNCHANGED ledger /\ Fail
  /\ UNCHANGED <<World, control, outgoing, target, known, pending, intent, Process, budget>>

-----------------------------------------------------------------------------
(* An operation begins, fails, and returns to the session or to the client.  *)

PendingIs(o) == pending # None /\ pending.token = o.token
MayPrepare(o) ==
  /\ intent = None /\ pending = None
  /\ Binding(o.tp, o.cp) /\ o.tp.cap \in host.targets

(* The checks of an operation before its first effect.                      *)
Admissible(o) ==
  CASE o.cmd = "read-target"   -> o.cp.cap \in host.controls /\ Bound(o.cp)
    [] o.cmd = "prepare"       -> MayPrepare(o) /\ o.cp.cap \in host.controls /\ Bound(o.cp)
    [] o.cmd = "show-card"     -> MayPrepare(o)
    [] o.cmd = "accept-card"   -> intent = None /\ pending = None /\ control.active /\ ~control.stopped
    [] o.cmd = "submit"        -> /\ Binding(o.tp, o.cp) /\ o.token \notin host.consumed
                                  /\ PendingIs(o) /\ pending.verified
                                  /\ [token |-> o.token, trigger |-> o.tp.trigger.id,
                                      control |-> o.cp.cap, target |-> o.tp.cap] \in host.prepared
    [] o.cmd = "abort"         -> /\ o.token \notin host.consumed /\ PendingIs(o)
                                  /\ \E p \in host.prepared : p.token = o.token
    [] o.cmd = "verify-draft"  -> intent = None /\ PendingIs(o)
    [] o.cmd = "verify-send"   -> intent = None /\ PendingIs(o) /\ pending.verified
    [] o.cmd = "prepare-draft" -> intent = None /\ pending = None
    [] o.cmd = "abort-draft"   -> /\ IF intent = None THEN PendingIs(o)
                                     ELSE intent.token = o.token /\ (pending = None \/ PendingIs(o))
                                  /\ pending # None => ~pending.verified
    [] o.cmd = "establish"     -> control.active \/ intent = None
    [] OTHER                   -> TRUE

Begin ==
  /\ ~Busy /\ waiting # <<>>
  /\ LET o == Head(waiting)
         text == IF PendingIs(o) THEN pending.text ELSE o.text
         admitted == [o EXCEPT !.todo = Program(o), !.text = text, !.began = IF o.tp = None THEN 0 ELSE Len(commands)]
     IN IF Admissible(o)
          THEN /\ op' = admitted
               /\ host' = IF o.cmd = "submit" THEN [host EXCEPT !.consumed = @ \cup {o.token}] ELSE host
          ELSE op' = [o EXCEPT !.failed = TRUE] /\ UNCHANGED host
  /\ waiting' = Tail(waiting)
  /\ UNCHANGED <<World, durable, session, client, budget>>

(* A step fails before it has had its effect.                               *)
StepFails ==
  /\ Busy /\ op.todo # <<>>
  /\ Fail /\ Fault
  /\ UNCHANGED <<World, durable, Process>>

Ended(next) == session' = [session EXCEPT !.phase = next, !.cp = None, !.tp = None, !.token = None]

(* What the session makes of a result: LiveSupervisorSession.execute after   *)
(* its await.                                                              *)
SessionReturns ==
  CASE op.cmd = "read-control" ->
         LET proof == ControlProof("ui-observed")
         IN /\ session' = [session EXCEPT !.phase = "control-read", !.cp = proof, !.tp = None, !.token = None]
            /\ host' = [host EXCEPT !.controls = @ \cup {proof.cap}]
    [] op.cmd \in {"read-target", "read-direct"} ->
         LET proof == IF op.cp = None \/ target.trigger = None THEN None ELSE TargetProof(op.chat)
             read == [session EXCEPT !.phase = "target-read", !.tp = proof, !.saw = op.chat]
         IN /\ session' = IF op.cmd = "read-target" THEN read ELSE [read EXCEPT !.cp = op.cp, !.token = None]
            /\ host' = IF proof = None THEN host ELSE [host EXCEPT !.targets = @ \cup {proof.cap}]
    [] op.cmd = "prepare" ->
         session' = [session EXCEPT !.phase = "prepared", !.token = op.token, !.text = op.text] /\ UNCHANGED host
    [] op.cmd = "verify-draft" -> session' = [session EXCEPT !.phase = "draft-verified"] /\ UNCHANGED host
    [] op.cmd = "show-card"    -> Ended("send-verified") /\ ForgetProofs(op)
    [] op.cmd = "verify-send"  -> Ended("send-verified") /\ UNCHANGED host
    [] op.cmd = "abort"        -> Ended("idle") /\ UNCHANGED host
    [] OTHER                   -> UNCHANGED <<session, host>>

ClientReturns ==
  client' = CASE op.cmd = "prepare-draft" -> [stage |-> "prepared", token |-> op.token, text |-> op.text]
              [] op.cmd = "verify-draft"  -> [client EXCEPT !.stage = "verified"]
              [] op.cmd \in {"verify-send", "abort-draft"} -> NoDraft
              [] OTHER -> client

Return ==
  /\ Busy /\ op.todo = <<>>
  /\ op' = NoOp
  /\ IF op.failed THEN UNCHANGED <<session, client, host>>
     ELSE IF host.kind = "tools" THEN ClientReturns /\ UNCHANGED <<session, host>>
     ELSE SessionReturns /\ UNCHANGED client
  /\ UNCHANGED <<World, durable, waiting, budget>>

-----------------------------------------------------------------------------
(* Calls.  A command is checked against the phase when it is called, and     *)
(* carries the proofs the session holds then.                              *)

Command(cmd, conv, text, token) ==
  [cmd |-> cmd, todo |-> <<>>, failed |-> FALSE, conv |-> conv, text |-> text, token |-> token,
   cp |-> session.cp, tp |-> session.tp, saw |-> session.saw, chat |-> <<>>, free |-> FALSE,
   new |-> FALSE, began |-> 0, ctl |-> 0, batch |-> "none"]
Enqueue(o) ==
  /\ o.cmd \in budget.calls
  /\ Len(waiting) < IF Busy THEN budget.ahead ELSE 1
  /\ waiting' = Append(waiting, o)
  /\ UNCHANGED <<World, durable, host, client, op, budget>>

InSession == host.kind \in {"session", "direct"}
Phase(S) == session.phase \in S

SessionReads(cmd) ==
  /\ InSession
  /\ \/ cmd = "establish" /\ ~Phase({"prepared", "draft-verified", "submitted", "closed"})
     \/ cmd = "read-control" /\ Phase({"idle", "send-verified"})
     \/ cmd = "read-direct" /\ host.kind = "direct" /\ Phase({"idle", "send-verified"})
     \/ cmd = "read-target" /\ host.kind = "session" /\ Phase({"control-read"}) /\ session.cp # None
  /\ LET o == Command(cmd, IF cmd = "establish" THEN "control" ELSE "target", Marker, None)
     IN Enqueue(IF cmd = "read-target" THEN [o EXCEPT !.tp = None]
                ELSE [o EXCEPT !.cp = None, !.tp = None])
  /\ UNCHANGED session

SessionReplies(cmd, text) ==
  /\ InSession /\ Phase({"target-read"}) /\ session.cp # None /\ session.tp # None
  /\ cmd \in {"prepare", "show-card"}
  /\ Enqueue(Command(cmd, "target", text, None))
  /\ UNCHANGED session

SessionSends(cmd) ==
  /\ InSession
  /\ \/ cmd = "verify-draft" /\ Phase({"prepared"})
     \/ cmd = "submit" /\ Phase({"draft-verified"}) /\ session.cp # None /\ session.tp # None
     \/ cmd = "abort" /\ Phase({"prepared", "draft-verified"})
     \/ cmd = "verify-send" /\ Phase({"submitted"})
  /\ session.token # None
  /\ Enqueue(Command(cmd, "target", session.text, session.token))
  /\ session' = IF cmd = "submit" THEN [session EXCEPT !.phase = "submitted"] ELSE session

SessionCloses ==
  /\ InSession /\ ~Phase({"closed"})
  /\ Ended("closed")
  /\ UNCHANGED <<World, durable, host, client, waiting, op, budget>>

AcceptCard ==
  /\ host.kind = "session"
  /\ Enqueue([Command("accept-card", "target", None, None) EXCEPT !.cp = None, !.tp = None])
  /\ UNCHANGED session

(* The tools of live-server.ts, and their client, which types the draft and  *)
(* presses Return only once the draft is verified.                         *)
ToolCalls(cmd, text) ==
  /\ host.kind = "tools"
  /\ \/ cmd \in {"get-state", "read-chat", "read-control"} /\ text = None
     \/ cmd = "prepare-draft" /\ client.token = None /\ text # None
     \/ cmd \in {"verify-draft", "abort-draft", "verify-send"} /\ client.token # None /\ text = client.text
  /\ Enqueue([Command(cmd, "target", text, client.token) EXCEPT !.cp = None, !.tp = None])
  /\ UNCHANGED session

ClientTypes ==
  /\ client.stage = "prepared" /\ composer["target"] = Empty
  /\ SetComposer("target", client.text)
  /\ UNCHANGED <<chat, commands, orphan, presses, durable, Process, op, budget>>

ClientPresses ==
  /\ client.stage = "verified" /\ composer["target"] = client.text
  /\ chat' = Append(chat, Out(client.text))
  /\ SetComposer("target", Empty)
  /\ presses' = Append(presses, Unasked("reply", client.text))
  /\ client' = [client EXCEPT !.stage = "pressed"]
  /\ UNCHANGED <<commands, orphan, durable, host, session, waiting, op, budget>>

-----------------------------------------------------------------------------
(* The contact, the owner, and the process.                                *)

ContactWrites(m) ==
  /\ Spend("in")
  /\ chat' = Append(chat, In(m))
  /\ UNCHANGED <<commands, composer, orphan, presses, durable, Process, op>>

OwnerCommands(c) ==
  /\ Spend("owner")
  /\ commands' = Append(commands, c)
  /\ UNCHANGED <<chat, composer, orphan, presses, durable, Process, op>>

OwnerTypes ==
  /\ Spend("typed")
  /\ SetComposer("target", Own)
  /\ UNCHANGED <<chat, commands, orphan, presses, durable, Process, op>>

(* The owner presses Return on whatever the composer of the chat holds.      *)
OwnerPresses ==
  /\ composer["target"] # Empty
  /\ Spend("typed")
  /\ chat' = Append(chat, Out(composer["target"]))
  /\ SetComposer("target", Empty)
  /\ UNCHANGED <<commands, orphan, presses, durable, Process, op>>

(* The process ends, anywhere, and another takes the lease.  A key press of  *)
(* the bridge, a child process, may still land.                            *)
Restart(kind) ==
  /\ Spend("starts")
  /\ orphan' \in IF At("press") /\ Bound(op.cp) THEN {orphan, Sending("reply", op.text)} ELSE {orphan}
  /\ host' = [NoHost EXCEPT !.kind = kind]
  /\ session' = IF kind = "tools" THEN NoSession ELSE NewSession
  /\ waiting' = <<>>
  /\ op' = NoOp
  /\ UNCHANGED <<chat, commands, composer, presses, durable, client>>

OrphanLands ==
  /\ orphan # None
  /\ orphan' = None
  /\ IF composer["target"] = orphan.what
       THEN /\ chat' = Append(chat, Out(orphan.what))
            /\ SetComposer("target", Empty)
            /\ presses' = Append(presses, orphan)
       ELSE UNCHANGED <<chat, composer, presses>>
  /\ UNCHANGED <<commands, durable, Process, op, budget>>

(* The runtime has never run, or an earlier process has read the chat and     *)
(* made the boundary active.                                               *)
Init ==
  /\ budget \in Budgets
  /\ composer = [c \in {"target", "control"} |-> Empty]
  /\ IF budget.begun
       THEN /\ commands = <<Marker>> /\ chat \in {<<>>} \cup {<<In(x)>> : x \in budget.msgs}
            /\ control = [active |-> TRUE, stopped |-> FALSE, reason |-> None, gate |-> 1, seen |-> 0]
       ELSE /\ commands = <<>> /\ chat = <<>>
            /\ control = [active |-> FALSE, stopped |-> TRUE, reason |-> "boundary", gate |-> 1, seen |-> 0]
  /\ target = [base |-> IF chat = <<>> THEN None ELSE chat, unread |-> FALSE, trigger |-> None]
  /\ known = Range(chat)
  /\ outgoing = [r \in Replies |-> "none"]
  /\ pending = None /\ intent = None
  /\ ledger = [k \in Wakes \cup {Acceptance} |-> "none"]
  /\ host = NoHost /\ session = NoSession /\ client = NoDraft
  /\ waiting = <<>> /\ op = NoOp
  /\ orphan = None /\ presses = <<>>

Steps ==
  \/ AssertBound \/ ReadControl \/ ConsumeControl \/ StopClear \/ StopProven
  \/ LookAtMarker \/ Activate \/ PressMarker
  \/ ReadChat \/ EvaluateReply \/ TakeGate \/ Recover \/ Look
  \/ Claim \/ PutPending \/ Type \/ VerifyDraft \/ Press \/ SeeSent
  \/ MarkVerified \/ MarkUncertain \/ ConsumeTrigger \/ ClearPending \/ Release
  \/ ClearDraft \/ Proven \/ PutIntent \/ ClearIntent
  \/ ClaimCard \/ SendCard \/ SettleCard

Calls ==
  \/ \E cmd \in {"establish", "read-control", "read-target", "read-direct"} : SessionReads(cmd)
  \/ \E text \in budget.texts : SessionReplies("prepare", text)
  \/ SessionReplies("show-card", None)
  \/ \E cmd \in {"verify-draft", "submit", "abort", "verify-send"} : SessionSends(cmd)
  \/ SessionCloses
  \/ AcceptCard
  \/ \E cmd \in {"get-state", "read-chat", "read-control", "prepare-draft", "verify-draft",
                 "abort-draft", "verify-send"}, text \in budget.texts \cup {None} : ToolCalls(cmd, text)

Next ==
  \/ Steps \/ StepFails
  \/ Begin \/ Return \/ Calls
  \/ ClientTypes \/ ClientPresses
  \/ \E m \in budget.msgs : ContactWrites(m)
  \/ \E c \in budget.commands : OwnerCommands(c)
  \/ OwnerTypes \/ OwnerPresses
  \/ \E kind \in budget.hosts : Restart(kind)
  \/ OrphanLands

Spec == Init /\ [][Next]_vars

-----------------------------------------------------------------------------
(* Properties.                                                             *)

Gated(cp) == cp = None \/ cp \in [cap : Nat, gate : Nat, seen : Nat, kind : {"ui-observed", "persistent-stop-gate"}]
Pending == [conv : {"target", "control"}, text : Replies \cup {Marker}, token : Nat,
            base : Seq([dir : {"in", "out"}, text : Msgs \cup Replies \cup {Own}]), verified : BOOLEAN]

(* The stores of the runtime and its session keep their types.              *)
LiveTypeOK ==
  /\ control \in [active : BOOLEAN, stopped : BOOLEAN, reason : {"boundary", "user", None}, gate : Nat, seen : Nat]
  /\ control.stopped <=> control.reason # None
  /\ outgoing \in [Replies -> {"none", "claimed", "verified", "uncertain"}]
  /\ ledger \in [Wakes \cup {Acceptance} -> {"none", "intent", "verified", "uncertain"}]
  /\ pending = None \/ pending \in Pending
  /\ intent = None \/ intent \in [token : Nat, text : Replies]
  /\ composer \in [{"target", "control"} -> Replies \cup {Empty, Own, Marker}]
  /\ Gated(session.cp)

(* No reply, no card and no marker of the boundary is ever sent twice,       *)
(* whatever is cancelled, aborted, retried, lost or cut off in between: each  *)
(* has its claim on disk before it is sent.                                 *)
SentOnce ==
  \A i, j \in DOMAIN presses :
    presses[i].kind = presses[j].kind /\ presses[i].what = presses[j].what => i = j

(* The session sends a reply, and the card, only to the chat its client saw  *)
(* when it decided: the last check before the press finds nothing new.      *)
NothingSlipsIn ==
  \A p \in Range(presses) :
    p.trigger # None => p.checked = p.saw /\ p.checked # <<>> /\ Last(p.checked) = In(p.trigger)

(* No reply goes out over a stop: of the control chat behind the marker, as  *)
(* it was when the sending began (as far as it was ever consumed, for a       *)
(* session that trusts the durable gate), a resume followed every stop.      *)
StopIsHonoured ==
  \A p \in Range(presses) : \A j \in DOMAIN p.heard :
    p.heard[j] = "stop" => \E k \in DOMAIN p.heard : k > j /\ p.heard[k] = "resume"

=============================================================================
