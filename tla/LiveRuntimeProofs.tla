------------------------- MODULE LiveRuntimeProofs -------------------------
(***************************************************************************)
(* What the live runtime sends, for any messages, replies and budgets: a     *)
(* reply goes only to the chat that was seen, never over a stop, and once.   *)
(* The first invariant follows an operation through its steps: which step    *)
(* comes after which (Follows, Recovers), what of the control chat is heard   *)
(* at each of them (StopsFit), and what the proofs it carries still stand    *)
(* for (AnswersFit).  The second adds what may still be sent: the replies no  *)
(* press has used (RepliesFit), the tokens spent (TokensFit), the calls that  *)
(* wait and the steps left (WaitingFits, OpStep), the marker and the cards    *)
(* (MarkersFit, CardsFit).                                                 *)
(***************************************************************************)
EXTENDS LiveRuntime, SequenceTheorems, FiniteSetTheorems, WellFoundedInduction, TLAPS

(***************************************************************************)
(* Types.                                                                  *)
(***************************************************************************)
Texts == Replies \union Msgs \union {Own, Marker, None, Empty}
Bubbles == [dir : {"in", "out"}, text : Texts]
Chats == Seq(Bubbles)
Orders == {"stop", "resume", "marker"}
Tokens == Nat \union {None}
ControlTypes ==
  [active : BOOLEAN, stopped : BOOLEAN, reason : {"boundary", "user", None}, gate : Nat, seen : Nat]
CpTypes == [cap : Nat, gate : Nat, seen : Nat, kind : {"ui-observed", "persistent-stop-gate"}]
TriggerTypes == [id : Nat, msg : Texts, gate : Nat, seen : Nat, chat : Chats]
TpTypes == [cap : Nat, trigger : TriggerTypes, wake : BOOLEAN]
TargetTypes ==
  [base : Chats \union {None}, unread : BOOLEAN, trigger : TriggerTypes \union {None}]
PendingTypes ==
  [conv : {"target", "control"}, text : Texts, token : Tokens, base : Chats, verified : BOOLEAN]
PressTypes ==
  [kind : {"reply", "card", "marker"}, what : Texts \union {Acceptance}, trigger : Texts,
   saw : Chats, checked : Chats, heard : Seq(Orders)]
BudgetTypes ==
  [in : Nat, owner : Nat, typed : Nat, faults : Nat, starts : Nat, tokens : Nat, ahead : Nat,
   unread : SUBSET BOOLEAN, begun : BOOLEAN, msgs : SUBSET Msgs, texts : SUBSET Replies,
   calls : SUBSET Commands, commands : SUBSET Orders, hosts : SUBSET {"session", "direct", "tools"}]

Places ==
  {"recover", "gate", "bound", "control", "consume", "stop-clear", "stop-proven", "read", "evaluate",
   "claim", "put", "type", "card-intent", "look", "send-card", "card-verified", "card-uncertain",
   "consume-trigger", "verify-draft", "press", "see-sent", "verified", "uncertain", "clear", "proven",
   "clearPending", "clear-if-present", "release", "put-intent", "clear-intent", "look-at-marker",
   "activate", "press-marker"}
OpTypes ==
  [cmd : Commands, todo : Seq(Places), failed : BOOLEAN, conv : {"target", "control"},
   text : Texts, token : Tokens, cp : CpTypes \union {None}, tp : TpTypes \union {None},
   saw : Chats, chat : Chats, free : BOOLEAN, new : BOOLEAN,
   began : Nat, ctl : Nat, batch : {"none", "ambiguous", "stop"}]
Phases == {"closed", "idle", "control-read", "target-read", "prepared", "draft-verified", "submitted",
           "send-verified"}
SessionTypes ==
  [phase : Phases, cp : CpTypes \union {None}, tp : TpTypes \union {None}, token : Tokens,
   saw : Chats, text : Texts]
ClientTypesAre ==
  [stage : {"none", "prepared", "verified", "pressed"}, token : Tokens, text : Texts]
PreparedTypes == [token : Tokens, trigger : Nat, control : Nat, target : Nat]
HostTypes ==
  [kind : {"none", "session", "direct", "tools"}, controls : SUBSET Nat, targets : SUBSET Nat,
   consumed : SUBSET Tokens, prepared : SUBSET PreparedTypes]

WorldTyped ==
  /\ chat \in Chats /\ commands \in Seq(Orders)
  /\ composer \in [{"target", "control"} -> Texts]
  /\ orphan \in PressTypes \union {None} /\ presses \in Seq(PressTypes)
StoresTyped ==
  /\ control \in ControlTypes /\ target \in TargetTypes
  /\ outgoing \in [Replies -> {"none", "claimed", "verified", "uncertain"}]
  /\ ledger \in [Wakes \union {Acceptance} -> {"none", "intent", "verified", "uncertain"}]
  /\ pending \in PendingTypes \union {None}
  /\ intent \in [token : Tokens, text : Texts] \union {None}
ProcessTyped ==
  /\ host \in HostTypes
  /\ IsFiniteSet(host.controls) /\ IsFiniteSet(host.targets) /\ IsFiniteSet(host.prepared)
  /\ session \in SessionTypes /\ client \in ClientTypesAre
  /\ waiting \in Seq(OpTypes) /\ op \in OpTypes \union {NoOp}
  /\ budget \in BudgetTypes

(***************************************************************************)
(* Which step follows which in an operation, also where it fails.           *)
(***************************************************************************)
Gated3 == {"prepare", "show-card", "submit"}
Follows(cmd, cp, a, b) ==
  \/ a = "recover" /\ \/ cmd = "read-control" /\ b = "control"
                      \/ cmd = "read-direct" /\ b = "gate"
                      \/ cmd = "get-state" /\ b = "end"
  \/ a = "gate" /\ cmd = "read-direct" /\ b = "read"
  \/ a = "bound" /\ cmd \in Gated3 /\ b = IF cp.kind = "ui-observed" THEN "control" ELSE "read"
  \/ a = "control" /\ cmd \in Gated3 \union {"read-control", "establish"} /\ b = "consume"
  \/ a \in {"consume", "stop-proven"} /\ \/ cmd \in Gated3 /\ b = "read"
                                         \/ cmd = "read-control" /\ b = "end"
                                         \/ cmd = "establish" /\ b = "activate"
  \/ a = "stop-clear" /\ cmd \in Gated3 \union {"read-control", "establish"} /\ b = "stop-proven"
  \/ a = "stop-proven" /\ cmd \in Gated3 \union {"establish"} /\ b = "end"
  \/ a = "read" /\ cmd \in Gated3 \union {"read-target", "read-direct", "read-chat"} /\ b = "evaluate"
  \/ a = "evaluate" /\ \/ cmd = "prepare" /\ b = "claim"
                       \/ cmd = "show-card" /\ b = "send-card"
                       \/ cmd = "submit" /\ b = "press"
                       \/ cmd \in {"read-target", "read-direct", "read-chat"} /\ b = "end"
  \/ a = "claim" /\ cmd \in {"prepare", "prepare-draft"} /\ b = "put"
  \/ a = "put" /\ \/ cmd \in {"prepare", "establish"} /\ b = "type"
                  \/ cmd = "prepare-draft" /\ b = "end"
  \/ a = "type" /\ \/ cmd = "prepare" /\ b = "end"
                   \/ cmd = "establish" /\ b = "verify-draft"
  \/ a = "card-intent" /\ \/ cmd = "show-card" /\ b = "bound"
                          \/ cmd = "accept-card" /\ b = "look"
  \/ a = "look" /\ \/ cmd = "accept-card" /\ b = "send-card"
                   \/ cmd = "prepare-draft" /\ b = "claim"
                   \/ cmd = "abort-draft" /\ b = "put-intent"
  \/ a = "send-card" /\ cmd \in {"show-card", "accept-card"} /\ b = "card-verified"
  \/ a = "card-verified" /\ \/ cmd = "show-card" /\ b = "consume-trigger"
                            \/ cmd = "accept-card" /\ b = "end"
  \/ a = "card-uncertain" /\ cmd \in {"show-card", "accept-card"} /\ b = "end"
  \/ a = "consume-trigger" /\ \/ cmd = "show-card" /\ b = "end"
                              \/ cmd = "verify-send" /\ b \in {"clearPending", "clear-if-present"}
                              \/ cmd = "submit" /\ b = "clear-if-present"
  \/ a = "verify-draft" /\ \/ cmd = "verify-draft" /\ b = "end"
                           \/ cmd = "establish" /\ b = "press-marker"
  \/ a = "press" /\ cmd = "submit" /\ b = "end"
  \/ a = "see-sent" /\ cmd = "verify-send" /\ b = "verified"
  \/ a = "verified" /\ cmd = "verify-send" /\ b \in {"consume-trigger", "clearPending"}
  \/ a = "uncertain" /\ cmd \in {"submit", "verify-send"} /\ b \in {"consume-trigger", "clear-if-present"}
  \/ a = "clear" /\ cmd \in {"abort", "prepare", "submit", "establish"} /\ b = "proven"
  \/ a = "proven" /\ \/ cmd \in {"abort", "prepare", "submit", "establish"} /\ b = "clearPending"
                     \/ cmd = "establish" /\ b = "clear-if-present"
  \/ a = "clearPending" /\ \/ cmd \in {"abort", "prepare", "submit"} /\ b = "release"
                           \/ cmd \in {"verify-send", "establish"} /\ b = "end"
  \/ a = "clear-if-present" /\ \/ cmd \in {"submit", "verify-send", "establish"} /\ b = "end"
                               \/ cmd = "abort-draft" /\ b = "clear-intent"
  \/ a = "release" /\ \/ cmd \in {"abort", "prepare", "submit", "prepare-draft"} /\ b = "end"
                      \/ cmd = "abort-draft" /\ b = "clear-if-present"
  \/ a = "put-intent" /\ cmd = "abort-draft" /\ b = "release"
  \/ a = "clear-intent" /\ cmd = "abort-draft" /\ b = "end"
  \/ a = "look-at-marker" /\ cmd = "establish" /\ b = "end"
  \/ a = "activate" /\ cmd = "establish" /\ b \in {"end", "clear", "clearPending"}
  \/ a = "press-marker" /\ cmd = "establish" /\ b = "control"

First(s, b) == IF s = <<>> THEN b ELSE Head(s)
Leads(cmd, cp, s, b) ==
  \A i \in 1 .. Len(s) : Follows(cmd, cp, s[i], IF i = Len(s) THEN b ELSE s[i + 1])
Path(o) == Leads(o.cmd, o.cp, o.todo, "end")
Place == First(op.todo, "end")

(* Where an operation begins, and where it goes on when a step fails.        *)
Starts(cmd, p) ==
  \/ cmd = "read-control" /\ p \in {"recover", "control"}
  \/ cmd \in {"read-direct", "get-state"} /\ p = "recover"
  \/ cmd \in {"read-target", "read-chat"} /\ p = "read"
  \/ cmd \in {"prepare", "submit"} /\ p = "bound"
  \/ cmd \in {"show-card", "accept-card"} /\ p = "card-intent"
  \/ cmd = "show-card" /\ p = "end"
  \/ cmd = "verify-draft" /\ p = "verify-draft"
  \/ cmd = "abort" /\ p = "clear"
  \/ cmd = "verify-send" /\ p = "see-sent"
  \/ cmd \in {"prepare-draft", "abort-draft"} /\ p = "look"
  \/ cmd = "establish" /\ p \in {"look-at-marker", "end"}
Recovers(cmd, failed, a, b) ==
  \/ b = "end"
  \/ a = "uncertain" /\ cmd \in {"submit", "verify-send"} /\ b \in {"consume-trigger", "clear-if-present"}
  \/ ~failed /\ \/ a = "put" /\ cmd \in {"prepare", "prepare-draft"} /\ b = "release"
                \/ a = "type" /\ cmd = "prepare" /\ b = "clear"
                \/ a # "press" /\ cmd = "submit" /\ b = "clear"
                \/ a = "press" /\ cmd = "submit" /\ b = "uncertain"
                \/ cmd = "verify-send" /\ b = "uncertain"
                \/ cmd \in {"show-card", "accept-card"} /\ a \notin {"card-intent", "consume-trigger"}
                   /\ b = "card-uncertain"
                \/ a \in {"type", "verify-draft"} /\ cmd = "establish" /\ b = "clear"

(* An operation on a reply carries the proofs it was called with.           *)
CallFits(o) ==
  /\ o.cmd \in Gated3 => o.cp # None /\ o.tp # None
  /\ o.cmd = "read-target" => o.cp # None
  /\ o.conv = IF o.cmd = "establish" THEN "control" ELSE "target"
Doing == {o \in Range(waiting) \union {op} : o.cmd # "none"}   \* called or under way
CallsFit ==
  /\ \A o \in Doing : CallFits(o)
  /\ \A o \in Range(waiting) : o.todo = <<>> /\ o.began = 0
  /\ Path(op)
  /\ Place \in {"type", "verify-draft"} => pending \in PendingTypes

Typed == WorldTyped /\ StoresTyped /\ ProcessTyped /\ CallsFit

(***************************************************************************)
(* What an answer answers.                                                 *)
(***************************************************************************)
TriggerIs(t) == t.chat # <<>> /\ Last(t.chat) = In(t.msg)
ProofIs(o) ==
  o.tp # None =>
    /\ TriggerIs(o.tp.trigger) /\ o.saw = o.tp.trigger.chat
    /\ target.trigger # None /\ target.trigger.id = o.tp.trigger.id => target.trigger = o.tp.trigger
AnswersFit ==
  /\ target.trigger # None => TriggerIs(target.trigger)
  /\ \A o \in Doing \union {session} : ProofIs(o)
  /\ \A o \in Range(waiting) : o.cmd = "read-direct" => o.cp = None
  /\ op.cmd = "read-direct" /\ Place \in {"recover", "gate"} => op.cp = None
  /\ op.cmd \in {"read-target", "read-direct"} /\ Place = "end" /\ ~op.failed /\ op.cp # None =>
       target.trigger = None \/ target.trigger.chat = op.chat
  /\ op.cmd \in {"show-card", "submit"} /\ Place \in {"press", "send-card"} => op.chat = op.saw
Asked(p) == p.trigger # None => p.checked = p.saw /\ p.checked # <<>> /\ Last(p.checked) = In(p.trigger)
PressesAsked ==
  /\ \A i \in 1 .. Len(presses) : Asked(presses[i])
  /\ orphan # None => Asked(orphan)

(***************************************************************************)
(* What was heard.                                                         *)
(***************************************************************************)
Settled(s) == \A j \in 1 .. Len(s) : s[j] = "stop" => \E k \in 1 .. Len(s) : k > j /\ s[k] = "resume"
Bounded == \E i \in 1 .. Len(commands) : commands[i] = Marker
Now == Len(commands)
ControlFits ==
  /\ control.seen <= Len(Suffix(Now)) /\ (control.seen > 0 => Bounded)
  /\ control.stopped /\ control.reason = "boundary" => ~control.active /\ control.seen = 0
  /\ ~control.stopped => Settled(SubSeq(Suffix(Now), 1, control.seen))
Boundary == Bounded /\ ~(control.stopped /\ control.reason = "boundary")
StopsFit ==
  /\ ControlFits
  /\ Busy => op.began <= Now
  /\ Busy /\ (Place = "consume" \/ (Place \in {"stop-clear", "stop-proven"} /\ op.batch = "stop")) =>
       /\ Boundary
       /\ op.began <= op.ctl /\ op.ctl <= Now
       /\ control.seen <= Len(Suffix(op.ctl))
  /\ Place \in {"stop-clear", "stop-proven"} => control.stopped /\ control.reason = "user"
  /\ op.cmd \in Gated3 =>
       /\ Place \in {"card-intent", "bound", "control", "consume"} => control.seen <= Len(Suffix(op.began))
       /\ Place \in {"read", "evaluate", "press", "send-card"} /\ op.cp.kind = "ui-observed" =>
            control.seen = Len(Suffix(op.began))
       /\ Place = "send-card" => ~control.stopped
PressesSettled ==
  /\ \A i \in 1 .. Len(presses) : Settled(presses[i].heard)
  /\ orphan # None => Settled(orphan.heard)
(***************************************************************************)
(* Lemmas about sequences and paths.                                       *)
(***************************************************************************)
LEMMA TailFacts ==
  ASSUME NEW S, NEW s \in Seq(S), s # <<>>
  PROVE  /\ Tail(s) \in Seq(S) /\ Len(Tail(s)) = Len(s) - 1 /\ Len(s) \in Nat /\ Len(s) > 0
         /\ \A i \in 1 .. Len(s) - 1 : Tail(s)[i] = s[i + 1]
         /\ Head(s) = s[1] /\ Head(s) \in S
OBVIOUS

LEMMA NotLast == ASSUME NEW n \in Nat, NEW k, k = n - 1, NEW i \in 1 .. k, i # k PROVE i + 1 \in 1 .. n - 1
OBVIOUS

(* Behind its head a path is a path, and the head leads to what follows it.  *)
LEMMA PathTail ==
  ASSUME NEW cmd, NEW cp, NEW b, NEW s \in Seq(Places), s # <<>>, Leads(cmd, cp, s, b)
  PROVE  /\ Leads(cmd, cp, Tail(s), b) /\ Tail(s) \in Seq(Places)
         /\ Follows(cmd, cp, Head(s), First(Tail(s), b))
<1>1. /\ Tail(s) \in Seq(Places) /\ Len(Tail(s)) = Len(s) - 1 /\ Len(s) \in Nat /\ Len(s) > 0
      /\ \A i \in 1 .. Len(s) - 1 : Tail(s)[i] = s[i + 1]
      /\ Head(s) = s[1]
  BY TailFacts
<1>2. Leads(cmd, cp, Tail(s), b)
  <2> SUFFICES ASSUME NEW i \in 1 .. Len(Tail(s))
               PROVE  Follows(cmd, cp, Tail(s)[i], IF i = Len(Tail(s)) THEN b ELSE Tail(s)[i + 1])
    BY DEF Leads
  <2>1. i + 1 \in 1 .. Len(s) /\ Tail(s)[i] = s[i + 1] /\ (i = Len(Tail(s)) <=> i + 1 = Len(s))
    BY <1>1
  <2>2. Follows(cmd, cp, s[i + 1], IF i + 1 = Len(s) THEN b ELSE s[(i + 1) + 1])
    BY <2>1 DEF Leads
  <2>3. i # Len(Tail(s)) => Tail(s)[i + 1] = s[(i + 1) + 1]
    <3> SUFFICES ASSUME i # Len(Tail(s)) PROVE Tail(s)[i + 1] = s[(i + 1) + 1]
      OBVIOUS
    <3>1. i + 1 \in 1 .. Len(s) - 1
      BY <1>1, NotLast
    <3> QED BY <1>1, <3>1
  <2> QED BY <2>1, <2>2, <2>3
<1>3. Follows(cmd, cp, s[1], IF 1 = Len(s) THEN b ELSE s[2])
  <2>1. 1 \in 1 .. Len(s)
    BY <1>1
  <2>2. Follows(cmd, cp, s[1], IF 1 = Len(s) THEN b ELSE s[1 + 1])
    BY <2>1 DEF Leads
  <2> QED BY <2>2
<1>4. Len(s) = 1 <=> Tail(s) = <<>>
  BY <1>1, EmptySeq
<1>5. CASE Len(s) = 1
  BY <1>1, <1>2, <1>3, <1>4, <1>5 DEF First
<1>6. CASE Len(s) # 1
  <2>1. 1 \in 1 .. Len(s) - 1
    BY <1>1, <1>6
  <2>2. Head(Tail(s)) = s[2]
    BY <1>1, <1>4, <1>6, <2>1
  <2> QED BY <1>1, <1>2, <1>3, <1>4, <1>6, <2>2 DEF First
<1> QED BY <1>5, <1>6

(* Two paths, the first of which leads to the second, are one.              *)
LEMMA PathConcat ==
  ASSUME NEW cmd, NEW cp, NEW b, NEW s \in Seq(Places), NEW t \in Seq(Places),
         Leads(cmd, cp, s, First(t, b)), Leads(cmd, cp, t, b)
  PROVE  /\ s \o t \in Seq(Places) /\ Leads(cmd, cp, s \o t, b)
         /\ First(s \o t, b) = First(s, First(t, b))
<1> DEFINE u == s \o t
<1>1. /\ u \in Seq(Places) /\ Len(u) = Len(s) + Len(t) /\ Len(s) \in Nat /\ Len(t) \in Nat
      /\ \A i \in 1 .. Len(s) : u[i] = s[i]
      /\ \A i \in 1 .. Len(t) : u[Len(s) + i] = t[i]
  OBVIOUS
<1>2. (s = <<>> <=> Len(s) = 0) /\ (t = <<>> <=> Len(t) = 0) /\ (u = <<>> <=> Len(u) = 0)
  BY <1>1, EmptySeq
<1>3. (s # <<>> => Head(s) = s[1]) /\ (t # <<>> => Head(t) = t[1]) /\ (u # <<>> => Head(u) = u[1])
  BY <1>1
<1> HIDE DEF u
<1>4. First(u, b) = First(s, First(t, b))
  <2>1. CASE s # <<>>
    <3>1. 1 \in 1 .. Len(s) /\ u # <<>>
      BY <1>1, <1>2, <2>1
    <3> QED BY <1>1, <1>3, <2>1, <3>1 DEF First
  <2>2. CASE s = <<>> /\ t # <<>>
    <3>1. 1 \in 1 .. Len(t) /\ u # <<>> /\ Len(s) + 1 = 1
      BY <1>1, <1>2, <2>2
    <3> QED BY <1>1, <1>3, <2>2, <3>1 DEF First
  <2>3. CASE s = <<>> /\ t = <<>>
    BY <1>1, <1>2, <2>3 DEF First
  <2> QED BY <2>1, <2>2, <2>3
<1>5. Leads(cmd, cp, u, b)
  <2> SUFFICES ASSUME NEW i \in 1 .. Len(u)
               PROVE  Follows(cmd, cp, u[i], IF i = Len(u) THEN b ELSE u[i + 1])
    BY DEF Leads
  <2>1. CASE i \in 1 .. Len(s) /\ i # Len(s)
    <3>1. u[i] = s[i] /\ u[i + 1] = s[i + 1] /\ i # Len(u)
      <4>1. i + 1 \in 1 .. Len(s)
        BY <1>1, <2>1
      <4> QED BY <1>1, <2>1, <4>1
    <3> QED BY <2>1, <3>1 DEF Leads
  <2>2. CASE i = Len(s) /\ i \in 1 .. Len(s)
    <3>1. Follows(cmd, cp, s[i], First(t, b))
      BY <2>2 DEF Leads
    <3>2. u[i] = s[i]
      BY <1>1, <2>2
    <3>3. CASE t = <<>>
      BY <1>1, <1>2, <2>2, <3>1, <3>2, <3>3 DEF First
    <3>4. CASE t # <<>>
      <4>1. 1 \in 1 .. Len(t) /\ i # Len(u)
        BY <1>1, <1>2, <2>2, <3>4
      <4> QED BY <1>1, <1>3, <2>2, <3>1, <3>2, <3>4, <4>1 DEF First
    <3> QED BY <3>3, <3>4
  <2>3. CASE i \notin 1 .. Len(s)
    <3> DEFINE j == i - Len(s)
    <3>1. j \in 1 .. Len(t) /\ i = Len(s) + j /\ (i = Len(u) <=> j = Len(t))
      BY <1>1, <2>3
    <3> HIDE DEF j
    <3>2. u[i] = t[j]
      BY <1>1, <3>1
    <3>3. j # Len(t) => j + 1 \in 1 .. Len(t) /\ i + 1 = Len(s) + (j + 1)
      BY <1>1, <3>1
    <3>4. j # Len(t) => u[i + 1] = t[j + 1]
      BY <1>1, <3>3
    <3> QED BY <3>1, <3>2, <3>4 DEF Leads
  <2> QED BY <2>1, <2>2, <2>3
<1> QED BY <1>1, <1>4, <1>5 DEF u

LEMMA PathJoin ==
  ASSUME NEW cmd, NEW cp, NEW b, NEW k, NEW s \in Seq(Places), NEW t \in Seq(Places),
         Leads(cmd, cp, s, k), Leads(cmd, cp, t, b), First(t, b) = k
  PROVE  s \o t \in Seq(Places) /\ Leads(cmd, cp, s \o t, b) /\ First(s \o t, b) = First(s, k)
BY PathConcat

LEMMA NoPath == ASSUME NEW cmd, NEW cp, NEW b PROVE Leads(cmd, cp, <<>>, b) /\ First(<<>>, b) = b /\ <<>> \in Seq(Places)
BY EmptySeq DEF Leads, First

(* A number not in use exists, whatever is in use.                           *)
LEMMA FreshFacts ==
  ASSUME NEW S, IsFiniteSet(S)
  PROVE  Fresh(S) \in Nat \ {0} /\ Fresh(S) \notin S
<1> DEFINE n == Cardinality(S)
<1>1. n \in Nat
  BY FS_CardinalityType
<1>2. \E k \in 1 .. n + 1 : k \notin S
  <2> SUFFICES ASSUME \A k \in 1 .. n + 1 : k \in S PROVE FALSE
    OBVIOUS
  <2>1. 1 .. n + 1 \subseteq S
    OBVIOUS
  <2>2. Cardinality(1 .. n + 1) <= n
    BY <2>1, FS_Subset
  <2>3. Cardinality(1 .. n + 1) = n + 1
    BY <1>1, FS_Interval
  <2> QED BY <1>1, <2>2, <2>3
<1> QED BY <1>1, <1>2 DEF Fresh

(***************************************************************************)
(* Short paths, written out.                                                *)
(***************************************************************************)
LEMMA Path1 ==
  ASSUME NEW cmd, NEW cp, NEW b, NEW p1 \in Places,
         Follows(cmd, cp, p1, b)
  PROVE  <<p1>> \in Seq(Places) /\ Leads(cmd, cp, <<p1>>, b) /\ First(<<p1>>, b) = p1 /\ <<p1>> # <<>>
<1> DEFINE s == <<p1>>
<1>1. s \in Seq(Places) /\ Len(s) = 1 /\ s # <<>> /\ Head(s) = p1
  BY EmptySeq
<1>2. \A i \in 1 .. Len(s) : Follows(cmd, cp, s[i], IF i = Len(s) THEN b ELSE s[i + 1])
  <2> SUFFICES ASSUME NEW i \in 1 .. 1 PROVE Follows(cmd, cp, s[i], IF i = 1 THEN b ELSE s[i + 1])
    BY <1>1
  <2>1. i = 1 => Follows(cmd, cp, s[i], IF i = 1 THEN b ELSE s[i + 1])
    OBVIOUS
  <2> QED BY <2>1
<1> QED BY <1>1, <1>2 DEF Leads, First

LEMMA Path2 ==
  ASSUME NEW cmd, NEW cp, NEW b, NEW p1 \in Places, NEW p2 \in Places,
         Follows(cmd, cp, p1, p2), Follows(cmd, cp, p2, b)
  PROVE  <<p1, p2>> \in Seq(Places) /\ Leads(cmd, cp, <<p1, p2>>, b) /\ First(<<p1, p2>>, b) = p1 /\ <<p1, p2>> # <<>>
<1> DEFINE s == <<p1, p2>>
<1>1. s \in Seq(Places) /\ Len(s) = 2 /\ s # <<>> /\ Head(s) = p1
  BY EmptySeq
<1>2. \A i \in 1 .. Len(s) : Follows(cmd, cp, s[i], IF i = Len(s) THEN b ELSE s[i + 1])
  <2> SUFFICES ASSUME NEW i \in 1 .. 2 PROVE Follows(cmd, cp, s[i], IF i = 2 THEN b ELSE s[i + 1])
    BY <1>1
  <2>1. i = 1 => Follows(cmd, cp, s[i], IF i = 2 THEN b ELSE s[i + 1])
    OBVIOUS
  <2>2. i = 2 => Follows(cmd, cp, s[i], IF i = 2 THEN b ELSE s[i + 1])
    OBVIOUS
  <2> QED BY <2>1, <2>2
<1> QED BY <1>1, <1>2 DEF Leads, First

LEMMA Path3 ==
  ASSUME NEW cmd, NEW cp, NEW b, NEW p1 \in Places, NEW p2 \in Places, NEW p3 \in Places,
         Follows(cmd, cp, p1, p2), Follows(cmd, cp, p2, p3), Follows(cmd, cp, p3, b)
  PROVE  <<p1, p2, p3>> \in Seq(Places) /\ Leads(cmd, cp, <<p1, p2, p3>>, b) /\ First(<<p1, p2, p3>>, b) = p1 /\ <<p1, p2, p3>> # <<>>
<1> DEFINE s == <<p1, p2, p3>>
<1>1. s \in Seq(Places) /\ Len(s) = 3 /\ s # <<>> /\ Head(s) = p1
  BY EmptySeq
<1>2. \A i \in 1 .. Len(s) : Follows(cmd, cp, s[i], IF i = Len(s) THEN b ELSE s[i + 1])
  <2> SUFFICES ASSUME NEW i \in 1 .. 3 PROVE Follows(cmd, cp, s[i], IF i = 3 THEN b ELSE s[i + 1])
    BY <1>1
  <2>1. i = 1 => Follows(cmd, cp, s[i], IF i = 3 THEN b ELSE s[i + 1])
    OBVIOUS
  <2>2. i = 2 => Follows(cmd, cp, s[i], IF i = 3 THEN b ELSE s[i + 1])
    OBVIOUS
  <2>3. i = 3 => Follows(cmd, cp, s[i], IF i = 3 THEN b ELSE s[i + 1])
    OBVIOUS
  <2> QED BY <2>1, <2>2, <2>3
<1> QED BY <1>1, <1>2 DEF Leads, First

LEMMA Path4 ==
  ASSUME NEW cmd, NEW cp, NEW b, NEW p1 \in Places, NEW p2 \in Places, NEW p3 \in Places, NEW p4 \in Places,
         Follows(cmd, cp, p1, p2), Follows(cmd, cp, p2, p3), Follows(cmd, cp, p3, p4), Follows(cmd, cp, p4, b)
  PROVE  <<p1, p2, p3, p4>> \in Seq(Places) /\ Leads(cmd, cp, <<p1, p2, p3, p4>>, b) /\ First(<<p1, p2, p3, p4>>, b) = p1 /\ <<p1, p2, p3, p4>> # <<>>
<1> DEFINE s == <<p1, p2, p3, p4>>
<1>1. s \in Seq(Places) /\ Len(s) = 4 /\ s # <<>> /\ Head(s) = p1
  BY EmptySeq
<1>2. \A i \in 1 .. Len(s) : Follows(cmd, cp, s[i], IF i = Len(s) THEN b ELSE s[i + 1])
  <2> SUFFICES ASSUME NEW i \in 1 .. 4 PROVE Follows(cmd, cp, s[i], IF i = 4 THEN b ELSE s[i + 1])
    BY <1>1
  <2>1. i = 1 => Follows(cmd, cp, s[i], IF i = 4 THEN b ELSE s[i + 1])
    OBVIOUS
  <2>2. i = 2 => Follows(cmd, cp, s[i], IF i = 4 THEN b ELSE s[i + 1])
    OBVIOUS
  <2>3. i = 3 => Follows(cmd, cp, s[i], IF i = 4 THEN b ELSE s[i + 1])
    OBVIOUS
  <2>4. i = 4 => Follows(cmd, cp, s[i], IF i = 4 THEN b ELSE s[i + 1])
    OBVIOUS
  <2> QED BY <2>1, <2>2, <2>3, <2>4
<1> QED BY <1>1, <1>2 DEF Leads, First

LEMMA Path5 ==
  ASSUME NEW cmd, NEW cp, NEW b, NEW p1 \in Places, NEW p2 \in Places, NEW p3 \in Places, NEW p4 \in Places, NEW p5 \in Places,
         Follows(cmd, cp, p1, p2), Follows(cmd, cp, p2, p3), Follows(cmd, cp, p3, p4), Follows(cmd, cp, p4, p5), Follows(cmd, cp, p5, b)
  PROVE  <<p1, p2, p3, p4, p5>> \in Seq(Places) /\ Leads(cmd, cp, <<p1, p2, p3, p4, p5>>, b) /\ First(<<p1, p2, p3, p4, p5>>, b) = p1 /\ <<p1, p2, p3, p4, p5>> # <<>>
<1> DEFINE s == <<p1, p2, p3, p4, p5>>
<1>1. s \in Seq(Places) /\ Len(s) = 5 /\ s # <<>> /\ Head(s) = p1
  BY EmptySeq
<1>2. \A i \in 1 .. Len(s) : Follows(cmd, cp, s[i], IF i = Len(s) THEN b ELSE s[i + 1])
  <2> SUFFICES ASSUME NEW i \in 1 .. 5 PROVE Follows(cmd, cp, s[i], IF i = 5 THEN b ELSE s[i + 1])
    BY <1>1
  <2>1. i = 1 => Follows(cmd, cp, s[i], IF i = 5 THEN b ELSE s[i + 1])
    OBVIOUS
  <2>2. i = 2 => Follows(cmd, cp, s[i], IF i = 5 THEN b ELSE s[i + 1])
    OBVIOUS
  <2>3. i = 3 => Follows(cmd, cp, s[i], IF i = 5 THEN b ELSE s[i + 1])
    OBVIOUS
  <2>4. i = 4 => Follows(cmd, cp, s[i], IF i = 5 THEN b ELSE s[i + 1])
    OBVIOUS
  <2>5. i = 5 => Follows(cmd, cp, s[i], IF i = 5 THEN b ELSE s[i + 1])
    OBVIOUS
  <2> QED BY <2>1, <2>2, <2>3, <2>4, <2>5
<1> QED BY <1>1, <1>2 DEF Leads, First

LEMMA Path8 ==
  ASSUME NEW cmd, NEW cp, NEW b, NEW p1 \in Places, NEW p2 \in Places, NEW p3 \in Places, NEW p4 \in Places, NEW p5 \in Places, NEW p6 \in Places, NEW p7 \in Places, NEW p8 \in Places,
         Follows(cmd, cp, p1, p2), Follows(cmd, cp, p2, p3), Follows(cmd, cp, p3, p4), Follows(cmd, cp, p4, p5), Follows(cmd, cp, p5, p6), Follows(cmd, cp, p6, p7), Follows(cmd, cp, p7, p8), Follows(cmd, cp, p8, b)
  PROVE  <<p1, p2, p3, p4, p5, p6, p7, p8>> \in Seq(Places) /\ Leads(cmd, cp, <<p1, p2, p3, p4, p5, p6, p7, p8>>, b) /\ First(<<p1, p2, p3, p4, p5, p6, p7, p8>>, b) = p1 /\ <<p1, p2, p3, p4, p5, p6, p7, p8>> # <<>>
<1> DEFINE s == <<p1, p2, p3, p4, p5, p6, p7, p8>>
<1>1. s \in Seq(Places) /\ Len(s) = 8 /\ s # <<>> /\ Head(s) = p1
  BY EmptySeq
<1>2. \A i \in 1 .. Len(s) : Follows(cmd, cp, s[i], IF i = Len(s) THEN b ELSE s[i + 1])
  <2> SUFFICES ASSUME NEW i \in 1 .. 8 PROVE Follows(cmd, cp, s[i], IF i = 8 THEN b ELSE s[i + 1])
    BY <1>1
  <2>1. i = 1 => Follows(cmd, cp, s[i], IF i = 8 THEN b ELSE s[i + 1])
    OBVIOUS
  <2>2. i = 2 => Follows(cmd, cp, s[i], IF i = 8 THEN b ELSE s[i + 1])
    OBVIOUS
  <2>3. i = 3 => Follows(cmd, cp, s[i], IF i = 8 THEN b ELSE s[i + 1])
    OBVIOUS
  <2>4. i = 4 => Follows(cmd, cp, s[i], IF i = 8 THEN b ELSE s[i + 1])
    OBVIOUS
  <2>5. i = 5 => Follows(cmd, cp, s[i], IF i = 8 THEN b ELSE s[i + 1])
    OBVIOUS
  <2>6. i = 6 => Follows(cmd, cp, s[i], IF i = 8 THEN b ELSE s[i + 1])
    OBVIOUS
  <2>7. i = 7 => Follows(cmd, cp, s[i], IF i = 8 THEN b ELSE s[i + 1])
    OBVIOUS
  <2>8. i = 8 => Follows(cmd, cp, s[i], IF i = 8 THEN b ELSE s[i + 1])
    OBVIOUS
  <2> QED BY <2>1, <2>2, <2>3, <2>4, <2>5, <2>6, <2>7, <2>8
<1> QED BY <1>1, <1>2 DEF Leads, First


(***************************************************************************)
(* The programs of the operations, and their recoveries, are paths.          *)
(***************************************************************************)
LEMMA RereadPath ==
  ASSUME NEW cmd, cmd \in Gated3, NEW cp
  PROVE  Reread(cp) \in Seq(Places) /\ Leads(cmd, cp, Reread(cp), "read") /\ First(Reread(cp), "read") = "bound"
<1> DEFINE t == IF cp.kind = "ui-observed" THEN <<"control", "consume">> ELSE <<>>
           s == <<"bound">>
           k == IF cp.kind = "ui-observed" THEN "control" ELSE "read"
<1>1. t \in Seq(Places) /\ Leads(cmd, cp, t, "read") /\ First(t, "read") = k
  <2>1. Follows(cmd, cp, "control", "consume") /\ Follows(cmd, cp, "consume", "read")
    BY DEF Follows, Gated3
  <2>2. "control" \in Places /\ "consume" \in Places
    BY DEF Places
  <2>3. /\ <<"control", "consume">> \in Seq(Places) /\ Leads(cmd, cp, <<"control", "consume">>, "read")
        /\ First(<<"control", "consume">>, "read") = "control"
    BY ONLY <2>1, <2>2, Path2
  <2>4. Leads(cmd, cp, <<>>, "read") /\ First(<<>>, "read") = "read" /\ <<>> \in Seq(Places)
    BY NoPath
  <2> QED BY <2>3, <2>4
<1>2. s \in Seq(Places) /\ Leads(cmd, cp, s, k) /\ First(s, k) = "bound"
  <2>1. Follows(cmd, cp, "bound", k)
    BY DEF Follows
  <2>2. "bound" \in Places
    BY DEF Places
  <2> QED BY ONLY <2>1, <2>2, Path1
<1> HIDE DEF t, s, k
<1>3. s \o t \in Seq(Places) /\ Leads(cmd, cp, s \o t, "read") /\ First(s \o t, "read") = "bound"
  BY ONLY <1>1, <1>2, PathJoin
<1> QED BY <1>3 DEF Reread, t, s

LEMMA CheckPath ==
  ASSUME NEW cmd, NEW cp, NEW b,
         \/ cmd = "prepare" /\ b = "claim"
         \/ cmd = "show-card" /\ b = "send-card"
         \/ cmd = "submit" /\ b = "press"
         \/ cmd \in {"read-target", "read-direct", "read-chat"} /\ b = "end"
  PROVE  Check \in Seq(Places) /\ Leads(cmd, cp, Check, b) /\ First(Check, b) = "read"
<1>1. Follows(cmd, cp, "read", "evaluate") /\ Follows(cmd, cp, "evaluate", b)
  BY DEF Follows, Gated3
<1>2. "read" \in Places /\ "evaluate" \in Places
  BY DEF Places
<1>3. /\ <<"read", "evaluate">> \in Seq(Places) /\ Leads(cmd, cp, <<"read", "evaluate">>, b)
      /\ First(<<"read", "evaluate">>, b) = "read"
  BY ONLY <1>1, <1>2, Path2
<1> QED BY <1>3 DEF Check

LEMMA CancelPath ==
  ASSUME NEW cmd, cmd \in {"abort", "prepare", "submit"}, NEW cp
  PROVE  Cancel \in Seq(Places) /\ Leads(cmd, cp, Cancel, "end") /\ First(Cancel, "end") = "clear"
<1>1. /\ Follows(cmd, cp, "clear", "proven") /\ Follows(cmd, cp, "proven", "clearPending")
      /\ Follows(cmd, cp, "clearPending", "release") /\ Follows(cmd, cp, "release", "end")
  BY DEF Follows
<1>2. "clear" \in Places /\ "proven" \in Places /\ "clearPending" \in Places /\ "release" \in Places
  BY DEF Places
<1> QED BY ONLY <1>1, <1>2, Path4 DEF Cancel

LEMMA ConsumePath ==
  ASSUME NEW cmd, NEW cp, NEW b, NEW token,
         \/ cmd = "verify-send" /\ b \in {"clearPending", "clear-if-present"}
         \/ cmd = "submit" /\ b = "clear-if-present"
  PROVE  /\ Consume(token) \in Seq(Places) /\ Leads(cmd, cp, Consume(token), b)
         /\ First(Consume(token), b) \in {"consume-trigger", b}
<1>1. Follows(cmd, cp, "consume-trigger", b)
  BY DEF Follows
<1>2. "consume-trigger" \in Places
  BY DEF Places
<1>3. /\ <<"consume-trigger">> \in Seq(Places) /\ Leads(cmd, cp, <<"consume-trigger">>, b)
      /\ First(<<"consume-trigger">>, b) = "consume-trigger"
  BY ONLY <1>1, <1>2, Path1
<1>4. Leads(cmd, cp, <<>>, b) /\ First(<<>>, b) = b /\ <<>> \in Seq(Places)
  BY NoPath
<1> QED BY <1>3, <1>4 DEF Consume

LEMMA FinalizePath ==
  ASSUME NEW cmd, cmd \in {"submit", "verify-send"}, NEW cp, NEW token
  PROVE  /\ Finalize(token) \in Seq(Places) /\ Leads(cmd, cp, Finalize(token), "end")
         /\ First(Finalize(token), "end") = "uncertain"
<1> DEFINE l == <<"clear-if-present">>
           s == <<"uncertain">>
           c == Consume(token)
           k == First(c, "clear-if-present")
<1>1. l \in Seq(Places) /\ Leads(cmd, cp, l, "end") /\ First(l, "end") = "clear-if-present"
  <2>1. Follows(cmd, cp, "clear-if-present", "end")
    BY DEF Follows
  <2>2. "clear-if-present" \in Places
    BY DEF Places
  <2> QED BY ONLY <2>1, <2>2, Path1
<1>2. /\ c \in Seq(Places) /\ Leads(cmd, cp, c, "clear-if-present")
      /\ First(c, "clear-if-present") \in {"consume-trigger", "clear-if-present"}
  BY ConsumePath
<1>3. s \in Seq(Places) /\ Leads(cmd, cp, s, k) /\ First(s, k) = "uncertain"
  <2>1. Follows(cmd, cp, "uncertain", k)
    BY <1>2 DEF Follows
  <2>2. "uncertain" \in Places
    BY DEF Places
  <2> QED BY ONLY <2>1, <2>2, Path1
<1> HIDE DEF l, s, c
<1>4. /\ s \o c \in Seq(Places) /\ Leads(cmd, cp, s \o c, "clear-if-present")
      /\ First(s \o c, "clear-if-present") = "uncertain"
  BY ONLY <1>2, <1>3, PathJoin
<1> DEFINE u == s \o c
<1> HIDE DEF u
<1>5. u \in Seq(Places) /\ Leads(cmd, cp, u, First(l, "end")) /\ First(u, First(l, "end")) = "uncertain"
  BY <1>1, <1>4 DEF u
<1>6. u \o l \in Seq(Places) /\ Leads(cmd, cp, u \o l, "end") /\ First(u \o l, "end") = "uncertain"
  BY ONLY <1>1, <1>5, PathJoin
<1> QED BY <1>6 DEF u, s, c, l, Finalize

LEMMA ProgramPath ==
  ASSUME NEW o, o \in OpTypes, CallFits(o)
  PROVE  /\ Program(o) \in Seq(Places) /\ Leads(o.cmd, o.cp, Program(o), "end")
         /\ Starts(o.cmd, First(Program(o), "end"))
<1> DEFINE Fits(p) == p \in Seq(Places) /\ Leads(o.cmd, o.cp, p, "end") /\ Starts(o.cmd, First(p, "end"))
<1> SUFFICES Fits(Program(o))
  OBVIOUS
<1> DEFINE r == Reread(o.cp)
<1>1. CASE o.cmd = "read-control"
  <2> DEFINE t == <<"control", "consume">>
             s == IF host.kind = "tools" THEN <<>> ELSE <<"recover">>
  <2>1. t \in Seq(Places) /\ Leads(o.cmd, o.cp, t, "end") /\ First(t, "end") = "control"
    <3>1. Follows(o.cmd, o.cp, "control", "consume") /\ Follows(o.cmd, o.cp, "consume", "end")
      BY <1>1 DEF Follows, Gated3
    <3>2. "control" \in Places /\ "consume" \in Places
      BY DEF Places
    <3> QED BY ONLY <3>1, <3>2, Path2
  <2> HIDE DEF t
  <2>2. /\ s \in Seq(Places) /\ Leads(o.cmd, o.cp, s, First(t, "end"))
        /\ First(s, First(t, "end")) \in {"recover", "control"}
    <3>1. /\ <<"recover">> \in Seq(Places) /\ Leads(o.cmd, o.cp, <<"recover">>, "control")
          /\ First(<<"recover">>, "control") = "recover"
      <4>1. Follows(o.cmd, o.cp, "recover", "control")
        BY <1>1 DEF Follows
      <4>2. "recover" \in Places
        BY DEF Places
      <4> QED BY ONLY <4>1, <4>2, Path1
    <3> QED BY <2>1, <3>1, NoPath
  <2> HIDE DEF s
  <2>3. Fits(s \o t)
    <3>1. s \o t \in Seq(Places) /\ Leads(o.cmd, o.cp, s \o t, "end") /\ First(s \o t, "end") \in {"recover", "control"}
      BY ONLY <2>1, <2>2, PathJoin
    <3> QED BY <1>1, <3>1 DEF Starts
  <2> QED BY <1>1, <2>3 DEF Program, s, t
<1>2. CASE o.cmd \in {"read-target", "read-chat"}
  <2>1. Fits(Check)
    BY <1>2, CheckPath DEF Starts
  <2> QED BY <1>2, <2>1 DEF Program
<1>3. CASE o.cmd = "read-direct"
  <2> DEFINE s == <<"recover", "gate">>
  <2>1. Check \in Seq(Places) /\ Leads(o.cmd, o.cp, Check, "end") /\ First(Check, "end") = "read"
    BY <1>3, CheckPath
  <2>2. s \in Seq(Places) /\ Leads(o.cmd, o.cp, s, "read") /\ First(s, "read") = "recover"
    <3>1. Follows(o.cmd, o.cp, "recover", "gate") /\ Follows(o.cmd, o.cp, "gate", "read")
      BY <1>3 DEF Follows, Gated3
    <3>2. "recover" \in Places /\ "gate" \in Places
      BY DEF Places
    <3> QED BY ONLY <3>1, <3>2, Path2
  <2> HIDE DEF s
  <2>3. Fits(s \o Check)
    <3>1. s \o Check \in Seq(Places) /\ Leads(o.cmd, o.cp, s \o Check, "end") /\ First(s \o Check, "end") = "recover"
      BY ONLY <2>1, <2>2, PathJoin
    <3> QED BY <1>3, <3>1 DEF Starts
  <2> QED BY <1>3, <2>3 DEF Program, s
<1>4. CASE o.cmd = "prepare"
  <2> DEFINE t == <<"claim", "put", "type">>
  <2>1. t \in Seq(Places) /\ Leads(o.cmd, o.cp, t, "end") /\ First(t, "end") = "claim"
    <3>1. Follows(o.cmd, o.cp, "claim", "put") /\ Follows(o.cmd, o.cp, "put", "type") /\ Follows(o.cmd, o.cp, "type", "end")
      BY <1>4 DEF Follows, Gated3
    <3>2. "claim" \in Places /\ "put" \in Places /\ "type" \in Places
      BY DEF Places
    <3> QED BY ONLY <3>1, <3>2, Path3
  <2> HIDE DEF t
  <2>2. Check \in Seq(Places) /\ Leads(o.cmd, o.cp, Check, "claim") /\ First(Check, "claim") = "read"
    BY <1>4, CheckPath
  <2>3. r \in Seq(Places) /\ Leads(o.cmd, o.cp, r, "read") /\ First(r, "read") = "bound"
    BY <1>4, RereadPath DEF Gated3
  <2> HIDE DEF r
  <2>4. r \o Check \in Seq(Places) /\ Leads(o.cmd, o.cp, r \o Check, "claim") /\ First(r \o Check, "claim") = "bound"
    BY ONLY <2>2, <2>3, PathJoin
  <2> DEFINE w == r \o Check
  <2>5. w \in Seq(Places) /\ Leads(o.cmd, o.cp, w, "claim") /\ First(w, "claim") = "bound"
    BY <2>4
  <2> HIDE DEF w
  <2>6. Fits(w \o t)
    <3>1. w \o t \in Seq(Places) /\ Leads(o.cmd, o.cp, w \o t, "end") /\ First(w \o t, "end") = "bound"
      BY ONLY <2>1, <2>5, PathJoin
    <3> QED BY <1>4, <3>1 DEF Starts
  <2> QED BY <1>4, <2>6 DEF Program, w, r, t
<1>5. CASE o.cmd = "show-card"
  <2> DEFINE t == <<"send-card", "card-verified", "consume-trigger">>
             i == <<"card-intent">>
  <2>1. t \in Seq(Places) /\ Leads(o.cmd, o.cp, t, "end") /\ First(t, "end") = "send-card"
    <3>1. Follows(o.cmd, o.cp, "send-card", "card-verified") /\ Follows(o.cmd, o.cp, "card-verified", "consume-trigger") /\ Follows(o.cmd, o.cp, "consume-trigger", "end")
      BY <1>5 DEF Follows, Gated3
    <3>2. "send-card" \in Places /\ "card-verified" \in Places /\ "consume-trigger" \in Places
      BY DEF Places
    <3> QED BY ONLY <3>1, <3>2, Path3
  <2>2. Check \in Seq(Places) /\ Leads(o.cmd, o.cp, Check, "send-card") /\ First(Check, "send-card") = "read"
    BY <1>5, CheckPath
  <2>3. r \in Seq(Places) /\ Leads(o.cmd, o.cp, r, "read") /\ First(r, "read") = "bound"
    BY <1>5, RereadPath DEF Gated3
  <2>4. i \in Seq(Places) /\ Leads(o.cmd, o.cp, i, "bound") /\ First(i, "bound") = "card-intent"
    <3>1. Follows(o.cmd, o.cp, "card-intent", "bound")
      BY <1>5 DEF Follows, Gated3
    <3>2. "card-intent" \in Places
      BY DEF Places
    <3> QED BY ONLY <3>1, <3>2, Path1
  <2> HIDE DEF r, t, i
  <2>5. i \o r \in Seq(Places) /\ Leads(o.cmd, o.cp, i \o r, "read") /\ First(i \o r, "read") = "card-intent"
    BY ONLY <2>3, <2>4, PathJoin
  <2> DEFINE v == i \o r
  <2>51. v \in Seq(Places) /\ Leads(o.cmd, o.cp, v, "read") /\ First(v, "read") = "card-intent"
    BY <2>5
  <2> HIDE DEF v
  <2>6. /\ v \o Check \in Seq(Places) /\ Leads(o.cmd, o.cp, v \o Check, "send-card")
        /\ First(v \o Check, "send-card") = "card-intent"
    BY ONLY <2>2, <2>51, PathJoin
  <2> DEFINE w == v \o Check
  <2>61. w \in Seq(Places) /\ Leads(o.cmd, o.cp, w, "send-card") /\ First(w, "send-card") = "card-intent"
    BY <2>6
  <2> HIDE DEF w
  <2>7. Fits(w \o t)
    <3>1. w \o t \in Seq(Places) /\ Leads(o.cmd, o.cp, w \o t, "end") /\ First(w \o t, "end") = "card-intent"
      BY ONLY <2>1, <2>61, PathJoin
    <3> QED BY <1>5, <3>1 DEF Starts
  <2>8. Fits(<<>>)
    BY <1>5, NoPath DEF Starts
  <2> QED BY <1>5, <2>7, <2>8 DEF Program, w, v, r, t, i
<1>6. CASE o.cmd = "submit"
  <2> DEFINE t == <<"press">>
  <2>1. t \in Seq(Places) /\ Leads(o.cmd, o.cp, t, "end") /\ First(t, "end") = "press"
    <3>1. Follows(o.cmd, o.cp, "press", "end")
      BY <1>6 DEF Follows, Gated3
    <3>2. "press" \in Places
      BY DEF Places
    <3> QED BY ONLY <3>1, <3>2, Path1
  <2>2. Check \in Seq(Places) /\ Leads(o.cmd, o.cp, Check, "press") /\ First(Check, "press") = "read"
    BY <1>6, CheckPath
  <2>3. r \in Seq(Places) /\ Leads(o.cmd, o.cp, r, "read") /\ First(r, "read") = "bound"
    BY <1>6, RereadPath DEF Gated3
  <2> HIDE DEF r, t
  <2>4. r \o Check \in Seq(Places) /\ Leads(o.cmd, o.cp, r \o Check, "press") /\ First(r \o Check, "press") = "bound"
    BY ONLY <2>2, <2>3, PathJoin
  <2> DEFINE w == r \o Check
  <2>5. w \in Seq(Places) /\ Leads(o.cmd, o.cp, w, "press") /\ First(w, "press") = "bound"
    BY <2>4
  <2> HIDE DEF w
  <2>6. Fits(w \o t)
    <3>1. w \o t \in Seq(Places) /\ Leads(o.cmd, o.cp, w \o t, "end") /\ First(w \o t, "end") = "bound"
      BY ONLY <2>1, <2>5, PathJoin
    <3> QED BY <1>6, <3>1 DEF Starts
  <2> QED BY <1>6, <2>6 DEF Program, w, r, t
<1>7. CASE o.cmd = "verify-send"
  <2> DEFINE l == <<"clearPending">>
             s == <<"see-sent", "verified">>
             c == Consume(o.token)
  <2>1. l \in Seq(Places) /\ Leads(o.cmd, o.cp, l, "end") /\ First(l, "end") = "clearPending"
    <3>1. Follows(o.cmd, o.cp, "clearPending", "end")
      BY <1>7 DEF Follows, Gated3
    <3>2. "clearPending" \in Places
      BY DEF Places
    <3> QED BY ONLY <3>1, <3>2, Path1
  <2>2. /\ c \in Seq(Places) /\ Leads(o.cmd, o.cp, c, "clearPending")
        /\ First(c, "clearPending") \in {"consume-trigger", "clearPending"}
    BY <1>7, ConsumePath
  <2> HIDE DEF c, l
  <2>3. /\ s \in Seq(Places) /\ Leads(o.cmd, o.cp, s, First(c, "clearPending"))
        /\ First(s, First(c, "clearPending")) = "see-sent"
    BY <1>7, <2>2 DEF Places, Leads, Follows, First
  <2> HIDE DEF s
  <2>4. s \o c \in Seq(Places) /\ Leads(o.cmd, o.cp, s \o c, "clearPending") /\ First(s \o c, "clearPending") = "see-sent"
    BY ONLY <2>2, <2>3, PathJoin
  <2> DEFINE w == s \o c
  <2>41. w \in Seq(Places) /\ Leads(o.cmd, o.cp, w, "clearPending") /\ First(w, "clearPending") = "see-sent"
    BY <2>4
  <2> HIDE DEF w
  <2>5. Fits(w \o l)
    <3>1. w \o l \in Seq(Places) /\ Leads(o.cmd, o.cp, w \o l, "end") /\ First(w \o l, "end") = "see-sent"
      BY ONLY <2>1, <2>41, PathJoin
    <3> QED BY <1>7, <3>1 DEF Starts
  <2> QED BY <1>7, <2>5 DEF Program, w, s, c, l
<1>8. CASE o.cmd = "accept-card"
  <2>1. Fits(<<"card-intent", "look", "send-card", "card-verified">>)
    <3>1. Follows(o.cmd, o.cp, "card-intent", "look") /\ Follows(o.cmd, o.cp, "look", "send-card") /\ Follows(o.cmd, o.cp, "send-card", "card-verified") /\ Follows(o.cmd, o.cp, "card-verified", "end")
      BY <1>8 DEF Follows, Gated3
    <3>2. "card-intent" \in Places /\ "look" \in Places /\ "send-card" \in Places /\ "card-verified" \in Places
      BY DEF Places
    <3>3. /\ <<"card-intent", "look", "send-card", "card-verified">> \in Seq(Places) /\ Leads(o.cmd, o.cp, <<"card-intent", "look", "send-card", "card-verified">>, "end")
          /\ First(<<"card-intent", "look", "send-card", "card-verified">>, "end") = "card-intent"
      BY ONLY <3>1, <3>2, Path4
    <3> QED BY <1>8, <3>3 DEF Starts
  <2> QED BY <1>8, <2>1 DEF Program
<1>9. CASE o.cmd = "verify-draft"
  <2>1. Fits(<<"verify-draft">>)
    <3>1. Follows(o.cmd, o.cp, "verify-draft", "end")
      BY <1>9 DEF Follows, Gated3
    <3>2. "verify-draft" \in Places
      BY DEF Places
    <3>3. /\ <<"verify-draft">> \in Seq(Places) /\ Leads(o.cmd, o.cp, <<"verify-draft">>, "end")
          /\ First(<<"verify-draft">>, "end") = "verify-draft"
      BY ONLY <3>1, <3>2, Path1
    <3> QED BY <1>9, <3>3 DEF Starts
  <2> QED BY <1>9, <2>1 DEF Program
<1>10. CASE o.cmd = "abort"
  <2>1. Fits(Cancel)
    BY <1>10, CancelPath DEF Starts
  <2> QED BY <1>10, <2>1 DEF Program
<1>11. CASE o.cmd = "prepare-draft"
  <2>1. Fits(<<"look", "claim", "put">>)
    <3>1. Follows(o.cmd, o.cp, "look", "claim") /\ Follows(o.cmd, o.cp, "claim", "put") /\ Follows(o.cmd, o.cp, "put", "end")
      BY <1>11 DEF Follows, Gated3
    <3>2. "look" \in Places /\ "claim" \in Places /\ "put" \in Places
      BY DEF Places
    <3>3. /\ <<"look", "claim", "put">> \in Seq(Places) /\ Leads(o.cmd, o.cp, <<"look", "claim", "put">>, "end")
          /\ First(<<"look", "claim", "put">>, "end") = "look"
      BY ONLY <3>1, <3>2, Path3
    <3> QED BY <1>11, <3>3 DEF Starts
  <2> QED BY <1>11, <2>1 DEF Program
<1>12. CASE o.cmd = "abort-draft"
  <2>1. Fits(<<"look", "put-intent", "release", "clear-if-present", "clear-intent">>)
    <3>1. Follows(o.cmd, o.cp, "look", "put-intent") /\ Follows(o.cmd, o.cp, "put-intent", "release") /\ Follows(o.cmd, o.cp, "release", "clear-if-present") /\ Follows(o.cmd, o.cp, "clear-if-present", "clear-intent") /\ Follows(o.cmd, o.cp, "clear-intent", "end")
      BY <1>12 DEF Follows, Gated3
    <3>2. "look" \in Places /\ "put-intent" \in Places /\ "release" \in Places /\ "clear-if-present" \in Places /\ "clear-intent" \in Places
      BY DEF Places
    <3>3. /\ <<"look", "put-intent", "release", "clear-if-present", "clear-intent">> \in Seq(Places) /\ Leads(o.cmd, o.cp, <<"look", "put-intent", "release", "clear-if-present", "clear-intent">>, "end")
          /\ First(<<"look", "put-intent", "release", "clear-if-present", "clear-intent">>, "end") = "look"
      BY ONLY <3>1, <3>2, Path5
    <3> QED BY <1>12, <3>3 DEF Starts
  <2> QED BY <1>12, <2>1 DEF Program
<1>13. CASE o.cmd = "get-state"
  <2>1. Fits(<<"recover">>)
    <3>1. Follows(o.cmd, o.cp, "recover", "end")
      BY <1>13 DEF Follows, Gated3
    <3>2. "recover" \in Places
      BY DEF Places
    <3>3. /\ <<"recover">> \in Seq(Places) /\ Leads(o.cmd, o.cp, <<"recover">>, "end")
          /\ First(<<"recover">>, "end") = "recover"
      BY ONLY <3>1, <3>2, Path1
    <3> QED BY <1>13, <3>3 DEF Starts
  <2> QED BY <1>13, <2>1 DEF Program
<1>14. CASE o.cmd = "establish"
  <2>1. Fits(<<"look-at-marker">>)
    <3>1. Follows(o.cmd, o.cp, "look-at-marker", "end")
      BY <1>14 DEF Follows, Gated3
    <3>2. "look-at-marker" \in Places
      BY DEF Places
    <3>3. /\ <<"look-at-marker">> \in Seq(Places) /\ Leads(o.cmd, o.cp, <<"look-at-marker">>, "end")
          /\ First(<<"look-at-marker">>, "end") = "look-at-marker"
      BY ONLY <3>1, <3>2, Path1
    <3> QED BY <1>14, <3>3 DEF Starts
  <2>2. Fits(<<>>)
    BY <1>14, NoPath DEF Starts
  <2> QED BY <1>14, <2>1, <2>2 DEF Program
<1> QED BY <1>1, <1>2, <1>3, <1>4, <1>5, <1>6, <1>7, <1>8, <1>9, <1>10, <1>11, <1>12, <1>13, <1>14
        DEF OpTypes, Commands

LEMMA RecoveryPath ==
  ASSUME NEW o, o \in OpTypes, CallFits(o), o.todo # <<>>, Path(o)
  PROVE  /\ Recovery(o) \in Seq(Places) /\ Leads(o.cmd, o.cp, Recovery(o), "end")
         /\ Recovers(o.cmd, o.failed, Head(o.todo), First(Recovery(o), "end"))
<1> DEFINE a == Head(o.todo)
           Fits(p) == /\ p \in Seq(Places) /\ Leads(o.cmd, o.cp, p, "end")
                      /\ Recovers(o.cmd, o.failed, a, First(p, "end"))
<1> SUFFICES Fits(Recovery(o))
  OBVIOUS
<1>1. /\ Tail(o.todo) \in Seq(Places) /\ Leads(o.cmd, o.cp, Tail(o.todo), "end")
      /\ Follows(o.cmd, o.cp, a, First(Tail(o.todo), "end"))
  BY PathTail DEF OpTypes, Path
<1> HIDE DEF a
<1>2. Fits(<<>>)
  BY NoPath DEF Recovers
<1>3. CASE a = "uncertain"
  <2>1. Fits(Tail(o.todo))
    BY <1>1, <1>3 DEF Recovers, Follows
  <2> QED BY <1>3, <2>1 DEF Recovery, a
<1>4. CASE a # "uncertain" /\ o.failed
  BY <1>2, <1>4 DEF Recovery, a
<1>5. CASE a # "uncertain" /\ ~o.failed /\ a = "put" /\ o.conv = "target"
  <2>1. o.cmd \in {"prepare", "prepare-draft"}
    BY <1>1, <1>5 DEF Follows, CallFits
  <2>2. Fits(<<"release">>)
    <3>1. Follows(o.cmd, o.cp, "release", "end")
      BY <1>5, <2>1 DEF Follows, Gated3
    <3>2. "release" \in Places
      BY DEF Places
    <3>3. /\ <<"release">> \in Seq(Places) /\ Leads(o.cmd, o.cp, <<"release">>, "end")
          /\ First(<<"release">>, "end") = "release"
      BY ONLY <3>1, <3>2, Path1
    <3> QED BY <1>5, <2>1, <3>3 DEF Recovers
  <2>3. Recovery(o) = <<"release">>
    BY <1>5, <2>1 DEF Recovery, a
  <2> QED BY <2>2, <2>3
<1>6. CASE a # "uncertain" /\ ~o.failed /\ ~(a = "put" /\ o.conv = "target") /\ a = "type" /\ o.cmd = "prepare"
  <2>1. Fits(Cancel)
    BY <1>6, CancelPath DEF Recovers
  <2> QED BY <1>6, <2>1 DEF Recovery, a
<1>7. CASE a # "uncertain" /\ ~o.failed /\ ~(a = "put" /\ o.conv = "target") /\ o.cmd = "submit"
  <2>1. a = "press" => Fits(Finalize(o.token))
    BY <1>7, FinalizePath DEF Recovers
  <2>2. a # "press" => Fits(Cancel)
    BY <1>7, CancelPath DEF Recovers
  <2> QED BY <1>7, <2>1, <2>2 DEF Recovery, SubmitFailed, a
<1>8. CASE a # "uncertain" /\ ~o.failed /\ ~(a = "put" /\ o.conv = "target") /\ o.cmd = "verify-send"
  <2>1. Fits(Finalize(o.token))
    BY <1>8, FinalizePath DEF Recovers
  <2> QED BY <1>8, <2>1 DEF Recovery, a
<1>9. CASE /\ a # "uncertain" /\ ~o.failed /\ ~(a = "put" /\ o.conv = "target")
           /\ o.cmd \in {"show-card", "accept-card"} /\ a \notin {"card-intent", "consume-trigger"}
  <2>1. Fits(<<"card-uncertain">>)
    <3>1. Follows(o.cmd, o.cp, "card-uncertain", "end")
      BY <1>9 DEF Follows, Gated3
    <3>2. "card-uncertain" \in Places
      BY DEF Places
    <3>3. /\ <<"card-uncertain">> \in Seq(Places) /\ Leads(o.cmd, o.cp, <<"card-uncertain">>, "end")
          /\ First(<<"card-uncertain">>, "end") = "card-uncertain"
      BY ONLY <3>1, <3>2, Path1
    <3> QED BY <1>9, <3>3 DEF Recovers
  <2> QED BY <1>9, <2>1 DEF Recovery, a
<1>10. CASE /\ a # "uncertain" /\ ~o.failed /\ ~(a = "put" /\ o.conv = "target")
            /\ o.cmd = "establish" /\ a \in {"type", "verify-draft"}
  <2>1. Fits(<<"clear", "proven", "clear-if-present">>)
    <3>1. Follows(o.cmd, o.cp, "clear", "proven") /\ Follows(o.cmd, o.cp, "proven", "clear-if-present") /\ Follows(o.cmd, o.cp, "clear-if-present", "end")
      BY <1>10 DEF Follows, Gated3
    <3>2. "clear" \in Places /\ "proven" \in Places /\ "clear-if-present" \in Places
      BY DEF Places
    <3>3. /\ <<"clear", "proven", "clear-if-present">> \in Seq(Places) /\ Leads(o.cmd, o.cp, <<"clear", "proven", "clear-if-present">>, "end")
          /\ First(<<"clear", "proven", "clear-if-present">>, "end") = "clear"
      BY ONLY <3>1, <3>2, Path3
    <3> QED BY <1>10, <3>3 DEF Recovers
  <2> QED BY <1>10, <2>1 DEF Recovery, a
<1>11. CASE /\ a # "uncertain" /\ ~o.failed /\ ~(a = "put" /\ o.conv = "target")
            /\ ~(o.cmd = "prepare" /\ a = "type") /\ o.cmd \notin {"submit", "verify-send"}
            /\ ~(o.cmd \in {"show-card", "accept-card"} /\ a \notin {"card-intent", "consume-trigger"})
            /\ ~(o.cmd = "establish" /\ a \in {"type", "verify-draft"})
  BY <1>2, <1>11 DEF Recovery, a
<1> QED BY <1>3, <1>4, <1>5, <1>6, <1>7, <1>8, <1>9, <1>10, <1>11

(***************************************************************************)
(* How a step moves the operation on.                                       *)
(***************************************************************************)
Alike(p, o) ==
  /\ p.cmd = o.cmd /\ p.conv = o.conv /\ p.text = o.text /\ p.token = o.token /\ p.cp = o.cp /\ p.tp = o.tp
  /\ p.saw = o.saw /\ p.chat = o.chat /\ p.free = o.free /\ p.new = o.new /\ p.began = o.began
  /\ p.ctl = o.ctl /\ p.batch = o.batch
Onwards(o, a) ==
  /\ op' \in OpTypes /\ Alike(op', o) /\ Path(op)'
  /\ op'.failed = o.failed /\ Follows(o.cmd, o.cp, a, Place')
FallsBack(o, a) ==
  /\ op' \in OpTypes /\ Alike(op', o) /\ Path(op)'
  /\ op'.failed /\ Recovers(o.cmd, o.failed, a, Place')

(* A state in which an operation is under way.                              *)
Working(a) ==
  /\ op \in OpTypes /\ op.todo # <<>> /\ op.todo \in Seq(Places) /\ Head(op.todo) = a /\ Place = a
  /\ Path(op) /\ CallFits(op) /\ op.cmd \in Commands /\ op.cmd # "none" /\ op # NoOp

LEMMA BusyWorks == ASSUME Typed, Busy PROVE op \in OpTypes /\ CallFits(op) /\ Path(op)
<1>1. op \in OpTypes
  BY DEF Typed, ProcessTyped, Busy, NoOp
<1>2. op \in Doing
  BY DEF Doing, Busy
<1> QED BY <1>1, <1>2 DEF Typed, CallsFit

LEMMA AtWorks == ASSUME Typed, NEW a, At(a) PROVE Working(a)
<1>1. Busy /\ op.todo # <<>> /\ Head(op.todo) = a
  BY DEF At
<1>2. op \in OpTypes /\ CallFits(op) /\ Path(op)
  BY <1>1, BusyWorks
<1>3. op.todo \in Seq(Places) /\ op.cmd \in Commands
  BY <1>2 DEF OpTypes
<1>4. op.cmd # "none" /\ op # NoOp
  BY <1>1 DEF Busy, NoOp
<1>5. Place = a
  BY <1>1 DEF Place, First
<1> QED BY <1>1, <1>2, <1>3, <1>4, <1>5 DEF Working

LEMMA ThenMoves ==
  ASSUME NEW o \in OpTypes, o.todo # <<>>, Path(o), Then(o)
  PROVE  Onwards(o, Head(o.todo))
<1>1. o.todo \in Seq(Places)
  BY DEF OpTypes
<1>2. Leads(o.cmd, o.cp, o.todo, "end")
  BY DEF Path
<1>3. /\ Leads(o.cmd, o.cp, Tail(o.todo), "end") /\ Tail(o.todo) \in Seq(Places)
      /\ Follows(o.cmd, o.cp, Head(o.todo), First(Tail(o.todo), "end"))
  BY <1>1, <1>2, PathTail
<1>4. /\ op'.todo = Tail(o.todo) /\ Alike(op', o) /\ op'.failed = o.failed
      /\ op' \in OpTypes
  BY <1>3 DEF Then, OpTypes, Alike
<1>5. Path(op)'
  BY <1>3, <1>4 DEF Path, Alike
<1>6. Place' = First(Tail(o.todo), "end")
  BY <1>4 DEF Place
<1> QED BY <1>3, <1>4, <1>5, <1>6 DEF Onwards

LEMMA DoneMoves == ASSUME NEW a, Working(a), Done PROVE Onwards(op, a)
BY ThenMoves DEF Working, Done

LEMMA FailMoves == ASSUME NEW a, Working(a), Fail PROVE FallsBack(op, a)
<1>1. /\ Recovery(op) \in Seq(Places) /\ Leads(op.cmd, op.cp, Recovery(op), "end")
      /\ Recovers(op.cmd, op.failed, a, First(Recovery(op), "end"))
  BY RecoveryPath DEF Working
<1>2. op \in OpTypes
  BY DEF Working
<1>3. op'.todo = Recovery(op) /\ Alike(op', op) /\ op'.failed = TRUE /\ op' \in OpTypes
  BY <1>1, <1>2 DEF Fail, OpTypes, Alike
<1>4. Path(op)'
  BY <1>1, <1>3 DEF Path, Alike
<1>5. Place' = First(Recovery(op), "end")
  BY <1>3 DEF Place
<1> QED BY <1>1, <1>3, <1>4, <1>5 DEF FallsBack

LEMMA RequireMoves ==
  ASSUME NEW a, Working(a), NEW P, Require(P)
  PROVE  (P => Onwards(op, a)) /\ (~P => FallsBack(op, a)) /\ (Onwards(op, a) \/ FallsBack(op, a))
BY DoneMoves, FailMoves DEF Require

LEMMA AlikeFits == ASSUME NEW o, NEW p, CallFits(o), Alike(p, o) PROVE CallFits(p)
BY DEF CallFits, Alike

(* What the rest of the type invariant needs of such a step.                 *)
LEMMA CallsKept ==
  ASSUME Typed, waiting' = waiting, op' \in OpTypes, CallFits(op'), Path(op)',
         Place' \in {"type", "verify-draft"} => pending' \in PendingTypes
  PROVE  CallsFit'
<1>1. \A o \in Doing' : CallFits(o)
  <2> SUFFICES ASSUME NEW o \in Doing' PROVE CallFits(o)
    OBVIOUS
  <2>1. CASE o = op'
    BY <2>1
  <2>2. CASE o # op'
    <3>1. o \in Doing
      BY <2>2 DEF Doing
    <3> QED BY <3>1 DEF Typed, CallsFit
  <2> QED BY <2>1, <2>2
<1>2. \A o \in Doing' : CallFits(o)'
  BY <1>1 DEF CallFits
<1>3. \A o \in Range(waiting)' : o.todo = <<>> /\ o.began = 0
  BY DEF Typed, CallsFit
<1> QED BY <1>2, <1>3 DEF CallsFit

LEMMA CallsMove ==
  ASSUME Typed, NEW a, Working(a), Onwards(op, a) \/ FallsBack(op, a), waiting' = waiting,
         a = "put" => pending' \in PendingTypes, a = "type" => pending' \in PendingTypes
  PROVE  CallsFit' /\ op' \in OpTypes
<1>1. op' \in OpTypes /\ Alike(op', op) /\ Path(op)'
  BY DEF Onwards, FallsBack
<1>2. CallFits(op')
  BY <1>1, AlikeFits DEF Working
<1>3. Place' \in {"type", "verify-draft"} => a \in {"put", "type"}
  BY DEF Onwards, FallsBack, Follows, Recovers
<1>4. CallsFit'
  BY <1>1, <1>2, <1>3, CallsKept
<1> QED BY <1>1, <1>4

LEMMA SpendTypes ==
  ASSUME budget \in BudgetTypes, NEW thing \in {"in", "owner", "typed", "faults", "starts", "tokens"}, Spend(thing)
  PROVE  /\ budget' \in BudgetTypes /\ budget'.unread = budget.unread /\ budget'.begun = budget.begun
         /\ budget'.tokens <= budget.tokens
BY DEF Spend, BudgetTypes

LEMMA AnsweredMoves ==
  ASSUME NEW a, Working(a), budget \in BudgetTypes, Answered(Done)
  PROVE  /\ Onwards(op, a) \/ FallsBack(op, a)
         /\ budget' \in BudgetTypes
<1>1. CASE Done /\ UNCHANGED budget
  BY <1>1, DoneMoves
<1>2. CASE Fail /\ Fault
  BY <1>2, FailMoves, SpendTypes DEF Fault
<1> QED BY <1>1, <1>2 DEF Answered

(***************************************************************************)
(* What is in use is finite, so a number not in use exists.                  *)
(***************************************************************************)
LEMMA ImageFinite ==
  ASSUME NEW S, IsFiniteSet(S), NEW f, DOMAIN f = S
  PROVE  IsFiniteSet({f[x] : x \in S})
<1> DEFINE T == {f[x] : x \in S}
           g == [x \in S |-> f[x]]
<1>1. g \in Surjection(S, T)
  BY DEF Surjection
<1> QED BY <1>1, FS_Surjection

LEMMA RangeFinite ==
  ASSUME NEW S, NEW s \in Seq(S)
  PROVE  IsFiniteSet(Range(s)) /\ \A x \in Range(s) : x \in S
<1>1. DOMAIN s = 1 .. Len(s) /\ Len(s) \in Nat
  OBVIOUS
<1>2. IsFiniteSet(1 .. Len(s))
  BY <1>1, FS_Interval
<1>3. IsFiniteSet({s[x] : x \in 1 .. Len(s)})
  BY <1>1, <1>2, ImageFinite
<1>4. \A x \in Range(s) : x \in S
  BY <1>1 DEF Range
<1> QED BY <1>1, <1>3, <1>4 DEF Range

LEMMA InUse ==
  ASSUME Typed
  PROVE  /\ IsFiniteSet(Held) /\ IsFiniteSet(ControlProofs) /\ IsFiniteSet(TargetProofs)
         /\ IsFiniteSet(Gates) /\ IsFiniteSet(Triggers)
<1>1. IsFiniteSet(Range(waiting))
  BY RangeFinite DEF Typed, ProcessTyped
<1>2. IsFiniteSet(Range(waiting) \cup {op} \cup {session})
  BY <1>1, FS_Union, FS_Singleton
<1>3. IsFiniteSet(Held)
  <2>1. Held \in SUBSET (Range(waiting) \cup {op} \cup {session})
    BY DEF Held
  <2> QED BY <1>2, <2>1, FS_Subset
<1>4. IsFiniteSet(ControlProofs)
  <2> DEFINE f == [o \in Held |-> o.cp]
  <2>1. IsFiniteSet({f[o] : o \in Held})
    BY <1>3, ImageFinite
  <2>2. {f[o] : o \in Held} = {o.cp : o \in Held}
    OBVIOUS
  <2>3. ControlProofs \in SUBSET {o.cp : o \in Held}
    BY DEF ControlProofs
  <2> QED BY <2>1, <2>2, <2>3, FS_Subset
<1>5. IsFiniteSet(TargetProofs)
  <2> DEFINE f == [o \in Held |-> o.tp]
  <2>1. IsFiniteSet({f[o] : o \in Held})
    BY <1>3, ImageFinite
  <2>2. {f[o] : o \in Held} = {o.tp : o \in Held}
    OBVIOUS
  <2>3. TargetProofs \in SUBSET {o.tp : o \in Held}
    BY DEF TargetProofs
  <2> QED BY <2>1, <2>2, <2>3, FS_Subset
<1>6. IsFiniteSet({p.gate : p \in ControlProofs})
  <2> DEFINE f == [p \in ControlProofs |-> p.gate]
  <2>1. IsFiniteSet({f[p] : p \in ControlProofs})
    BY <1>4, ImageFinite
  <2>2. {f[p] : p \in ControlProofs} = {p.gate : p \in ControlProofs}
    OBVIOUS
  <2> QED BY <2>1, <2>2
<1>7. IsFiniteSet({p.trigger.gate : p \in TargetProofs})
  <2> DEFINE f == [p \in TargetProofs |-> p.trigger.gate]
  <2>1. IsFiniteSet({f[p] : p \in TargetProofs})
    BY <1>5, ImageFinite
  <2>2. {f[p] : p \in TargetProofs} = {p.trigger.gate : p \in TargetProofs}
    OBVIOUS
  <2> QED BY <2>1, <2>2
<1>8. IsFiniteSet({p.trigger.id : p \in TargetProofs})
  <2> DEFINE f == [p \in TargetProofs |-> p.trigger.id]
  <2>1. IsFiniteSet({f[p] : p \in TargetProofs})
    BY <1>5, ImageFinite
  <2>2. {f[p] : p \in TargetProofs} = {p.trigger.id : p \in TargetProofs}
    OBVIOUS
  <2> QED BY <2>1, <2>2
<1>9. IsFiniteSet({p.trigger : p \in host.prepared})
  <2> DEFINE f == [p \in host.prepared |-> p.trigger]
  <2>1. IsFiniteSet({f[p] : p \in host.prepared})
    BY ImageFinite DEF Typed, ProcessTyped
  <2>2. {f[p] : p \in host.prepared} = {p.trigger : p \in host.prepared}
    OBVIOUS
  <2> QED BY <2>1, <2>2
<1>10. /\ IsFiniteSet(IF target.trigger = None THEN {} ELSE {target.trigger.gate})
       /\ IsFiniteSet(IF target.trigger = None THEN {} ELSE {target.trigger.id})
  BY FS_EmptySet, FS_Singleton
<1>11. IsFiniteSet(Gates)
  BY <1>6, <1>7, <1>10, FS_Union, FS_Singleton DEF Gates
<1>12. IsFiniteSet(Triggers)
  BY <1>8, <1>9, <1>10, FS_Union DEF Triggers
<1> QED BY <1>3, <1>4, <1>5, <1>11, <1>12

LEMMA NewCaps == ASSUME Typed PROVE NewControlCap \in Nat /\ NewTargetCap \in Nat
<1>1. IsFiniteSet(ControlProofs) /\ IsFiniteSet(TargetProofs)
  BY InUse
<1>2. IsFiniteSet(host.controls) /\ IsFiniteSet(host.targets) /\ IsFiniteSet(host.prepared)
  BY DEF Typed, ProcessTyped
<1>3. IsFiniteSet({p.cap : p \in ControlProofs})
  <2> DEFINE f == [p \in ControlProofs |-> p.cap]
  <2>1. IsFiniteSet({f[p] : p \in ControlProofs})
    BY <1>1, ImageFinite
  <2>2. {f[p] : p \in ControlProofs} = {p.cap : p \in ControlProofs}
    OBVIOUS
  <2> QED BY <2>1, <2>2
<1>4. IsFiniteSet({p.cap : p \in TargetProofs})
  <2> DEFINE f == [p \in TargetProofs |-> p.cap]
  <2>1. IsFiniteSet({f[p] : p \in TargetProofs})
    BY <1>1, ImageFinite
  <2>2. {f[p] : p \in TargetProofs} = {p.cap : p \in TargetProofs}
    OBVIOUS
  <2> QED BY <2>1, <2>2
<1>5. IsFiniteSet({p.control : p \in host.prepared})
  <2> DEFINE f == [p \in host.prepared |-> p.control]
  <2>1. IsFiniteSet({f[p] : p \in host.prepared})
    BY <1>2, ImageFinite
  <2>2. {f[p] : p \in host.prepared} = {p.control : p \in host.prepared}
    OBVIOUS
  <2> QED BY <2>1, <2>2
<1>6. IsFiniteSet({p.target : p \in host.prepared})
  <2> DEFINE f == [p \in host.prepared |-> p.target]
  <2>1. IsFiniteSet({f[p] : p \in host.prepared})
    BY <1>2, ImageFinite
  <2>2. {f[p] : p \in host.prepared} = {p.target : p \in host.prepared}
    OBVIOUS
  <2> QED BY <2>1, <2>2
<1>7. IsFiniteSet(host.controls \cup {p.cap : p \in ControlProofs} \cup {p.control : p \in host.prepared})
  BY <1>2, <1>3, <1>5, FS_Union
<1>8. IsFiniteSet(host.targets \cup {p.cap : p \in TargetProofs} \cup {p.target : p \in host.prepared})
  BY <1>2, <1>4, <1>6, FS_Union
<1> QED BY <1>7, <1>8, FreshFacts DEF NewControlCap, NewTargetCap

(* What the control state may become.                                       *)
LEMMA ControlSteps ==
  ASSUME Typed
  PROVE  /\ Stopped \in ControlTypes /\ Stopped.stopped /\ Stopped.reason = "user"
         /\ Stopped.active = control.active /\ Stopped.seen = control.seen
         /\ Running \in ControlTypes /\ ~Running.stopped /\ Running.active = control.active
         /\ Running.seen = control.seen /\ Running.reason = None
         /\ Activated \in ControlTypes /\ Activated.active /\ Activated.seen = control.seen
         /\ \/ Activated = control
            \/ Activated.stopped = control.stopped /\ Activated.reason = control.reason
               /\ ~(control.stopped /\ control.reason = "boundary")
            \/ control.stopped /\ control.reason = "boundary" /\ ~Activated.stopped /\ Activated.reason = None
<1>1. Fresh(Gates) \in Nat
  BY InUse, FreshFacts
<1>2. control \in ControlTypes
  BY DEF Typed, StoresTyped
<1>3. /\ Stopped \in ControlTypes /\ Stopped.stopped /\ Stopped.reason = "user"
      /\ Stopped.active = control.active /\ Stopped.seen = control.seen
  BY <1>1, <1>2 DEF Stopped, ControlTypes
<1>4. /\ Running \in ControlTypes /\ ~Running.stopped /\ Running.active = control.active
      /\ Running.seen = control.seen /\ Running.reason = None
  BY <1>1, <1>2 DEF Running, ControlTypes
<1>5. /\ Activated \in ControlTypes /\ Activated.active /\ Activated.seen = control.seen
      /\ \/ Activated = control
         \/ Activated.stopped = control.stopped /\ Activated.reason = control.reason
            /\ ~(control.stopped /\ control.reason = "boundary")
         \/ control.stopped /\ control.reason = "boundary" /\ ~Activated.stopped /\ Activated.reason = None
  <2>1. CASE control.active
    BY <1>2, <2>1 DEF Activated
  <2>2. CASE ~control.active /\ control.stopped /\ control.reason = "boundary"
    <3>1. Activated = [Running EXCEPT !.active = TRUE]
      BY <2>2 DEF Activated
    <3> HIDE DEF Running
    <3> QED BY <1>4, <2>2, <3>1 DEF ControlTypes
  <2>3. CASE ~control.active /\ ~(control.stopped /\ control.reason = "boundary")
    <3>1. Activated = [control EXCEPT !.active = TRUE]
      BY <2>3 DEF Activated
    <3> QED BY <1>2, <2>3, <3>1 DEF ControlTypes
  <2> QED BY <2>1, <2>2, <2>3
<1> QED BY <1>3, <1>4, <1>5

(***************************************************************************)
(* The control chat behind its marker.                                      *)
(***************************************************************************)
MarkOf(s) == SelectInSeq(s, LAMBDA x : x = Marker)
SuffixOf(s, n) == SubSeq(s, 1 + MarkOf(s), n)

LEMMA LeastOf ==
  ASSUME NEW T \in SUBSET Nat, T # {}
  PROVE  \E x \in T : \A y \in T : x <= y
<1> DEFINE R == OpToRel(<, Nat)
<1>1. IsWellFoundedOn(R, Nat)
  BY NatLessThanWellFounded
<1>2. \A x, y \in Nat : x < y => <<x, y>> \in R
  BY DEF OpToRel
<1> HIDE DEF R
<1>3. PICK x \in T : \A y \in T : ~ (<<y, x>> \in R)
  BY <1>1, WFMin
<1>4. \A y \in T : x <= y
  <2> TAKE y \in T
  <2>1. x \in Nat /\ y \in Nat /\ ~ (y < x)
    BY <1>2, <1>3
  <2> QED BY <2>1
<1> QED BY <1>4

LEMMA MarkFacts ==
  ASSUME NEW s \in Seq(Orders)
  PROVE  /\ MarkOf(s) \in 0 .. Len(s) /\ Len(s) \in Nat
         /\ (\E i \in 1 .. Len(s) : s[i] = Marker) <=> MarkOf(s) > 0
         /\ MarkOf(s) > 0 => s[MarkOf(s)] = Marker
         /\ \A j \in 1 .. Len(s) : s[j] = Marker => MarkOf(s) > 0 /\ MarkOf(s) <= j
<1> DEFINE I == {i \in 1 .. Len(s) : s[i] = Marker}
<1>1. Len(s) \in Nat /\ I \in SUBSET Nat
  OBVIOUS
<1>2. MarkOf(s) = IF I # {} THEN Min(I) ELSE 0
  BY DEF MarkOf, SelectInSeq
<1>3. CASE I = {}
  <2>1. MarkOf(s) = 0
    BY <1>2, <1>3
  <2>2. \A i \in 1 .. Len(s) : s[i] # Marker
    BY <1>3
  <2> QED BY <1>1, <2>1, <2>2
<1>4. CASE I # {}
  <2>1. Min(I) \in I /\ \A y \in I : Min(I) <= y
    <3> HIDE DEF I
    <3>1. \E x \in I : \A y \in I : x <= y
      BY <1>1, <1>4, LeastOf
    <3> QED BY <3>1 DEF Min
  <2>2. MarkOf(s) = Min(I)
    BY <1>2, <1>4
  <2>3. MarkOf(s) \in 1 .. Len(s) /\ s[MarkOf(s)] = Marker
    BY <2>1, <2>2
  <2>4. \A j \in 1 .. Len(s) : s[j] = Marker => MarkOf(s) <= j
    BY <2>1, <2>2
  <2> HIDE DEF I
  <2> QED BY <1>1, <2>3, <2>4
<1> QED BY <1>3, <1>4

LEMMA SuffixFacts ==
  ASSUME NEW s \in Seq(Orders), NEW n \in 0 .. Len(s)
  PROVE  /\ SuffixOf(s, n) \in Seq(Orders)
         /\ Len(SuffixOf(s, n)) = IF n > MarkOf(s) THEN n - MarkOf(s) ELSE 0
         /\ \A i \in 1 .. Len(SuffixOf(s, n)) : SuffixOf(s, n)[i] = s[MarkOf(s) + i]
<1> DEFINE k == MarkOf(s)
<1>1. k \in 0 .. Len(s) /\ Len(s) \in Nat /\ n \in Nat
  BY MarkFacts
<1> HIDE DEF k
<1>2. \A i \in 1 + k .. n : s[i] \in Orders
  BY <1>1
<1>3. /\ SubSeq(s, 1 + k, n) \in Seq(Orders)
      /\ Len(SubSeq(s, 1 + k, n)) = IF 1 + k <= n THEN n - (1 + k) + 1 ELSE 0
      /\ \A i \in 1 .. n - (1 + k) + 1 : SubSeq(s, 1 + k, n)[i] = s[(1 + k) + i - 1]
  BY <1>1, <1>2, SubSeqProperties
<1>4. /\ (1 + k <= n <=> n > k) /\ n - (1 + k) + 1 = n - k
      /\ \A i \in 1 .. n - k : (1 + k) + i - 1 = k + i
  BY <1>1
<1>5. Len(SubSeq(s, 1 + k, n)) = IF n > k THEN n - k ELSE 0
  BY <1>3, <1>4
<1>6. \A i \in 1 .. Len(SubSeq(s, 1 + k, n)) : SubSeq(s, 1 + k, n)[i] = s[k + i]
  BY <1>1, <1>3, <1>4, <1>5
<1> QED BY <1>3, <1>5, <1>6 DEF SuffixOf, k

(* A message more in the control chat moves no marker and changes nothing    *)
(* that was there.                                                         *)
LEMMA ChatGrows ==
  ASSUME NEW s \in Seq(Orders), NEW c \in Orders, NEW n \in 0 .. Len(s)
  PROVE  LET t == Append(s, c)
         IN  /\ t \in Seq(Orders) /\ Len(t) = Len(s) + 1 /\ n \in 0 .. Len(t)
             /\ \A i \in 1 .. Len(s) : t[i] = s[i]
             /\ MarkOf(s) > 0 => MarkOf(t) = MarkOf(s) /\ SuffixOf(t, n) = SuffixOf(s, n)
             /\ Len(SuffixOf(t, n)) <= Len(SuffixOf(s, n))
<1> DEFINE t == Append(s, c)
<1>1. t \in Seq(Orders) /\ Len(t) = Len(s) + 1 /\ Len(s) \in Nat /\ n \in 0 .. Len(t) /\ \A i \in 1 .. Len(s) : t[i] = s[i]
  OBVIOUS
<1> HIDE DEF t
<1>2. /\ MarkOf(s) \in 0 .. Len(s)
      /\ MarkOf(s) > 0 => s[MarkOf(s)] = Marker
      /\ \A j \in 1 .. Len(s) : s[j] = Marker => MarkOf(s) > 0 /\ MarkOf(s) <= j
  BY MarkFacts
<1>3. /\ MarkOf(t) \in 0 .. Len(t)
      /\ MarkOf(t) > 0 => t[MarkOf(t)] = Marker
      /\ \A j \in 1 .. Len(t) : t[j] = Marker => MarkOf(t) > 0 /\ MarkOf(t) <= j
  BY <1>1, MarkFacts
<1>4. MarkOf(s) > 0 => MarkOf(t) = MarkOf(s)
  <2> SUFFICES ASSUME MarkOf(s) > 0 PROVE MarkOf(t) = MarkOf(s)
    OBVIOUS
  <2>1. MarkOf(s) \in 1 .. Len(s) /\ MarkOf(s) \in 1 .. Len(t)
    BY <1>1, <1>2
  <2>2. MarkOf(t) > 0 /\ MarkOf(t) <= MarkOf(s)
    BY <1>1, <1>2, <1>3, <2>1
  <2>3. MarkOf(t) \in 1 .. Len(s)
    BY <1>1, <1>3, <2>1, <2>2
  <2>4. MarkOf(s) <= MarkOf(t)
    BY <1>1, <1>2, <1>3, <2>2, <2>3
  <2> QED BY <1>2, <1>3, <2>2, <2>4
<1>5. MarkOf(s) = 0 => MarkOf(t) = 0 \/ MarkOf(t) = Len(s) + 1
  <2> SUFFICES ASSUME MarkOf(s) = 0, MarkOf(t) # 0 PROVE MarkOf(t) = Len(s) + 1
    OBVIOUS
  <2>1. MarkOf(t) > 0 /\ MarkOf(t) <= Len(s) + 1
    BY <1>1, <1>3
  <2>2. CASE MarkOf(t) \in 1 .. Len(s)
    BY <1>1, <1>2, <1>3, <2>1, <2>2
  <2> QED BY <1>1, <1>3, <2>1, <2>2
<1>6. /\ SuffixOf(s, n) \in Seq(Orders)
      /\ Len(SuffixOf(s, n)) = IF n > MarkOf(s) THEN n - MarkOf(s) ELSE 0
      /\ \A i \in 1 .. Len(SuffixOf(s, n)) : SuffixOf(s, n)[i] = s[MarkOf(s) + i]
  BY SuffixFacts
<1>7. /\ SuffixOf(t, n) \in Seq(Orders)
      /\ Len(SuffixOf(t, n)) = IF n > MarkOf(t) THEN n - MarkOf(t) ELSE 0
      /\ \A i \in 1 .. Len(SuffixOf(t, n)) : SuffixOf(t, n)[i] = t[MarkOf(t) + i]
  BY <1>1, SuffixFacts
<1>8. Len(SuffixOf(t, n)) <= Len(SuffixOf(s, n))
  BY <1>1, <1>2, <1>3, <1>4, <1>5, <1>6, <1>7
<1>9. MarkOf(s) > 0 => SuffixOf(t, n) = SuffixOf(s, n)
  <2> SUFFICES ASSUME MarkOf(s) > 0 PROVE SuffixOf(t, n) = SuffixOf(s, n)
    OBVIOUS
  <2>1. Len(SuffixOf(t, n)) = Len(SuffixOf(s, n)) /\ Len(SuffixOf(s, n)) \in Nat
    BY <1>4, <1>6, <1>7
  <2>2. \A i \in 1 .. Len(SuffixOf(s, n)) : MarkOf(s) + i \in 1 .. Len(s)
    BY <1>1, <1>2, <1>6
  <2>3. \A i \in 1 .. Len(SuffixOf(s, n)) : SuffixOf(t, n)[i] = SuffixOf(s, n)[i]
    BY <1>1, <1>4, <1>6, <1>7, <2>1, <2>2
  <2> QED BY <1>6, <1>7, <2>1, <2>3, SeqEqual
<1> QED BY <1>1, <1>4, <1>8, <1>9 DEF t

(***************************************************************************)
(* The steps keep the types.                                                *)
(***************************************************************************)
LEMMA WorldKept == ASSUME Typed, UNCHANGED World PROVE WorldTyped'
BY DEF Typed, WorldTyped, World

LEMMA StoresKept == ASSUME Typed, UNCHANGED durable PROVE StoresTyped'
BY DEF Typed, StoresTyped, durable

LEMMA ProcessKept ==
  ASSUME Typed, UNCHANGED Process, budget' \in BudgetTypes, op' \in OpTypes \union {NoOp} PROVE ProcessTyped'
BY DEF Typed, ProcessTyped, Process

LEMMA TypedParts ==
  ASSUME Typed
  PROVE  /\ chat \in Chats /\ commands \in Seq(Orders) /\ composer \in [{"target", "control"} -> Texts]
         /\ orphan \in PressTypes \union {None} /\ presses \in Seq(PressTypes)
         /\ control \in ControlTypes /\ target \in TargetTypes
         /\ pending \in PendingTypes \union {None} /\ budget \in BudgetTypes
         /\ host \in HostTypes /\ session \in SessionTypes /\ client \in ClientTypesAre
         /\ waiting \in Seq(OpTypes) /\ op \in OpTypes \union {NoOp}
BY DEF Typed, WorldTyped, StoresTyped, ProcessTyped

(* A step that changes nothing but the operation, and perhaps a bound.       *)
LEMMA OnlyMoves ==
  ASSUME Typed, NEW a, Working(a), a \notin {"put"}, Onwards(op, a) \/ FallsBack(op, a), budget' \in BudgetTypes,
         UNCHANGED <<World, durable, Process>>
  PROVE  Typed'
<1>1. waiting' = waiting /\ pending' = pending
  BY DEF Process, durable
<1>2. a = "type" => pending' \in PendingTypes
  BY <1>1 DEF Typed, CallsFit, Working
<1>3. CallsFit' /\ op' \in OpTypes
  BY <1>1, <1>2, CallsMove
<1> QED BY <1>3, WorldKept, StoresKept, ProcessKept DEF Typed

LEMMA AssertBoundTyped == ASSUME Typed, AssertBound PROVE Typed'
<1>1. Working("bound")
  BY AtWorks DEF AssertBound
<1>2. Onwards(op, "bound") \/ FallsBack(op, "bound")
  BY <1>1, RequireMoves DEF AssertBound
<1>3. budget' \in BudgetTypes /\ UNCHANGED <<World, durable, Process>>
  BY TypedParts DEF AssertBound
<1> QED BY <1>1, <1>2, <1>3, OnlyMoves

LEMMA ProvenTyped == ASSUME Typed, Proven PROVE Typed'
<1>1. Working("proven")
  BY AtWorks DEF Proven
<1>2. Onwards(op, "proven") \/ FallsBack(op, "proven")
  BY <1>1, RequireMoves DEF Proven
<1>3. budget' \in BudgetTypes /\ UNCHANGED <<World, durable, Process>>
  BY TypedParts DEF Proven
<1> QED BY <1>1, <1>2, <1>3, OnlyMoves

LEMMA StepFailsTyped == ASSUME Typed, StepFails PROVE Typed' /\ FallsBack(op, Head(op.todo)) /\ Working(Head(op.todo))
<1> DEFINE a == Head(op.todo)
<1>1. Working(a)
  <2>1. At(a)
    BY DEF StepFails, At
  <2> QED BY <2>1, AtWorks
<1> HIDE DEF a
<1>2. FallsBack(op, a)
  BY <1>1, FailMoves DEF StepFails
<1>3. budget' \in BudgetTypes /\ UNCHANGED <<World, durable, Process>>
  BY TypedParts, SpendTypes DEF StepFails, Fault
<1>4. op' \in OpTypes /\ Alike(op', op) /\ Path(op)' /\ waiting' = waiting
  BY <1>2, <1>3 DEF FallsBack, Process
<1>5. Place' \notin {"type", "verify-draft"}
  BY <1>2 DEF FallsBack, Recovers
<1>6. CallsFit'
  BY <1>1, <1>4, <1>5, AlikeFits, CallsKept DEF Working
<1>7. Typed'
  BY <1>3, <1>4, <1>6, WorldKept, StoresKept, ProcessKept DEF Typed
<1> QED BY <1>1, <1>2, <1>7 DEF a

(* A step that changes one of the stores.                                   *)
LEMMA StoreMoves ==
  ASSUME Typed, NEW a, Working(a), Onwards(op, a) \/ FallsBack(op, a), budget' \in BudgetTypes,
         UNCHANGED <<World, Process>>, StoresTyped',
         a = "put" => pending' \in PendingTypes, a = "type" => pending' \in PendingTypes
  PROVE  Typed'
<1>1. waiting' = waiting
  BY DEF Process
<1>2. CallsFit' /\ op' \in OpTypes
  BY <1>1, CallsMove
<1> QED BY <1>2, WorldKept, ProcessKept DEF Typed

LEMMA ActivateTyped == ASSUME Typed, Activate PROVE Typed'
<1>1. Working("activate")
  BY AtWorks DEF Activate
<1>2. Onwards(op, "activate")
  BY <1>1, DoneMoves DEF Activate
<1>3. budget' \in BudgetTypes /\ UNCHANGED <<World, Process>>
  BY TypedParts DEF Activate
<1>4. StoresTyped'
  BY ControlSteps DEF Activate, Typed, StoresTyped
<1> QED BY <1>1, <1>2, <1>3, <1>4, StoreMoves

LEMMA EvaluatedTypes ==
  ASSUME Typed, NEW snapshot \in Chats, NEW new, NEW unread \in BOOLEAN, NEW gate \in Nat, NEW seen \in Nat
  PROVE  LET e == Evaluated(snapshot, new, unread, gate, seen)
         IN  /\ e \in TargetTypes /\ e.base = snapshot
             /\ \/ e.trigger = None
                \/ e.trigger = target.trigger /\ target.trigger # None /\ target.trigger.chat = snapshot
                \/ /\ e.trigger.id = Fresh(Triggers) /\ e.trigger.chat = snapshot
                   /\ snapshot # <<>> /\ Last(snapshot).dir = "in" /\ e.trigger.msg = Last(snapshot).text
<1> DEFINE next == [base |-> snapshot, unread |-> unread, trigger |-> None]
           new1 == [id |-> Fresh(Triggers), msg |-> Last(snapshot).text, gate |-> gate, seen |-> seen, chat |-> snapshot]
           e == Evaluated(snapshot, new, unread, gate, seen)
           continues == target.base # None /\ Continues(target.base, snapshot)
           incoming == snapshot # <<>> /\ Last(snapshot).dir = "in"
           Good(x) == /\ x \in TargetTypes /\ x.base = snapshot
                      /\ \/ x.trigger = None
                         \/ x.trigger = target.trigger /\ target.trigger # None /\ target.trigger.chat = snapshot
                         \/ /\ x.trigger.id = Fresh(Triggers) /\ x.trigger.chat = snapshot
                            /\ snapshot # <<>> /\ Last(snapshot).dir = "in" /\ x.trigger.msg = Last(snapshot).text
<1>1. Fresh(Triggers) \in Nat
  BY InUse, FreshFacts
<1>2. target \in TargetTypes
  BY TypedParts
<1>3. next \in TargetTypes
  BY DEF TargetTypes
<1>4. snapshot # <<>> => Last(snapshot) \in Bubbles
  BY DEF Chats, Last
<1>5. incoming => new1 \in TriggerTypes
  BY <1>1, <1>4 DEF TriggerTypes, Bubbles
<1>6. \/ e = next
      \/ target.trigger # None /\ target.trigger.chat = snapshot /\ e = [next EXCEPT !.trigger = target.trigger]
      \/ incoming /\ e = [next EXCEPT !.trigger = new1]
  BY DEF Evaluated
<1> HIDE DEF e
<1>7. e = next => Good(e)
  <2> SUFFICES ASSUME e = next PROVE Good(e)
    OBVIOUS
  <2>1. Good(next)
    BY <1>3
  <2> QED BY <2>1
<1>8. ASSUME target.trigger # None /\ target.trigger.chat = snapshot /\ e = [next EXCEPT !.trigger = target.trigger]
      PROVE  Good(e)
  <2>1. e = [base |-> snapshot, unread |-> unread, trigger |-> target.trigger]
    BY <1>8
  <2>2. target.trigger \in TriggerTypes
    BY <1>2, <1>8 DEF TargetTypes
  <2>3. e \in TargetTypes
    BY <2>1, <2>2 DEF TargetTypes
  <2> QED BY <1>8, <2>1, <2>3
<1>9. ASSUME incoming /\ e = [next EXCEPT !.trigger = new1]
      PROVE  Good(e)
  <2>1. e = [base |-> snapshot, unread |-> unread, trigger |-> new1]
    BY <1>9
  <2>2. e \in TargetTypes
    BY <1>5, <1>9, <2>1 DEF TargetTypes
  <2> QED BY <1>9, <2>1, <2>2
<1> QED BY <1>6, <1>7, <1>8, <1>9 DEF e

(***************************************************************************)
(* The steps of the control chat and of the boundary.                        *)
(***************************************************************************)
Fixed(p, o) ==
  p.cmd = o.cmd /\ p.conv = o.conv /\ p.text = o.text /\ p.tp = o.tp /\ p.saw = o.saw /\ p.began = o.began
Goes(o) == op' \in OpTypes /\ Path(op)' /\ Fixed(op', o)

LEMMA AlikeFixed == ASSUME NEW a, Onwards(op, a) \/ FallsBack(op, a) PROVE Goes(op) /\ op'.cp = op.cp
BY DEF Onwards, FallsBack, Alike, Fixed, Goes

LEMMA FixedFits == ASSUME NEW o, NEW p, CallFits(o), Fixed(p, o), p.cp = o.cp PROVE CallFits(p)
BY DEF CallFits, Fixed

(* Such a step keeps the types if it keeps those of the stores.              *)
LEMMA GoesTyped ==
  ASSUME Typed, NEW a, Working(a), Goes(op), CallFits(op'), budget' \in BudgetTypes,
         WorldTyped', StoresTyped', UNCHANGED <<Process>>,
         Place' \in {"type", "verify-draft"} => pending' \in PendingTypes
  PROVE  Typed'
<1>1. waiting' = waiting
  BY DEF Process
<1>2. CallsFit'
  BY <1>1, CallsKept DEF Goes
<1> QED BY <1>2, ProcessKept DEF Typed, Goes

StopPath == <<"stop-clear", "stop-proven">>
LEMMA StopPaths ==
  ASSUME NEW cmd, NEW cp, cmd \in Gated3 \union {"read-control", "establish"}
  PROVE  /\ \A s \in Seq(Places) : Leads(cmd, cp, s, "end") /\ Follows(cmd, cp, "stop-proven", First(s, "end")) =>
              /\ StopPath \o s \in Seq(Places) /\ Leads(cmd, cp, StopPath \o s, "end")
              /\ First(StopPath \o s, "end") = "stop-clear"
         /\ StopPath \in Seq(Places) /\ Leads(cmd, cp, StopPath, "end") /\ First(StopPath, "end") = "stop-clear"
<1>1. Follows(cmd, cp, "stop-clear", "stop-proven")
  BY DEF Follows, Gated3
<1>2. "stop-clear" \in Places /\ "stop-proven" \in Places
  BY DEF Places
<1>3. ASSUME NEW b, Follows(cmd, cp, "stop-proven", b)
      PROVE  StopPath \in Seq(Places) /\ Leads(cmd, cp, StopPath, b) /\ First(StopPath, b) = "stop-clear"
  BY ONLY <1>1, <1>2, <1>3, Path2 DEF StopPath
<1>4. ASSUME NEW s \in Seq(Places), Leads(cmd, cp, s, "end"), Follows(cmd, cp, "stop-proven", First(s, "end"))
      PROVE  /\ StopPath \o s \in Seq(Places) /\ Leads(cmd, cp, StopPath \o s, "end")
             /\ First(StopPath \o s, "end") = "stop-clear"
  <2> DEFINE k == First(s, "end")
  <2>1. StopPath \in Seq(Places) /\ Leads(cmd, cp, StopPath, k) /\ First(StopPath, k) = "stop-clear"
    BY <1>3, <1>4
  <2> QED BY <1>4, <2>1, PathConcat
<1>5. Follows(cmd, cp, "stop-proven", "end")
  BY DEF Follows, Gated3
<1> QED BY <1>3, <1>4, <1>5

Once == Count(commands, Marker) = 1
ReadControlDoes ==
  \/ Once /\ control' = Activated /\ op'.ctl = Len(commands) /\ Place' = "consume" /\ op'.failed = op.failed
  \/ control' = Stopped /\ Place' = "stop-clear" /\ op'.batch = "ambiguous"
  \/ control' = control /\ FallsBack(op, "control")
LEMMA ReadControlMoves ==
  ASSUME Typed, ReadControl
  PROVE  Typed' /\ Working("control") /\ Goes(op) /\ op'.cp = op.cp /\ ReadControlDoes
<1>1. Working("control")
  BY AtWorks DEF ReadControl
<1>2. op \in OpTypes /\ op.todo \in Seq(Places) /\ op.todo # <<>> /\ Leads(op.cmd, op.cp, op.todo, "end")
  BY <1>1 DEF Working, Path
<1>3. /\ Leads(op.cmd, op.cp, Tail(op.todo), "end") /\ Tail(op.todo) \in Seq(Places)
      /\ Follows(op.cmd, op.cp, "control", First(Tail(op.todo), "end"))
  BY <1>1, <1>2, PathTail DEF Working
<1>4. op.cmd \in Gated3 \union {"read-control", "establish"} /\ First(Tail(op.todo), "end") = "consume"
  BY <1>3 DEF Follows
<1>5. ASSUME Once /\ control' = Activated /\ Then([op EXCEPT !.ctl = Len(commands)])
      PROVE  Goes(op) /\ op'.cp = op.cp /\ ReadControlDoes
  <2> DEFINE o == [op EXCEPT !.ctl = Len(commands)]
  <2>1. Len(commands) \in Nat
    BY TypedParts
  <2>2. o \in OpTypes /\ o.todo = op.todo /\ o.cmd = op.cmd /\ o.cp = op.cp /\ Fixed(o, op) /\ o.ctl = Len(commands)
        /\ o.failed = op.failed
    BY <1>2, <2>1 DEF OpTypes, Fixed
  <2>3. Path(o)
    BY <1>2, <2>2 DEF Path
  <2> HIDE DEF o
  <2>4. Onwards(o, "control")
    BY <1>1, <1>5, <2>2, <2>3, ThenMoves DEF Working, o
  <2>5. Goes(op) /\ op'.cp = op.cp /\ op'.ctl = Len(commands) /\ Place' = "consume" /\ op'.failed = op.failed
    BY <2>2, <2>4 DEF Onwards, Alike, Goes, Fixed, Follows
  <2> QED BY <1>5, <2>5 DEF ReadControlDoes
<1>6. ASSUME /\ control' = Stopped
             /\ op' = [op EXCEPT !.batch = "ambiguous", !.todo = <<"stop-clear", "stop-proven">>]
      PROVE  Goes(op) /\ op'.cp = op.cp /\ ReadControlDoes
  <2>3. /\ StopPath \in Seq(Places) /\ Leads(op.cmd, op.cp, StopPath, "end")
        /\ First(StopPath, "end") = "stop-clear"
    BY <1>4, StopPaths
  <2>4. op'.todo = StopPath /\ op' \in OpTypes /\ Fixed(op', op) /\ op'.cp = op.cp /\ op'.batch = "ambiguous"
    BY <1>2, <1>6, <2>3 DEF OpTypes, Fixed, StopPath
  <2>5. Path(op)' /\ Place' = "stop-clear"
    BY <2>3, <2>4 DEF Path, Place, Fixed
  <2> QED BY <1>6, <2>4, <2>5 DEF ReadControlDoes, Goes
<1>7. ASSUME control' = control /\ Fail
      PROVE  Goes(op) /\ op'.cp = op.cp /\ ReadControlDoes
  BY <1>1, <1>7, FailMoves, AlikeFixed DEF ReadControlDoes
<1>8. Goes(op) /\ op'.cp = op.cp /\ ReadControlDoes
  BY <1>5, <1>6, <1>7 DEF ReadControl, Once
<1>9. UNCHANGED <<World, Process, budget>> /\ StoresTyped'
  <2>1. UNCHANGED <<outgoing, target, known, pending, intent, ledger>> /\ control' \in ControlTypes
    BY <1>8, ControlSteps, TypedParts DEF ReadControl, ReadControlDoes
  <2> QED BY <2>1 DEF ReadControl, Typed, StoresTyped
<1>10. Place' \notin {"type", "verify-draft"}
  BY <1>8 DEF ReadControlDoes, FallsBack, Recovers
<1>11. CallFits(op')
  BY <1>1, <1>8, FixedFits DEF Goes, Working
<1>12. budget' \in BudgetTypes /\ WorldTyped' /\ UNCHANGED <<Process>>
  BY <1>9, WorldKept, TypedParts
<1>13. Typed'
  BY <1>1, <1>8, <1>9, <1>10, <1>11, <1>12, GoesTyped
<1> QED BY <1>1, <1>8, <1>13

LEMMA SubSeqLen ==
  ASSUME NEW s, NEW m \in Int, NEW n \in Int
  PROVE  Len(SubSeq(s, m, n)) \in Nat
<1> DEFINE S == {s[i] : i \in m .. n}
<1>1. Len(SubSeq(s, m, n)) = IF m <= n THEN n - m + 1 ELSE 0
  <2>1. \A i \in m .. n : s[i] \in S
    OBVIOUS
  <2> HIDE DEF S
  <2> QED BY <2>1, SubSeqProperties
<1> QED BY <1>1

LEMMA SuffixLen == ASSUME Typed, NEW n \in Nat PROVE Len(Suffix(n)) \in Nat
<1>1. MarkOf(commands) \in Nat
  BY TypedParts, MarkFacts
<1> QED BY <1>1, SubSeqLen DEF Suffix, MarkOf

Counted == [control EXCEPT !.seen = Len(Suffix(op.ctl))]
Heeded ==   \* what ConsumeControl makes of messages without a stop
  IF Unseen(op.ctl) = <<>> THEN control
  ELSE IF "resume" \in Range(Unseen(op.ctl)) /\ control.stopped /\ control.reason = "user"
  THEN [Running EXCEPT !.seen = Counted.seen]
  ELSE Counted
Quiet == Reader \/ (Unseen(op.ctl) = <<>> /\ ~control.stopped)
ConsumeDoes ==
  \/ /\ "stop" \in Range(Unseen(op.ctl)) /\ control' = Stopped
     /\ Place' = "stop-clear" /\ op'.batch = "stop" /\ op'.ctl = op.ctl /\ op'.failed = op.failed
  \/ /\ "stop" \notin Range(Unseen(op.ctl)) /\ control' = Heeded
     /\ (Quiet => Onwards(op, "consume")) /\ (~Quiet => FallsBack(op, "consume"))
LEMMA ConsumeMoves ==
  ASSUME Typed, ConsumeControl
  PROVE  Typed' /\ Working("consume") /\ Goes(op) /\ op'.cp = op.cp /\ ConsumeDoes
<1>1. Working("consume")
  BY AtWorks DEF ConsumeControl
<1>2. op \in OpTypes /\ op.todo \in Seq(Places) /\ op.todo # <<>> /\ Leads(op.cmd, op.cp, op.todo, "end")
  BY <1>1 DEF Working, Path
<1>3. /\ Leads(op.cmd, op.cp, Tail(op.todo), "end") /\ Tail(op.todo) \in Seq(Places)
      /\ Follows(op.cmd, op.cp, "consume", First(Tail(op.todo), "end"))
  BY <1>1, <1>2, PathTail DEF Working
<1>4. /\ op.cmd \in Gated3 \union {"read-control", "establish"}
      /\ Follows(op.cmd, op.cp, "stop-proven", First(Tail(op.todo), "end"))
  BY <1>3 DEF Follows
<1>5. ASSUME "stop" \in Range(Unseen(op.ctl)), control' = Stopped,
             op' = [op EXCEPT !.batch = "stop", !.todo = <<"stop-clear", "stop-proven">> \o Tail(@)]
      PROVE  Goes(op) /\ op'.cp = op.cp /\ ConsumeDoes
  <2> DEFINE t == StopPath \o Tail(op.todo)
  <2>1. t \in Seq(Places) /\ Leads(op.cmd, op.cp, t, "end") /\ First(t, "end") = "stop-clear"
    BY <1>3, <1>4, StopPaths
  <2>2. op' = [op EXCEPT !.batch = "stop", !.todo = t]
    BY <1>5 DEF StopPath
  <2> HIDE DEF t
  <2>3. /\ op'.todo = t /\ op' \in OpTypes /\ Fixed(op', op) /\ op'.cp = op.cp /\ op'.batch = "stop"
        /\ op'.ctl = op.ctl /\ op'.failed = op.failed
    BY <1>2, <2>1, <2>2 DEF OpTypes, Fixed
  <2>4. Path(op)' /\ Place' = "stop-clear"
    BY <2>1, <2>3 DEF Path, Place, Fixed
  <2> QED BY <1>5, <2>3, <2>4 DEF ConsumeDoes, Goes
<1>6. ASSUME "stop" \notin Range(Unseen(op.ctl)), control' = Heeded, Require(Quiet)
      PROVE  Goes(op) /\ op'.cp = op.cp /\ ConsumeDoes
  <2>1. /\ (Quiet => Onwards(op, "consume")) /\ (~Quiet => FallsBack(op, "consume"))
        /\ Onwards(op, "consume") \/ FallsBack(op, "consume")
    BY <1>1, <1>6, RequireMoves
  <2> QED BY <1>6, <2>1, AlikeFixed DEF ConsumeDoes
<1>7. Goes(op) /\ op'.cp = op.cp /\ ConsumeDoes
  BY <1>5, <1>6 DEF ConsumeControl, Heeded, Quiet, Counted
<1>8. UNCHANGED <<World, Process, budget>> /\ StoresTyped'
  <2>1. op.ctl \in Nat /\ control \in ControlTypes
    BY <1>2, TypedParts DEF OpTypes
  <2>2. Counted \in ControlTypes
    BY <2>1, SuffixLen DEF Counted, ControlTypes
  <2>3. Counted.seen \in Nat
    BY <2>2 DEF ControlTypes
  <2>4. [Running EXCEPT !.seen = Counted.seen] \in ControlTypes
    <3>1. Running \in ControlTypes
      BY ControlSteps
    <3> HIDE DEF Running, Counted
    <3> QED BY <2>3, <3>1 DEF ControlTypes
  <2>5. Heeded \in ControlTypes
    BY <2>1, <2>2, <2>4 DEF Heeded
  <2>6. UNCHANGED <<outgoing, target, known, pending, intent, ledger>> /\ control' \in ControlTypes
    BY <1>7, <2>5, ControlSteps DEF ConsumeControl, ConsumeDoes
  <2> QED BY <2>6 DEF ConsumeControl, Typed, StoresTyped
<1>9. Place' \notin {"type", "verify-draft"}
  BY <1>7 DEF ConsumeDoes, FallsBack, Onwards, Follows, Recovers
<1>10. CallFits(op')
  BY <1>1, <1>7, FixedFits DEF Goes, Working
<1>11. budget' \in BudgetTypes /\ WorldTyped' /\ UNCHANGED <<Process>>
  BY <1>8, WorldKept, TypedParts
<1>12. Typed'
  BY <1>1, <1>7, <1>8, <1>9, <1>10, <1>11, GoesTyped
<1> QED BY <1>1, <1>7, <1>12

(* Steps of which only the composer, or nothing, changes.                    *)
LEMMA ComposerSteps ==
  ASSUME Typed, NEW c \in {"target", "control"}, NEW text \in Texts, SetComposer(c, text),
         UNCHANGED <<chat, commands, orphan, presses>>
  PROVE  WorldTyped'
BY DEF Typed, WorldTyped, SetComposer

LEMMA TextFacts == Empty \in Texts /\ Own \in Texts /\ Marker \in Texts
BY DEF Texts

LEMMA StopClearMoves ==
  ASSUME Typed, StopClear
  PROVE  Typed' /\ Working("stop-clear") /\ (Onwards(op, "stop-clear") \/ FallsBack(op, "stop-clear"))
<1>1. Working("stop-clear")
  BY AtWorks DEF StopClear
<1>2. (Onwards(op, "stop-clear") \/ FallsBack(op, "stop-clear")) /\ budget' \in BudgetTypes
  BY <1>1, AnsweredMoves, TypedParts DEF StopClear
<1>3. WorldTyped' /\ StoresTyped' /\ UNCHANGED <<Process>>
  BY ComposerSteps, TextFacts, StoresKept DEF StopClear
<1>4. Goes(op) /\ CallFits(op') /\ Place' \notin {"type", "verify-draft"}
  BY <1>1, <1>2, AlikeFixed, FixedFits DEF Goes, Working, Onwards, FallsBack, Follows, Recovers
<1>5. Typed'
  BY <1>1, <1>2, <1>3, <1>4, GoesTyped
<1> QED BY <1>1, <1>2, <1>5

LEMMA ClearDraftMoves ==
  ASSUME Typed, ClearDraft
  PROVE  Typed' /\ Working("clear") /\ (Onwards(op, "clear") \/ FallsBack(op, "clear"))
<1>1. Working("clear")
  BY AtWorks DEF ClearDraft
<1>2. (Onwards(op, "clear") \/ FallsBack(op, "clear")) /\ budget' \in BudgetTypes
  BY <1>1, AnsweredMoves, TypedParts DEF ClearDraft
<1>3. WorldTyped' /\ StoresTyped' /\ UNCHANGED <<Process>>
  <2>1. op.conv \in {"target", "control"}
    BY <1>1 DEF Working, OpTypes
  <2> QED BY <2>1, ComposerSteps, TextFacts, StoresKept DEF ClearDraft
<1>4. Goes(op) /\ CallFits(op') /\ Place' \notin {"type", "verify-draft"}
  BY <1>1, <1>2, AlikeFixed, FixedFits DEF Goes, Working, Onwards, FallsBack, Follows, Recovers
<1>5. Typed'
  BY <1>1, <1>2, <1>3, <1>4, GoesTyped
<1> QED BY <1>1, <1>2, <1>5

StopProvenDoes ==
  \/ /\ op.batch = "stop" /\ control' = Counted
     /\ (Reader => Onwards(op, "stop-proven")) /\ (~Reader => FallsBack(op, "stop-proven"))
  \/ control' = control /\ FallsBack(op, "stop-proven")
LEMMA StopProvenMoves ==
  ASSUME Typed, StopProven
  PROVE  /\ Typed' /\ Working("stop-proven") /\ StopProvenDoes
         /\ Onwards(op, "stop-proven") \/ FallsBack(op, "stop-proven")
<1>1. Working("stop-proven")
  BY AtWorks DEF StopProven
<1>2. StopProvenDoes /\ (Onwards(op, "stop-proven") \/ FallsBack(op, "stop-proven"))
  <2>1. ASSUME op.batch = "stop", control' = [control EXCEPT !.seen = Len(Suffix(op.ctl))], Require(Reader)
        PROVE  StopProvenDoes /\ (Onwards(op, "stop-proven") \/ FallsBack(op, "stop-proven"))
    BY <1>1, <2>1, RequireMoves DEF StopProvenDoes, Counted
  <2>2. ASSUME control' = control, Fail
        PROVE  StopProvenDoes /\ (Onwards(op, "stop-proven") \/ FallsBack(op, "stop-proven"))
    BY <1>1, <2>2, FailMoves DEF StopProvenDoes
  <2> QED BY <2>1, <2>2 DEF StopProven
<1>3. StoresTyped'
  <2>1. op.ctl \in Nat /\ control \in ControlTypes
    BY <1>1, TypedParts DEF OpTypes, Working
  <2>2. Counted \in ControlTypes
    BY <2>1, SuffixLen DEF Counted, ControlTypes
  <2>3. control' \in ControlTypes
    BY <1>2, <2>1, <2>2 DEF StopProvenDoes
  <2> QED BY <2>3 DEF StopProven, Typed, StoresTyped
<1>4. WorldTyped' /\ UNCHANGED <<Process>> /\ budget' \in BudgetTypes
  BY WorldKept, TypedParts DEF StopProven
<1>5. Goes(op) /\ CallFits(op') /\ Place' \notin {"type", "verify-draft"}
  BY <1>1, <1>2, AlikeFixed, FixedFits DEF Goes, Working, Onwards, FallsBack, Follows, Recovers
<1>6. Typed'
  BY <1>1, <1>3, <1>4, <1>5, GoesTyped
<1> QED BY <1>1, <1>2, <1>6

Candidate == IF IsCandidate THEN pending.token ELSE budget.tokens
LookAtMarkerDoes ==
  \/ /\ Once /\ (pending = None \/ IsCandidate) /\ op'.token = Candidate
     /\ Place' \in {"end", "activate", "clear", "clearPending"} /\ budget' = budget /\ op'.failed = op.failed
     /\ IsCandidate \/ Place' \in {"end", "activate"}
  \/ /\ Count(commands, Marker) = 0 /\ ~control.active /\ pending = None /\ op'.token = budget.tokens
     /\ composer["control"] = Empty /\ Spend("tokens") /\ Place' = "put" /\ op'.failed = op.failed
  \/ FallsBack(op, "look-at-marker") /\ budget' = budget
LEMMA LookAtMarkerMoves ==
  ASSUME Typed, LookAtMarker
  PROVE  Typed' /\ Working("look-at-marker") /\ Goes(op) /\ op'.cp = op.cp /\ LookAtMarkerDoes
<1>1. Working("look-at-marker")
  BY AtWorks DEF LookAtMarker
<1>2. op \in OpTypes /\ op.todo \in Seq(Places) /\ op.todo # <<>> /\ Leads(op.cmd, op.cp, op.todo, "end")
  BY <1>1 DEF Working, Path
<1>3. op.cmd = "establish"
  <2>1. Follows(op.cmd, op.cp, "look-at-marker", First(Tail(op.todo), "end"))
    BY <1>1, <1>2, PathTail DEF Working
  <2> QED BY <2>1 DEF Follows
<1>4. Candidate \in Tokens
  <2>1. budget.tokens \in Nat
    BY TypedParts DEF BudgetTypes
  <2>2. IsCandidate => pending.token \in Tokens
    BY TypedParts DEF IsCandidate, PendingTypes
  <2> QED BY <2>1, <2>2 DEF Candidate, Tokens
<1>5. ASSUME NEW t \in Seq(Places), Leads(op.cmd, op.cp, t, "end"),
             op' = [[op EXCEPT !.token = Candidate] EXCEPT !.todo = t]
      PROVE  /\ Goes(op) /\ op'.cp = op.cp /\ op'.token = Candidate /\ Place' = First(t, "end")
             /\ op'.failed = op.failed
  <2>1. /\ op' \in OpTypes /\ op'.todo = t /\ Fixed(op', op) /\ op'.cp = op.cp /\ op'.token = Candidate
        /\ op'.failed = op.failed
    BY <1>2, <1>4, <1>5 DEF OpTypes, Fixed
  <2> QED BY <1>5, <2>1 DEF Goes, Path, Place, Fixed
<1>6. ASSUME Once, pending = None \/ IsCandidate, UNCHANGED budget,
             op' = [[op EXCEPT !.token = Candidate] EXCEPT
                      !.todo = (IF control.active THEN <<>> ELSE <<"activate">>)
                               \o (IF IsCandidate THEN ClearCandidate ELSE <<>>)]
      PROVE  Goes(op) /\ op'.cp = op.cp /\ LookAtMarkerDoes
  <2> DEFINE s == IF control.active THEN <<>> ELSE <<"activate">>
             t == IF IsCandidate THEN ClearCandidate ELSE <<>>
             k == First(t, "end")
  <2>1. t \in Seq(Places) /\ Leads(op.cmd, op.cp, t, "end") /\ k \in {"end", "clear", "clearPending"}
        /\ (IsCandidate \/ k = "end")
    <3>1. /\ Follows(op.cmd, op.cp, "clear", "proven") /\ Follows(op.cmd, op.cp, "proven", "clearPending")
          /\ Follows(op.cmd, op.cp, "clearPending", "end")
      BY <1>3 DEF Follows
    <3>2. "clear" \in Places /\ "proven" \in Places /\ "clearPending" \in Places
      BY DEF Places
    <3>3. /\ <<"clear", "proven", "clearPending">> \in Seq(Places)
          /\ Leads(op.cmd, op.cp, <<"clear", "proven", "clearPending">>, "end")
          /\ First(<<"clear", "proven", "clearPending">>, "end") = "clear"
      BY ONLY <3>1, <3>2, Path3
    <3>4. /\ <<"clearPending">> \in Seq(Places) /\ Leads(op.cmd, op.cp, <<"clearPending">>, "end")
          /\ First(<<"clearPending">>, "end") = "clearPending"
      BY ONLY <3>1, <3>2, Path1
    <3>5. Leads(op.cmd, op.cp, <<>>, "end") /\ First(<<>>, "end") = "end" /\ <<>> \in Seq(Places)
      BY NoPath
    <3> QED BY <3>3, <3>4, <3>5 DEF ClearCandidate
  <2>2. s \in Seq(Places) /\ Leads(op.cmd, op.cp, s, k) /\ First(s, k) \in {"activate", k}
    <3>1. Follows(op.cmd, op.cp, "activate", k)
      BY <1>3, <2>1 DEF Follows
    <3>2. "activate" \in Places
      BY DEF Places
    <3>3. <<"activate">> \in Seq(Places) /\ Leads(op.cmd, op.cp, <<"activate">>, k) /\ First(<<"activate">>, k) = "activate"
      BY ONLY <3>1, <3>2, Path1
    <3>4. Leads(op.cmd, op.cp, <<>>, k) /\ First(<<>>, k) = k /\ <<>> \in Seq(Places)
      BY NoPath
    <3> QED BY <3>3, <3>4
  <2> HIDE DEF s, t
  <2>3. s \o t \in Seq(Places) /\ Leads(op.cmd, op.cp, s \o t, "end") /\ First(s \o t, "end") = First(s, k)
    BY <2>1, <2>2, PathConcat
  <2>4. op' = [[op EXCEPT !.token = Candidate] EXCEPT !.todo = s \o t]
    BY <1>6 DEF s, t
  <2>5. /\ Goes(op) /\ op'.cp = op.cp /\ op'.token = Candidate /\ Place' = First(s \o t, "end")
        /\ op'.failed = op.failed
    BY <1>5, <2>3, <2>4
  <2> QED BY <1>6, <2>1, <2>2, <2>3, <2>5 DEF LookAtMarkerDoes
<1>7. ASSUME Count(commands, Marker) = 0, ~control.active, pending = None, composer["control"] = Empty, Spend("tokens"),
             op' = [[op EXCEPT !.token = Candidate] EXCEPT
                      !.todo = <<"put", "type", "verify-draft", "press-marker",
                                 "control", "consume", "activate", "clearPending">>]
      PROVE  Goes(op) /\ op'.cp = op.cp /\ LookAtMarkerDoes
  <2> DEFINE t == <<"put", "type", "verify-draft", "press-marker", "control", "consume", "activate", "clearPending">>
  <2>1. t \in Seq(Places) /\ Leads(op.cmd, op.cp, t, "end") /\ First(t, "end") = "put"
    <3>1. /\ Follows(op.cmd, op.cp, "put", "type") /\ Follows(op.cmd, op.cp, "type", "verify-draft")
          /\ Follows(op.cmd, op.cp, "verify-draft", "press-marker") /\ Follows(op.cmd, op.cp, "press-marker", "control")
          /\ Follows(op.cmd, op.cp, "control", "consume") /\ Follows(op.cmd, op.cp, "consume", "activate")
          /\ Follows(op.cmd, op.cp, "activate", "clearPending") /\ Follows(op.cmd, op.cp, "clearPending", "end")
      BY <1>3 DEF Follows
    <3>2. /\ "put" \in Places /\ "type" \in Places /\ "verify-draft" \in Places /\ "press-marker" \in Places
          /\ "control" \in Places /\ "consume" \in Places /\ "activate" \in Places /\ "clearPending" \in Places
      BY DEF Places
    <3> QED BY ONLY <3>1, <3>2, Path8
  <2>2. op' = [[op EXCEPT !.token = Candidate] EXCEPT !.todo = t]
    BY <1>7
  <2> HIDE DEF t
  <2>3. /\ Goes(op) /\ op'.cp = op.cp /\ op'.token = Candidate /\ Place' = "put" /\ op'.failed = op.failed
    BY <1>5, <2>1, <2>2
  <2>4. Candidate = budget.tokens
    BY <1>7 DEF Candidate, IsCandidate
  <2> QED BY <1>7, <2>3, <2>4 DEF LookAtMarkerDoes
<1>8. ASSUME Fail, UNCHANGED budget
      PROVE  Goes(op) /\ op'.cp = op.cp /\ LookAtMarkerDoes
  BY <1>1, <1>8, FailMoves, AlikeFixed DEF LookAtMarkerDoes
<1>9. Goes(op) /\ op'.cp = op.cp /\ LookAtMarkerDoes
  BY <1>6, <1>7, <1>8 DEF LookAtMarker, Once, Candidate
<1>10. WorldTyped' /\ StoresTyped' /\ UNCHANGED <<Process>>
  BY WorldKept, StoresKept DEF LookAtMarker
<1>11. budget' \in BudgetTypes
  BY <1>9, TypedParts, SpendTypes DEF LookAtMarkerDoes
<1>12. CallFits(op') /\ Place' \notin {"type", "verify-draft"}
  BY <1>1, <1>9, FixedFits DEF Goes, Working, LookAtMarkerDoes, FallsBack, Recovers
<1>13. Typed'
  BY <1>1, <1>9, <1>10, <1>11, <1>12, GoesTyped
<1> QED BY <1>1, <1>9, <1>13

LEMMA MoreCommands == ASSUME Typed, NEW c \in Orders, commands' = Append(commands, c) PROVE commands' \in Seq(Orders)
BY TypedParts

LEMMA MorePresses == ASSUME Typed, NEW p \in PressTypes, presses' = Append(presses, p) PROVE presses' \in Seq(PressTypes)
BY TypedParts

LEMMA MoreChat == ASSUME Typed, NEW b \in Bubbles, chat' = Append(chat, b) PROVE chat' \in Chats
BY TypedParts DEF Chats

LEMMA UnaskedTypes ==
  ASSUME NEW kind \in {"reply", "card", "marker"}, NEW what \in Texts \union {Acceptance}
  PROVE  Unasked(kind, what) \in PressTypes
<1>1. <<>> \in Chats /\ <<>> \in Seq(Orders)
  BY EmptySeq DEF Chats
<1>2. None \in Texts
  BY DEF Texts
<1> QED BY <1>1, <1>2 DEF Unasked, PressTypes

PressMarkerDoes ==
  \/ /\ commands' = Append(commands, Marker) /\ presses' = Append(presses, Unasked("marker", Marker))
     /\ Onwards(op, "press-marker") \/ FallsBack(op, "press-marker")
  \/ UNCHANGED <<commands, presses>> /\ FallsBack(op, "press-marker")
LEMMA PressMarkerMoves ==
  ASSUME Typed, PressMarker
  PROVE  /\ Typed' /\ Working("press-marker") /\ PressMarkerDoes
         /\ Onwards(op, "press-marker") \/ FallsBack(op, "press-marker")
<1>1. Working("press-marker")
  BY AtWorks DEF PressMarker
<1>2. ASSUME composer["control"] = Marker, commands' = Append(commands, Marker),
             presses' = Append(presses, Unasked("marker", Marker)), SetComposer("control", Empty), Answered(Done)
      PROVE  PressMarkerDoes /\ budget' \in BudgetTypes /\ WorldTyped'
  <2>1. (Onwards(op, "press-marker") \/ FallsBack(op, "press-marker")) /\ budget' \in BudgetTypes
    BY <1>1, <1>2, AnsweredMoves, TypedParts
  <2>2. commands' \in Seq(Orders)
    <3>1. Marker \in Orders
      BY DEF Marker, Orders
    <3> QED BY <1>2, <3>1, MoreCommands
  <2>3. presses' \in Seq(PressTypes)
    <3>1. Marker \in Texts
      BY TextFacts
    <3> QED BY <1>2, <3>1, UnaskedTypes, MorePresses
  <2>4. composer' \in [{"target", "control"} -> Texts]
    BY <1>2, TypedParts, TextFacts DEF SetComposer
  <2>5. WorldTyped'
    BY <2>2, <2>3, <2>4 DEF PressMarker, Typed, WorldTyped
  <2> QED BY <1>2, <2>1, <2>5 DEF PressMarkerDoes
<1>3. ASSUME Fail, UNCHANGED <<commands, presses, composer, budget>>
      PROVE  PressMarkerDoes /\ budget' \in BudgetTypes /\ WorldTyped'
  <2>1. FallsBack(op, "press-marker")
    BY <1>1, <1>3, FailMoves
  <2> QED BY <1>3, <2>1, TypedParts DEF PressMarkerDoes, PressMarker, Typed, WorldTyped
<1>4. PressMarkerDoes /\ budget' \in BudgetTypes /\ WorldTyped'
  BY <1>2, <1>3 DEF PressMarker
<1>5. StoresTyped' /\ UNCHANGED <<Process>>
  BY StoresKept DEF PressMarker
<1>6. Onwards(op, "press-marker") \/ FallsBack(op, "press-marker")
  BY <1>4 DEF PressMarkerDoes
<1>7. Goes(op) /\ CallFits(op') /\ Place' \notin {"type", "verify-draft"}
  BY <1>1, <1>6, AlikeFixed, FixedFits DEF Goes, Working, Onwards, FallsBack, Follows, Recovers
<1>8. Typed'
  BY <1>1, <1>4, <1>5, <1>7, GoesTyped
<1> QED BY <1>1, <1>4, <1>6, <1>8

(***************************************************************************)
(* The steps that read.                                                     *)
(***************************************************************************)
LEMMA ThenGoes ==
  ASSUME NEW a, Working(a), NEW o, o \in OpTypes, o.todo = op.todo, Fixed(o, op), o.cp = op.cp, Then(o)
  PROVE  /\ Goes(op) /\ op'.cp = op.cp /\ Onwards(o, a)
         /\ Follows(op.cmd, op.cp, a, Place') /\ op'.failed = o.failed
<1>1. o.todo # <<>> /\ Path(o) /\ Head(o.todo) = a
  BY DEF Working, Path, Fixed
<1>2. Onwards(o, a)
  BY <1>1, ThenMoves
<1> QED BY <1>2 DEF Onwards, Alike, Goes, Fixed

(* A step with its cmd, its place and its process.                          *)
LEMMA HostSteps ==
  ASSUME Typed, NEW a, Working(a), Goes(op), CallFits(op'), budget' \in BudgetTypes,
         WorldTyped', StoresTyped', UNCHANGED <<session, client, waiting>>,
         host' \in HostTypes, IsFiniteSet(host'.controls), IsFiniteSet(host'.targets), IsFiniteSet(host'.prepared),
         Place' \in {"type", "verify-draft"} => pending' \in PendingTypes
  PROVE  Typed'
<1>1. CallsFit'
  BY CallsKept DEF Goes
<1>2. ProcessTyped'
  BY DEF Typed, ProcessTyped, Goes
<1> QED BY <1>1, <1>2 DEF Typed

ReadChatDoes ==
  \/ FallsBack(op, "read")
  \/ op'.chat = chat /\ op'.failed = op.failed /\ Place' = "evaluate"
LEMMA ReadChatMoves ==
  ASSUME Typed, ReadChat
  PROVE  Typed' /\ Working("read") /\ Goes(op) /\ op'.cp = op.cp /\ ReadChatDoes
<1>1. Working("read")
  BY AtWorks DEF ReadChat
<1>2. op \in OpTypes
  BY <1>1 DEF Working
<1>3. ASSUME Then([op EXCEPT !.chat = chat, !.free = (composer["target"] = Empty),
                             !.new = (chat # <<>> /\ Last(chat) \notin known)])
      PROVE  Goes(op) /\ op'.cp = op.cp /\ ReadChatDoes
  <2> DEFINE o == [op EXCEPT !.chat = chat, !.free = (composer["target"] = Empty),
                             !.new = (chat # <<>> /\ Last(chat) \notin known)]
  <2>1. /\ o \in OpTypes /\ o.todo = op.todo /\ o.cp = op.cp /\ Fixed(o, op) /\ o.chat = chat
        /\ o.failed = op.failed
    BY <1>2, TypedParts DEF OpTypes, Fixed
  <2> HIDE DEF o
  <2>2. Then(o)
    BY <1>3 DEF o
  <2>3. /\ Goes(op) /\ op'.cp = op.cp /\ Onwards(o, "read")
        /\ Follows(op.cmd, op.cp, "read", Place') /\ op'.failed = o.failed
    BY <1>1, <2>1, <2>2, ThenGoes
  <2> QED BY <2>1, <2>3 DEF ReadChatDoes, Onwards, Alike, Follows
<1>4. ASSUME Fail PROVE Goes(op) /\ op'.cp = op.cp /\ ReadChatDoes
  BY <1>1, <1>4, FailMoves, AlikeFixed DEF ReadChatDoes
<1>5. Goes(op) /\ op'.cp = op.cp /\ ReadChatDoes
  BY <1>3, <1>4 DEF ReadChat
<1>6. WorldTyped' /\ StoresTyped' /\ UNCHANGED <<Process>> /\ budget' \in BudgetTypes
  BY WorldKept, TypedParts DEF ReadChat, Typed, StoresTyped
<1>7. CallFits(op') /\ Place' \notin {"type", "verify-draft"}
  BY <1>1, <1>5, FixedFits DEF Goes, Working, ReadChatDoes, FallsBack, Recovers
<1>8. Typed'
  BY <1>1, <1>5, <1>6, <1>7, GoesTyped
<1> QED BY <1>1, <1>5, <1>8

Answer(t) ==   \* what an evaluation may make of the trigger
  \/ t = None
  \/ t = target.trigger /\ target.trigger # None /\ t.chat = op.chat
  \/ t # None /\ t.id = Fresh(Triggers) /\ t.chat = op.chat /\ TriggerIs(t)
EvaluateDoes ==
  \/ target' = target /\ FallsBack(op, "evaluate")
  \/ /\ Answer(target'.trigger)
     /\ (TriggerHolds(target'.trigger) => Onwards(op, "evaluate"))
     /\ (~TriggerHolds(target'.trigger) => FallsBack(op, "evaluate"))
LEMMA EvaluateMoves ==
  ASSUME Typed, EvaluateReply
  PROVE  /\ Typed' /\ Working("evaluate") /\ EvaluateDoes
         /\ Onwards(op, "evaluate") \/ FallsBack(op, "evaluate")
<1>1. Working("evaluate")
  BY AtWorks DEF EvaluateReply
<1>2. op \in OpTypes
  BY <1>1 DEF Working
<1>3. PICK unread \in budget.unread :
        IF GateHolds(Gate.gate, Gate.seen)
          THEN /\ target' = Evaluated(op.chat, op.new, unread, Gate.gate, Gate.seen)
               /\ Require(TriggerHolds(target'.trigger))
          ELSE UNCHANGED target /\ Fail
  BY DEF EvaluateReply
<1>4. ASSUME target' = Evaluated(op.chat, op.new, unread, Gate.gate, Gate.seen),
             Require(TriggerHolds(target'.trigger))
      PROVE  /\ EvaluateDoes /\ target' \in TargetTypes
             /\ Onwards(op, "evaluate") \/ FallsBack(op, "evaluate")
  <2>1. op.chat \in Chats /\ unread \in BOOLEAN /\ Gate.gate \in Nat /\ Gate.seen \in Nat
    <3>1. op.chat \in Chats /\ op.cp \in CpTypes \union {None}
      BY <1>2 DEF OpTypes
    <3>2. unread \in BOOLEAN
      BY <1>3, TypedParts DEF BudgetTypes
    <3> QED BY <3>1, <3>2, TypedParts DEF Gate, CpTypes, ControlTypes
  <2>2. /\ target' \in TargetTypes
        /\ \/ target'.trigger = None
           \/ target'.trigger = target.trigger /\ target.trigger # None /\ target.trigger.chat = op.chat
           \/ /\ target'.trigger.id = Fresh(Triggers) /\ target'.trigger.chat = op.chat
              /\ op.chat # <<>> /\ Last(op.chat).dir = "in" /\ target'.trigger.msg = Last(op.chat).text
    BY <1>4, <2>1, EvaluatedTypes
  <2>3. op.chat # <<>> => Last(op.chat) \in Bubbles
    BY <2>1 DEF Chats, Last
  <2>4. op.chat # <<>> /\ Last(op.chat).dir = "in" => Last(op.chat) = In(Last(op.chat).text)
    BY <2>3 DEF Bubbles, In
  <2>5. Answer(target'.trigger)
    BY <2>2, <2>4 DEF Answer, TriggerIs
  <2>6. /\ (TriggerHolds(target'.trigger) => Onwards(op, "evaluate"))
        /\ (~TriggerHolds(target'.trigger) => FallsBack(op, "evaluate"))
        /\ Onwards(op, "evaluate") \/ FallsBack(op, "evaluate")
    BY <1>1, <1>4, RequireMoves
  <2> QED BY <2>2, <2>5, <2>6 DEF EvaluateDoes
<1>5. ASSUME UNCHANGED target, Fail
      PROVE  /\ EvaluateDoes /\ target' \in TargetTypes
             /\ Onwards(op, "evaluate") \/ FallsBack(op, "evaluate")
  BY <1>1, <1>5, FailMoves, TypedParts DEF EvaluateDoes
<1>6. /\ EvaluateDoes /\ target' \in TargetTypes
      /\ Onwards(op, "evaluate") \/ FallsBack(op, "evaluate")
  BY <1>3, <1>4, <1>5
<1>7. StoresTyped' /\ UNCHANGED <<World, Process>> /\ budget' \in BudgetTypes
  BY <1>6, TypedParts DEF EvaluateReply, Typed, StoresTyped
<1>8. Typed'
  BY <1>1, <1>6, <1>7, StoreMoves
<1> QED BY <1>1, <1>6, <1>8

LEMMA AnyGate ==
  ASSUME NEW cmd, cmd \notin Gated3, NEW cp, NEW cp2, NEW s, NEW b, Leads(cmd, cp, s, b)
  PROVE  Leads(cmd, cp2, s, b)
<1>1. \A x, y : Follows(cmd, cp, x, y) => Follows(cmd, cp2, x, y)
  BY DEF Follows
<1> QED BY <1>1 DEF Leads

TakeGateDoes ==
  /\ op.cmd = "read-direct" /\ op'.failed = op.failed /\ op'.chat = op.chat
  /\ \/ op'.cp = op.cp /\ Place' = "end"
     \/ op'.cp = ControlProof("persistent-stop-gate") /\ Place' = "read"
LEMMA ProofTypes == ASSUME Typed, NEW kind \in {"ui-observed", "persistent-stop-gate"} PROVE ControlProof(kind) \in CpTypes
BY NewCaps, TypedParts DEF ControlProof, CpTypes, ControlTypes

LEMMA HostParts ==
  ASSUME Typed
  PROVE  /\ host \in HostTypes /\ IsFiniteSet(host.controls) /\ IsFiniteSet(host.targets) /\ IsFiniteSet(host.prepared)
         /\ \A cap \in Nat : IsFiniteSet(host.controls \cup {cap}) /\ IsFiniteSet(host.targets \cup {cap})
         /\ \A cap : IsFiniteSet(host.controls \ {cap}) /\ IsFiniteSet(host.targets \ {cap})
         /\ \A p : IsFiniteSet(host.prepared \cup {p})
         /\ \A S : S \subseteq host.prepared => IsFiniteSet(S)
<1>1. host \in HostTypes /\ IsFiniteSet(host.controls) /\ IsFiniteSet(host.targets) /\ IsFiniteSet(host.prepared)
  BY DEF Typed, ProcessTyped
<1>2. \A cap : IsFiniteSet({cap})
  BY FS_Singleton
<1>3. \A cap : IsFiniteSet(host.controls \cup {cap}) /\ IsFiniteSet(host.targets \cup {cap}) /\ IsFiniteSet(host.prepared \cup {cap})
  BY <1>1, <1>2, FS_Union
<1>4. \A cap : IsFiniteSet(host.controls \ {cap}) /\ IsFiniteSet(host.targets \ {cap})
  <2> TAKE cap
  <2>1. host.controls \ {cap} \in SUBSET host.controls /\ host.targets \ {cap} \in SUBSET host.targets
    OBVIOUS
  <2> QED BY <1>1, <2>1, FS_Subset
<1>5. \A S : S \subseteq host.prepared => IsFiniteSet(S)
  <2> SUFFICES ASSUME NEW S, S \subseteq host.prepared PROVE IsFiniteSet(S)
    OBVIOUS
  <2>1. S \in SUBSET host.prepared
    OBVIOUS
  <2> QED BY <1>1, <2>1, FS_Subset
<1> QED BY <1>1, <1>3, <1>4, <1>5

LEMMA TakeGateMoves ==
  ASSUME Typed, TakeGate
  PROVE  Typed' /\ Working("gate") /\ Goes(op) /\ TakeGateDoes
<1>1. Working("gate")
  BY AtWorks DEF TakeGate
<1>2. op \in OpTypes /\ op.todo \in Seq(Places) /\ op.todo # <<>> /\ Leads(op.cmd, op.cp, op.todo, "end")
  BY <1>1 DEF Working, Path
<1>3. op.cmd = "read-direct" /\ First(Tail(op.todo), "end") = "read"
  <2>1. Follows(op.cmd, op.cp, "gate", First(Tail(op.todo), "end"))
    BY <1>1, <1>2, PathTail DEF Working
  <2> QED BY <2>1 DEF Follows
<1>4. op.cmd \notin Gated3
  BY <1>3 DEF Gated3
<1>5. ASSUME op' = [op EXCEPT !.todo = <<>>], UNCHANGED host
      PROVE  /\ Goes(op) /\ TakeGateDoes
             /\ host' \in HostTypes /\ IsFiniteSet(host'.controls) /\ IsFiniteSet(host'.targets) /\ IsFiniteSet(host'.prepared)
  <2>1. Leads(op.cmd, op.cp, <<>>, "end") /\ First(<<>>, "end") = "end" /\ <<>> \in Seq(Places)
    BY NoPath
  <2>2. /\ op' \in OpTypes /\ Fixed(op', op) /\ op'.todo = <<>> /\ op'.cp = op.cp /\ op'.failed = op.failed
        /\ op'.chat = op.chat
    BY <1>2, <1>5, <2>1 DEF OpTypes, Fixed
  <2>3. Path(op)' /\ Place' = "end"
    BY <2>1, <2>2 DEF Path, Place, Fixed
  <2> QED BY <1>3, <1>5, <2>2, <2>3, HostParts DEF Goes, TakeGateDoes
<1>6. ASSUME NEW proof, proof = ControlProof("persistent-stop-gate"),
             Then([op EXCEPT !.cp = proof]), host' = [host EXCEPT !.controls = @ \cup {proof.cap}]
      PROVE  /\ Goes(op) /\ TakeGateDoes
             /\ host' \in HostTypes /\ IsFiniteSet(host'.controls) /\ IsFiniteSet(host'.targets) /\ IsFiniteSet(host'.prepared)
  <2> DEFINE o == [op EXCEPT !.cp = proof]
  <2>1. proof \in CpTypes
    BY <1>6, ProofTypes
  <2>2. o \in OpTypes /\ o.todo = op.todo /\ Fixed(o, op) /\ o.cp = proof /\ o.failed = op.failed /\ o.chat = op.chat
    BY <1>2, <2>1 DEF OpTypes, Fixed
  <2> HIDE DEF o
  <2>3. Path(o)
    BY <1>2, <1>4, <2>2, AnyGate DEF Path, Fixed
  <2>4. Onwards(o, "gate")
    BY <1>1, <1>6, <2>2, <2>3, ThenMoves DEF o, Working
  <2>5. Goes(op) /\ op'.cp = proof /\ Place' = "read" /\ op'.failed = op.failed /\ op'.chat = op.chat
    BY <1>3, <2>2, <2>4 DEF Onwards, Alike, Goes, Fixed, Follows
  <2>6. proof.cap \in Nat
    BY <2>1 DEF CpTypes
  <2>7. host' \in HostTypes /\ IsFiniteSet(host'.controls) /\ IsFiniteSet(host'.targets) /\ IsFiniteSet(host'.prepared)
    BY <1>6, <2>6, HostParts DEF HostTypes
  <2> QED BY <1>3, <1>6, <2>5, <2>7 DEF TakeGateDoes
<1>7. /\ Goes(op) /\ TakeGateDoes
      /\ host' \in HostTypes /\ IsFiniteSet(host'.controls) /\ IsFiniteSet(host'.targets) /\ IsFiniteSet(host'.prepared)
  BY <1>5, <1>6 DEF TakeGate
<1>8. WorldTyped' /\ StoresTyped' /\ budget' \in BudgetTypes /\ UNCHANGED <<session, client, waiting>>
  BY WorldKept, StoresKept, TypedParts DEF TakeGate
<1>9. CallFits(op') /\ Place' \notin {"type", "verify-draft"}
  BY <1>1, <1>3, <1>7 DEF CallFits, Working, Goes, Fixed, TakeGateDoes, Gated3
<1>10. Typed'
  BY <1>1, <1>7, <1>8, <1>9, HostSteps
<1> QED BY <1>1, <1>7, <1>10

RecoverDoes ==
  \/ op' = op /\ pending' = pending /\ target' = [target EXCEPT !.trigger = None]
  \/ Onwards(op, "recover") /\ pending' \in {None, pending} /\ target' = target
LEMMA NoTrigger == ASSUME Typed PROVE [target EXCEPT !.trigger = None] \in TargetTypes
BY TypedParts DEF TargetTypes

LEMMA RecoverMoves ==
  ASSUME Typed, Recover
  PROVE  Typed' /\ Working("recover") /\ RecoverDoes
<1>1. Working("recover")
  BY AtWorks DEF Recover
<1>2. RecoverDoes
  <2>1. Done => Onwards(op, "recover")
    BY <1>1, DoneMoves
  <2> QED BY <2>1 DEF Recover, RecoverDoes
<1>3. StoresTyped' /\ UNCHANGED <<World, Process>> /\ budget' \in BudgetTypes
  <2>1. target' \in TargetTypes /\ pending' \in PendingTypes \union {None}
    BY <1>2, NoTrigger, TypedParts DEF RecoverDoes
  <2> QED BY <2>1, TypedParts DEF Recover, Typed, StoresTyped
<1>4. CASE Onwards(op, "recover")
  BY <1>1, <1>2, <1>3, <1>4, StoreMoves
<1>5. CASE op' = op
  <2>1. Goes(op) /\ CallFits(op') /\ Place' = "recover"
    BY <1>1, <1>5 DEF Working, Goes, Fixed, Place, Path
  <2>2. WorldTyped' /\ UNCHANGED <<Process>>
    BY <1>3, WorldKept
  <2> QED BY <1>1, <1>2, <1>3, <2>1, <2>2, GoesTyped
<1> QED BY <1>1, <1>2, <1>4, <1>5 DEF RecoverDoes

(***************************************************************************)
(* The steps of a reply.                                                    *)
(***************************************************************************)
LookDoes ==
  \/ FallsBack(op, "look") /\ UNCHANGED known
  \/ op'.chat = chat /\ op'.failed = op.failed /\ Follows(op.cmd, op.cp, "look", Place')
LEMMA LookMoves ==
  ASSUME Typed, Look
  PROVE  Typed' /\ Working("look") /\ Goes(op) /\ op'.cp = op.cp /\ op'.token = op.token /\ LookDoes
<1>1. Working("look")
  BY AtWorks DEF Look
<1>2. op \in OpTypes
  BY <1>1 DEF Working
<1>3. ASSUME Then([op EXCEPT !.chat = chat, !.free = TRUE])
      PROVE  Goes(op) /\ op'.cp = op.cp /\ op'.token = op.token /\ LookDoes
  <2> DEFINE o == [op EXCEPT !.chat = chat, !.free = TRUE]
  <2>1. /\ o \in OpTypes /\ o.todo = op.todo /\ o.cp = op.cp /\ Fixed(o, op) /\ o.chat = chat
        /\ o.failed = op.failed /\ o.token = op.token
    BY <1>2, TypedParts DEF OpTypes, Fixed
  <2> HIDE DEF o
  <2>2. Then(o)
    BY <1>3 DEF o
  <2>3. /\ Goes(op) /\ op'.cp = op.cp /\ Onwards(o, "look")
        /\ Follows(op.cmd, op.cp, "look", Place') /\ op'.failed = o.failed
    BY <1>1, <2>1, <2>2, ThenGoes
  <2> QED BY <2>1, <2>3 DEF LookDoes, Onwards, Alike
<1>4. ASSUME Fail, UNCHANGED known PROVE Goes(op) /\ op'.cp = op.cp /\ op'.token = op.token /\ LookDoes
  <2>1. FallsBack(op, "look")
    BY <1>1, <1>4, FailMoves
  <2> QED BY <1>4, <2>1, AlikeFixed DEF LookDoes, FallsBack, Alike
<1>5. Goes(op) /\ op'.cp = op.cp /\ op'.token = op.token /\ LookDoes
  BY <1>3, <1>4 DEF Look
<1>6. WorldTyped' /\ StoresTyped' /\ UNCHANGED <<Process>> /\ budget' \in BudgetTypes
  BY WorldKept, TypedParts DEF Look, Typed, StoresTyped
<1>7. CallFits(op') /\ Place' \notin {"type", "verify-draft"}
  BY <1>1, <1>5, FixedFits DEF Goes, Working, LookDoes, FallsBack, Recovers, Follows
<1>8. Typed'
  BY <1>1, <1>5, <1>6, <1>7, GoesTyped
<1> QED BY <1>1, <1>5, <1>8

ClaimDoes ==
  \/ FallsBack(op, "claim") /\ UNCHANGED <<outgoing, budget>>
  \/ /\ outgoing[op.text] = "none" /\ outgoing' = [outgoing EXCEPT ![op.text] = "claimed"]
     /\ op'.token = budget.tokens /\ Place' = "put" /\ op'.failed = op.failed /\ op'.chat = op.chat
     /\ Spend("tokens") /\ Out(op.text) \notin Range(op.chat)
LEMMA ClaimMoves ==
  ASSUME Typed, Claim
  PROVE  Typed' /\ Working("claim") /\ Goes(op) /\ op'.cp = op.cp /\ ClaimDoes
<1>1. Working("claim")
  BY AtWorks DEF Claim
<1>2. op \in OpTypes
  BY <1>1 DEF Working
<1>3. ASSUME Then([op EXCEPT !.token = budget.tokens]), Spend("tokens"),
             outgoing[op.text] = "none", outgoing' = [outgoing EXCEPT ![op.text] = "claimed"], Out(op.text) \notin Range(op.chat)
      PROVE  Goes(op) /\ op'.cp = op.cp /\ ClaimDoes
  <2> DEFINE o == [op EXCEPT !.token = budget.tokens]
  <2>1. budget.tokens \in Tokens
    BY TypedParts DEF BudgetTypes, Tokens
  <2>2. /\ o \in OpTypes /\ o.todo = op.todo /\ o.cp = op.cp /\ Fixed(o, op) /\ o.chat = op.chat
        /\ o.failed = op.failed /\ o.token = budget.tokens
    BY <1>2, <2>1 DEF OpTypes, Fixed
  <2> HIDE DEF o
  <2>3. Then(o)
    BY <1>3 DEF o
  <2>4. /\ Goes(op) /\ op'.cp = op.cp /\ Onwards(o, "claim")
        /\ Follows(op.cmd, op.cp, "claim", Place') /\ op'.failed = o.failed
    BY <1>1, <2>2, <2>3, ThenGoes
  <2> QED BY <1>3, <2>2, <2>4 DEF ClaimDoes, Onwards, Alike, Follows
<1>4. ASSUME Fail, UNCHANGED <<outgoing, budget>> PROVE Goes(op) /\ op'.cp = op.cp /\ ClaimDoes
  BY <1>1, <1>4, FailMoves, AlikeFixed DEF ClaimDoes
<1>5. Goes(op) /\ op'.cp = op.cp /\ ClaimDoes
  BY <1>3, <1>4 DEF Claim
<1>6. WorldTyped' /\ StoresTyped' /\ UNCHANGED <<Process>> /\ budget' \in BudgetTypes
  <2>1. budget' \in BudgetTypes
    BY <1>5, TypedParts, SpendTypes DEF ClaimDoes
  <2> QED BY <1>5, <2>1, WorldKept DEF Claim, Typed, StoresTyped, ClaimDoes
<1>7. CallFits(op') /\ Place' \notin {"type", "verify-draft"}
  BY <1>1, <1>5, FixedFits DEF Goes, Working, ClaimDoes, FallsBack, Recovers, Follows
<1>8. Typed'
  BY <1>1, <1>5, <1>6, <1>7, GoesTyped
<1> QED BY <1>1, <1>5, <1>8

HostFits ==
  host \in HostTypes /\ IsFiniteSet(host.controls) /\ IsFiniteSet(host.targets) /\ IsFiniteSet(host.prepared)
LEMMA HostMoves ==
  ASSUME Typed, NEW a, Working(a), Onwards(op, a) \/ FallsBack(op, a), budget' \in BudgetTypes,
         WorldTyped', StoresTyped', HostFits', UNCHANGED <<session, client, waiting>>,
         a = "put" => pending' \in PendingTypes, a = "type" => pending' \in PendingTypes
  PROVE  Typed'
<1>1. CallsFit' /\ op' \in OpTypes
  BY CallsMove
<1>2. ProcessTyped'
  BY <1>1 DEF Typed, ProcessTyped, HostFits
<1> QED BY <1>1, <1>2 DEF Typed

LEMMA HostForgets ==
  ASSUME Typed
  PROVE  HostFits /\ (UNCHANGED host => HostFits') /\ (ForgetPrepared => HostFits')
<1>1. HostFits
  BY HostParts DEF HostFits
<1>2. UNCHANGED host => HostFits'
  BY <1>1 DEF HostFits
<1>3. ForgetPrepared => HostFits'
  <2> SUFFICES ASSUME ForgetPrepared PROVE HostFits'
    OBVIOUS
  <2> DEFINE S == {p \in host.prepared : p.token # op.token}
  <2>1. S \subseteq host.prepared
    OBVIOUS
  <2>2. IsFiniteSet(S)
    BY <2>1, HostParts
  <2>3. host' = [host EXCEPT !.prepared = S]
    BY DEF ForgetPrepared
  <2> HIDE DEF S
  <2> QED BY <2>1, <2>2, <2>3, HostParts DEF HostFits, HostTypes
<1> QED BY <1>1, <1>2, <1>3

LEMMA PutPendingMoves ==
  ASSUME Typed, PutPending
  PROVE  /\ Typed' /\ Working("put") /\ Onwards(op, "put")
         /\ pending' = [conv |-> op.conv, text |-> op.text, token |-> op.token, base |-> op.chat, verified |-> FALSE]
<1>1. Working("put")
  BY AtWorks DEF PutPending
<1>2. op \in OpTypes
  BY <1>1 DEF Working
<1>3. Onwards(op, "put")
  BY <1>1, DoneMoves DEF PutPending
<1>4. pending' \in PendingTypes
  BY <1>2 DEF PutPending, OpTypes, PendingTypes
<1>6. StoresTyped' /\ UNCHANGED <<World, Process>> /\ budget' \in BudgetTypes
  BY <1>4, TypedParts DEF PutPending, Typed, StoresTyped
<1>7. Typed'
  BY <1>1, <1>3, <1>4, <1>6, StoreMoves
<1> QED BY <1>1, <1>3, <1>7 DEF PutPending

TypeDoes ==
  /\ Onwards(op, "type") \/ FallsBack(op, "type")
  /\ Onwards(op, "type") \/ host' = host
LEMMA TypeMoves ==
  ASSUME Typed, Type
  PROVE  Typed' /\ Working("type") /\ TypeDoes
<1>1. Working("type")
  BY AtWorks DEF Type
<1>2. op \in OpTypes
  BY <1>1 DEF Working
<1>3. pending \in PendingTypes /\ UNCHANGED pending
  BY <1>1 DEF Typed, CallsFit, Working, Type, durable
<1>4. WorldTyped' /\ StoresTyped'
  <2>1. op.conv \in {"target", "control"} /\ op.text \in Texts
    BY <1>2 DEF OpTypes
  <2> QED BY <2>1, ComposerSteps, StoresKept DEF Type
<1>5. ASSUME op.cmd = "prepare"
      PROVE  /\ [token |-> op.token, trigger |-> op.tp.trigger.id, control |-> op.cp.cap, target |-> op.tp.cap]
                   \in PreparedTypes
             /\ op.cp.cap \in Nat /\ op.tp.cap \in Nat
  <2>1. op.cp # None /\ op.tp # None
    BY <1>1, <1>5 DEF Working, CallFits, Gated3
  <2>2. op.cp \in CpTypes /\ op.tp \in TpTypes /\ op.token \in Tokens
    BY <1>2, <2>1 DEF OpTypes
  <2>3. op.tp.trigger \in TriggerTypes
    BY <2>2 DEF TpTypes
  <2> QED BY <2>2, <2>3 DEF CpTypes, TpTypes, TriggerTypes, PreparedTypes
<1>6. ASSUME Done, UNCHANGED budget,
             host' = IF op.cmd # "prepare" THEN host
                     ELSE [host EXCEPT !.prepared = @ \cup {[token |-> op.token, trigger |-> op.tp.trigger.id,
                                                            control |-> op.cp.cap, target |-> op.tp.cap]},
                                       !.controls = @ \ {op.cp.cap}, !.targets = @ \ {op.tp.cap}]
      PROVE  Typed' /\ TypeDoes
  <2>1. Onwards(op, "type") /\ budget' \in BudgetTypes
    BY <1>1, <1>6, DoneMoves, TypedParts
  <2>2. HostFits'
    <3>1. CASE op.cmd # "prepare"
      BY <1>6, <3>1, HostForgets
    <3>2. CASE op.cmd = "prepare"
      <4> DEFINE p == [token |-> op.token, trigger |-> op.tp.trigger.id, control |-> op.cp.cap, target |-> op.tp.cap]
                 P == host.prepared \cup {p}
                 C == host.controls \ {op.cp.cap}
                 T == host.targets \ {op.tp.cap}
      <4>1. p \in PreparedTypes
        BY <1>5, <3>2
      <4>2. host' = [host EXCEPT !.prepared = P, !.controls = C, !.targets = T]
        BY <1>6, <3>2
      <4> HIDE DEF p
      <4>3. P \in SUBSET PreparedTypes /\ C \in SUBSET Nat /\ T \in SUBSET Nat
        BY <4>1, HostParts DEF HostTypes
      <4>4. IsFiniteSet(P) /\ IsFiniteSet(C) /\ IsFiniteSet(T)
        BY HostParts
      <4> HIDE DEF P, C, T
      <4> QED BY <4>2, <4>3, <4>4, HostParts DEF HostFits, HostTypes
    <3> QED BY <3>1, <3>2
  <2>3. Typed'
    BY <1>1, <1>3, <1>4, <2>1, <2>2, HostMoves DEF Type
  <2> QED BY <2>1, <2>3 DEF TypeDoes
<1>7. ASSUME Fail, Fault, UNCHANGED host
      PROVE  Typed' /\ TypeDoes
  <2>1. FallsBack(op, "type") /\ budget' \in BudgetTypes
    BY <1>1, <1>7, FailMoves, TypedParts, SpendTypes DEF Fault
  <2>2. HostFits'
    BY <1>7, HostForgets
  <2>3. Typed'
    BY <1>1, <1>3, <1>4, <2>1, <2>2, HostMoves DEF Type
  <2> QED BY <1>7, <2>1, <2>3 DEF TypeDoes
<1> QED BY <1>1, <1>6, <1>7 DEF Type

LEMMA VerifyDraftMoves ==
  ASSUME Typed, VerifyDraft
  PROVE  /\ Typed' /\ Working("verify-draft")
         /\ Onwards(op, "verify-draft") \/ FallsBack(op, "verify-draft")
<1>1. Working("verify-draft")
  BY AtWorks DEF VerifyDraft
<1>2. pending \in PendingTypes
  BY <1>1 DEF Typed, CallsFit, Working
<1>3. (Onwards(op, "verify-draft") \/ FallsBack(op, "verify-draft")) /\ pending' \in PendingTypes
  <2>1. [pending EXCEPT !.verified = TRUE] \in PendingTypes
    BY <1>2 DEF PendingTypes
  <2> QED BY <1>1, <1>2, <2>1, DoneMoves, FailMoves DEF VerifyDraft
<1>4. StoresTyped' /\ UNCHANGED <<World, Process>> /\ budget' \in BudgetTypes
  BY <1>3, TypedParts DEF VerifyDraft, Typed, StoresTyped
<1>5. Typed'
  BY <1>1, <1>3, <1>4, StoreMoves
<1> QED BY <1>1, <1>3, <1>5

LEMMA HeardTypes == ASSUME Typed, StopsFit, Busy PROVE Heard \in Seq(Orders)
<1>1. commands \in Seq(Orders) /\ Now \in Nat /\ control.seen \in Nat
  BY TypedParts DEF Now, ControlTypes
<1>2. op.began \in 0 .. Len(commands)
  <2>1. op.began \in Nat
    BY BusyWorks DEF OpTypes
  <2> QED BY <1>1, <2>1 DEF StopsFit, Now
<1>3. Suffix(op.began) \in Seq(Orders)
  BY <1>1, <1>2, SuffixFacts DEF Suffix, SuffixOf, MarkOf
<1>4. SubSeq(Suffix(Len(commands)), 1, control.seen) \in Seq(Orders)
  <2> DEFINE s == Suffix(Len(commands))
  <2>1. s \in Seq(Orders)
    <3>1. Len(commands) \in 0 .. Len(commands)
      BY <1>1 DEF Now
    <3> QED BY <1>1, <3>1, SuffixFacts DEF Suffix, SuffixOf, MarkOf
  <2>2. control.seen <= Len(s)
    BY DEF StopsFit, ControlFits, Now
  <2> HIDE DEF s
  <2>3. \A i \in 1 .. control.seen : s[i] \in Orders
    BY <1>1, <2>1, <2>2
  <2> QED BY <1>1, <2>3, SubSeqProperties DEF s
<1> QED BY <1>3, <1>4 DEF Heard

LEMMA SendingTypes ==
  ASSUME Typed, StopsFit, Busy, op.cp # None, op.tp # None,
         NEW kind \in {"reply", "card", "marker"}, NEW what \in Texts \union {Acceptance}
  PROVE  Sending(kind, what) \in PressTypes
<1>1. op.saw \in Chats /\ op.chat \in Chats /\ op.tp \in TpTypes
  BY BusyWorks DEF OpTypes
<1>2. op.tp.trigger.msg \in Texts
  BY <1>1 DEF TpTypes, TriggerTypes
<1> QED BY <1>1, <1>2, HeardTypes DEF Sending, PressTypes

OutTypes == \A text \in Texts : Out(text) \in Bubbles /\ In(text) \in Bubbles
LEMMA BubbleTypes == OutTypes
BY DEF OutTypes, Out, In, Bubbles

PressDoes ==
  \/ FallsBack(op, "press") /\ UNCHANGED <<chat, composer, presses>>
  \/ /\ Bound(op.cp) /\ presses' = Append(presses, Sending("reply", op.text))
     /\ chat' = Append(chat, Out(op.text)) /\ composer["target"] = op.text
     /\ Onwards(op, "press") \/ FallsBack(op, "press")
LEMMA PressMoves ==
  ASSUME Typed, StopsFit, Press
  PROVE  /\ Typed' /\ Working("press") /\ op.cmd = "submit" /\ PressDoes
         /\ Onwards(op, "press") \/ FallsBack(op, "press")
<1>1. Working("press")
  BY AtWorks DEF Press
<1>2. op \in OpTypes /\ Busy
  BY <1>1 DEF Working, Busy
<1>3. op.cmd = "submit" /\ op.cp # None /\ op.tp # None
  <2>1. Follows(op.cmd, op.cp, "press", First(Tail(op.todo), "end"))
    BY <1>1, PathTail DEF Working, Path
  <2>2. op.cmd = "submit"
    BY <2>1 DEF Follows
  <2> QED BY <1>1, <2>2 DEF Working, CallFits, Gated3
<1>4. ASSUME Bound(op.cp), composer["target"] = op.text, chat' = Append(chat, Out(op.text)),
             SetComposer("target", Empty), presses' = Append(presses, Sending("reply", op.text)), Answered(Done)
      PROVE  /\ PressDoes /\ budget' \in BudgetTypes /\ WorldTyped'
             /\ Onwards(op, "press") \/ FallsBack(op, "press")
  <2>1. (Onwards(op, "press") \/ FallsBack(op, "press")) /\ budget' \in BudgetTypes
    BY <1>1, <1>4, AnsweredMoves, TypedParts
  <2>2. op.text \in Texts
    BY <1>2 DEF OpTypes
  <2>3. Sending("reply", op.text) \in PressTypes
    BY <1>2, <1>3, <2>2, SendingTypes
  <2>4. presses' \in Seq(PressTypes)
    BY <1>4, <2>3, MorePresses
  <2>5. chat' \in Chats
    BY <1>4, <2>2, BubbleTypes, MoreChat DEF OutTypes
  <2>6. composer' \in [{"target", "control"} -> Texts]
    BY <1>4, TypedParts, TextFacts DEF SetComposer
  <2>7. WorldTyped'
    BY <2>4, <2>5, <2>6 DEF Press, Typed, WorldTyped
  <2> QED BY <1>4, <2>1, <2>7 DEF PressDoes
<1>5. ASSUME Fail, UNCHANGED <<chat, composer, presses, budget>>
      PROVE  /\ PressDoes /\ budget' \in BudgetTypes /\ WorldTyped'
             /\ Onwards(op, "press") \/ FallsBack(op, "press")
  <2>1. FallsBack(op, "press")
    BY <1>1, <1>5, FailMoves
  <2> QED BY <1>5, <2>1, TypedParts DEF PressDoes, Press, Typed, WorldTyped
<1>6. /\ PressDoes /\ budget' \in BudgetTypes /\ WorldTyped'
      /\ Onwards(op, "press") \/ FallsBack(op, "press")
  BY <1>4, <1>5 DEF Press
<1>7. StoresTyped' /\ UNCHANGED <<Process>>
  BY StoresKept DEF Press
<1>8. Goes(op) /\ CallFits(op') /\ Place' \notin {"type", "verify-draft"}
  BY <1>1, <1>6, AlikeFixed, FixedFits DEF Goes, Working, Onwards, FallsBack, Follows, Recovers
<1>9. Typed'
  BY <1>1, <1>6, <1>7, <1>8, GoesTyped
<1> QED BY <1>1, <1>3, <1>6, <1>9

(***************************************************************************)
(* The steps after a reply, and those of the card.                          *)
(***************************************************************************)
SeeSentDoes ==
  \/ FallsBack(op, "see-sent")
  \/ op'.failed = op.failed /\ Place' = "verified"
LEMMA SeeSentMoves ==
  ASSUME Typed, SeeSent
  PROVE  Typed' /\ Working("see-sent") /\ Goes(op) /\ op'.cp = op.cp /\ SeeSentDoes
<1>1. Working("see-sent")
  BY AtWorks DEF SeeSent
<1>2. op \in OpTypes
  BY <1>1 DEF Working
<1>3. ASSUME Then([op EXCEPT !.chat = chat])
      PROVE  Goes(op) /\ op'.cp = op.cp /\ SeeSentDoes
  <2> DEFINE o == [op EXCEPT !.chat = chat]
  <2>1. o \in OpTypes /\ o.todo = op.todo /\ o.cp = op.cp /\ Fixed(o, op) /\ o.failed = op.failed
    BY <1>2, TypedParts DEF OpTypes, Fixed
  <2> HIDE DEF o
  <2>2. Then(o)
    BY <1>3 DEF o
  <2>3. Goes(op) /\ op'.cp = op.cp /\ Follows(op.cmd, op.cp, "see-sent", Place') /\ op'.failed = o.failed
    BY <1>1, <2>1, <2>2, ThenGoes
  <2> QED BY <2>1, <2>3 DEF SeeSentDoes, Follows
<1>4. ASSUME Fail PROVE Goes(op) /\ op'.cp = op.cp /\ SeeSentDoes
  BY <1>1, <1>4, FailMoves, AlikeFixed DEF SeeSentDoes
<1>5. Goes(op) /\ op'.cp = op.cp /\ SeeSentDoes
  BY <1>3, <1>4 DEF SeeSent
<1>6. WorldTyped' /\ StoresTyped' /\ UNCHANGED <<Process>> /\ budget' \in BudgetTypes
  BY WorldKept, StoresKept, TypedParts DEF SeeSent
<1>7. CallFits(op') /\ Place' \notin {"type", "verify-draft"}
  BY <1>1, <1>5, FixedFits DEF Goes, Working, SeeSentDoes, FallsBack, Recovers
<1>8. Typed'
  BY <1>1, <1>5, <1>6, <1>7, GoesTyped
<1> QED BY <1>1, <1>5, <1>8

LEMMA SettleMoves ==
  ASSUME Typed, NEW a, Working(a), NEW status, status \in {"verified", "uncertain"}, Settle(status)
  PROVE  /\ Onwards(op, a) \/ FallsBack(op, a)
         /\ outgoing' \in [Replies -> {"none", "claimed", "verified", "uncertain"}]
<1>1. outgoing \in [Replies -> {"none", "claimed", "verified", "uncertain"}]
  BY DEF Typed, StoresTyped
<1>2. ASSUME outgoing' = [outgoing EXCEPT ![pending.text] = status] /\ Done
      PROVE  /\ Onwards(op, a) \/ FallsBack(op, a)
             /\ outgoing' \in [Replies -> {"none", "claimed", "verified", "uncertain"}]
  BY <1>1, <1>2, DoneMoves
<1>3. ASSUME UNCHANGED outgoing /\ Fail
      PROVE  /\ Onwards(op, a) \/ FallsBack(op, a)
             /\ outgoing' \in [Replies -> {"none", "claimed", "verified", "uncertain"}]
  BY <1>1, <1>3, FailMoves
<1> QED BY <1>2, <1>3 DEF Settle

LEMMA MarkVerifiedMoves ==
  ASSUME Typed, MarkVerified
  PROVE  Typed' /\ Working("verified") /\ (Onwards(op, "verified") \/ FallsBack(op, "verified"))
<1>1. Working("verified")
  BY AtWorks DEF MarkVerified
<1>2. /\ Onwards(op, "verified") \/ FallsBack(op, "verified")
      /\ outgoing' \in [Replies -> {"none", "claimed", "verified", "uncertain"}]
  BY <1>1, SettleMoves DEF MarkVerified
<1>3. StoresTyped' /\ UNCHANGED <<World, Process>> /\ budget' \in BudgetTypes
  BY <1>2, TypedParts DEF MarkVerified, Typed, StoresTyped
<1>4. Typed'
  BY <1>1, <1>2, <1>3, StoreMoves
<1> QED BY <1>1, <1>2, <1>4

LEMMA MarkUncertainMoves ==
  ASSUME Typed, MarkUncertain
  PROVE  Typed' /\ Working("uncertain") /\ (Onwards(op, "uncertain") \/ FallsBack(op, "uncertain"))
<1>1. Working("uncertain")
  BY AtWorks DEF MarkUncertain
<1>2. /\ Onwards(op, "uncertain") \/ FallsBack(op, "uncertain")
      /\ outgoing' \in [Replies -> {"none", "claimed", "verified", "uncertain"}]
  BY <1>1, SettleMoves DEF MarkUncertain
<1>3. StoresTyped' /\ UNCHANGED <<World, Process>> /\ budget' \in BudgetTypes
  BY <1>2, TypedParts DEF MarkUncertain, Typed, StoresTyped
<1>4. Typed'
  BY <1>1, <1>2, <1>3, StoreMoves
<1> QED BY <1>1, <1>2, <1>4

ConsumeTriggerDoes ==
  \/ FallsBack(op, "consume-trigger") /\ UNCHANGED <<target, host>>
  \/ Onwards(op, "consume-trigger") /\ target' = [target EXCEPT !.trigger = None]
LEMMA ConsumeTriggerMoves ==
  ASSUME Typed, ConsumeTrigger
  PROVE  Typed' /\ Working("consume-trigger") /\ ConsumeTriggerDoes
<1>1. Working("consume-trigger")
  BY AtWorks DEF ConsumeTrigger
<1>2. ConsumeTriggerDoes
  BY <1>1, DoneMoves, FailMoves DEF ConsumeTrigger, ConsumeTriggerDoes
<1>3. HostFits'
  BY HostForgets DEF ConsumeTrigger
<1>4. WorldTyped' /\ StoresTyped' /\ UNCHANGED <<session, client, waiting>> /\ budget' \in BudgetTypes
  <2>1. target' \in TargetTypes
    BY <1>2, NoTrigger, TypedParts DEF ConsumeTriggerDoes
  <2> QED BY <2>1, TypedParts, WorldKept DEF ConsumeTrigger, Typed, StoresTyped
<1>5. Onwards(op, "consume-trigger") \/ FallsBack(op, "consume-trigger")
  BY <1>2 DEF ConsumeTriggerDoes
<1>6. Typed'
  BY <1>1, <1>3, <1>4, <1>5, HostMoves
<1> QED BY <1>1, <1>2, <1>6

ClearPendingDoes(a) ==
  /\ a \in {"clearPending", "clear-if-present"}
  /\ Onwards(op, a) \/ FallsBack(op, a)
  /\ pending' = pending \/ pending' = None
LEMMA ClearPendingMoves ==
  ASSUME Typed, ClearPending
  PROVE  Typed' /\ \E a : Working(a) /\ ClearPendingDoes(a)
<1>1. PICK a \in {"clearPending", "clear-if-present"} : At(a)
  BY DEF ClearPending
<1>2. Working(a)
  BY <1>1, AtWorks
<1>3. ClearPendingDoes(a)
  <2>1. \A P : Require(P) => Onwards(op, a) \/ FallsBack(op, a)
    BY <1>2, RequireMoves
  <2>2. (Done => Onwards(op, a)) /\ (Fail => FallsBack(op, a))
    BY <1>2, DoneMoves, FailMoves
  <2>3. CASE pending = None
    BY <1>1, <2>1, <2>3 DEF ClearPending, ClearPendingDoes
  <2>4. CASE pending # None
    BY <1>1, <2>2, <2>4 DEF ClearPending, ClearPendingDoes
  <2> QED BY <2>3, <2>4
<1>4. HostFits'
  BY HostForgets DEF ClearPending
<1>5. WorldTyped' /\ StoresTyped' /\ UNCHANGED <<session, client, waiting>> /\ budget' \in BudgetTypes
  <2>1. pending' \in PendingTypes \union {None}
    BY <1>3, TypedParts DEF ClearPendingDoes
  <2> QED BY <2>1, TypedParts, WorldKept DEF ClearPending, Typed, StoresTyped
<1>6. Onwards(op, a) \/ FallsBack(op, a)
  BY <1>3 DEF ClearPendingDoes
<1>7. a # "put" /\ a # "type"
  BY <1>1
<1>8. Typed'
  BY <1>2, <1>4, <1>5, <1>6, <1>7, HostMoves
<1> QED BY <1>2, <1>3, <1>8

ReleaseDoes ==
  \/ FallsBack(op, "release") /\ UNCHANGED <<outgoing, host>>
  \/ /\ Onwards(op, "release") /\ outgoing[op.text] \in {"claimed", "none"}
     /\ outgoing' = [outgoing EXCEPT ![op.text] = "none"]
LEMMA ReleaseMoves ==
  ASSUME Typed, Release
  PROVE  Typed' /\ Working("release") /\ ReleaseDoes
<1>1. Working("release")
  BY AtWorks DEF Release
<1>2. ReleaseDoes
  BY <1>1, DoneMoves, FailMoves DEF Release, ReleaseDoes
<1>3. HostFits'
  BY HostForgets DEF Release
<1>4. WorldTyped' /\ StoresTyped' /\ UNCHANGED <<session, client, waiting>> /\ budget' \in BudgetTypes
  <2>1. outgoing' \in [Replies -> {"none", "claimed", "verified", "uncertain"}]
    BY <1>2 DEF ReleaseDoes, Typed, StoresTyped
  <2> QED BY <2>1, TypedParts, WorldKept DEF Release, Typed, StoresTyped
<1>5. Onwards(op, "release") \/ FallsBack(op, "release")
  BY <1>2 DEF ReleaseDoes
<1>6. Typed'
  BY <1>1, <1>3, <1>4, <1>5, HostMoves
<1> QED BY <1>1, <1>2, <1>6

LEMMA PutIntentMoves ==
  ASSUME Typed, PutIntent
  PROVE  Typed' /\ Working("put-intent") /\ (Onwards(op, "put-intent") \/ FallsBack(op, "put-intent"))
<1>1. Working("put-intent")
  BY AtWorks DEF PutIntent
<1>2. Onwards(op, "put-intent") \/ FallsBack(op, "put-intent")
  BY <1>1, DoneMoves, FailMoves DEF PutIntent
<1>3. StoresTyped' /\ UNCHANGED <<World, Process>> /\ budget' \in BudgetTypes
  <2>1. [token |-> op.token, text |-> op.text] \in [token : Tokens, text : Texts]
    BY <1>1 DEF Working, OpTypes
  <2>2. intent' \in [token : Tokens, text : Texts] \union {None}
    BY <2>1 DEF PutIntent, Typed, StoresTyped
  <2> QED BY <2>2, TypedParts DEF PutIntent, Typed, StoresTyped
<1>4. Typed'
  BY <1>1, <1>2, <1>3, StoreMoves
<1> QED BY <1>1, <1>2, <1>4

LEMMA ClearIntentMoves ==
  ASSUME Typed, ClearIntent
  PROVE  Typed' /\ Working("clear-intent") /\ (Onwards(op, "clear-intent") \/ FallsBack(op, "clear-intent"))
<1>1. Working("clear-intent")
  BY AtWorks DEF ClearIntent
<1>2. Onwards(op, "clear-intent")
  BY <1>1, DoneMoves DEF ClearIntent
<1>3. StoresTyped' /\ UNCHANGED <<World, Process>> /\ budget' \in BudgetTypes
  BY TypedParts DEF ClearIntent, Typed, StoresTyped
<1>4. Typed'
  BY <1>1, <1>2, <1>3, StoreMoves
<1> QED BY <1>1, <1>2, <1>4

LEMMA CardTypes ==
  ASSUME Typed, NEW status \in {"none", "intent", "verified", "uncertain"}, SetCard(status)
  PROVE  ledger' \in [Wakes \union {Acceptance} -> {"none", "intent", "verified", "uncertain"}]
BY DEF Typed, StoresTyped, SetCard

ClaimCardDoes ==
  \/ CardFree /\ SetCard("intent") /\ Onwards(op, "card-intent")
  \/ /\ ledger' = ledger /\ op'.failed = op.failed /\ op'.chat = op.chat
     /\ Place' = IF op.cmd = "show-card" THEN "consume-trigger" ELSE "end"
LEMMA ClaimCardMoves ==
  ASSUME Typed, ClaimCard
  PROVE  /\ Typed' /\ Working("card-intent") /\ op.cmd \in {"show-card", "accept-card"}
         /\ Goes(op) /\ op'.cp = op.cp /\ ClaimCardDoes
<1>1. Working("card-intent")
  BY AtWorks DEF ClaimCard
<1>2. op \in OpTypes
  BY <1>1 DEF Working
<1>3. op.cmd \in {"show-card", "accept-card"}
  <2>1. Follows(op.cmd, op.cp, "card-intent", First(Tail(op.todo), "end"))
    BY <1>1, PathTail DEF Working, Path
  <2> QED BY <2>1 DEF Follows
<1>4. ASSUME CardFree, SetCard("intent"), Done PROVE Goes(op) /\ op'.cp = op.cp /\ ClaimCardDoes
  BY <1>1, <1>4, DoneMoves, AlikeFixed DEF ClaimCardDoes
<1>5. ASSUME UNCHANGED ledger,
             op' = [op EXCEPT !.todo = IF op.cmd = "show-card" THEN <<"consume-trigger">> ELSE <<>>]
      PROVE  Goes(op) /\ op'.cp = op.cp /\ ClaimCardDoes
  <2> DEFINE t == IF op.cmd = "show-card" THEN <<"consume-trigger">> ELSE <<>>
             b == IF op.cmd = "show-card" THEN "consume-trigger" ELSE "end"
  <2>1. t \in Seq(Places) /\ Leads(op.cmd, op.cp, t, "end") /\ First(t, "end") = b
    <3>1. Follows("show-card", op.cp, "consume-trigger", "end")
      BY DEF Follows
    <3>2. "consume-trigger" \in Places
      BY DEF Places
    <3>3. /\ <<"consume-trigger">> \in Seq(Places) /\ Leads("show-card", op.cp, <<"consume-trigger">>, "end")
          /\ First(<<"consume-trigger">>, "end") = "consume-trigger"
      BY ONLY <3>1, <3>2, Path1
    <3>4. Leads(op.cmd, op.cp, <<>>, "end") /\ First(<<>>, "end") = "end" /\ <<>> \in Seq(Places)
      BY NoPath
    <3> QED BY <3>3, <3>4
  <2>2. op' = [op EXCEPT !.todo = t]
    BY <1>5
  <2> HIDE DEF t
  <2>3. /\ op' \in OpTypes /\ op'.todo = t /\ Fixed(op', op) /\ op'.cp = op.cp /\ op'.failed = op.failed
        /\ op'.chat = op.chat
    BY <1>2, <2>1, <2>2 DEF OpTypes, Fixed
  <2>4. Path(op)' /\ Place' = b
    BY <2>1, <2>3 DEF Path, Place, Fixed
  <2> QED BY <1>5, <2>3, <2>4 DEF Goes, ClaimCardDoes
<1>6. Goes(op) /\ op'.cp = op.cp /\ ClaimCardDoes
  BY <1>4, <1>5 DEF ClaimCard
<1>7. WorldTyped' /\ StoresTyped' /\ UNCHANGED <<Process>> /\ budget' \in BudgetTypes
  <2>1. ledger' \in [Wakes \union {Acceptance} -> {"none", "intent", "verified", "uncertain"}]
    BY <1>6, CardTypes DEF ClaimCardDoes, Typed, StoresTyped
  <2> QED BY <2>1, WorldKept, TypedParts DEF ClaimCard, Typed, StoresTyped
<1>8. CallFits(op') /\ Place' \notin {"type", "verify-draft"}
  BY <1>1, <1>6, FixedFits DEF Goes, Working, ClaimCardDoes, Onwards, Follows
<1>9. Typed'
  BY <1>1, <1>6, <1>7, <1>8, GoesTyped
<1> QED BY <1>1, <1>3, <1>6, <1>9

CardSent == IF op.cmd = "show-card" THEN Sending("card", CardKey) ELSE Unasked("card", Acceptance)
LEMMA SendCardMoves ==
  ASSUME Typed, StopsFit, SendCard
  PROVE  /\ Typed' /\ Working("send-card") /\ op.cmd \in {"show-card", "accept-card"}
         /\ Onwards(op, "send-card") \/ FallsBack(op, "send-card")
         /\ presses' = Append(presses, CardSent)
<1>1. Working("send-card")
  BY AtWorks DEF SendCard
<1>2. op \in OpTypes /\ Busy
  BY <1>1 DEF Working, Busy
<1>3. op.cmd \in {"show-card", "accept-card"}
  <2>1. Follows(op.cmd, op.cp, "send-card", First(Tail(op.todo), "end"))
    BY <1>1, PathTail DEF Working, Path
  <2> QED BY <2>1 DEF Follows
<1>4. (Onwards(op, "send-card") \/ FallsBack(op, "send-card")) /\ budget' \in BudgetTypes
  BY <1>1, AnsweredMoves, TypedParts DEF SendCard
<1>5. presses' = Append(presses, CardSent)
  BY DEF SendCard, CardSent
<1>6. CardSent \in PressTypes
  <2>1. CASE op.cmd = "show-card"
    <3>1. op.cp # None /\ op.tp # None
      BY <1>1, <2>1 DEF Working, CallFits, Gated3
    <3>2. CardKey \in Texts
      BY <1>2, <2>1, <3>1 DEF CardKey, OpTypes, TpTypes, TriggerTypes
    <3> QED BY <1>2, <2>1, <3>1, <3>2, SendingTypes DEF CardSent
  <2>2. CASE op.cmd # "show-card"
    BY <2>2, UnaskedTypes DEF CardSent
  <2> QED BY <2>1, <2>2
<1>7. WorldTyped' /\ StoresTyped' /\ UNCHANGED <<Process>>
  <2>1. presses' \in Seq(PressTypes)
    BY <1>5, <1>6, MorePresses
  <2> QED BY <2>1, StoresKept DEF SendCard, Typed, WorldTyped
<1>8. Goes(op) /\ CallFits(op') /\ Place' \notin {"type", "verify-draft"}
  BY <1>1, <1>4, AlikeFixed, FixedFits DEF Goes, Working, Onwards, FallsBack, Follows, Recovers
<1>9. Typed'
  BY <1>1, <1>4, <1>7, <1>8, GoesTyped
<1> QED BY <1>1, <1>3, <1>4, <1>5, <1>9

SettleCardDoes(a) ==
  /\ a \in {"card-verified", "card-uncertain"}
  /\ Onwards(op, a) \/ FallsBack(op, a)
LEMMA SettleCardMoves ==
  ASSUME Typed, SettleCard
  PROVE  Typed' /\ \E a : Working(a) /\ SettleCardDoes(a)
<1>1. PICK a \in {"card-verified", "card-uncertain"} : At(a)
  BY DEF SettleCard
<1>2. Working(a)
  BY <1>1, AtWorks
<1>3. SettleCardDoes(a)
  BY <1>1, <1>2, DoneMoves, FailMoves DEF SettleCard, SettleCardDoes
<1>4. StoresTyped' /\ UNCHANGED <<World, Process>> /\ budget' \in BudgetTypes
  <2>1. ledger' \in [Wakes \union {Acceptance} -> {"none", "intent", "verified", "uncertain"}]
    <3>1. ASSUME NEW status \in {"none", "intent", "verified", "uncertain"}, SetCard(status)
          PROVE  ledger' \in [Wakes \union {Acceptance} -> {"none", "intent", "verified", "uncertain"}]
      BY <3>1, CardTypes
    <3>2. ASSUME UNCHANGED ledger
          PROVE  ledger' \in [Wakes \union {Acceptance} -> {"none", "intent", "verified", "uncertain"}]
      BY <3>2 DEF Typed, StoresTyped
    <3>3. (SetCard(IF At("card-verified") THEN "verified" ELSE "uncertain")) \/ UNCHANGED ledger
      BY DEF SettleCard
    <3> QED BY <3>1, <3>2, <3>3
  <2> QED BY <2>1, TypedParts DEF SettleCard, Typed, StoresTyped
<1>5. Onwards(op, a) \/ FallsBack(op, a)
  BY <1>3 DEF SettleCardDoes
<1>6. a # "put" /\ a # "type"
  BY <1>1
<1>7. Typed'
  BY <1>2, <1>4, <1>5, <1>6, StoreMoves
<1> QED BY <1>2, <1>3, <1>7

(***************************************************************************)
(* An operation begins and returns.                                         *)
(***************************************************************************)
LEMMA WaitingFacts ==
  ASSUME Typed, waiting # <<>>
  PROVE  /\ Head(waiting) \in OpTypes /\ Head(waiting) \in Range(waiting)
         /\ Tail(waiting) \in Seq(OpTypes) /\ Range(Tail(waiting)) \subseteq Range(waiting)
<1>1. waiting \in Seq(OpTypes)
  BY TypedParts
<1>2. /\ Tail(waiting) \in Seq(OpTypes) /\ Len(Tail(waiting)) = Len(waiting) - 1 /\ Len(waiting) \in Nat /\ Len(waiting) > 0
      /\ \A i \in 1 .. Len(waiting) - 1 : Tail(waiting)[i] = waiting[i + 1]
      /\ Head(waiting) = waiting[1] /\ Head(waiting) \in OpTypes
  BY <1>1, TailFacts
<1>3. DOMAIN waiting = 1 .. Len(waiting) /\ DOMAIN Tail(waiting) = 1 .. Len(Tail(waiting))
  BY <1>1, <1>2
<1>4. Head(waiting) \in Range(waiting)
  <2>1. 1 \in DOMAIN waiting
    BY <1>2, <1>3
  <2> QED BY <1>2, <2>1 DEF Range
<1>5. Range(Tail(waiting)) \subseteq Range(waiting)
  <2> SUFFICES ASSUME NEW i \in DOMAIN Tail(waiting) PROVE Tail(waiting)[i] \in Range(waiting)
    BY DEF Range
  <2>1. i \in 1 .. Len(waiting) - 1 /\ i + 1 \in DOMAIN waiting
    BY <1>2, <1>3
  <2> QED BY <1>2, <2>1 DEF Range
<1> QED BY <1>2, <1>4, <1>5

Begun(o) ==   \* what of a call the operation takes over
  /\ op'.cmd = o.cmd /\ op'.conv = o.conv /\ op'.token = o.token /\ op'.cp = o.cp /\ op'.tp = o.tp
  /\ op'.saw = o.saw /\ op'.chat = o.chat /\ op'.free = o.free /\ op'.new = o.new /\ op'.ctl = o.ctl
  /\ op'.batch = o.batch
BeginDoes(o) ==
  \/ /\ Admissible(o) /\ Starts(o.cmd, Place') /\ op'.failed = o.failed
     /\ op'.began = IF o.tp = None THEN 0 ELSE Len(commands)
  \/ Place' = "end" /\ op'.failed /\ op'.began = 0
LEMMA BeginMoves ==
  ASSUME Typed, Begin
  PROVE  /\ Typed' /\ ~Busy /\ waiting # <<>> /\ waiting' = Tail(waiting) /\ Head(waiting) \in Range(waiting)
         /\ Range(Tail(waiting)) \subseteq Range(waiting) /\ Head(waiting) \in OpTypes
         /\ op' \in OpTypes /\ Begun(Head(waiting)) /\ BeginDoes(Head(waiting))
         /\ UNCHANGED <<World, durable, session, client, budget>>
<1> DEFINE o == Head(waiting)
<1>1. ~Busy /\ waiting # <<>> /\ waiting' = Tail(waiting) /\ UNCHANGED <<World, durable, session, client, budget>>
  BY DEF Begin
<1>2. /\ o \in OpTypes /\ o \in Range(waiting) /\ Tail(waiting) \in Seq(OpTypes) /\ Range(Tail(waiting)) \subseteq Range(waiting)
  BY <1>1, WaitingFacts
<1>3. CallFits(o) /\ o.todo = <<>> /\ o.began = 0 /\ o.cmd # "none"
  <2>1. o.todo = <<>> /\ o.began = 0
    BY <1>2 DEF Typed, CallsFit
  <2>2. o.cmd # "none"
    BY <1>2 DEF OpTypes, Commands
  <2>3. o \in Doing
    BY <1>2, <2>2 DEF Doing
  <2> QED BY <2>1, <2>2, <2>3 DEF Typed, CallsFit
<1> DEFINE text == IF PendingIs(o) THEN pending.text ELSE o.text
           began == IF o.tp = None THEN 0 ELSE Len(commands)
           admitted == [o EXCEPT !.todo = Program(o), !.text = text, !.began = began]
<1>4. /\ Program(o) \in Seq(Places) /\ Leads(o.cmd, o.cp, Program(o), "end")
      /\ Starts(o.cmd, First(Program(o), "end"))
  BY <1>2, <1>3, ProgramPath
<1>5. text \in Texts /\ began \in Nat
  BY <1>2, TypedParts DEF PendingIs, PendingTypes, OpTypes
<1> HIDE DEF o, text, began
<1>6. ASSUME Admissible(o), op' = admitted,
             host' = IF o.cmd = "submit" THEN [host EXCEPT !.consumed = @ \cup {o.token}] ELSE host
      PROVE  /\ op' \in OpTypes /\ Begun(o) /\ BeginDoes(o) /\ Path(op)' /\ CallFits(op')
             /\ HostFits' /\ (Place' \in {"type", "verify-draft"} => pending \in PendingTypes)
  <2>1. op' \in OpTypes /\ Begun(o) /\ op'.todo = Program(o) /\ op'.failed = o.failed /\ op'.began = began
    BY <1>2, <1>4, <1>5, <1>6 DEF OpTypes, Begun
  <2>2. Path(op)' /\ Place' = First(Program(o), "end")
    BY <1>4, <2>1 DEF Path, Place, Begun
  <2>3. BeginDoes(o)
    BY <1>4, <1>6, <2>1, <2>2 DEF BeginDoes, began
  <2>4. CallFits(op')
    BY <1>3, <2>1 DEF CallFits, Begun
  <2>5. HostFits'
    <3>1. o.token \in Tokens
      BY <1>2 DEF OpTypes
    <3> QED BY <1>6, <3>1, HostParts DEF HostFits, HostTypes
  <2>6. Place' \in {"type", "verify-draft"} => pending \in PendingTypes
    <3>1. Place' \in {"type", "verify-draft"} => o.cmd = "verify-draft"
      BY <1>4, <2>2 DEF Starts
    <3>2. o.cmd = "verify-draft" => pending # None
      BY <1>6 DEF Admissible, PendingIs
    <3> QED BY <3>1, <3>2, TypedParts
  <2> QED BY <2>1, <2>2, <2>3, <2>4, <2>5, <2>6
<1>7. ASSUME op' = [o EXCEPT !.failed = TRUE], UNCHANGED host
      PROVE  /\ op' \in OpTypes /\ Begun(o) /\ BeginDoes(o) /\ Path(op)' /\ CallFits(op')
             /\ HostFits' /\ (Place' \in {"type", "verify-draft"} => pending \in PendingTypes)
  <2>1. op' \in OpTypes /\ Begun(o) /\ op'.todo = <<>> /\ op'.failed /\ op'.began = 0
    BY <1>2, <1>3, <1>7 DEF OpTypes, Begun
  <2>2. Path(op)' /\ Place' = "end"
    BY <2>1, NoPath DEF Path, Place, Begun
  <2>3. CallFits(op')
    BY <1>3, <2>1 DEF CallFits, Begun
  <2> QED BY <1>7, <2>1, <2>2, <2>3, HostForgets DEF BeginDoes
<1>8. /\ op' \in OpTypes /\ Begun(o) /\ BeginDoes(o) /\ Path(op)' /\ CallFits(op')
      /\ HostFits' /\ (Place' \in {"type", "verify-draft"} => pending \in PendingTypes)
  BY <1>6, <1>7 DEF Begin, o, text, began
<1>9. CallsFit'
  <2>1. \A p \in Range(waiting)' : p \in Range(waiting)
    BY <1>1, <1>2
  <2>2. \A p \in Doing' : CallFits(p)
    <3> SUFFICES ASSUME NEW p \in Doing' PROVE CallFits(p)
      OBVIOUS
    <3>1. p = op' \/ p \in Doing
      BY <2>1 DEF Doing
    <3> QED BY <1>8, <3>1 DEF Typed, CallsFit
  <2>3. \A p \in Doing' : CallFits(p)'
    BY <2>2 DEF CallFits
  <2>4. \A p \in Range(waiting)' : p.todo = <<>> /\ p.began = 0
    BY <2>1 DEF Typed, CallsFit
  <2>5. pending' = pending
    BY <1>1 DEF durable
  <2> QED BY <1>8, <2>3, <2>4, <2>5 DEF CallsFit
<1>10. Typed'
  <2>1. ProcessTyped'
    BY <1>1, <1>2, <1>8 DEF Typed, ProcessTyped, HostFits
  <2> QED BY <1>1, <1>9, <2>1, WorldKept, StoresKept DEF Typed
<1> QED BY <1>1, <1>2, <1>8, <1>10 DEF o

LEMMA TargetProofTypes ==
  ASSUME Typed, target.trigger # None, NEW snapshot
  PROVE  TargetProof(snapshot) \in TpTypes /\ TargetProof(snapshot).trigger = target.trigger
<1>1. target.trigger \in TriggerTypes
  BY TypedParts DEF TargetTypes
<1> QED BY <1>1, NewCaps DEF TargetProof, TpTypes

Seen ==   \* the session has a proof of the target chat
  /\ op.cmd \in {"read-target", "read-direct"} /\ ~op.failed /\ op.cp # None /\ target.trigger # None
  /\ session'.tp.trigger = target.trigger /\ session'.saw = op.chat
SessionDoes ==
  /\ session' \in SessionTypes /\ HostFits'
  /\ \/ session'.tp = session.tp /\ session'.saw = session.saw
     \/ session'.tp = None
     \/ Seen

LEMMA EndedDoes ==
  ASSUME Typed, NEW next \in Phases, Ended(next)
  PROVE  session' \in SessionTypes /\ session'.tp = None
BY TypedParts DEF Ended, SessionTypes, Tokens

LEMMA SessionReturnsDo ==
  ASSUME Typed, Busy, ~op.failed, SessionReturns
  PROVE  SessionDoes
<1>1. op \in OpTypes /\ session \in SessionTypes /\ CallFits(op)
  BY BusyWorks, TypedParts
<1>2. UNCHANGED host => HostFits'
  BY HostForgets
<1>3. CASE op.cmd = "read-control"
  <2> DEFINE proof == ControlProof("ui-observed")
  <2>1. /\ session' = [session EXCEPT !.phase = "control-read", !.cp = proof, !.tp = None, !.token = None]
        /\ host' = [host EXCEPT !.controls = @ \cup {proof.cap}]
    BY <1>3 DEF SessionReturns
  <2>2. proof \in CpTypes
    BY ProofTypes
  <2>3. proof.cap \in Nat
    BY <2>2 DEF CpTypes
  <2> HIDE DEF proof
  <2>4. session' \in SessionTypes /\ session'.tp = None
    BY <1>1, <2>1, <2>2 DEF SessionTypes, Phases, Tokens
  <2>5. HostFits'
    BY <2>1, <2>3, HostParts DEF HostFits, HostTypes
  <2> QED BY <2>4, <2>5 DEF SessionDoes
<1>4. CASE op.cmd \in {"read-target", "read-direct"}
  <2> DEFINE proof == IF op.cp = None \/ target.trigger = None THEN None ELSE TargetProof(op.chat)
             read == [session EXCEPT !.phase = "target-read", !.tp = proof, !.saw = op.chat]
  <2>1. /\ session' = IF op.cmd = "read-target" THEN read ELSE [read EXCEPT !.cp = op.cp, !.token = None]
        /\ host' = IF proof = None THEN host ELSE [host EXCEPT !.targets = @ \cup {proof.cap}]
    BY <1>4 DEF SessionReturns
  <2>2. \/ proof = None
        \/ /\ proof \in TpTypes /\ proof.trigger = target.trigger /\ op.cp # None /\ target.trigger # None
    BY TargetProofTypes
  <2>3. op.chat \in Chats /\ op.cp \in CpTypes \union {None}
    BY <1>1 DEF OpTypes
  <2> HIDE DEF proof
  <2>4. read \in SessionTypes /\ read.tp = proof /\ read.saw = op.chat
    BY <1>1, <2>2, <2>3 DEF SessionTypes, Phases
  <2> HIDE DEF read
  <2>5. session' \in SessionTypes /\ session'.tp = proof /\ session'.saw = op.chat
    BY <2>1, <2>3, <2>4 DEF SessionTypes, Tokens
  <2>6. HostFits'
    <3>1. CASE proof = None
      BY <1>2, <2>1, <3>1
    <3>2. CASE proof \in TpTypes
      <4>1. proof.cap \in Nat
        BY <3>2 DEF TpTypes
      <4>2. host' = host \/ host' = [host EXCEPT !.targets = @ \cup {proof.cap}]
        BY <2>1
      <4>3. host' = [host EXCEPT !.targets = @ \cup {proof.cap}] => HostFits'
        BY <4>1, HostParts DEF HostFits, HostTypes
      <4> QED BY <1>2, <4>2, <4>3
    <3> QED BY <2>2, <3>1, <3>2
  <2> QED BY <1>4, <2>2, <2>5, <2>6 DEF SessionDoes, Seen
<1>5. CASE op.cmd = "prepare"
  <2>1. session' = [session EXCEPT !.phase = "prepared", !.token = op.token, !.text = op.text] /\ UNCHANGED host
    BY <1>5 DEF SessionReturns
  <2> QED BY <1>1, <1>2, <2>1 DEF SessionDoes, SessionTypes, Phases, OpTypes
<1>6. CASE op.cmd = "verify-draft"
  <2>1. session' = [session EXCEPT !.phase = "draft-verified"] /\ UNCHANGED host
    BY <1>6 DEF SessionReturns
  <2> QED BY <1>1, <1>2, <2>1 DEF SessionDoes, SessionTypes, Phases
<1>7. CASE op.cmd = "show-card"
  <2>1. Ended("send-verified") /\ ForgetProofs(op)
    BY <1>7 DEF SessionReturns
  <2>2. host' = [host EXCEPT !.controls = @ \ {op.cp.cap}, !.targets = @ \ {op.tp.cap}]
    BY <2>1 DEF ForgetProofs
  <2>3. HostFits'
    <3> DEFINE C == host.controls \ {op.cp.cap}
               T == host.targets \ {op.tp.cap}
    <3>1. host' = [host EXCEPT !.controls = C, !.targets = T]
      BY <2>2
    <3>2. C \in SUBSET Nat /\ T \in SUBSET Nat /\ IsFiniteSet(C) /\ IsFiniteSet(T)
      BY HostParts DEF HostTypes
    <3> HIDE DEF C, T
    <3> QED BY <3>1, <3>2, HostParts DEF HostFits, HostTypes
  <2>4. session' \in SessionTypes /\ session'.tp = None
    <3>1. "send-verified" \in Phases
      BY DEF Phases
    <3> QED BY <2>1, <3>1, EndedDoes
  <2> QED BY <2>3, <2>4 DEF SessionDoes
<1>8. CASE op.cmd \in {"verify-send", "abort"}
  <2>1. (Ended("send-verified") \/ Ended("idle")) /\ UNCHANGED host
    BY <1>8 DEF SessionReturns
  <2>2. "send-verified" \in Phases /\ "idle" \in Phases
    BY DEF Phases
  <2>3. session' \in SessionTypes /\ session'.tp = None
    BY <2>1, <2>2, EndedDoes
  <2> QED BY <1>2, <2>1, <2>3 DEF SessionDoes
<1>9. CASE op.cmd \notin {"read-control", "read-target", "read-direct", "prepare", "verify-draft", "show-card",
                          "verify-send", "abort"}
  <2>1. UNCHANGED <<session, host>>
    BY <1>9 DEF SessionReturns
  <2> QED BY <1>1, <1>2, <2>1 DEF SessionDoes
<1> QED BY <1>3, <1>4, <1>5, <1>6, <1>7, <1>8, <1>9

LEMMA ClientReturnsDo == ASSUME Typed, Busy, ClientReturns PROVE client' \in ClientTypesAre
<1>1. op \in OpTypes /\ client \in ClientTypesAre
  BY BusyWorks, TypedParts
<1>2. NoDraft \in ClientTypesAre
  BY DEF NoDraft, ClientTypesAre, Tokens, Texts
<1>3. [stage |-> "prepared", token |-> op.token, text |-> op.text] \in ClientTypesAre
  BY <1>1 DEF ClientTypesAre, OpTypes
<1>4. [client EXCEPT !.stage = "verified"] \in ClientTypesAre
  BY <1>1 DEF ClientTypesAre
<1>5. client' \in {NoDraft, client, [stage |-> "prepared", token |-> op.token, text |-> op.text],
                   [client EXCEPT !.stage = "verified"]}
  BY DEF ClientReturns
<1> QED BY <1>1, <1>2, <1>3, <1>4, <1>5

LEMMA IdleFits == Leads(NoOp.cmd, NoOp.cp, NoOp.todo, "end") /\ First(NoOp.todo, "end") = "end" /\ NoOp.cmd = "none"
BY NoPath DEF NoOp

ReturnDoes ==
  /\ Busy /\ Place = "end" /\ op' = NoOp /\ ~Busy' /\ UNCHANGED <<World, durable, waiting, budget>>
  /\ \/ session'.tp = session.tp /\ session'.saw = session.saw
     \/ session'.tp = None
     \/ Seen
LEMMA ReturnMoves == ASSUME Typed, Return PROVE Typed' /\ ReturnDoes
<1>1. Busy /\ op.todo = <<>> /\ op' = NoOp /\ UNCHANGED <<World, durable, waiting, budget>>
  BY DEF Return
<1>2. /\ session' \in SessionTypes /\ HostFits' /\ client' \in ClientTypesAre
      /\ \/ session'.tp = session.tp /\ session'.saw = session.saw
         \/ session'.tp = None
         \/ Seen
  <2>1. CASE op.failed \/ host.kind = "tools"
    <3>1. UNCHANGED <<session, host>> /\ (UNCHANGED client \/ ClientReturns)
      BY <2>1 DEF Return
    <3> QED BY <1>1, <3>1, ClientReturnsDo, HostForgets, TypedParts
  <2>2. CASE ~op.failed /\ host.kind # "tools"
    <3>1. SessionReturns /\ UNCHANGED client
      BY <2>2 DEF Return
    <3>2. SessionDoes
      BY <1>1, <2>2, <3>1, SessionReturnsDo
    <3> QED BY <3>1, <3>2, TypedParts DEF SessionDoes
  <2> QED BY <2>1, <2>2
<1>3. Place = "end" /\ ~Busy'
  BY <1>1, IdleFits DEF Place, First, Busy
<1>4. CallsFit'
  <2>1. Path(op)' /\ Place' = "end"
    BY <1>1, IdleFits DEF Path, Place
  <2>2. \A o \in Doing' : o \in Doing
    BY <1>1, IdleFits DEF Doing
  <2>3. \A o \in Doing' : CallFits(o)
    BY <2>2 DEF Typed, CallsFit
  <2>4. \A o \in Doing' : CallFits(o)'
    BY <2>3 DEF CallFits
  <2>5. \A o \in Range(waiting)' : o.todo = <<>> /\ o.began = 0
    BY <1>1 DEF Typed, CallsFit
  <2> QED BY <2>1, <2>4, <2>5 DEF CallsFit
<1>5. ProcessTyped'
  BY <1>1, <1>2 DEF Typed, ProcessTyped, HostFits
<1>6. Typed'
  BY <1>1, <1>4, <1>5, WorldKept, StoresKept DEF Typed
<1> QED BY <1>1, <1>2, <1>3, <1>6 DEF ReturnDoes

(***************************************************************************)
(* Calls.                                                                  *)
(***************************************************************************)
LEMMA AppendRange ==
  ASSUME NEW S, NEW s \in Seq(S), NEW x \in S
  PROVE  Append(s, x) \in Seq(S) /\ \A y \in Range(Append(s, x)) : y \in Range(s) \/ y = x
<1>1. /\ Append(s, x) \in Seq(S) /\ DOMAIN Append(s, x) = 1 .. Len(s) + 1 /\ DOMAIN s = 1 .. Len(s) /\ Len(s) \in Nat
      /\ \A i \in 1 .. Len(s) : Append(s, x)[i] = s[i]
      /\ Append(s, x)[Len(s) + 1] = x
  OBVIOUS
<1>2. ASSUME NEW i \in DOMAIN Append(s, x) PROVE Append(s, x)[i] \in Range(s) \/ Append(s, x)[i] = x
  <2>1. i \in 1 .. Len(s) \/ i = Len(s) + 1
    BY <1>1
  <2> QED BY <1>1, <2>1 DEF Range
<1> QED BY <1>1, <1>2 DEF Range

(* What a call may be.                                                      *)
NewCall(o) ==
  /\ o \in OpTypes /\ CallFits(o) /\ o.todo = <<>> /\ o.began = 0 /\ o.cmd # "none"
  /\ o.cmd = "read-direct" => o.cp = None
  /\ o.tp = None \/ (o.tp = session.tp /\ o.saw = session.saw)
CallsDo ==
  /\ UNCHANGED <<World, durable, host, client, op, budget>>
  /\ session'.tp = None \/ (session'.tp = session.tp /\ session'.saw = session.saw)
  /\ waiting' = waiting \/ \E o : NewCall(o) /\ waiting' = Append(waiting, o)

LEMMA EnqueueMoves ==
  ASSUME Typed, NEW o, NewCall(o), Enqueue(o), session' \in SessionTypes,
         session'.tp = session.tp /\ session'.saw = session.saw
  PROVE  Typed' /\ CallsDo
<1>1. waiting' = Append(waiting, o) /\ UNCHANGED <<World, durable, host, client, op, budget>>
  BY DEF Enqueue
<1>2. waiting' \in Seq(OpTypes) /\ \A p \in Range(waiting)' : p \in Range(waiting) \/ p = o
  BY <1>1, TypedParts, AppendRange DEF NewCall
<1>3. ProcessTyped'
  BY <1>1, <1>2 DEF Typed, ProcessTyped
<1>4. CallsFit'
  <2>1. \A p \in Doing' : p \in Doing \/ p = o
    BY <1>1, <1>2 DEF Doing
  <2>2. \A p \in Doing' : CallFits(p)
    BY <2>1 DEF Typed, CallsFit, NewCall
  <2>3. \A p \in Doing' : CallFits(p)'
    BY <2>2 DEF CallFits
  <2>4. \A p \in Range(waiting)' : p.todo = <<>> /\ p.began = 0
    BY <1>2 DEF Typed, CallsFit, NewCall
  <2>5. Path(op)' /\ Place' = Place /\ pending' = pending
    BY <1>1 DEF Typed, CallsFit, Path, Place, durable
  <2> QED BY <2>3, <2>4, <2>5 DEF Typed, CallsFit
<1> QED BY <1>1, <1>3, <1>4, WorldKept, StoresKept DEF Typed, CallsDo

CommandIs(o, cmd, conv) ==
  /\ o \in OpTypes /\ o.cmd = cmd /\ o.conv = conv /\ o.todo = <<>> /\ o.began = 0
  /\ o.cp = session.cp /\ o.tp = session.tp /\ o.saw = session.saw
  /\ [o EXCEPT !.tp = None] \in OpTypes
  /\ [o EXCEPT !.cp = None, !.tp = None] \in OpTypes
LEMMA CommandTypes ==
  ASSUME Typed, NEW cmd, cmd \in Commands, NEW conv, conv \in {"target", "control"},
         NEW text, text \in Texts, NEW token, token \in Tokens
  PROVE  CommandIs(Command(cmd, conv, text, token), cmd, conv)
<1> DEFINE o == Command(cmd, conv, text, token)
<1>1. session \in SessionTypes
  BY TypedParts
<1>2. <<>> \in Seq(Places) /\ <<>> \in Chats
  BY EmptySeq DEF Chats
<1>3. o \in OpTypes
  BY <1>1, <1>2 DEF Command, OpTypes, SessionTypes
<1>4. /\ o.cmd = cmd /\ o.conv = conv /\ o.todo = <<>> /\ o.began = 0
      /\ o.cp = session.cp /\ o.tp = session.tp /\ o.saw = session.saw
  BY DEF Command
<1> HIDE DEF o
<1>5. [o EXCEPT !.tp = None] \in OpTypes /\ [o EXCEPT !.cp = None, !.tp = None] \in OpTypes
  BY <1>3 DEF OpTypes
<1>6. CommandIs(o, cmd, conv)
  BY <1>3, <1>4, <1>5 DEF CommandIs
<1> QED BY <1>6 DEF o

LEMMA CommandNames ==
  /\ "establish" \in Commands /\ "read-control" \in Commands /\ "read-target" \in Commands
  /\ "read-direct" \in Commands /\ "read-chat" \in Commands /\ "get-state" \in Commands
  /\ "prepare" \in Commands /\ "show-card" \in Commands /\ "accept-card" \in Commands
  /\ "verify-draft" \in Commands /\ "submit" \in Commands /\ "abort" \in Commands /\ "verify-send" \in Commands
  /\ "prepare-draft" \in Commands /\ "abort-draft" \in Commands /\ "none" \notin Commands
BY DEF Commands

LEMMA SessionReadsMoves ==
  ASSUME Typed, NEW cmd, cmd \in {"establish", "read-control", "read-target", "read-direct"}, SessionReads(cmd)
  PROVE  Typed' /\ CallsDo
<1> DEFINE conv == IF cmd = "establish" THEN "control" ELSE "target"
           o == Command(cmd, conv, Marker, None)
           p == IF cmd = "read-target" THEN [o EXCEPT !.tp = None] ELSE [o EXCEPT !.cp = None, !.tp = None]
<1>1. cmd \in Commands
  BY CommandNames
<1>2. /\ o \in OpTypes /\ o.cmd = cmd /\ o.conv = conv /\ o.todo = <<>> /\ o.began = 0
      /\ o.cp = session.cp /\ o.tp = session.tp /\ o.saw = session.saw
      /\ [o EXCEPT !.tp = None] \in OpTypes
      /\ [o EXCEPT !.cp = None, !.tp = None] \in OpTypes
  <2>1. conv \in {"target", "control"} /\ Marker \in Texts /\ None \in Tokens
    BY TextFacts DEF Tokens
  <2>2. CommandIs(o, cmd, conv)
    BY <1>1, <2>1, CommandTypes
  <2> QED BY <2>2 DEF CommandIs
<1>3. Enqueue(p) /\ session' = session /\ (cmd = "read-target" => session.cp # None)
  BY DEF SessionReads
<1> HIDE DEF o
<1>4. NewCall(p)
  <2>1. p \in OpTypes /\ p.cmd = cmd /\ p.conv = conv /\ p.todo = <<>> /\ p.began = 0 /\ p.tp = None
        /\ p.cp = IF cmd = "read-target" THEN session.cp ELSE None
    BY <1>2 DEF OpTypes
  <2>2. cmd # "none" /\ cmd \notin Gated3
    BY DEF Gated3
  <2> HIDE DEF p
  <2>3. CallFits(p)
    BY <1>3, <2>1, <2>2 DEF CallFits
  <2> QED BY <2>1, <2>2, <2>3 DEF NewCall
<1> HIDE DEF p
<1> QED BY <1>3, <1>4, EnqueueMoves, TypedParts

LEMMA SessionRepliesMoves ==
  ASSUME Typed, NEW cmd, NEW text \in Texts, SessionReplies(cmd, text)
  PROVE  Typed' /\ CallsDo
<1> DEFINE o == Command(cmd, "target", text, None)
<1>1. cmd \in {"prepare", "show-card"} /\ session.cp # None /\ session.tp # None /\ Enqueue(o) /\ session' = session
  BY DEF SessionReplies
<1>2. cmd \in Commands
  BY <1>1, CommandNames
<1>3. /\ o \in OpTypes /\ o.cmd = cmd /\ o.conv = "target" /\ o.todo = <<>> /\ o.began = 0
      /\ o.cp = session.cp /\ o.tp = session.tp /\ o.saw = session.saw
  <2>1. None \in Tokens
    BY DEF Tokens
  <2>2. CommandIs(o, cmd, "target")
    BY <1>2, <2>1, CommandTypes
  <2> QED BY <2>2 DEF CommandIs
<1> HIDE DEF o
<1>4. NewCall(o)
  BY <1>1, <1>3 DEF NewCall, CallFits
<1> QED BY <1>1, <1>4, EnqueueMoves, TypedParts

LEMMA SessionSendsMoves ==
  ASSUME Typed, NEW cmd, SessionSends(cmd)
  PROVE  Typed' /\ CallsDo
<1> DEFINE o == Command(cmd, "target", session.text, session.token)
<1>1. /\ cmd \in {"verify-draft", "submit", "abort", "verify-send"}
      /\ cmd = "submit" => session.cp # None /\ session.tp # None
      /\ Enqueue(o)
      /\ session' = IF cmd = "submit" THEN [session EXCEPT !.phase = "submitted"] ELSE session
  BY DEF SessionSends
<1>2. cmd \in Commands
  BY <1>1, CommandNames
<1>3. /\ o \in OpTypes /\ o.cmd = cmd /\ o.conv = "target" /\ o.todo = <<>> /\ o.began = 0
      /\ o.cp = session.cp /\ o.tp = session.tp /\ o.saw = session.saw
  <2>1. session.text \in Texts /\ session.token \in Tokens
    BY TypedParts DEF SessionTypes
  <2>2. CommandIs(o, cmd, "target")
    BY <1>2, <2>1, CommandTypes
  <2> QED BY <2>2 DEF CommandIs
<1> HIDE DEF o
<1>4. NewCall(o)
  BY <1>1, <1>3 DEF NewCall, CallFits, Gated3
<1>5. session' \in SessionTypes /\ session'.tp = session.tp /\ session'.saw = session.saw
  BY <1>1, TypedParts DEF SessionTypes, Phases
<1> QED BY <1>1, <1>4, <1>5, EnqueueMoves

(* A call without proofs.                                                   *)
LEMMA PlainCall ==
  ASSUME Typed, NEW cmd \in Commands, cmd \notin Gated3, cmd \notin {"establish", "read-target"},
         NEW text \in Texts, NEW token \in Tokens,
         Enqueue([Command(cmd, "target", text, token) EXCEPT !.cp = None, !.tp = None]), session' = session
  PROVE  Typed' /\ CallsDo
<1> DEFINE o == Command(cmd, "target", text, token)
           p == [o EXCEPT !.cp = None, !.tp = None]
<1>1. /\ o \in OpTypes /\ o.cmd = cmd /\ o.conv = "target" /\ o.todo = <<>> /\ o.began = 0
      /\ p \in OpTypes
  <2>1. CommandIs(o, cmd, "target")
    BY CommandTypes
  <2> QED BY <2>1 DEF CommandIs
<1>2. Enqueue(p)
  OBVIOUS
<1> HIDE DEF o
<1>3. p.cmd = cmd /\ p.conv = "target" /\ p.todo = <<>> /\ p.began = 0 /\ p.tp = None /\ p.cp = None
  BY <1>1 DEF OpTypes
<1>4. cmd # "none"
  BY CommandNames
<1> HIDE DEF p
<1>5. NewCall(p)
  BY <1>1, <1>3, <1>4 DEF NewCall, CallFits
<1> QED BY <1>2, <1>5, EnqueueMoves, TypedParts

LEMMA AcceptCardMoves == ASSUME Typed, AcceptCard PROVE Typed' /\ CallsDo
<1>1. "accept-card" \in Commands /\ "accept-card" \notin Gated3 /\ None \in Texts /\ None \in Tokens
  BY CommandNames DEF Gated3, Texts, Tokens
<1> QED BY <1>1, PlainCall DEF AcceptCard

LEMMA ToolCallsMoves ==
  ASSUME Typed, NEW cmd, NEW text \in Texts, ToolCalls(cmd, text)
  PROVE  Typed' /\ CallsDo
<1>1. cmd \in {"get-state", "read-chat", "read-control", "prepare-draft", "verify-draft", "abort-draft", "verify-send"}
  BY DEF ToolCalls
<1>2. cmd \in Commands /\ cmd \notin Gated3 /\ cmd \notin {"establish", "read-target"}
  BY <1>1, CommandNames DEF Gated3
<1>3. client.token \in Tokens
  BY TypedParts DEF ClientTypesAre
<1> QED BY <1>2, <1>3, PlainCall DEF ToolCalls

LEMMA SessionClosesMoves == ASSUME Typed, SessionCloses PROVE Typed' /\ CallsDo
<1>1. Ended("closed") /\ UNCHANGED <<World, durable, host, client, waiting, op, budget>>
  BY DEF SessionCloses
<1>2. session' \in SessionTypes /\ session'.tp = None
  <2>1. "closed" \in Phases
    BY DEF Phases
  <2> QED BY <1>1, <2>1, EndedDoes
<1>3. ProcessTyped'
  BY <1>1, <1>2 DEF Typed, ProcessTyped
<1>4. CallsFit'
  <2>1. Doing' = Doing /\ Path(op)' /\ Place' = Place /\ pending' = pending /\ waiting' = waiting
    BY <1>1 DEF Typed, CallsFit, Doing, Path, Place, durable
  <2>2. \A p \in Doing' : CallFits(p)'
    BY <2>1 DEF Typed, CallsFit, CallFits
  <2> QED BY <2>1, <2>2 DEF Typed, CallsFit
<1> QED BY <1>1, <1>2, <1>3, <1>4, WorldKept, StoresKept DEF Typed, CallsDo

LEMMA BudgetTexts == ASSUME Typed, NEW text \in budget.texts \cup {None} PROVE text \in Texts
BY TypedParts DEF BudgetTypes, Texts

LEMMA CallsMoves == ASSUME Typed, Calls PROVE Typed' /\ CallsDo
<1>1. ASSUME NEW cmd, cmd \in {"establish", "read-control", "read-target", "read-direct"}, SessionReads(cmd)
      PROVE  Typed' /\ CallsDo
  BY <1>1, SessionReadsMoves
<1>2. ASSUME NEW text \in budget.texts, SessionReplies("prepare", text) PROVE Typed' /\ CallsDo
  BY <1>2, SessionRepliesMoves, BudgetTexts
<1>3. ASSUME SessionReplies("show-card", None) PROVE Typed' /\ CallsDo
  BY <1>3, SessionRepliesMoves, BudgetTexts
<1>4. ASSUME NEW cmd, SessionSends(cmd) PROVE Typed' /\ CallsDo
  BY <1>4, SessionSendsMoves
<1>5. ASSUME NEW cmd, NEW text \in budget.texts \cup {None}, ToolCalls(cmd, text) PROVE Typed' /\ CallsDo
  BY <1>5, ToolCallsMoves, BudgetTexts
<1> QED BY <1>1, <1>2, <1>3, <1>4, <1>5, SessionClosesMoves, AcceptCardMoves DEF Calls

(***************************************************************************)
(* The world, and the process.                                              *)
(***************************************************************************)
Outside == UNCHANGED <<durable, op, waiting, host, session>>
LEMMA OutsideTyped ==
  ASSUME Typed, Outside, WorldTyped', client' \in ClientTypesAre, budget' \in BudgetTypes
  PROVE  Typed'
<1>1. ProcessTyped'
  BY DEF Typed, ProcessTyped, Outside
<1>2. CallsFit'
  <2>1. Doing' = Doing /\ Path(op)' /\ Place' = Place /\ pending' = pending /\ waiting' = waiting
    BY DEF Typed, CallsFit, Doing, Path, Place, durable, Outside
  <2>2. \A p \in Doing' : CallFits(p)'
    BY <2>1 DEF Typed, CallsFit, CallFits
  <2> QED BY <2>1, <2>2 DEF Typed, CallsFit
<1> QED BY <1>1, <1>2, StoresKept DEF Typed, Outside

LEMMA ClientTypesTyped == ASSUME Typed, ClientTypes PROVE Typed' /\ Outside
<1>1. Outside /\ client' = client /\ budget' = budget
  BY DEF ClientTypes, Process, Outside
<1>2. WorldTyped'
  <2>1. client.text \in Texts
    BY TypedParts DEF ClientTypesAre
  <2> QED BY <2>1, ComposerSteps DEF ClientTypes
<1> QED BY <1>1, <1>2, OutsideTyped, TypedParts

LEMMA ClientPressesTyped == ASSUME Typed, ClientPresses PROVE Typed' /\ Outside
<1>1. Outside /\ budget' = budget
  BY DEF ClientPresses, Outside
<1>2. client.text \in Texts /\ client' \in ClientTypesAre
  BY TypedParts DEF ClientTypesAre, ClientPresses
<1>3. chat' \in Chats
  BY <1>2, BubbleTypes, MoreChat DEF OutTypes, ClientPresses
<1>4. presses' \in Seq(PressTypes)
  BY <1>2, UnaskedTypes, MorePresses DEF ClientPresses
<1>5. composer' \in [{"target", "control"} -> Texts]
  BY TypedParts, TextFacts DEF ClientPresses, SetComposer
<1>6. WorldTyped'
  BY <1>3, <1>4, <1>5 DEF ClientPresses, Typed, WorldTyped
<1> QED BY <1>1, <1>2, <1>6, OutsideTyped, TypedParts

LEMMA ContactWritesTyped ==
  ASSUME Typed, NEW m \in budget.msgs, ContactWrites(m) PROVE Typed' /\ Outside
<1>1. Outside /\ client' = client /\ budget' \in BudgetTypes
  BY SpendTypes, TypedParts DEF ContactWrites, Process, Outside
<1>2. chat' \in Chats
  <2>1. m \in Texts
    BY TypedParts DEF BudgetTypes, Texts
  <2> QED BY <2>1, BubbleTypes, MoreChat DEF OutTypes, ContactWrites
<1>3. WorldTyped'
  BY <1>2 DEF ContactWrites, Typed, WorldTyped
<1> QED BY <1>1, <1>3, OutsideTyped, TypedParts

LEMMA OwnerCommandsTyped ==
  ASSUME Typed, NEW c \in budget.commands, OwnerCommands(c) PROVE Typed' /\ Outside /\ c \in Orders
<1>1. Outside /\ client' = client /\ budget' \in BudgetTypes
  BY SpendTypes, TypedParts DEF OwnerCommands, Process, Outside
<1>2. c \in Orders
  BY TypedParts DEF BudgetTypes
<1>3. commands' \in Seq(Orders)
  BY <1>2, MoreCommands DEF OwnerCommands
<1>4. WorldTyped'
  BY <1>3 DEF OwnerCommands, Typed, WorldTyped
<1> QED BY <1>1, <1>2, <1>4, OutsideTyped, TypedParts

LEMMA OwnerTypesTyped == ASSUME Typed, OwnerTypes PROVE Typed' /\ Outside
<1>1. Outside /\ client' = client /\ budget' \in BudgetTypes
  BY SpendTypes, TypedParts DEF OwnerTypes, Process, Outside
<1>2. WorldTyped'
  BY ComposerSteps, TextFacts DEF OwnerTypes
<1> QED BY <1>1, <1>2, OutsideTyped, TypedParts

LEMMA OwnerPressesTyped == ASSUME Typed, OwnerPresses PROVE Typed' /\ Outside
<1>1. Outside /\ client' = client /\ budget' \in BudgetTypes
  BY SpendTypes, TypedParts DEF OwnerPresses, Process, Outside
<1>2. composer["target"] \in Texts
  BY TypedParts
<1>3. chat' \in Chats
  BY <1>2, BubbleTypes, MoreChat DEF OutTypes, OwnerPresses
<1>4. composer' \in [{"target", "control"} -> Texts]
  BY TypedParts, TextFacts DEF OwnerPresses, SetComposer
<1>5. WorldTyped'
  BY <1>3, <1>4 DEF OwnerPresses, Typed, WorldTyped
<1> QED BY <1>1, <1>5, OutsideTyped, TypedParts

LEMMA OrphanLandsTyped == ASSUME Typed, OrphanLands PROVE Typed' /\ Outside
<1>1. Outside /\ client' = client /\ budget' = budget
  BY DEF OrphanLands, Process, Outside
<1>2. orphan \in PressTypes
  BY TypedParts DEF OrphanLands
<1>3. WorldTyped'
  <2>1. CASE composer["target"] = orphan.what
    <3>1. orphan.what \in Texts
      BY <2>1, TypedParts
    <3>2. chat' \in Chats
      BY <2>1, <3>1, BubbleTypes, MoreChat DEF OutTypes, OrphanLands
    <3>3. presses' \in Seq(PressTypes)
      BY <1>2, <2>1, MorePresses DEF OrphanLands
    <3>4. composer' \in [{"target", "control"} -> Texts]
      BY <2>1, TypedParts, TextFacts DEF OrphanLands, SetComposer
    <3> QED BY <3>2, <3>3, <3>4 DEF OrphanLands, Typed, WorldTyped
  <2>2. CASE composer["target"] # orphan.what
    BY <2>2 DEF OrphanLands, Typed, WorldTyped
  <2> QED BY <2>1, <2>2
<1> QED BY <1>1, <1>3, OutsideTyped, TypedParts

RestartDoes ==
  /\ op' = NoOp /\ ~Busy' /\ Doing' = {} /\ waiting' = <<>> /\ session'.tp = None
  /\ UNCHANGED <<chat, commands, composer, presses, durable, client>>
  /\ \/ orphan' = orphan
     \/ Working("press") /\ op.cmd = "submit" /\ Bound(op.cp) /\ orphan' = Sending("reply", op.text)
LEMMA RestartMoves ==
  ASSUME Typed, StopsFit, NEW kind \in budget.hosts, Restart(kind)
  PROVE  Typed' /\ RestartDoes
<1>1. /\ Spend("starts") /\ host' = [NoHost EXCEPT !.kind = kind] /\ waiting' = <<>> /\ op' = NoOp
      /\ session' = (IF kind = "tools" THEN NoSession ELSE NewSession)
      /\ UNCHANGED <<chat, commands, composer, presses, durable, client>>
  BY DEF Restart
<1>2. orphan' \in PressTypes \union {None} /\ RestartDoes
  <2>1. ~Busy' /\ Range(waiting)' = {}
    BY <1>1, IdleFits DEF Busy, Range
  <2>2. Doing' = {}
    BY <1>1, <2>1, IdleFits DEF Doing
  <2>3. session'.tp = None
    BY <1>1 DEF NoSession, NewSession
  <2>4. CASE At("press") /\ Bound(op.cp)
    <3>1. Working("press")
      BY <2>4, AtWorks
    <3>2. op \in OpTypes /\ Busy
      BY <3>1 DEF Working, Busy
    <3>3. op.cmd = "submit" /\ op.cp # None /\ op.tp # None
      <4>1. Follows(op.cmd, op.cp, "press", First(Tail(op.todo), "end"))
        BY <3>1, PathTail DEF Working, Path
      <4>2. op.cmd = "submit"
        BY <4>1 DEF Follows
      <4> QED BY <3>1, <4>2 DEF Working, CallFits, Gated3
    <3>4. Sending("reply", op.text) \in PressTypes
      BY <3>2, <3>3, SendingTypes DEF OpTypes
    <3>5. orphan' \in {orphan, Sending("reply", op.text)}
      BY <2>4 DEF Restart
    <3> QED BY <1>1, <2>1, <2>2, <2>3, <2>4, <3>1, <3>3, <3>4, <3>5, TypedParts DEF RestartDoes
  <2>5. CASE ~(At("press") /\ Bound(op.cp))
    <3>1. orphan' = orphan
      BY <2>5 DEF Restart
    <3> QED BY <1>1, <2>1, <2>2, <2>3, <3>1, TypedParts DEF RestartDoes
  <2> QED BY <2>4, <2>5
<1>3. WorldTyped'
  BY <1>1, <1>2 DEF Typed, WorldTyped
<1>4. StoresTyped'
  BY <1>1, StoresKept
<1>5. ProcessTyped'
  <2>1. kind \in {"session", "direct", "tools"}
    BY TypedParts DEF BudgetTypes
  <2>2. host' \in HostTypes /\ host'.controls = {} /\ host'.targets = {} /\ host'.prepared = {}
    BY <1>1, <2>1 DEF NoHost, HostTypes
  <2>3. IsFiniteSet({})
    BY FS_EmptySet
  <2>4. <<>> \in Chats /\ <<>> \in Seq(OpTypes)
    BY EmptySeq DEF Chats
  <2>5. NoSession \in SessionTypes
    BY <2>4 DEF NoSession, SessionTypes, Phases, Texts, Tokens
  <2>6. NewSession \in SessionTypes
    BY <2>5 DEF NewSession, SessionTypes, Phases
  <2>7. budget' \in BudgetTypes
    BY <1>1, TypedParts, SpendTypes
  <2> QED BY <1>1, <2>2, <2>3, <2>4, <2>5, <2>6, <2>7 DEF Typed, ProcessTyped
<1>6. CallsFit'
  <2>1. Path(op)' /\ Place' = "end" /\ Range(waiting)' = {}
    BY <1>1, IdleFits DEF Path, Place, Range
  <2> QED BY <1>2, <2>1 DEF CallsFit, RestartDoes
<1> QED BY <1>2, <1>3, <1>4, <1>5, <1>6 DEF Typed

LEMMA StaysTyped == ASSUME Typed, UNCHANGED vars PROVE Typed' /\ Outside /\ UNCHANGED World
<1>1. Outside /\ client' = client /\ budget' = budget /\ UNCHANGED World
  BY DEF vars, durable, World, Outside
<1> QED BY <1>1, OutsideTyped, WorldKept, TypedParts

LEMMA InitTyped == ASSUME LiveAssumption, Init PROVE Typed
<1>1. budget \in BudgetTypes
  BY DEF LiveAssumption, Init, BudgetTypes, Orders, Commands
<1>2. chat \in {<<>>} \cup {<<In(x)>> : x \in budget.msgs} /\ commands \in {<<>>, <<Marker>>}
  BY DEF Init
<1>3. chat \in Chats
  <2>1. <<>> \in Chats
    BY EmptySeq DEF Chats
  <2>2. ASSUME NEW x \in budget.msgs PROVE <<In(x)>> \in Chats
    <3>1. x \in Texts
      BY <1>1 DEF BudgetTypes, Texts
    <3>2. In(x) \in Bubbles
      BY <3>1, BubbleTypes DEF OutTypes
    <3> QED BY <3>2 DEF Chats
  <2> QED BY <1>2, <2>1, <2>2
<1>4. commands \in Seq(Orders)
  <2>1. Marker \in Orders
    BY DEF Marker, Orders
  <2>2. <<Marker>> \in Seq(Orders)
    BY <2>1
  <2>3. <<>> \in Seq(Orders)
    BY EmptySeq
  <2> QED BY <1>2, <2>2, <2>3
<1>5. WorldTyped
  <2>1. presses = <<>> /\ orphan = None /\ composer = [c \in {"target", "control"} |-> Empty]
    BY DEF Init
  <2> QED BY <1>3, <1>4, <2>1, EmptySeq, TextFacts DEF WorldTyped
<1>6. StoresTyped
  <2>1. control \in ControlTypes
    <3>1. \/ control = [active |-> TRUE, stopped |-> FALSE, reason |-> None, gate |-> 1, seen |-> 0]
          \/ control = [active |-> FALSE, stopped |-> TRUE, reason |-> "boundary", gate |-> 1, seen |-> 0]
      BY DEF Init
    <3>2. 1 \in Nat /\ 0 \in Nat /\ TRUE \in BOOLEAN /\ FALSE \in BOOLEAN
      OBVIOUS
    <3>3. [active |-> TRUE, stopped |-> FALSE, reason |-> None, gate |-> 1, seen |-> 0] \in ControlTypes
      BY ONLY <3>2 DEF ControlTypes
    <3>4. [active |-> FALSE, stopped |-> TRUE, reason |-> "boundary", gate |-> 1, seen |-> 0] \in ControlTypes
      BY ONLY <3>2 DEF ControlTypes
    <3> QED BY <3>1, <3>3, <3>4
  <2>2. target \in TargetTypes
    <3>1. target = [base |-> IF chat = <<>> THEN None ELSE chat, unread |-> FALSE, trigger |-> None]
      BY DEF Init
    <3> QED BY <1>3, <3>1 DEF TargetTypes
  <2>3. /\ outgoing = [r \in Replies |-> "none"] /\ pending = None /\ intent = None
        /\ ledger = [k \in Wakes \cup {Acceptance} |-> "none"]
    BY DEF Init
  <2> QED BY <2>1, <2>2, <2>3 DEF StoresTyped
<1>7. /\ host = NoHost /\ session = NoSession /\ client = NoDraft /\ waiting = <<>> /\ op = NoOp
  BY DEF Init
<1>8. ProcessTyped
  <2>1. host \in HostTypes /\ host.controls = {} /\ host.targets = {} /\ host.prepared = {}
    BY <1>7 DEF NoHost, HostTypes
  <2>2. IsFiniteSet({})
    BY FS_EmptySet
  <2>3. <<>> \in Chats /\ <<>> \in Seq(OpTypes)
    BY EmptySeq DEF Chats
  <2>4. NoSession \in SessionTypes /\ NoDraft \in ClientTypesAre
    BY <2>3 DEF NoSession, SessionTypes, Phases, Texts, Tokens, NoDraft, ClientTypesAre
  <2> QED BY <1>1, <1>7, <2>1, <2>2, <2>3, <2>4 DEF ProcessTyped
<1>9. CallsFit
  <2>1. Path(op) /\ Place = "end" /\ Range(waiting) = {}
    BY <1>7, IdleFits DEF Path, Place, Range
  <2>2. Doing = {}
    BY <1>7, <2>1, IdleFits DEF Doing
  <2> QED BY <2>1, <2>2 DEF CallsFit
<1> QED BY <1>5, <1>6, <1>8, <1>9 DEF Typed

(***************************************************************************)
(* Nothing slips in: what a step does to the answers.                        *)
(***************************************************************************)
LEMMA ProofsKept ==
  ASSUME AnswersFit, target' \in TargetTypes, target'.trigger = target.trigger \/ target'.trigger = None,
         \A o \in (Doing \union {session})' :
           o.tp = None \/ \E p \in Doing \union {session} : o.tp = p.tp /\ o.saw = p.saw
  PROVE  /\ \A o \in (Doing \union {session})' : ProofIs(o)'
         /\ target'.trigger # None => TriggerIs(target'.trigger)
<1>1. ASSUME NEW o \in (Doing \union {session})' PROVE ProofIs(o)'
  <2>1. CASE o.tp = None
    BY <2>1 DEF ProofIs
  <2>2. CASE o.tp # None
    <3>1. PICK p \in Doing \union {session} : o.tp = p.tp /\ o.saw = p.saw
      BY <2>2
    <3>2. ProofIs(p)
      BY DEF AnswersFit
    <3> QED BY <2>2, <3>1, <3>2 DEF ProofIs, TriggerIs
  <2> QED BY <2>1, <2>2
<1> QED BY <1>1 DEF AnswersFit

LEMMA AnswersKept ==
  ASSUME Typed, AnswersFit, NEW a, Working(a), Goes(op), waiting' = waiting, session' = session,
         target' \in TargetTypes, target'.trigger = target.trigger \/ target'.trigger = None,
         Place' \in {"press", "send-card"} => op.cmd = "accept-card",
         Place' = "end" => op'.failed \/ op.cmd \notin {"read-target", "read-direct"} \/ op'.cp = None,
         Place' \in {"recover", "gate"} => Place \in {"recover", "gate"} /\ op'.cp = op.cp
  PROVE  AnswersFit'
<1>1. op \in Doing /\ op'.cmd = op.cmd /\ op'.tp = op.tp /\ op'.saw = op.saw
  BY DEF Working, Doing, Goes, Fixed
<1>2. \A o \in (Doing \union {session})' :
        o.tp = None \/ \E p \in Doing \union {session} : o.tp = p.tp /\ o.saw = p.saw
  <2>1. ASSUME NEW o \in (Doing \union {session})'
        PROVE  \E p \in Doing \union {session} : o.tp = p.tp /\ o.saw = p.saw
    <3>1. o = op' \/ o \in Doing \union {session}
      BY DEF Doing
    <3> QED BY <1>1, <3>1
  <2> QED BY <2>1
<1>3. /\ \A o \in (Doing \union {session})' : ProofIs(o)'
      /\ target'.trigger # None => TriggerIs(target'.trigger)
  BY <1>2, ProofsKept
<1>4. (target.trigger # None => TriggerIs(target.trigger))'
  BY <1>3 DEF TriggerIs
<1>5. (op.cmd \in {"read-target", "read-direct"} /\ Place = "end" /\ ~op.failed /\ op.cp # None =>
         target.trigger = None \/ target.trigger.chat = op.chat)'
  BY <1>1
<1>6. (op.cmd \in {"show-card", "submit"} /\ Place \in {"press", "send-card"} => op.chat = op.saw)'
  BY <1>1
<1>7. /\ (op.cmd = "read-direct" /\ Place \in {"recover", "gate"} => op.cp = None)'
      /\ \A o \in Range(waiting)' : o.cmd = "read-direct" => o.cp = None
  BY <1>1 DEF AnswersFit
<1> QED BY <1>3, <1>4, <1>5, <1>6, <1>7 DEF AnswersFit

(* Any step but the evaluation, which moves the operation on or back.        *)
LEMMA AnswersOn ==
  ASSUME Typed, AnswersFit, NEW a, Working(a), Onwards(op, a) \/ FallsBack(op, a), a # "evaluate" \/ FallsBack(op, a),
         waiting' = waiting, session' = session,
         target' \in TargetTypes, target'.trigger = target.trigger \/ target'.trigger = None
  PROVE  AnswersFit'
<1>1. Goes(op) /\ op'.cp = op.cp
  BY AlikeFixed
<1>2. Place' \in {"press", "send-card"} => op.cmd = "accept-card"
  BY DEF Onwards, FallsBack, Follows, Recovers
<1>3. Place' = "end" => op'.failed \/ op.cmd \notin {"read-target", "read-direct"}
  <2>1. CASE FallsBack(op, a)
    BY <2>1 DEF FallsBack
  <2>2. CASE Onwards(op, a) /\ a # "evaluate"
    <3>1. Follows(op.cmd, op.cp, a, Place')
      BY <2>2 DEF Onwards
    <3>2. Place' = "end" => op.cmd \notin {"read-target", "read-direct"}
      BY <2>2, <3>1 DEF Follows, Gated3
    <3> QED BY <3>2
  <2> QED BY <2>1, <2>2
<1>4. Place' \in {"recover", "gate"} => Place \in {"recover", "gate"}
  BY DEF Onwards, FallsBack, Follows, Recovers, Working
<1> QED BY <1>1, <1>2, <1>3, <1>4, AnswersKept

LEMMA ProofInUse ==
  ASSUME Typed, NEW o \in Doing \union {session}, o.tp # None
  PROVE  o.tp.trigger.id \in Triggers
<1>1. o \in Held
  BY DEF Held, Doing
<1>2. o.tp \in TargetProofs
  BY <1>1 DEF TargetProofs
<1> QED BY <1>2 DEF Triggers

LEMMA EvaluateAnswers == ASSUME Typed, AnswersFit, EvaluateReply PROVE AnswersFit'
<1>1. /\ Typed' /\ Working("evaluate") /\ EvaluateDoes
      /\ Onwards(op, "evaluate") \/ FallsBack(op, "evaluate")
  BY EvaluateMoves
<1>2. waiting' = waiting /\ session' = session
  BY DEF EvaluateReply, Process
<1>3. target' \in TargetTypes
  BY <1>1 DEF Typed, StoresTyped
<1>4. CASE target' = target /\ FallsBack(op, "evaluate")
  BY <1>1, <1>2, <1>3, <1>4, AnswersOn
<1>5. CASE /\ Answer(target'.trigger)
           /\ (TriggerHolds(target'.trigger) => Onwards(op, "evaluate"))
           /\ (~TriggerHolds(target'.trigger) => FallsBack(op, "evaluate"))
  <2> DEFINE t == target'.trigger
  <2>1. op \in Doing /\ op'.cmd = op.cmd /\ op'.tp = op.tp /\ op'.saw = op.saw /\ op'.chat = op.chat
    BY <1>1 DEF Working, Doing, Onwards, FallsBack, Alike
  <2>2. (target.trigger # None => TriggerIs(target.trigger))'
    BY <1>5 DEF Answer, AnswersFit, TriggerIs
  <2>3. Fresh(Triggers) \notin Triggers
    BY InUse, FreshFacts
  <2>4. ASSUME NEW o \in Doing \union {session}
        PROVE  o.tp # None =>
                 /\ TriggerIs(o.tp.trigger) /\ o.saw = o.tp.trigger.chat
                 /\ t # None /\ t.id = o.tp.trigger.id =>
                      t = o.tp.trigger /\ t = target.trigger /\ t.chat = op.chat
    <3>1. ProofIs(o)
      BY DEF AnswersFit
    <3>2. o.tp # None => o.tp.trigger.id \in Triggers
      BY ProofInUse
    <3> QED BY <1>5, <2>3, <3>1, <3>2 DEF ProofIs, Answer
  <2>5. \A o \in (Doing \union {session})' : ProofIs(o)'
    <3> SUFFICES ASSUME NEW o \in (Doing \union {session})' PROVE ProofIs(o)'
      OBVIOUS
    <3>1. PICK p \in Doing \union {session} : o.tp = p.tp /\ o.saw = p.saw
      <4>1. o = op' \/ o \in Doing \union {session}
        BY <1>2 DEF Doing
      <4> QED BY <2>1, <4>1
    <3> QED BY <2>4, <3>1 DEF ProofIs, TriggerIs
  <2>6. (op.cmd \in {"read-target", "read-direct"} /\ Place = "end" /\ ~op.failed /\ op.cp # None =>
           target.trigger = None \/ target.trigger.chat = op.chat)'
    BY <1>5, <2>1 DEF Answer
  <2>7. (op.cmd \in {"show-card", "submit"} /\ Place \in {"press", "send-card"} => op.chat = op.saw)'
    <3> SUFFICES ASSUME op.cmd \in {"show-card", "submit"}, Place' \in {"press", "send-card"} PROVE op.chat = op.saw
      BY <2>1
    <3>1. TriggerHolds(t)
      <4>1. ~FallsBack(op, "evaluate")
        BY DEF FallsBack, Recovers
      <4> QED BY <1>5, <4>1
    <3>2. op.tp # None
      BY <1>1 DEF Working, CallFits, Gated3
    <3>3. t # None /\ t.id = op.tp.trigger.id
      BY <3>1, <3>2 DEF TriggerHolds
    <3> QED BY <2>1, <2>4, <3>2, <3>3
  <2>8. Place' \notin {"recover", "gate"}
    BY <1>1 DEF Onwards, FallsBack, Follows, Recovers
  <2>9. \A o \in Range(waiting)' : o.cmd = "read-direct" => o.cp = None
    BY <1>2 DEF AnswersFit
  <2> QED BY <2>2, <2>5, <2>6, <2>7, <2>8, <2>9 DEF AnswersFit
<1> QED BY <1>1, <1>4, <1>5 DEF EvaluateDoes

LEMMA ReadStepsAnswer ==
  ASSUME Typed, AnswersFit, ReadControl \/ ConsumeControl \/ LookAtMarker \/ ReadChat \/ Claim \/ SeeSent \/ ClaimCard
  PROVE  AnswersFit'
<1>1. target' = target /\ waiting' = waiting /\ session' = session
  BY DEF ReadControl, ConsumeControl, LookAtMarker, ReadChat, Claim, SeeSent, ClaimCard, Process, durable
<1>2. target' \in TargetTypes
  BY <1>1, TypedParts
<1>3. CASE ReadControl
  <2>1. Working("control") /\ Goes(op) /\ op'.cp = op.cp /\ ReadControlDoes
    BY <1>3, ReadControlMoves
  <2>2. CASE Place' \in {"consume", "stop-clear"}
    BY <1>1, <1>2, <2>1, <2>2, AnswersKept
  <2>3. CASE FallsBack(op, "control")
    BY <1>1, <1>2, <2>1, <2>3, AnswersOn
  <2> QED BY <2>1, <2>2, <2>3 DEF ReadControlDoes
<1>4. CASE ConsumeControl
  <2>1. Working("consume") /\ Goes(op) /\ op'.cp = op.cp /\ ConsumeDoes
    BY <1>4, ConsumeMoves
  <2>2. CASE Place' = "stop-clear"
    BY <1>1, <1>2, <2>1, <2>2, AnswersKept
  <2>3. CASE Onwards(op, "consume") \/ FallsBack(op, "consume")
    BY <1>1, <1>2, <2>1, <2>3, AnswersOn
  <2> QED BY <2>1, <2>2, <2>3 DEF ConsumeDoes
<1>5. CASE LookAtMarker
  <2>1. Working("look-at-marker") /\ Goes(op) /\ op'.cp = op.cp /\ LookAtMarkerDoes
    BY <1>5, LookAtMarkerMoves
  <2>2. op.cmd = "establish"
    <3>1. Follows(op.cmd, op.cp, "look-at-marker", First(Tail(op.todo), "end"))
      BY <2>1, PathTail DEF Working, Path
    <3> QED BY <3>1 DEF Follows
  <2>3. Place' \notin {"press", "send-card", "recover", "gate"}
    BY <2>1 DEF LookAtMarkerDoes, FallsBack, Recovers
  <2> QED BY <1>1, <1>2, <2>1, <2>2, <2>3, AnswersKept
<1>6. CASE ReadChat
  <2>1. Working("read") /\ Goes(op) /\ op'.cp = op.cp /\ ReadChatDoes
    BY <1>6, ReadChatMoves
  <2>2. CASE Place' = "evaluate"
    BY <1>1, <1>2, <2>1, <2>2, AnswersKept
  <2>3. CASE FallsBack(op, "read")
    BY <1>1, <1>2, <2>1, <2>3, AnswersOn
  <2> QED BY <2>1, <2>2, <2>3 DEF ReadChatDoes
<1>7. CASE Claim
  <2>1. Working("claim") /\ Goes(op) /\ op'.cp = op.cp /\ ClaimDoes
    BY <1>7, ClaimMoves
  <2>2. CASE Place' = "put"
    BY <1>1, <1>2, <2>1, <2>2, AnswersKept
  <2>3. CASE FallsBack(op, "claim")
    BY <1>1, <1>2, <2>1, <2>3, AnswersOn
  <2> QED BY <2>1, <2>2, <2>3 DEF ClaimDoes
<1>8. CASE SeeSent
  <2>1. Working("see-sent") /\ Goes(op) /\ op'.cp = op.cp /\ SeeSentDoes
    BY <1>8, SeeSentMoves
  <2>2. CASE Place' = "verified"
    BY <1>1, <1>2, <2>1, <2>2, AnswersKept
  <2>3. CASE FallsBack(op, "see-sent")
    BY <1>1, <1>2, <2>1, <2>3, AnswersOn
  <2> QED BY <2>1, <2>2, <2>3 DEF SeeSentDoes
<1>9. CASE ClaimCard
  <2>1. Working("card-intent") /\ op.cmd \in {"show-card", "accept-card"} /\ Goes(op) /\ op'.cp = op.cp /\ ClaimCardDoes
    BY <1>9, ClaimCardMoves
  <2>2. CASE Place' = IF op.cmd = "show-card" THEN "consume-trigger" ELSE "end"
    BY <1>1, <1>2, <2>1, <2>2, AnswersKept
  <2>3. CASE Onwards(op, "card-intent")
    BY <1>1, <1>2, <2>1, <2>3, AnswersOn
  <2> QED BY <2>1, <2>2, <2>3 DEF ClaimCardDoes
<1> QED BY <1>3, <1>4, <1>5, <1>6, <1>7, <1>8, <1>9

LEMMA OtherStepsAnswer ==
  ASSUME Typed, AnswersFit, TakeGate \/ Recover \/ Look \/ ConsumeTrigger
  PROVE  AnswersFit'
<1>1. waiting' = waiting /\ session' = session
  BY DEF TakeGate, Recover, Look, ConsumeTrigger, Process
<1>2. CASE TakeGate
  <2>1. Working("gate") /\ Goes(op) /\ TakeGateDoes
    BY <1>2, TakeGateMoves
  <2>2. target' = target /\ target' \in TargetTypes
    BY <1>2, TypedParts DEF TakeGate, durable
  <2>3. op.cp = None
    BY <2>1 DEF AnswersFit, Working, TakeGateDoes
  <2>4. Place' \in {"read", "end"} /\ (Place' = "end" => op'.cp = None)
    BY <2>1, <2>3 DEF TakeGateDoes
  <2> QED BY <1>1, <2>1, <2>2, <2>4, AnswersKept
<1>3. CASE Recover
  <2>1. Working("recover") /\ RecoverDoes /\ Typed'
    BY <1>3, RecoverMoves
  <2>2. target' \in TargetTypes
    BY <2>1 DEF Typed, StoresTyped
  <2>3. CASE Onwards(op, "recover") /\ target' = target
    BY <1>1, <2>1, <2>2, <2>3, AnswersOn
  <2>4. CASE op' = op /\ target' = [target EXCEPT !.trigger = None]
    <3>1. target'.trigger = None
      BY <2>4, TypedParts DEF TargetTypes
    <3>2. Goes(op) /\ Place' = "recover" /\ Place = "recover"
      BY <2>1, <2>4 DEF Working, Goes, Fixed, Place, Path
    <3> QED BY <1>1, <2>1, <2>2, <2>4, <3>1, <3>2, AnswersKept
  <2> QED BY <2>1, <2>3, <2>4 DEF RecoverDoes
<1>4. CASE Look
  <2>1. Working("look") /\ Goes(op) /\ op'.cp = op.cp /\ LookDoes
    BY <1>4, LookMoves
  <2>2. target' = target /\ target' \in TargetTypes
    BY <1>4, TypedParts DEF Look
  <2>3. CASE Follows(op.cmd, op.cp, "look", Place')
    <3>1. /\ Place' \in {"press", "send-card"} => op.cmd = "accept-card"
          /\ Place' \notin {"end", "recover", "gate"}
      BY <2>3 DEF Follows
    <3> QED BY <1>1, <2>1, <2>2, <3>1, AnswersKept
  <2>4. CASE FallsBack(op, "look")
    BY <1>1, <2>1, <2>2, <2>4, AnswersOn
  <2> QED BY <2>1, <2>3, <2>4 DEF LookDoes
<1>5. CASE ConsumeTrigger
  <2>1. Working("consume-trigger") /\ ConsumeTriggerDoes /\ Typed'
    BY <1>5, ConsumeTriggerMoves
  <2>2. target' \in TargetTypes /\ (target'.trigger = target.trigger \/ target'.trigger = None)
    BY <2>1, TypedParts DEF Typed, StoresTyped, ConsumeTriggerDoes, TargetTypes
  <2>3. Onwards(op, "consume-trigger") \/ FallsBack(op, "consume-trigger")
    BY <2>1 DEF ConsumeTriggerDoes
  <2> QED BY <1>1, <2>1, <2>2, <2>3, AnswersOn
<1> QED BY <1>2, <1>3, <1>4, <1>5

(* The steps that leave the trigger alone and only move the operation.       *)
Plain(a) ==
  /\ Working(a) /\ (Onwards(op, a) \/ FallsBack(op, a))
  /\ waiting' = waiting /\ session' = session /\ target' = target
LEMMA PlainAnswers == ASSUME Typed, AnswersFit, NEW a, a # "evaluate" \/ FallsBack(op, a), Plain(a) PROVE AnswersFit'
<1>1. target' \in TargetTypes
  BY TypedParts DEF Plain
<1> QED BY <1>1, AnswersOn DEF Plain

PlainStep ==
  \/ AssertBound \/ StopClear \/ StopProven \/ Activate \/ PressMarker \/ PutPending \/ Type \/ VerifyDraft
  \/ Press \/ MarkVerified \/ MarkUncertain \/ ClearPending \/ Release \/ ClearDraft \/ Proven
  \/ PutIntent \/ ClearIntent \/ SendCard \/ SettleCard
LEMMA PlainSteps ==
  ASSUME Typed, StopsFit, PlainStep
  PROVE  Typed' /\ \E a : Plain(a) /\ a # "evaluate" /\ At(a)
<1>1. waiting' = waiting /\ session' = session /\ target' = target
  BY DEF PlainStep, AssertBound, StopClear, StopProven, Activate, PressMarker, PutPending, Type, VerifyDraft,
         Press, MarkVerified, MarkUncertain, ClearPending, Release, ClearDraft, Proven,
         PutIntent, ClearIntent, SendCard, SettleCard, Process, durable
<1>2. ASSUME NEW a, a # "evaluate", Typed', Working(a), Onwards(op, a) \/ FallsBack(op, a)
      PROVE  Typed' /\ \E b : Plain(b) /\ b # "evaluate" /\ At(b)
  <2>1. At(a)
    BY <1>2 DEF At, Working, Busy
  <2> QED BY <1>1, <1>2, <2>1 DEF Plain
<1>3. CASE AssertBound
  <2>1. Working("bound")
    BY <1>3, AtWorks DEF AssertBound
  <2>2. Onwards(op, "bound") \/ FallsBack(op, "bound")
    BY <1>3, <2>1, RequireMoves DEF AssertBound
  <2> QED BY <1>2, <1>3, <2>1, <2>2, AssertBoundTyped
<1>4. CASE Proven
  <2>1. Working("proven")
    BY <1>4, AtWorks DEF Proven
  <2>2. Onwards(op, "proven") \/ FallsBack(op, "proven")
    BY <1>4, <2>1, RequireMoves DEF Proven
  <2> QED BY <1>2, <1>4, <2>1, <2>2, ProvenTyped
<1>5. CASE Activate
  <2>1. Working("activate")
    BY <1>5, AtWorks DEF Activate
  <2>2. Onwards(op, "activate")
    BY <1>5, <2>1, DoneMoves DEF Activate
  <2> QED BY <1>2, <1>5, <2>1, <2>2, ActivateTyped
<1>6. CASE StopClear
  BY <1>2, <1>6, StopClearMoves
<1>7. CASE StopProven
  BY <1>2, <1>7, StopProvenMoves
<1>8. CASE PressMarker
  BY <1>2, <1>8, PressMarkerMoves
<1>9. CASE PutPending
  BY <1>2, <1>9, PutPendingMoves
<1>10. CASE Type
  BY <1>2, <1>10, TypeMoves DEF TypeDoes
<1>11. CASE VerifyDraft
  BY <1>2, <1>11, VerifyDraftMoves
<1>12. CASE Press
  BY <1>2, <1>12, PressMoves
<1>13. CASE MarkVerified
  BY <1>2, <1>13, MarkVerifiedMoves
<1>14. CASE MarkUncertain
  BY <1>2, <1>14, MarkUncertainMoves
<1>15. CASE ClearPending
  <2>1. PICK a : Working(a) /\ ClearPendingDoes(a)
    BY <1>15, ClearPendingMoves
  <2>2. a # "evaluate" /\ (Onwards(op, a) \/ FallsBack(op, a))
    BY <2>1 DEF ClearPendingDoes
  <2> QED BY <1>2, <1>15, <2>1, <2>2, ClearPendingMoves
<1>16. CASE Release
  BY <1>2, <1>16, ReleaseMoves DEF ReleaseDoes
<1>17. CASE ClearDraft
  BY <1>2, <1>17, ClearDraftMoves
<1>18. CASE PutIntent
  BY <1>2, <1>18, PutIntentMoves
<1>19. CASE ClearIntent
  BY <1>2, <1>19, ClearIntentMoves
<1>20. CASE SendCard
  BY <1>2, <1>20, SendCardMoves
<1>21. CASE SettleCard
  <2>1. PICK a : Working(a) /\ SettleCardDoes(a)
    BY <1>21, SettleCardMoves
  <2>2. a # "evaluate" /\ (Onwards(op, a) \/ FallsBack(op, a))
    BY <2>1 DEF SettleCardDoes
  <2> QED BY <1>2, <1>21, <2>1, <2>2, SettleCardMoves
<1> QED BY <1>3, <1>4, <1>5, <1>6, <1>7, <1>8, <1>9, <1>10, <1>11, <1>12, <1>13, <1>14, <1>15, <1>16, <1>17,
           <1>18, <1>19, <1>20, <1>21 DEF PlainStep

(* The types of a step of an operation.                                      *)
LEMMA StepsTyped == ASSUME Typed, StopsFit, Steps PROVE Typed'
<1>1. CASE PlainStep
  BY <1>1, PlainSteps
<1>2. CASE ReadControl \/ ConsumeControl \/ LookAtMarker \/ ReadChat \/ EvaluateReply \/ TakeGate \/ Recover
           \/ Look \/ Claim \/ SeeSent \/ ConsumeTrigger \/ ClaimCard
  BY <1>2, ReadControlMoves, ConsumeMoves, LookAtMarkerMoves, ReadChatMoves, EvaluateMoves, TakeGateMoves,
     RecoverMoves, LookMoves, ClaimMoves, SeeSentMoves, ConsumeTriggerMoves, ClaimCardMoves
<1> QED BY <1>1, <1>2 DEF Steps, PlainStep

LEMMA StepsAnswer == ASSUME Typed, StopsFit, AnswersFit, Steps \/ StepFails PROVE AnswersFit'
<1>1. CASE PlainStep
  <2>1. PICK a : Plain(a) /\ a # "evaluate"
    BY <1>1, PlainSteps
  <2> QED BY <2>1, PlainAnswers
<1>2. CASE StepFails
  <2>1. FallsBack(op, Head(op.todo)) /\ Working(Head(op.todo))
    BY <1>2, StepFailsTyped
  <2>2. waiting' = waiting /\ session' = session /\ target' = target
    BY <1>2 DEF StepFails, Process, durable
  <2> QED BY <2>1, <2>2, PlainAnswers DEF Plain
<1>3. CASE ReadControl \/ ConsumeControl \/ LookAtMarker \/ ReadChat \/ Claim \/ SeeSent \/ ClaimCard
  BY <1>3, ReadStepsAnswer
<1>4. CASE EvaluateReply
  BY <1>4, EvaluateAnswers
<1>5. CASE TakeGate \/ Recover \/ Look \/ ConsumeTrigger
  BY <1>5, OtherStepsAnswer
<1> QED BY <1>1, <1>2, <1>3, <1>4, <1>5 DEF Steps, PlainStep

LEMMA BeginAnswers == ASSUME Typed, AnswersFit, Begin PROVE AnswersFit'
<1> DEFINE o == Head(waiting)
<1>1. /\ Typed' /\ ~Busy /\ waiting # <<>> /\ waiting' = Tail(waiting) /\ o \in Range(waiting)
      /\ Range(Tail(waiting)) \subseteq Range(waiting) /\ o \in OpTypes
      /\ op' \in OpTypes /\ Begun(o) /\ BeginDoes(o)
      /\ UNCHANGED <<World, durable, session, client, budget>>
  BY BeginMoves
<1> HIDE DEF o
<1>2. o \in Doing
  BY <1>1 DEF Doing, OpTypes, Commands
<1>3. target' = target /\ session' = session /\ target' \in TargetTypes
  BY <1>1, TypedParts DEF durable
<1>4. \A q \in (Doing \union {session})' :
        q.tp = None \/ \E p \in Doing \union {session} : q.tp = p.tp /\ q.saw = p.saw
  <2>1. ASSUME NEW q \in (Doing \union {session})'
        PROVE  \E p \in Doing \union {session} : q.tp = p.tp /\ q.saw = p.saw
    <3>1. q = op' \/ q \in Doing \union {session}
      BY <1>1, <1>3 DEF Doing
    <3> QED BY <1>1, <1>2, <3>1 DEF Begun
  <2> QED BY <2>1
<1>5. /\ \A q \in (Doing \union {session})' : ProofIs(q)'
      /\ target'.trigger # None => TriggerIs(target'.trigger)
  BY <1>3, <1>4, ProofsKept
<1>6. (target.trigger # None => TriggerIs(target.trigger))'
  BY <1>5 DEF TriggerIs
<1>7. (op.cmd \in {"read-target", "read-direct"} /\ Place = "end" /\ ~op.failed /\ op.cp # None =>
         target.trigger = None \/ target.trigger.chat = op.chat)'
  BY <1>1 DEF Begun, BeginDoes, Starts
<1>8. (op.cmd \in {"show-card", "submit"} /\ Place \in {"press", "send-card"} => op.chat = op.saw)'
  BY <1>1 DEF Begun, BeginDoes, Starts
<1>9. (op.cmd = "read-direct" /\ Place \in {"recover", "gate"} => op.cp = None)'
  BY <1>1 DEF Begun, AnswersFit
<1>10. \A q \in Range(waiting)' : q.cmd = "read-direct" => q.cp = None
  BY <1>1 DEF AnswersFit
<1> QED BY <1>5, <1>6, <1>7, <1>8, <1>9, <1>10 DEF AnswersFit

(* Without an operation under way, only its proofs matter.                   *)
LEMMA IdleAnswers ==
  ASSUME AnswersFit, target' = target, op' = NoOp, ~Busy',
         \A o \in (Doing \union {session})' : ProofIs(o)',
         \A o \in Range(waiting)' : o \in Range(waiting)
  PROVE  AnswersFit'
<1>1. op'.cmd = "none"
  BY IdleFits
<1> QED BY <1>1 DEF AnswersFit, TriggerIs

LEMMA ReturnAnswers == ASSUME Typed, AnswersFit, Return PROVE AnswersFit'
<1>1. ReturnDoes
  BY ReturnMoves
<1>2. target' = target /\ waiting' = waiting /\ op' = NoOp /\ ~Busy'
  BY <1>1 DEF ReturnDoes, durable
<1>3. \A o \in Doing' : o \in Doing
  BY <1>2 DEF Doing, Busy
<1>4. ASSUME NEW o \in Doing \union {session}, NEW q, q.tp = o.tp, q.saw = o.saw PROVE ProofIs(q)'
  <2>1. ProofIs(o)
    BY DEF AnswersFit
  <2> QED BY <1>2, <1>4, <2>1 DEF ProofIs, TriggerIs
<1>5. ASSUME NEW q, q = session' PROVE ProofIs(q)'
  <2>1. CASE q.tp = session.tp /\ q.saw = session.saw
    BY <1>4, <2>1
  <2>2. CASE q.tp = None
    BY <2>2 DEF ProofIs
  <2>3. CASE Seen
    <3>1. target.trigger.chat = op.chat /\ TriggerIs(target.trigger)
      BY <1>1, <2>3 DEF Seen, AnswersFit, ReturnDoes
    <3>2. q.tp.trigger = target.trigger /\ q.saw = op.chat
      BY <1>5, <2>3 DEF Seen
    <3> QED BY <1>2, <3>1, <3>2 DEF ProofIs, TriggerIs
  <2> QED BY <1>1, <1>5, <2>1, <2>2, <2>3 DEF ReturnDoes
<1>6. \A o \in (Doing \union {session})' : ProofIs(o)'
  <2> SUFFICES ASSUME NEW o \in (Doing \union {session})' PROVE ProofIs(o)'
    OBVIOUS
  <2>1. o \in Doing \/ o = session'
    BY <1>3
  <2> QED BY <1>4, <1>5, <2>1
<1> QED BY <1>2, <1>6, IdleAnswers

LEMMA CallsAnswer == ASSUME Typed, AnswersFit, Calls PROVE AnswersFit'
<1>1. CallsDo
  BY CallsMoves
<1>2. target' = target /\ op' = op /\ target' \in TargetTypes
  BY <1>1, TypedParts DEF CallsDo, durable
<1>3. \A o \in Range(waiting)' : o \in Range(waiting) \/ NewCall(o)
  <2>1. CASE waiting' = waiting
    BY <2>1
  <2>2. CASE \E o : NewCall(o) /\ waiting' = Append(waiting, o)
    <3>1. PICK o : NewCall(o) /\ waiting' = Append(waiting, o)
      BY <2>2
    <3> QED BY <3>1, AppendRange, TypedParts DEF NewCall
  <2> QED BY <1>1, <2>1, <2>2 DEF CallsDo
<1>4. \A o \in (Doing \union {session})' :
        o.tp = None \/ \E p \in Doing \union {session} : o.tp = p.tp /\ o.saw = p.saw
  <2>1. ASSUME NEW o \in (Doing \union {session})'
        PROVE  o.tp = None \/ \E p \in Doing \union {session} : o.tp = p.tp /\ o.saw = p.saw
    <3>1. o = session' \/ o \in Doing \/ NewCall(o)
      BY <1>2, <1>3 DEF Doing
    <3> QED BY <1>1, <3>1 DEF NewCall, CallsDo
  <2> QED BY <2>1
<1>5. /\ \A o \in (Doing \union {session})' : ProofIs(o)'
      /\ target'.trigger # None => TriggerIs(target'.trigger)
  BY <1>2, <1>4, ProofsKept
<1>6. Place' = Place
  BY <1>2 DEF Place
<1>7. \A o \in Range(waiting)' : o.cmd = "read-direct" => o.cp = None
  BY <1>3 DEF AnswersFit, NewCall
<1> QED BY <1>2, <1>5, <1>6, <1>7 DEF AnswersFit, TriggerIs

LEMMA OutsideAnswers == ASSUME AnswersFit, Outside PROVE AnswersFit'
<1>1. target' = target /\ op' = op /\ waiting' = waiting /\ session' = session /\ Doing' = Doing /\ Place' = Place
  BY DEF Outside, durable, Doing, Place
<1>2. \A o \in (Doing \union {session})' : ProofIs(o)'
  BY <1>1 DEF AnswersFit, ProofIs, TriggerIs
<1> QED BY <1>1, <1>2 DEF AnswersFit, TriggerIs

LEMMA RestartAnswers == ASSUME Typed, StopsFit, AnswersFit, NEW kind \in budget.hosts, Restart(kind) PROVE AnswersFit'
<1>1. RestartDoes
  BY RestartMoves
<1>2. \A o \in (Doing \union {session})' : ProofIs(o)'
  BY <1>1 DEF RestartDoes, ProofIs
<1>3. Range(waiting)' = {}
  BY <1>1 DEF RestartDoes, Range
<1> QED BY <1>1, <1>2, <1>3, IdleAnswers DEF RestartDoes, durable

(***************************************************************************)
(* What may be sent in a step.                                              *)
(***************************************************************************)
Sends(a) ==   \* an operation is about to send a reply or the card of a request
  /\ Working(a) /\ \/ a = "press" /\ op.cmd = "submit" /\ Bound(op.cp)
                   \/ a = "send-card" /\ op.cmd = "show-card"
Sent(p) ==
  \/ \E kind, what : p = Unasked(kind, what)
  \/ p = orphan /\ orphan # None
  \/ \E a, kind, what : Sends(a) /\ p = Sending(kind, what)
PressCase ==
  /\ presses' = presses \/ \E p \in PressTypes : Sent(p) /\ presses' = Append(presses, p)
  /\ orphan' \in {orphan, None} \/ Sent(orphan')

LEMMA StillPresses ==
  ASSUME Steps \/ StepFails \/ Begin \/ Return, ~PressMarker, ~Press, ~SendCard
  PROVE  presses' = presses /\ orphan' = orphan
<1>1. CASE Steps
  BY <1>1 DEF Steps, AssertBound, ReadControl, ConsumeControl, StopClear, StopProven,
     LookAtMarker, Activate, ReadChat, EvaluateReply, TakeGate, Recover, Look,
     Claim, PutPending, Type, VerifyDraft, SeeSent, MarkVerified, MarkUncertain, ConsumeTrigger, ClearPending, Release,
     ClearDraft, Proven, PutIntent, ClearIntent, ClaimCard, SettleCard, World
<1>2. CASE StepFails \/ Begin \/ Return
  BY <1>2 DEF StepFails, Begin, Return, World
<1> QED BY <1>1, <1>2

LEMMA LastPress ==
  ASSUME Typed, Typed', NEW p, presses' = Append(presses, p)
  PROVE  p \in PressTypes
<1>1. presses' \in Seq(PressTypes) /\ presses \in Seq(PressTypes)
  BY DEF Typed, WorldTyped
<1>2. Len(presses) + 1 \in 1 .. Len(presses') /\ presses'[Len(presses) + 1] = p
  BY <1>1
<1> QED BY <1>1, <1>2

LEMMA PressCases == ASSUME Typed, Typed', StopsFit, Next \/ UNCHANGED vars PROVE PressCase
<1>1. ASSUME presses' = presses, orphan' = orphan PROVE PressCase
  BY <1>1 DEF PressCase
<1>2. CASE PressMarker
  <2>1. PressMarkerDoes /\ orphan' = orphan
    BY <1>2, PressMarkerMoves DEF PressMarker
  <2>2. CASE presses' = Append(presses, Unasked("marker", Marker))
    BY <2>1, <2>2, LastPress DEF PressCase, Sent
  <2>3. CASE presses' = presses
    BY <1>1, <2>1, <2>3
  <2> QED BY <2>1, <2>2, <2>3 DEF PressMarkerDoes
<1>3. CASE Press
  <2>1. Working("press") /\ op.cmd = "submit" /\ PressDoes /\ orphan' = orphan
    BY <1>3, PressMoves DEF Press
  <2>2. CASE Bound(op.cp) /\ presses' = Append(presses, Sending("reply", op.text))
    <3>1. Sends("press")
      BY <2>1, <2>2 DEF Sends
    <3>2. Sent(Sending("reply", op.text))
      BY <3>1 DEF Sent
    <3> QED BY <2>1, <2>2, <3>2, LastPress DEF PressCase
  <2>3. CASE presses' = presses
    BY <1>1, <2>1, <2>3
  <2> QED BY <2>1, <2>2, <2>3 DEF PressDoes
<1>4. CASE SendCard
  <2>1. /\ Working("send-card") /\ op.cmd \in {"show-card", "accept-card"} /\ presses' = Append(presses, CardSent)
        /\ orphan' = orphan
    BY <1>4, SendCardMoves DEF SendCard
  <2>2. Sent(CardSent)
    <3>1. CASE op.cmd = "show-card"
      <4>1. Sends("send-card")
        BY <2>1, <3>1 DEF Sends
      <4> QED BY <3>1, <4>1 DEF CardSent, Sent
    <3>2. CASE op.cmd # "show-card"
      BY <3>2 DEF CardSent, Sent
    <3> QED BY <3>1, <3>2
  <2> QED BY <2>1, <2>2, LastPress DEF PressCase
<1>5. CASE (Steps \/ StepFails \/ Begin \/ Return) /\ ~PressMarker /\ ~Press /\ ~SendCard
  BY <1>1, <1>5, StillPresses
<1>6. CASE Calls
  <2>1. presses' = presses /\ orphan' = orphan
    BY <1>6, CallsMoves DEF CallsDo, World
  <2> QED BY <1>1, <2>1
<1>7. CASE ClientTypes \/ OwnerTypes \/ OwnerPresses
  <2>1. presses' = presses /\ orphan' = orphan
    BY <1>7 DEF ClientTypes, OwnerTypes, OwnerPresses
  <2> QED BY <1>1, <2>1
<1>8. CASE ClientPresses
  <2>1. presses' = Append(presses, Unasked("reply", client.text)) /\ orphan' = orphan
    BY <1>8 DEF ClientPresses
  <2>2. Sent(Unasked("reply", client.text))
    BY DEF Sent
  <2> QED BY <2>1, <2>2, LastPress DEF PressCase
<1>9. CASE \E m \in budget.msgs : ContactWrites(m)
  <2>1. presses' = presses /\ orphan' = orphan
    BY <1>9 DEF ContactWrites
  <2> QED BY <1>1, <2>1
<1>10. CASE \E c \in budget.commands : OwnerCommands(c)
  <2>1. presses' = presses /\ orphan' = orphan
    BY <1>10 DEF OwnerCommands
  <2> QED BY <1>1, <2>1
<1>11. CASE \E kind \in budget.hosts : Restart(kind)
  <2>1. RestartDoes
    BY <1>11, RestartMoves
  <2>2. CASE orphan' = orphan
    BY <1>1, <2>1, <2>2 DEF RestartDoes
  <2>3. CASE Working("press") /\ op.cmd = "submit" /\ Bound(op.cp) /\ orphan' = Sending("reply", op.text)
    <3>1. Sends("press")
      BY <2>3 DEF Sends
    <3>2. Sent(Sending("reply", op.text))
      BY <3>1 DEF Sent
    <3> QED BY <2>1, <2>3, <3>2 DEF RestartDoes, PressCase
  <2> QED BY <2>1, <2>2, <2>3 DEF RestartDoes
<1>12. CASE OrphanLands
  <2>1. orphan # None /\ orphan' = None /\ (presses' = presses \/ presses' = Append(presses, orphan))
    BY <1>12 DEF OrphanLands
  <2>2. Sent(orphan)
    BY <2>1 DEF Sent
  <2> QED BY <2>1, <2>2, LastPress DEF PressCase
<1>13. CASE UNCHANGED vars
  <2>1. presses' = presses /\ orphan' = orphan
    BY <1>13 DEF vars
  <2> QED BY <1>1, <2>1
<1>14. CASE Steps \/ StepFails \/ Begin \/ Return
  BY <1>2, <1>3, <1>4, <1>5, <1>14
<1> QED BY <1>6, <1>7, <1>8, <1>9, <1>10, <1>11, <1>12, <1>13, <1>14 DEF Next

LEMMA PressesAfter ==
  ASSUME Typed, NEW p, p \in PressTypes, presses' = Append(presses, p)
  PROVE  /\ \A i \in 1 .. Len(presses') : (i \in 1 .. Len(presses) /\ presses'[i] = presses[i]) \/ presses'[i] = p
         /\ Len(presses') = Len(presses) + 1 /\ Len(presses) \in Nat /\ presses'[Len(presses) + 1] = p
<1>1. presses \in Seq(PressTypes)
  BY TypedParts
<1> QED BY <1>1

LEMMA SendingAsked ==
  ASSUME Typed, AnswersFit, NEW a, Sends(a), NEW kind, NEW what
  PROVE  Asked(Sending(kind, what))
<1>1. op.cmd \in {"show-card", "submit"} /\ Place \in {"press", "send-card"} /\ op.tp # None /\ op \in Doing
  BY DEF Sends, Working, CallFits, Gated3, Doing
<1>2. op.chat = op.saw /\ ProofIs(op)
  BY <1>1 DEF AnswersFit
<1> QED BY <1>1, <1>2 DEF Asked, Sending, ProofIs, TriggerIs

LEMMA PressesStayAsked ==
  ASSUME Typed, AnswersFit, PressesAsked, PressCase
  PROVE  PressesAsked'
<1>1. ASSUME NEW p, Sent(p) PROVE Asked(p)
  <2>1. ASSUME NEW kind, NEW what PROVE Asked(Unasked(kind, what))
    BY DEF Asked, Unasked
  <2>2. orphan # None => Asked(orphan)
    BY DEF PressesAsked
  <2> QED BY <1>1, <2>1, <2>2, SendingAsked DEF Sent
<1>2. \A i \in 1 .. Len(presses') : Asked(presses'[i])
  <2>1. CASE presses' = presses
    BY <2>1 DEF PressesAsked
  <2>2. CASE \E p \in PressTypes : Sent(p) /\ presses' = Append(presses, p)
    <3>1. PICK p \in PressTypes : Sent(p) /\ presses' = Append(presses, p)
      BY <2>2
    <3>2. \A i \in 1 .. Len(presses') : (i \in 1 .. Len(presses) /\ presses'[i] = presses[i]) \/ presses'[i] = p
      BY <3>1, PressesAfter
    <3> QED BY <1>1, <3>1, <3>2 DEF PressesAsked
  <2> QED BY <2>1, <2>2 DEF PressCase
<1>3. orphan' # None => Asked(orphan')
  BY <1>1 DEF PressCase, PressesAsked
<1> QED BY <1>2, <1>3 DEF PressesAsked, Asked

(***************************************************************************)
(* Every step keeps the types, and what the answers answer.                 *)
(***************************************************************************)
WorldSteps ==
  \/ ClientTypes \/ ClientPresses
  \/ \E m \in budget.msgs : ContactWrites(m)
  \/ \E c \in budget.commands : OwnerCommands(c)
  \/ OwnerTypes \/ OwnerPresses \/ OrphanLands
LEMMA WorldStepsTyped == ASSUME Typed, WorldSteps PROVE Typed' /\ Outside
BY ClientTypesTyped, ClientPressesTyped, ContactWritesTyped, OwnerCommandsTyped, OwnerTypesTyped, OwnerPressesTyped,
   OrphanLandsTyped DEF WorldSteps

LEMMA NextTyped == ASSUME Typed, StopsFit, [Next]_vars PROVE Typed'
<1>1. CASE Steps \/ StepFails
  BY <1>1, StepsTyped, StepFailsTyped
<1>2. CASE Begin \/ Return \/ Calls
  BY <1>2, BeginMoves, ReturnMoves, CallsMoves
<1>3. CASE WorldSteps
  BY <1>3, WorldStepsTyped
<1>4. CASE \E kind \in budget.hosts : Restart(kind)
  BY <1>4, RestartMoves
<1>5. CASE UNCHANGED vars
  BY <1>5, StaysTyped
<1> QED BY <1>1, <1>2, <1>3, <1>4, <1>5 DEF Next, WorldSteps

LEMMA NextAnswers == ASSUME Typed, StopsFit, AnswersFit, [Next]_vars PROVE AnswersFit'
<1>1. CASE Steps \/ StepFails
  BY <1>1, StepsAnswer
<1>2. CASE Begin \/ Return \/ Calls
  BY <1>2, BeginAnswers, ReturnAnswers, CallsAnswer
<1>3. CASE WorldSteps
  BY <1>3, WorldStepsTyped, OutsideAnswers
<1>4. CASE \E kind \in budget.hosts : Restart(kind)
  BY <1>4, RestartAnswers
<1>5. CASE UNCHANGED vars
  BY <1>5, StaysTyped, OutsideAnswers
<1> QED BY <1>1, <1>2, <1>3, <1>4, <1>5 DEF Next, WorldSteps

LEMMA InitRest == ASSUME LiveAssumption, Init PROVE AnswersFit /\ PressesAsked /\ PressesSettled /\ StopsFit
<1>1. target.trigger = None /\ session.tp = None /\ waiting = <<>> /\ op = NoOp /\ orphan = None /\ presses = <<>>
  BY DEF Init, NoSession
<1>2. Range(waiting) = {} /\ Doing = {} /\ ~Busy /\ op.cmd = "none" /\ Place = "end"
  BY <1>1, IdleFits DEF Doing, Busy, NoOp, Range, Place
<1>3. AnswersFit
  BY <1>1, <1>2 DEF AnswersFit, ProofIs, Gated3
<1>4. PressesAsked /\ PressesSettled
  BY <1>1 DEF PressesAsked, PressesSettled
<1>5. /\ control.seen = 0 /\ commands \in Seq(Orders)
      /\ control.stopped => control.reason = "boundary" /\ ~control.active
  <2>1. commands \in Seq(Orders)
    BY InitTyped, TypedParts
  <2>2. \/ control = [active |-> TRUE, stopped |-> FALSE, reason |-> None, gate |-> 1, seen |-> 0]
        \/ control = [active |-> FALSE, stopped |-> TRUE, reason |-> "boundary", gate |-> 1, seen |-> 0]
    BY DEF Init
  <2> QED BY <2>1, <2>2
<1>6. ControlFits
  <2>1. Now \in Nat
    BY <1>5 DEF Now
  <2>2. Len(Suffix(Now)) \in Nat
    BY <2>1, InitTyped, SuffixLen
  <2>3. SubSeq(Suffix(Now), 1, 0) = <<>>
    BY SubSeqProperties
  <2>4. Settled(<<>>)
    BY DEF Settled
  <2>5. control.seen <= Len(Suffix(Now)) /\ ~(control.seen > 0)
    BY <1>5, <2>2
  <2>6. Settled(SubSeq(Suffix(Now), 1, control.seen))
    BY <1>5, <2>3, <2>4
  <2> QED BY <1>5, <2>5, <2>6 DEF ControlFits
<1>7. StopsFit
  BY <1>2, <1>6 DEF StopsFit, Gated3
<1> QED BY <1>3, <1>4, <1>7

(***************************************************************************)
(* What was heard, of a given control state c, control chat s and            *)
(* operation o.                                                            *)
(***************************************************************************)
BoundedIn(s) == \E i \in 1 .. Len(s) : s[i] = Marker
ControlFit(c, s) ==
  /\ c.seen <= Len(SuffixOf(s, Len(s))) /\ (c.seen > 0 => BoundedIn(s))
  /\ c.stopped /\ c.reason = "boundary" => ~c.active /\ c.seen = 0
  /\ ~c.stopped => Settled(SubSeq(SuffixOf(s, Len(s)), 1, c.seen))
BatchFit(c, s, o) ==
  /\ BoundedIn(s) /\ ~(c.stopped /\ c.reason = "boundary")
  /\ o.began <= o.ctl /\ o.ctl <= Len(s)
  /\ c.seen <= Len(SuffixOf(s, o.ctl))
Batched(o, p) == p = "consume" \/ (p \in {"stop-clear", "stop-proven"} /\ o.batch = "stop")
Early == {"card-intent", "bound", "control", "consume"}
Late == {"read", "evaluate", "press", "send-card"}
ReplyFit(c, s, o, p) ==
  /\ p \in Early => c.seen <= Len(SuffixOf(s, o.began))
  /\ p \in Late /\ o.cp.kind = "ui-observed" => c.seen = Len(SuffixOf(s, o.began))
  /\ p = "send-card" => ~c.stopped
OpFit(c, s, o, p) ==
  /\ o.cmd # "none" => o.began <= Len(s)
  /\ o.cmd # "none" /\ Batched(o, p) => BatchFit(c, s, o)
  /\ p \in {"stop-clear", "stop-proven"} => c.stopped /\ c.reason = "user"
  /\ o.cmd \in Gated3 => ReplyFit(c, s, o, p)

LEMMA StopsAre ==
  /\ StopsFit <=> ControlFit(control, commands) /\ OpFit(control, commands, op, Place)
  /\ StopsFit' <=> ControlFit(control', commands') /\ OpFit(control', commands', op', Place')
<1>1. ControlFits <=> ControlFit(control, commands)
  BY DEF ControlFits, ControlFit, Suffix, Now, Bounded, BoundedIn, SuffixOf, MarkOf
<1>2. ControlFits' <=> ControlFit(control', commands')
  BY DEF ControlFits, ControlFit, Suffix, Now, Bounded, BoundedIn, SuffixOf, MarkOf, SelectInSeq
<1>3. (/\ Boundary
       /\ op.began <= op.ctl /\ op.ctl <= Now
       /\ control.seen <= Len(Suffix(op.ctl))) <=> BatchFit(control, commands, op)
  BY DEF Boundary, BatchFit, Suffix, Now, Bounded, BoundedIn, SuffixOf, MarkOf
<1>4. (/\ Boundary
       /\ op.began <= op.ctl /\ op.ctl <= Now
       /\ control.seen <= Len(Suffix(op.ctl)))' <=> BatchFit(control', commands', op')
  BY DEF Boundary, BatchFit, Suffix, Now, Bounded, BoundedIn, SuffixOf, MarkOf, SelectInSeq
<1>5. (/\ Place \in {"card-intent", "bound", "control", "consume"} => control.seen <= Len(Suffix(op.began))
       /\ Place \in {"read", "evaluate", "press", "send-card"} /\ op.cp.kind = "ui-observed" =>
            control.seen = Len(Suffix(op.began))
       /\ Place = "send-card" => ~control.stopped) <=> ReplyFit(control, commands, op, Place)
  BY DEF ReplyFit, Early, Late, Suffix, SuffixOf, MarkOf
<1>6. (/\ Place \in {"card-intent", "bound", "control", "consume"} => control.seen <= Len(Suffix(op.began))
       /\ Place \in {"read", "evaluate", "press", "send-card"} /\ op.cp.kind = "ui-observed" =>
            control.seen = Len(Suffix(op.began))
       /\ Place = "send-card" => ~control.stopped)' <=> ReplyFit(control', commands', op', Place')
  BY DEF ReplyFit, Early, Late, Suffix, SuffixOf, MarkOf, SelectInSeq
<1>7. (Busy => op.began <= Now) <=> (op.cmd # "none" => op.began <= Len(commands))
  BY DEF Busy, Now
<1>8. (Busy => op.began <= Now)' <=> (op'.cmd # "none" => op'.began <= Len(commands'))
  BY DEF Busy, Now
<1>9. Busy <=> op.cmd # "none"
  BY DEF Busy
<1>10. Busy' <=> op'.cmd # "none"
  BY DEF Busy
<1>11. StopsFit <=> ControlFit(control, commands) /\ OpFit(control, commands, op, Place)
  BY <1>1, <1>3, <1>5, <1>7, <1>9 DEF StopsFit, OpFit, Batched
<1>12. StopsFit' <=> ControlFit(control', commands') /\ OpFit(control', commands', op', Place')
  BY <1>2, <1>4, <1>6, <1>8, <1>10 DEF StopsFit, OpFit, Batched
<1> QED BY <1>11, <1>12

(* The operation moves, and nothing is heard.                               *)
LEMMA StopsKept ==
  ASSUME Typed, StopsFit, NEW a, Working(a), control' = control, commands' = commands,
         op'.cmd = op.cmd, op'.began = op.began,
         Place' \in {"consume", "stop-clear", "stop-proven"} =>
           Place' = "stop-proven" /\ a = "stop-clear" /\ op'.batch = op.batch /\ op'.ctl = op.ctl,
         op.cmd \in Gated3 =>
           /\ Place' \in Early => a \in Early
           /\ Place' \in Late /\ op'.cp.kind = "ui-observed" => a \in Late /\ op'.cp = op.cp
           /\ Place' = "send-card" => ~control.stopped
  PROVE  StopsFit'
<1>1. ControlFit(control, commands) /\ OpFit(control, commands, op, a)
  BY StopsAre DEF Working
<1>2. OpFit(control, commands, op', Place')
  BY <1>1 DEF OpFit, Batched, BatchFit, ReplyFit, Early, Late, Working
<1> QED BY <1>1, <1>2, StopsAre

LEMMA StopsOn ==
  ASSUME Typed, StopsFit, NEW a, Working(a), control' = control, commands' = commands,
         \/ FallsBack(op, a)
         \/ Onwards(op, a) /\ a \notin {"control", "consume", "stop-proven"} /\ (a = "evaluate" => ~control.stopped)
  PROVE  StopsFit'
<1>1. op'.cmd = op.cmd /\ op'.began = op.began /\ op'.batch = op.batch /\ op'.ctl = op.ctl /\ op'.cp = op.cp
  BY DEF Onwards, FallsBack, Alike
<1>2. CASE FallsBack(op, a)
  <2>1. Recovers(op.cmd, op.failed, a, Place')
    BY <1>2 DEF FallsBack
  <2>2. Place' \notin {"consume", "stop-clear", "stop-proven"} /\ Place' \notin Early /\ Place' \notin Late
    BY <2>1 DEF Recovers, Early, Late
  <2> QED BY <1>1, <2>2, StopsKept DEF Late
<1>3. CASE Onwards(op, a) /\ a \notin {"control", "consume", "stop-proven"} /\ (a = "evaluate" => ~control.stopped)
  <2>1. Follows(op.cmd, op.cp, a, Place')
    BY <1>3 DEF Onwards
  <2>2. Place' \in {"consume", "stop-clear", "stop-proven"} => Place' = "stop-proven" /\ a = "stop-clear"
    BY <1>3, <2>1 DEF Follows
  <2>3. ASSUME op.cmd \in Gated3
        PROVE  /\ Place' \in Early => a \in Early
               /\ Place' \in Late /\ op.cp.kind = "ui-observed" => a \in Late
               /\ Place' = "send-card" => a = "evaluate"
    BY <1>3, <2>1, <2>3 DEF Follows, Early, Late, Gated3
  <2> QED BY <1>1, <1>3, <2>2, <2>3, StopsKept
<1> QED BY <1>2, <1>3

(***************************************************************************)
(* What of a chat was heard, as it grows.                                    *)
(***************************************************************************)
LEMMA BoundedMark == ASSUME NEW s \in Seq(Orders) PROVE BoundedIn(s) <=> MarkOf(s) > 0
BY MarkFacts DEF BoundedIn

LEMMA SuffixShorter ==
  ASSUME NEW s \in Seq(Orders), NEW m \in 0 .. Len(s), NEW n \in m .. Len(s)
  PROVE  Len(SuffixOf(s, m)) \in Nat /\ Len(SuffixOf(s, n)) \in Nat /\ Len(SuffixOf(s, m)) <= Len(SuffixOf(s, n))
<1>1. MarkOf(s) \in Nat /\ Len(s) \in Nat
  BY MarkFacts
<1>2. n \in 0 .. Len(s)
  BY <1>1
<1>3. Len(SuffixOf(s, m)) = IF m > MarkOf(s) THEN m - MarkOf(s) ELSE 0
  BY SuffixFacts
<1>4. Len(SuffixOf(s, n)) = IF n > MarkOf(s) THEN n - MarkOf(s) ELSE 0
  BY <1>2, SuffixFacts
<1> QED BY <1>1, <1>3, <1>4

(* What has been heard of a chat stays what it was.                          *)
LEMMA HeardStays ==
  ASSUME NEW s \in Seq(Orders), NEW c \in Orders, MarkOf(s) > 0, NEW n \in Nat, n <= Len(SuffixOf(s, Len(s)))
  PROVE  LET t == Append(s, c)
         IN  /\ n <= Len(SuffixOf(t, Len(t)))
             /\ SubSeq(SuffixOf(t, Len(t)), 1, n) = SubSeq(SuffixOf(s, Len(s)), 1, n)
<1> DEFINE t == Append(s, c)
           a == SuffixOf(s, Len(s))
           b == SuffixOf(t, Len(t))
<1>1. Len(s) \in Nat /\ Len(s) \in 0 .. Len(s)
  OBVIOUS
<1>2. /\ t \in Seq(Orders) /\ Len(t) = Len(s) + 1 /\ MarkOf(t) = MarkOf(s)
      /\ \A i \in 1 .. Len(s) : t[i] = s[i]
  BY <1>1, ChatGrows
<1>3. MarkOf(s) \in Nat
  BY MarkFacts
<1>4. /\ a \in Seq(Orders) /\ Len(a) = IF Len(s) > MarkOf(s) THEN Len(s) - MarkOf(s) ELSE 0
      /\ \A i \in 1 .. Len(a) : a[i] = s[MarkOf(s) + i]
  BY <1>1, SuffixFacts
<1>5. Len(t) \in 0 .. Len(t)
  BY <1>1, <1>2
<1> HIDE DEF t
<1>6. /\ b \in Seq(Orders) /\ Len(b) = IF Len(t) > MarkOf(s) THEN Len(t) - MarkOf(s) ELSE 0
      /\ \A i \in 1 .. Len(b) : b[i] = t[MarkOf(s) + i]
  BY <1>2, <1>5, SuffixFacts
<1> HIDE DEF a, b
<1>7. n <= Len(a)
  BY DEF a
<1>8. n <= Len(b)
  BY <1>1, <1>2, <1>3, <1>4, <1>6, <1>7
<1>9. \A i \in 1 .. n : b[i] = a[i]
  <2> TAKE i \in 1 .. n
  <2>1. i \in 1 .. Len(a) /\ i \in 1 .. Len(b)
    BY <1>4, <1>6, <1>7, <1>8
  <2>2. MarkOf(s) + i \in 1 .. Len(s)
    BY <1>1, <1>3, <1>4, <2>1
  <2> QED BY <1>2, <1>4, <1>6, <2>1, <2>2
<1>10. SubSeq(b, 1, n) = SubSeq(a, 1, n)
  BY <1>4, <1>6, <1>7, <1>8, <1>9
<1> QED BY <1>8, <1>10 DEF t, a, b

LEMMA ControlGrows ==
  ASSUME NEW s \in Seq(Orders), NEW c \in Orders, NEW x \in ControlTypes, ControlFit(x, s)
  PROVE  ControlFit(x, Append(s, c))
<1> DEFINE t == Append(s, c)
<1>1. x.seen \in Nat /\ x.seen <= Len(SuffixOf(s, Len(s)))
  BY DEF ControlTypes, ControlFit
<1>2. t \in Seq(Orders) /\ Len(t) \in Nat /\ Len(SuffixOf(t, Len(t))) \in Nat
  <2>1. t \in Seq(Orders) /\ Len(t) \in Nat
    OBVIOUS
  <2>2. Len(t) \in 0 .. Len(t) /\ Len(t) \in Len(t) .. Len(t)
    BY <2>1
  <2> HIDE DEF t
  <2> QED BY <2>1, <2>2, SuffixShorter
<1>3. CASE x.seen = 0
  <2>1. SubSeq(SuffixOf(s, Len(s)), 1, 0) = <<>> /\ SubSeq(SuffixOf(t, Len(t)), 1, 0) = <<>>
    BY SubSeqProperties
  <2>2. x.seen <= Len(SuffixOf(t, Len(t))) /\ ~(x.seen > 0)
    BY <1>2, <1>3
  <2>3. ~x.stopped => Settled(SubSeq(SuffixOf(t, Len(t)), 1, x.seen))
    BY <1>3, <2>1 DEF ControlFit
  <2> QED BY <1>3, <2>2, <2>3 DEF ControlFit
<1>4. CASE x.seen > 0
  <2>1. BoundedIn(s)
    BY <1>4 DEF ControlFit
  <2>2. MarkOf(s) > 0
    BY <2>1, BoundedMark
  <2>3. BoundedIn(t)
    <3>1. PICK i \in 1 .. Len(s) : s[i] = Marker
      BY <2>1 DEF BoundedIn
    <3>2. i \in 1 .. Len(t) /\ t[i] = Marker
      BY <3>1
    <3> QED BY <3>2 DEF BoundedIn
  <2>4. x.seen <= Len(SuffixOf(t, Len(t)))
        /\ SubSeq(SuffixOf(t, Len(t)), 1, x.seen) = SubSeq(SuffixOf(s, Len(s)), 1, x.seen)
    BY <1>1, <2>2, HeardStays
  <2> QED BY <2>3, <2>4 DEF ControlFit
<1> QED BY <1>1, <1>3, <1>4

(* The owner writes to the control chat in the middle of an operation.       *)
LEMMA OpGrows ==
  ASSUME NEW s \in Seq(Orders), NEW c \in Orders, NEW x \in ControlTypes, ControlFit(x, s),
         NEW o, NEW p, OpFit(x, s, o, p), o.cmd \in Gated3 => o.cmd # "none",
         o.cmd # "none" => o.began \in Nat /\ o.ctl \in Nat
  PROVE  OpFit(x, Append(s, c), o, p)
<1> DEFINE t == Append(s, c)
<1>1. x.seen \in Nat /\ Len(s) \in Nat /\ Len(t) = Len(s) + 1 /\ t \in Seq(Orders)
  BY DEF ControlTypes
<1>2. ASSUME NEW n \in Nat, n <= Len(s), x.seen <= Len(SuffixOf(s, n))
      PROVE  x.seen <= Len(SuffixOf(t, n)) /\ (x.seen = Len(SuffixOf(s, n)) => x.seen = Len(SuffixOf(t, n)))
  <2>1. n \in 0 .. Len(s) /\ n \in 0 .. Len(t) /\ n \in n .. Len(t)
    BY <1>1, <1>2
  <2>2. MarkOf(s) > 0 => SuffixOf(t, n) = SuffixOf(s, n)
    BY <2>1, ChatGrows
  <2>3. Len(SuffixOf(t, n)) <= Len(SuffixOf(s, n)) /\ Len(SuffixOf(t, n)) \in Nat
    BY <1>1, <2>1, ChatGrows, SuffixShorter
  <2>4. x.seen > 0 => MarkOf(s) > 0
    BY BoundedMark DEF ControlFit
  <2> HIDE DEF t
  <2>5. CASE x.seen = 0
    <3>1. x.seen = Len(SuffixOf(s, n)) => Len(SuffixOf(t, n)) = 0
      BY <2>3, <2>5
    <3> QED BY <2>3, <2>5, <3>1
  <2>6. CASE x.seen > 0
    BY <1>2, <2>2, <2>4, <2>6
  <2> QED BY <1>1, <2>5, <2>6
<1>3. BoundedIn(s) => BoundedIn(t)
  <2> SUFFICES ASSUME BoundedIn(s) PROVE BoundedIn(t)
    OBVIOUS
  <2>1. PICK i \in 1 .. Len(s) : s[i] = Marker
    BY DEF BoundedIn
  <2>2. i \in 1 .. Len(t) /\ t[i] = Marker
    BY <2>1
  <2> QED BY <2>2 DEF BoundedIn
<1> HIDE DEF t
<1>4. o.cmd # "none" => o.began <= Len(t)
  BY <1>1 DEF OpFit
<1>5. o.cmd # "none" /\ Batched(o, p) => BatchFit(x, t, o)
  <2> SUFFICES ASSUME o.cmd # "none", BatchFit(x, s, o) PROVE BatchFit(x, t, o)
    BY DEF OpFit
  <2>1. o.ctl \in Nat /\ o.ctl <= Len(s) /\ x.seen <= Len(SuffixOf(s, o.ctl))
    BY DEF BatchFit
  <2>2. x.seen <= Len(SuffixOf(t, o.ctl)) /\ o.ctl <= Len(t)
    BY <1>1, <1>2, <2>1
  <2> QED BY <1>3, <2>2 DEF BatchFit
<1>6. o.cmd \in Gated3 => ReplyFit(x, t, o, p)
  <2> SUFFICES ASSUME o.cmd \in Gated3, ReplyFit(x, s, o, p), o.began \in Nat, o.began <= Len(s)
               PROVE  ReplyFit(x, t, o, p)
    BY DEF OpFit
  <2>1. x.seen <= Len(SuffixOf(s, o.began)) => x.seen <= Len(SuffixOf(t, o.began))
    BY <1>2
  <2>2. x.seen = Len(SuffixOf(s, o.began)) => x.seen = Len(SuffixOf(t, o.began))
    <3>1. x.seen = Len(SuffixOf(s, o.began)) => x.seen <= Len(SuffixOf(s, o.began))
      BY <1>1
    <3> QED BY <1>2, <3>1
  <2> QED BY <2>1, <2>2 DEF ReplyFit
<1>7. p \in {"stop-clear", "stop-proven"} => x.stopped /\ x.reason = "user"
  BY DEF OpFit
<1> QED BY <1>4, <1>5, <1>6, <1>7 DEF OpFit, t

(***************************************************************************)
(* What the steps of the control chat hear.                                  *)
(***************************************************************************)
LEMMA ActivatedFits ==
  ASSUME Typed, ControlFit(control, commands)
  PROVE  ControlFit(Activated, commands) /\ ~(Activated.stopped /\ Activated.reason = "boundary")
<1>1. control \in ControlTypes /\ Activated.active /\ Activated.seen = control.seen
  BY TypedParts, ControlSteps
<1>2. CASE Activated = control
  BY <1>1, <1>2 DEF ControlFit
<1>3. CASE Activated.stopped = control.stopped /\ Activated.reason = control.reason
           /\ ~(control.stopped /\ control.reason = "boundary")
  BY <1>1, <1>3 DEF ControlFit
<1>4. CASE control.stopped /\ control.reason = "boundary" /\ ~Activated.stopped /\ Activated.reason = None
  <2>1. control.seen = 0 /\ Activated.seen = 0
    BY <1>1, <1>4 DEF ControlFit
  <2>2. SubSeq(SuffixOf(commands, Len(commands)), 1, 0) = <<>> /\ Settled(<<>>)
    BY SubSeqProperties DEF Settled
  <2> QED BY <1>1, <1>4, <2>1, <2>2 DEF ControlFit
<1> QED BY <1>2, <1>3, <1>4, ControlSteps

LEMMA StoppedFits ==
  ASSUME Typed, ControlFit(control, commands)
  PROVE  ControlFit(Stopped, commands) /\ Stopped.stopped /\ Stopped.reason = "user" /\ Stopped.seen = control.seen
BY ControlSteps DEF ControlFit

(* Among more messages without a stop, all stays settled, and a resume        *)
(* settles what was not.                                                   *)
LEMMA SettledMore ==
  ASSUME NEW s \in Seq(Orders), NEW m \in Nat, NEW n \in Nat, m <= n, n <= Len(s),
         \A j \in m + 1 .. n : s[j] # "stop",
         Settled(SubSeq(s, 1, m)) \/ \E k \in m + 1 .. n : s[k] = "resume"
  PROVE  Settled(SubSeq(s, 1, n))
<1>1. \A i \in Nat : i <= Len(s) => Len(SubSeq(s, 1, i)) = i /\ \A j \in 1 .. i : SubSeq(s, 1, i)[j] = s[j]
  OBVIOUS
<1>2. /\ Len(SubSeq(s, 1, n)) = n /\ \A j \in 1 .. n : SubSeq(s, 1, n)[j] = s[j]
      /\ Len(SubSeq(s, 1, m)) = m /\ \A j \in 1 .. m : SubSeq(s, 1, m)[j] = s[j]
  BY <1>1
<1>3. SUFFICES ASSUME NEW j \in 1 .. n, s[j] = "stop" PROVE \E k \in 1 .. n : k > j /\ s[k] = "resume"
  BY <1>2 DEF Settled
<1>4. j \in 1 .. m
  BY <1>3
<1>5. CASE Settled(SubSeq(s, 1, m))
  <2>1. PICK k \in 1 .. m : k > j /\ s[k] = "resume"
    BY <1>2, <1>3, <1>4, <1>5 DEF Settled
  <2> QED BY <2>1
<1>6. CASE \E k \in m + 1 .. n : s[k] = "resume"
  BY <1>4, <1>6
<1> QED BY <1>5, <1>6

(* The part of the chat an operation hears, in the suffix it hears it from.  *)
LEMMA HeardPart ==
  ASSUME NEW s \in Seq(Orders), NEW n \in 0 .. Len(s), NEW m \in Nat, m <= Len(SuffixOf(s, n))
  PROVE  LET a == SuffixOf(s, Len(s))
             b == SuffixOf(s, n)
             u == SubSeq(b, m + 1, Len(b))
         IN  /\ a \in Seq(Orders) /\ Len(b) \in Nat /\ Len(b) <= Len(a)
             /\ \A i \in 1 .. Len(b) : b[i] = a[i]
             /\ Range(u) = {a[j] : j \in m + 1 .. Len(b)}
             /\ u = <<>> => m = Len(b)
<1> DEFINE a == SuffixOf(s, Len(s))
           b == SuffixOf(s, n)
           u == SubSeq(b, m + 1, Len(b))
<1>1. Len(s) \in Nat /\ Len(s) \in 0 .. Len(s) /\ Len(s) \in n .. Len(s)
  OBVIOUS
<1>2. /\ a \in Seq(Orders)
      /\ Len(a) = IF Len(s) > MarkOf(s) THEN Len(s) - MarkOf(s) ELSE 0
      /\ \A i \in 1 .. Len(a) : a[i] = s[MarkOf(s) + i]
  BY <1>1, SuffixFacts
<1>3. /\ b \in Seq(Orders)
      /\ Len(b) = IF n > MarkOf(s) THEN n - MarkOf(s) ELSE 0
      /\ \A i \in 1 .. Len(b) : b[i] = s[MarkOf(s) + i]
  BY SuffixFacts
<1>4. MarkOf(s) \in Nat
  BY MarkFacts
<1> HIDE DEF a, b
<1>5. Len(b) \in Nat /\ Len(b) <= Len(a) /\ \A i \in 1 .. Len(b) : b[i] = a[i]
  BY <1>1, <1>2, <1>3, <1>4
<1>6. m <= Len(b)
  BY DEF b
<1>7. u \in Seq(Orders) /\ Len(u) = Len(b) - m /\ \A i \in 1 .. Len(b) - m : u[i] = b[m + i]
  <2>1. m + 1 \in Int /\ Len(b) \in Int
    BY <1>5
  <2>2. \A i \in m + 1 .. Len(b) : b[i] \in Orders
    BY <1>3
  <2> QED BY <1>5, <1>6, <2>1, <2>2, SubSeqProperties
<1> HIDE DEF u
<1>8. Range(u) = {a[j] : j \in m + 1 .. Len(b)}
  <2>1. Range(u) = {u[i] : i \in 1 .. Len(b) - m}
    BY <1>7 DEF Range
  <2>2. ASSUME NEW j \in m + 1 .. Len(b) PROVE a[j] \in {u[i] : i \in 1 .. Len(b) - m}
    <3>1. j - m \in 1 .. Len(b) - m /\ m + (j - m) = j /\ j \in 1 .. Len(b)
      BY <1>5
    <3> QED BY <1>5, <1>7, <3>1
  <2>3. ASSUME NEW i \in 1 .. Len(b) - m PROVE u[i] \in {a[j] : j \in m + 1 .. Len(b)}
    <3>1. m + i \in m + 1 .. Len(b) /\ m + i \in 1 .. Len(b)
      BY <1>5
    <3> QED BY <1>5, <1>7, <3>1
  <2> QED BY <2>1, <2>2, <2>3
<1>9. u = <<>> => m = Len(b)
  BY <1>5, <1>6, <1>7
<1> QED BY <1>2, <1>5, <1>8, <1>9 DEF a, b, u

LEMMA UnseenIs ==
  /\ \A n : Suffix(n) = SuffixOf(commands, n)
  /\ \A n : Unseen(n) = SubSeq(SuffixOf(commands, n), control.seen + 1, Len(SuffixOf(commands, n)))
BY DEF Unseen, Suffix, SuffixOf, MarkOf

LEMMA CountedIs ==
  ASSUME Typed, op.ctl \in 0 .. Len(commands), BatchFit(control, commands, op)
  PROVE  LET a == SuffixOf(commands, Len(commands))
             n == Len(SuffixOf(commands, op.ctl))
         IN  /\ n \in Nat /\ n <= Len(a) /\ control.seen <= n /\ control.seen \in Nat /\ a \in Seq(Orders)
             /\ Counted = [control EXCEPT !.seen = n] /\ Counted.seen = n
             /\ Counted.stopped = control.stopped /\ Counted.reason = control.reason
             /\ [Running EXCEPT !.seen = n].seen = n /\ ~[Running EXCEPT !.seen = n].stopped
             /\ Range(Unseen(op.ctl)) = {a[j] : j \in control.seen + 1 .. n}
             /\ Unseen(op.ctl) = <<>> => control.seen = n
<1>1. control \in ControlTypes /\ commands \in Seq(Orders) /\ Running \in ControlTypes /\ ~Running.stopped
  BY TypedParts, ControlSteps
<1>2. control.seen \in Nat /\ control.seen <= Len(SuffixOf(commands, op.ctl))
  BY <1>1 DEF ControlTypes, BatchFit
<1>3. LET a == SuffixOf(commands, Len(commands))
          b == SuffixOf(commands, op.ctl)
          u == SubSeq(b, control.seen + 1, Len(b))
      IN  /\ a \in Seq(Orders) /\ Len(b) \in Nat /\ Len(b) <= Len(a)
          /\ Range(u) = {a[j] : j \in control.seen + 1 .. Len(b)}
          /\ u = <<>> => control.seen = Len(b)
  BY <1>1, <1>2, HeardPart
<1>4. Counted = [control EXCEPT !.seen = Len(SuffixOf(commands, op.ctl))]
  BY UnseenIs DEF Counted
<1>5. Counted.seen = Len(SuffixOf(commands, op.ctl))
      /\ Counted.stopped = control.stopped /\ Counted.reason = control.reason
  BY <1>1, <1>4 DEF ControlTypes
<1>6. [Running EXCEPT !.seen = Len(SuffixOf(commands, op.ctl))].seen = Len(SuffixOf(commands, op.ctl))
      /\ ~[Running EXCEPT !.seen = Len(SuffixOf(commands, op.ctl))].stopped
  BY <1>1 DEF ControlTypes
<1> QED BY <1>2, <1>3, <1>4, <1>5, <1>6, UnseenIs

LEMMA HeededFits ==
  ASSUME Typed, op.ctl \in 0 .. Len(commands), ControlFit(control, commands), BatchFit(control, commands, op),
         "stop" \notin Range(Unseen(op.ctl))
  PROVE  ControlFit(Heeded, commands)
<1> DEFINE a == SuffixOf(commands, Len(commands))
           n == Len(SuffixOf(commands, op.ctl))
           r == [Running EXCEPT !.seen = n]
<1>1. /\ n \in Nat /\ n <= Len(a) /\ control.seen <= n /\ control.seen \in Nat /\ a \in Seq(Orders)
      /\ Counted.seen = n
      /\ Counted.stopped = control.stopped /\ Counted.reason = control.reason
      /\ r.seen = n /\ ~r.stopped
      /\ Range(Unseen(op.ctl)) = {a[j] : j \in control.seen + 1 .. n}
  BY CountedIs
<1>2. BoundedIn(commands) /\ ~(control.stopped /\ control.reason = "boundary")
  BY DEF BatchFit
<1>3. ~control.stopped => Settled(SubSeq(a, 1, control.seen))
  BY DEF ControlFit
<1> HIDE DEF a, n, r
<1>4. \A j \in control.seen + 1 .. n : a[j] # "stop"
  BY <1>1
<1>5. ~control.stopped => Settled(SubSeq(a, 1, n))
  BY <1>1, <1>3, <1>4, SettledMore
<1>6. "resume" \in Range(Unseen(op.ctl)) => Settled(SubSeq(a, 1, n))
  <2>1. "resume" \in Range(Unseen(op.ctl)) => \E k \in control.seen + 1 .. n : a[k] = "resume"
    BY <1>1
  <2> QED BY <1>1, <1>4, <2>1, SettledMore
<1>7. ControlFit(Counted, commands)
  BY <1>1, <1>2, <1>5 DEF ControlFit, a
<1>8. "resume" \in Range(Unseen(op.ctl)) => ControlFit(r, commands)
  BY <1>1, <1>2, <1>6 DEF ControlFit, a
<1>9. Heeded = control \/ ("resume" \in Range(Unseen(op.ctl)) /\ Heeded = r) \/ Heeded = Counted
  <2>1. [Running EXCEPT !.seen = Counted.seen] = r
    BY <1>1 DEF r
  <2> QED BY <2>1 DEF Heeded
<1> QED BY <1>7, <1>8, <1>9

LEMMA ReadControlStops == ASSUME Typed, StopsFit, ReadControl PROVE StopsFit'
<1>1. /\ Working("control") /\ Goes(op) /\ op'.cp = op.cp /\ ReadControlDoes /\ commands' = commands
  BY ReadControlMoves DEF ReadControl, World
<1>2. /\ ControlFit(control, commands) /\ OpFit(control, commands, op, "control")
      /\ op'.cmd = op.cmd /\ op'.began = op.began /\ op.cmd # "none"
  BY <1>1, StopsAre DEF Working, Goes, Fixed
<1>3. CASE Once /\ control' = Activated /\ op'.ctl = Len(commands) /\ Place' = "consume"
  <2>1. ControlFit(Activated, commands) /\ ~(Activated.stopped /\ Activated.reason = "boundary")
        /\ Activated.seen = control.seen
    BY <1>2, ActivatedFits, ControlSteps
  <2>2. BoundedIn(commands)
    <3>1. {i \in DOMAIN commands : commands[i] = Marker} # {}
      <4>1. SUFFICES ASSUME {i \in DOMAIN commands : commands[i] = Marker} = {} PROVE FALSE
        OBVIOUS
      <4>2. Cardinality({}) = 1
        BY <1>3, <4>1 DEF Once, Count
      <4> QED BY <4>2, FS_EmptySet
    <3>2. DOMAIN commands = 1 .. Len(commands)
      BY TypedParts
    <3> QED BY <3>1, <3>2 DEF BoundedIn
  <2>3. op.began <= Len(commands) /\ Len(commands) \in Nat
    BY <1>2, TypedParts DEF OpFit
  <2>4. BatchFit(Activated, commands, op')
    BY <1>2, <1>3, <2>1, <2>2, <2>3 DEF BatchFit, ControlFit
  <2>5. OpFit(Activated, commands, op', "consume")
    BY <1>2, <2>1, <2>3, <2>4 DEF OpFit, ReplyFit, Early, Late
  <2> QED BY <1>1, <1>3, <2>1, <2>5, StopsAre
<1>4. CASE control' = Stopped /\ Place' = "stop-clear" /\ op'.batch = "ambiguous"
  <2>1. ControlFit(Stopped, commands) /\ Stopped.stopped /\ Stopped.reason = "user"
    BY <1>2, StoppedFits
  <2>2. OpFit(Stopped, commands, op', "stop-clear")
    BY <1>2, <1>4, <2>1 DEF OpFit, Batched, ReplyFit, Early, Late
  <2> QED BY <1>1, <1>4, <2>1, <2>2, StopsAre
<1>5. CASE control' = control /\ FallsBack(op, "control")
  BY <1>1, <1>5, StopsOn
<1> QED BY <1>1, <1>3, <1>4, <1>5 DEF ReadControlDoes

LEMMA ConsumeStops == ASSUME Typed, StopsFit, ConsumeControl PROVE StopsFit'
<1>1. /\ Working("consume") /\ Goes(op) /\ op'.cp = op.cp /\ ConsumeDoes /\ commands' = commands
  BY ConsumeMoves DEF ConsumeControl, World
<1>2. /\ ControlFit(control, commands) /\ OpFit(control, commands, op, "consume")
      /\ op'.cmd = op.cmd /\ op'.began = op.began /\ op.cmd # "none" /\ op \in OpTypes
  BY <1>1, StopsAre DEF Working, Goes, Fixed
<1>3. BatchFit(control, commands, op) /\ op.ctl \in 0 .. Len(commands) /\ op.began \in Nat /\ op.began <= op.ctl
  BY <1>2 DEF OpFit, Batched, BatchFit, OpTypes
<1>4. CASE control' = Stopped /\ Place' = "stop-clear" /\ op'.batch = "stop" /\ op'.ctl = op.ctl
  <2>1. ControlFit(Stopped, commands) /\ Stopped.stopped /\ Stopped.reason = "user" /\ Stopped.seen = control.seen
    BY <1>2, StoppedFits
  <2>2. BatchFit(Stopped, commands, op')
    BY <1>2, <1>3, <1>4, <2>1 DEF BatchFit
  <2>3. OpFit(Stopped, commands, op', "stop-clear")
    BY <1>2, <2>1, <2>2 DEF OpFit, ReplyFit, Early, Late
  <2> QED BY <1>1, <1>4, <2>1, <2>3, StopsAre
<1>5. CASE /\ "stop" \notin Range(Unseen(op.ctl)) /\ control' = Heeded
           /\ (Quiet => Onwards(op, "consume")) /\ (~Quiet => FallsBack(op, "consume"))
  <2>1. ControlFit(Heeded, commands)
    BY <1>2, <1>3, <1>5, HeededFits
  <2>2. op'.began <= Len(commands)
    BY <1>2 DEF OpFit
  <2>3. CASE Quiet
    <3>1. Follows(op.cmd, op.cp, "consume", Place')
      BY <1>5, <2>3 DEF Onwards
    <3>2. Place' \in {"read", "end", "activate"} /\ (op.cmd \in Gated3 => Place' = "read" /\ ~Reader)
      BY <3>1 DEF Follows, Reader, Gated3
    <3>3. ASSUME op.cmd \in Gated3 PROVE Heeded.seen = Len(SuffixOf(commands, op.began))
      <4>1. Unseen(op.ctl) = <<>>
        BY <2>3, <3>2, <3>3 DEF Quiet
      <4>2. Heeded = control
        BY <4>1 DEF Heeded
      <4>3. control.seen = Len(SuffixOf(commands, op.ctl)) /\ control.seen \in Nat
        BY <1>3, <4>1, CountedIs
      <4>4. control.seen <= Len(SuffixOf(commands, op.began))
        BY <1>2, <3>3 DEF OpFit, ReplyFit, Early
      <4>5. op.began \in 0 .. Len(commands) /\ op.ctl \in op.began .. Len(commands) /\ commands \in Seq(Orders)
        BY <1>3, TypedParts
      <4>6. Len(SuffixOf(commands, op.began)) \in Nat
            /\ Len(SuffixOf(commands, op.began)) <= Len(SuffixOf(commands, op.ctl))
        BY <4>5, SuffixShorter
      <4> QED BY <4>2, <4>3, <4>4, <4>6
    <3>4. OpFit(Heeded, commands, op', Place')
      BY <1>2, <2>2, <3>2, <3>3 DEF OpFit, Batched, ReplyFit, Early, Late
    <3> QED BY <1>1, <1>5, <2>1, <3>4, StopsAre
  <2>4. CASE ~Quiet
    <3>1. Recovers(op.cmd, op.failed, "consume", Place')
      BY <1>5, <2>4 DEF FallsBack
    <3>2. Place' \in {"end", "clear", "uncertain", "card-uncertain"}
      BY <3>1 DEF Recovers
    <3>3. OpFit(Heeded, commands, op', Place')
      BY <1>2, <2>2, <3>2 DEF OpFit, Batched, ReplyFit, Early, Late
    <3> QED BY <1>1, <1>5, <2>1, <3>3, StopsAre
  <2> QED BY <2>3, <2>4
<1> QED BY <1>1, <1>4, <1>5 DEF ConsumeDoes

LEMMA StopProvenStops == ASSUME Typed, StopsFit, StopProven PROVE StopsFit'
<1>1. /\ Working("stop-proven") /\ StopProvenDoes /\ commands' = commands
      /\ Onwards(op, "stop-proven") \/ FallsBack(op, "stop-proven")
  BY StopProvenMoves DEF StopProven, World
<1>2. /\ ControlFit(control, commands) /\ OpFit(control, commands, op, "stop-proven")
      /\ op'.cmd = op.cmd /\ op'.began = op.began /\ op.cmd # "none" /\ op \in OpTypes
  BY <1>1, StopsAre DEF Working, Onwards, FallsBack, Alike
<1>3. CASE /\ op.batch = "stop" /\ control' = Counted
           /\ (Reader => Onwards(op, "stop-proven")) /\ (~Reader => FallsBack(op, "stop-proven"))
  <2>1. BatchFit(control, commands, op) /\ op.ctl \in 0 .. Len(commands)
        /\ control.stopped /\ control.reason = "user" /\ op.began <= Len(commands)
    BY <1>2, <1>3 DEF OpFit, Batched, BatchFit, OpTypes
  <2>2. /\ Counted.seen \in Nat /\ Counted.seen <= Len(SuffixOf(commands, Len(commands)))
        /\ Counted.stopped = control.stopped /\ Counted.reason = control.reason
    BY <2>1, CountedIs
  <2>3. ControlFit(Counted, commands)
    BY <2>1, <2>2 DEF ControlFit, BatchFit
  <2>4. Place' \notin {"consume", "stop-clear", "stop-proven"} /\ (op.cmd \in Gated3 => Place' \notin Early \union Late)
    <3>1. CASE Reader
      <4>1. Follows(op.cmd, op.cp, "stop-proven", Place')
        BY <1>3, <3>1 DEF Onwards
      <4> QED BY <3>1, <4>1 DEF Follows, Reader, Gated3
    <3>2. CASE ~Reader
      <4>1. Recovers(op.cmd, op.failed, "stop-proven", Place')
        BY <1>3, <3>2 DEF FallsBack
      <4> QED BY <4>1 DEF Recovers, Early, Late
    <3> QED BY <3>1, <3>2
  <2>5. OpFit(Counted, commands, op', Place')
    BY <1>2, <2>1, <2>4 DEF OpFit, Batched, ReplyFit, Late
  <2> QED BY <1>1, <1>3, <2>3, <2>5, StopsAre
<1>4. CASE control' = control /\ FallsBack(op, "stop-proven")
  BY <1>1, <1>4, StopsOn
<1> QED BY <1>1, <1>3, <1>4 DEF StopProvenDoes

(* An operation on the boundary hears nothing that a reply depends on.       *)
LEMMA Elsewhere ==
  ASSUME NEW c, NEW s, NEW o, NEW p, o.began <= Len(s), o.cmd \notin Gated3,
         p \notin {"consume", "stop-clear", "stop-proven"}
  PROVE  OpFit(c, s, o, p)
BY DEF OpFit, Batched

LEMMA ActivateStops == ASSUME Typed, StopsFit, Activate PROVE StopsFit'
<1>1. Working("activate") /\ Onwards(op, "activate") /\ commands' = commands /\ control' = Activated
  BY AtWorks, DoneMoves DEF Activate, World
<1>2. ControlFit(control, commands) /\ op.began <= Len(commands) /\ op'.cmd = op.cmd /\ op'.began = op.began
  BY <1>1, StopsAre DEF Working, OpFit, Onwards, Alike
<1>3. ControlFit(Activated, commands)
  BY <1>2, ActivatedFits
<1>4. Follows(op.cmd, op.cp, "activate", Place')
  BY <1>1 DEF Onwards
<1>5. op.cmd = "establish" /\ Place' \in {"end", "clear", "clearPending"}
  BY <1>4 DEF Follows
<1>6. OpFit(Activated, commands, op', Place')
  BY <1>2, <1>5, Elsewhere DEF Gated3
<1> QED BY <1>1, <1>3, <1>6, StopsAre

LEMMA PressMarkerStops == ASSUME Typed, StopsFit, PressMarker PROVE StopsFit'
<1>1. /\ Working("press-marker") /\ PressMarkerDoes /\ control' = control
  BY PressMarkerMoves DEF PressMarker, durable
<1>2. /\ ControlFit(control, commands) /\ op.began <= Len(commands) /\ control \in ControlTypes
      /\ commands \in Seq(Orders) /\ Len(commands) \in Nat /\ op.began \in Nat
  <2>1. ControlFit(control, commands) /\ op.began <= Len(commands) /\ op.began \in Nat
    BY <1>1, StopsAre DEF Working, OpFit, OpTypes
  <2> QED BY <2>1, TypedParts
<1>3. CASE commands' = Append(commands, Marker) /\ (Onwards(op, "press-marker") \/ FallsBack(op, "press-marker"))
  <2>1. Marker \in Orders
    BY DEF Marker, Orders
  <2>2. ControlFit(control, Append(commands, Marker))
    BY <1>2, <2>1, ControlGrows
  <2>3. op'.cmd = op.cmd /\ op'.began = op.began
    BY <1>3 DEF Onwards, FallsBack, Alike
  <2>4. op.cmd = "establish"
    <3>1. Follows(op.cmd, op.cp, Head(op.todo), First(Tail(op.todo), "end"))
      BY <1>1, PathTail DEF Working, Path
    <3> QED BY <1>1, <3>1 DEF Follows, Working
  <2>5. Place' \notin {"consume", "stop-clear", "stop-proven"}
    BY <1>3 DEF Onwards, FallsBack, Follows, Recovers
  <2>6. op'.began <= Len(Append(commands, Marker))
    BY <1>2, <2>3
  <2>7. OpFit(control, Append(commands, Marker), op', Place')
    BY <2>3, <2>4, <2>5, <2>6, Elsewhere DEF Gated3
  <2> QED BY <1>1, <1>3, <2>2, <2>7, StopsAre
<1>4. CASE commands' = commands /\ FallsBack(op, "press-marker")
  BY <1>1, <1>4, StopsOn
<1> QED BY <1>1, <1>3, <1>4 DEF PressMarkerDoes

LEMMA OwnerCommandsStops ==
  ASSUME Typed, StopsFit, NEW c \in budget.commands, OwnerCommands(c) PROVE StopsFit'
<1>1. c \in Orders /\ op' = op /\ control' = control /\ commands' = Append(commands, c)
  BY OwnerCommandsTyped DEF OwnerCommands, durable
<1>2. ControlFit(control, commands) /\ OpFit(control, commands, op, Place) /\ Place' = Place
  BY <1>1, StopsAre DEF Place
<1>3. commands \in Seq(Orders) /\ control \in ControlTypes
  BY TypedParts
<1>4. op.cmd # "none" => op.began \in Nat /\ op.ctl \in Nat
  BY BusyWorks DEF Busy, OpTypes
<1>5. op.cmd \in Gated3 => op.cmd # "none"
  BY DEF Gated3
<1>6. ControlFit(control, Append(commands, c)) /\ OpFit(control, Append(commands, c), op, Place)
  BY <1>1, <1>2, <1>3, <1>4, <1>5, ControlGrows, OpGrows
<1> QED BY <1>1, <1>2, <1>6, StopsAre

LEMMA BeginStops == ASSUME Typed, StopsFit, Begin PROVE StopsFit'
<1> DEFINE o == Head(waiting)
<1>1. /\ o \in Range(waiting) /\ o \in OpTypes /\ op' \in OpTypes /\ Begun(o) /\ BeginDoes(o)
      /\ commands' = commands /\ control' = control
  BY BeginMoves DEF World, durable
<1>2. ControlFit(control, commands) /\ Len(commands) \in Nat
  BY StopsAre, TypedParts
<1>3. o.cmd \in Commands /\ o.cmd # "none"
  BY <1>1 DEF OpTypes, Commands
<1>4. o \in Doing
  BY <1>1, <1>3 DEF Doing
<1>5. CallFits(o)
  BY <1>4 DEF Typed, CallsFit
<1> HIDE DEF o
<1>6. op'.cmd = o.cmd /\ op'.tp = o.tp
  BY <1>1 DEF Begun
<1>7. op'.began <= Len(commands) /\ (op'.began = Len(commands) \/ op'.began = 0)
  BY <1>1, <1>2 DEF BeginDoes
<1>8. Place' \notin {"consume", "stop-clear", "stop-proven"}
  BY <1>1 DEF BeginDoes, Starts
<1>9. ASSUME o.cmd \in Gated3
      PROVE  Place' = "end" \/ (Place' \in Early /\ op'.began = Len(commands))
  <2>1. o.tp # None
    BY <1>5, <1>9 DEF CallFits
  <2> QED BY <1>1, <1>9, <2>1 DEF BeginDoes, Starts, Gated3, Early
<1>10. o.cmd \in Gated3 => ReplyFit(control, commands, op', Place')
  BY <1>2, <1>9 DEF ReplyFit, ControlFit, Early, Late
<1>11. OpFit(control, commands, op', Place')
  BY <1>6, <1>7, <1>8, <1>10 DEF OpFit, Batched
<1> QED BY <1>1, <1>2, <1>11, StopsAre

LEMMA IdleStops == ASSUME StopsFit, op' = NoOp, control' = control, commands' = commands PROVE StopsFit'
<1>1. Place' = "end" /\ op'.cmd = "none"
  BY IdleFits DEF Place
<1>2. OpFit(control, commands, op', Place')
  BY <1>1 DEF OpFit, Batched, Gated3
<1> QED BY <1>2, StopsAre

LEMMA SameStops == ASSUME StopsFit, op' = op, control' = control, commands' = commands PROVE StopsFit'
<1>1. Place' = Place
  BY DEF Place
<1> QED BY <1>1, StopsAre

(* The steps that leave the control chat alone.                              *)
ApartStep ==
  \/ AssertBound \/ StopClear \/ PutPending \/ Type \/ VerifyDraft
  \/ Press \/ MarkVerified \/ MarkUncertain \/ ClearPending \/ Release \/ ClearDraft \/ Proven
  \/ PutIntent \/ ClearIntent \/ SendCard \/ SettleCard
LEMMA ApartStops == ASSUME Typed, StopsFit, ApartStep PROVE StopsFit'
<1>1. control' = control /\ commands' = commands
  BY DEF ApartStep, AssertBound, StopClear, PutPending, Type, VerifyDraft, Press, MarkVerified, MarkUncertain,
         ClearPending, Release, ClearDraft, Proven, PutIntent, ClearIntent, SendCard, SettleCard, durable, World
<1>2. PICK a : Plain(a) /\ a # "evaluate" /\ At(a)
  <2>1. PlainStep
    BY DEF ApartStep, PlainStep
  <2> QED BY <2>1, PlainSteps
<1>3. a \notin {"control", "consume", "stop-proven"}
  BY <1>2 DEF ApartStep, At, AssertBound, StopClear, PutPending, Type, VerifyDraft, Press, MarkVerified, MarkUncertain,
         ClearPending, Release, ClearDraft, Proven, PutIntent, ClearIntent, SendCard, SettleCard
<1> QED BY <1>1, <1>2, <1>3, StopsOn DEF Plain

LEMMA EvaluateStops == ASSUME Typed, StopsFit, EvaluateReply PROVE StopsFit'
<1>1. Working("evaluate") /\ (Onwards(op, "evaluate") \/ FallsBack(op, "evaluate"))
      /\ control' = control /\ commands' = commands
  BY EvaluateMoves DEF EvaluateReply, World
<1>2. control.stopped => FallsBack(op, "evaluate")
  <2>1. control.stopped => Fail
    BY DEF EvaluateReply, GateHolds
  <2> QED BY <1>1, <2>1, FailMoves
<1> QED BY <1>1, <1>2, StopsOn

LEMMA ReadStepsStop ==
  ASSUME Typed, StopsFit, LookAtMarker \/ ReadChat \/ TakeGate \/ Recover \/ Look \/ Claim \/ SeeSent \/ ClaimCard
  PROVE  StopsFit'
<1>1. control' = control /\ commands' = commands
  BY DEF LookAtMarker, ReadChat, TakeGate, Recover, Look, Claim, SeeSent, ClaimCard, durable, World
<1>2. ASSUME NEW a, Working(a), Goes(op), Place' \notin {"consume", "stop-clear", "stop-proven"},
             op.cmd \in Gated3 =>
               /\ Place' \notin Early
               /\ Place' \in Late => a \in Late /\ Place' # "send-card" /\ op'.cp = op.cp
      PROVE  StopsFit'
  BY <1>1, <1>2, StopsKept DEF Goes, Fixed, Late
<1>3. CASE LookAtMarker
  <2>1. Working("look-at-marker") /\ Goes(op) /\ LookAtMarkerDoes
    BY <1>3, LookAtMarkerMoves
  <2>2. Place' \in {"end", "activate", "clear", "clearPending", "put"} \/ FallsBack(op, "look-at-marker")
    BY <2>1 DEF LookAtMarkerDoes
  <2>3. CASE FallsBack(op, "look-at-marker")
    BY <1>1, <2>1, <2>3, StopsOn
  <2>4. CASE Place' \in {"end", "activate", "clear", "clearPending", "put"}
    BY <1>2, <2>1, <2>4 DEF Early, Late
  <2> QED BY <2>2, <2>3, <2>4
<1>4. CASE ReadChat
  <2>1. Working("read") /\ Goes(op) /\ op'.cp = op.cp /\ ReadChatDoes
    BY <1>4, ReadChatMoves
  <2>2. CASE FallsBack(op, "read")
    BY <1>1, <2>1, <2>2, StopsOn
  <2>3. CASE Place' = "evaluate"
    BY <1>2, <2>1, <2>3 DEF Early, Late
  <2> QED BY <2>1, <2>2, <2>3 DEF ReadChatDoes
<1>5. CASE TakeGate
  <2>1. Working("gate") /\ Goes(op) /\ TakeGateDoes
    BY <1>5, TakeGateMoves
  <2>2. Place' \in {"end", "read"} /\ op.cmd \notin Gated3
    BY <2>1 DEF TakeGateDoes, Gated3
  <2> QED BY <1>2, <2>1, <2>2
<1>6. CASE Recover
  <2>1. Working("recover") /\ RecoverDoes
    BY <1>6, RecoverMoves
  <2>2. CASE op' = op
    BY <1>1, <2>2, SameStops
  <2>3. CASE Onwards(op, "recover")
    BY <1>1, <2>1, <2>3, StopsOn
  <2> QED BY <2>1, <2>2, <2>3 DEF RecoverDoes
<1>7. CASE Look
  <2>1. Working("look") /\ Goes(op) /\ LookDoes
    BY <1>7, LookMoves
  <2>2. CASE FallsBack(op, "look")
    BY <1>1, <2>1, <2>2, StopsOn
  <2>3. CASE Follows(op.cmd, op.cp, "look", Place')
    <3>1. Place' \in {"send-card", "claim", "put-intent"} /\ op.cmd \notin Gated3
      BY <2>3 DEF Follows, Gated3
    <3> QED BY <1>2, <2>1, <3>1
  <2> QED BY <2>1, <2>2, <2>3 DEF LookDoes
<1>8. CASE Claim
  <2>1. Working("claim") /\ Goes(op) /\ ClaimDoes
    BY <1>8, ClaimMoves
  <2>2. CASE FallsBack(op, "claim")
    BY <1>1, <2>1, <2>2, StopsOn
  <2>3. CASE Place' = "put"
    BY <1>2, <2>1, <2>3 DEF Early, Late
  <2> QED BY <2>1, <2>2, <2>3 DEF ClaimDoes
<1>9. CASE SeeSent
  <2>1. Working("see-sent") /\ Goes(op) /\ SeeSentDoes
    BY <1>9, SeeSentMoves
  <2>2. CASE FallsBack(op, "see-sent")
    BY <1>1, <2>1, <2>2, StopsOn
  <2>3. CASE Place' = "verified"
    BY <1>2, <2>1, <2>3 DEF Early, Late
  <2> QED BY <2>1, <2>2, <2>3 DEF SeeSentDoes
<1>10. CASE ClaimCard
  <2>1. Working("card-intent") /\ Goes(op) /\ ClaimCardDoes
    BY <1>10, ClaimCardMoves
  <2>2. CASE Onwards(op, "card-intent")
    BY <1>1, <2>1, <2>2, StopsOn
  <2>3. CASE Place' \in {"consume-trigger", "end"}
    BY <1>2, <2>1, <2>3 DEF Early, Late
  <2> QED BY <2>1, <2>2, <2>3 DEF ClaimCardDoes
<1> QED BY <1>3, <1>4, <1>5, <1>6, <1>7, <1>8, <1>9, <1>10

LEMMA StepsStop == ASSUME Typed, StopsFit, Steps \/ StepFails PROVE StopsFit'
<1>1. CASE StepFails
  <2>1. control' = control /\ commands' = commands
    BY <1>1 DEF StepFails, durable, World
  <2> QED BY <1>1, <2>1, StepFailsTyped, StopsOn
<1>2. CASE Steps
  <2>1. \/ ReadControl \/ ConsumeControl \/ StopProven \/ Activate \/ PressMarker \/ EvaluateReply \/ ApartStep
        \/ LookAtMarker \/ ReadChat \/ TakeGate \/ Recover \/ Look \/ Claim \/ SeeSent \/ ClaimCard
        \/ ConsumeTrigger
    BY <1>2 DEF Steps, ApartStep
  <2>2. CASE ConsumeTrigger
    <3>1. Working("consume-trigger") /\ ConsumeTriggerDoes
      BY <2>2, ConsumeTriggerMoves
    <3>2. control' = control /\ commands' = commands /\ (Onwards(op, "consume-trigger") \/ FallsBack(op, "consume-trigger"))
      BY <2>2, <3>1 DEF ConsumeTrigger, ConsumeTriggerDoes, World
    <3> QED BY <3>1, <3>2, StopsOn
  <2> QED BY <2>1, <2>2, ReadControlStops, ConsumeStops, StopProvenStops, ActivateStops, PressMarkerStops,
             EvaluateStops, ReadStepsStop, ApartStops
<1> QED BY <1>1, <1>2

LEMMA NextStops == ASSUME Typed, StopsFit, [Next]_vars PROVE StopsFit'
<1>1. CASE Steps \/ StepFails
  BY <1>1, StepsStop
<1>2. CASE Begin
  BY <1>2, BeginStops
<1>3. CASE Return
  BY <1>3, ReturnMoves, IdleStops DEF ReturnDoes, durable, World
<1>4. CASE Calls
  BY <1>4, CallsMoves, SameStops DEF CallsDo, durable, World
<1>5. CASE \E c \in budget.commands : OwnerCommands(c)
  BY <1>5, OwnerCommandsStops
<1>6. CASE WorldSteps /\ ~\E c \in budget.commands : OwnerCommands(c)
  <2>1. Outside
    BY <1>6, WorldStepsTyped
  <2>2. commands' = commands
    BY <1>6 DEF WorldSteps, ClientTypes, ClientPresses, ContactWrites, OwnerTypes, OwnerPresses, OrphanLands
  <2> QED BY <2>1, <2>2, SameStops DEF Outside, durable
<1>7. CASE \E kind \in budget.hosts : Restart(kind)
  BY <1>7, RestartMoves, IdleStops DEF RestartDoes, durable
<1>8. CASE UNCHANGED vars
  BY <1>8, SameStops DEF vars, durable
<1> QED BY <1>1, <1>2, <1>3, <1>4, <1>5, <1>6, <1>7, <1>8 DEF Next, WorldSteps

(***************************************************************************)
(* What is sent was settled.                                                *)
(***************************************************************************)
LEMMA SendingSettled ==
  ASSUME Typed, StopsFit, NEW a, Sends(a), NEW kind, NEW what
  PROVE  Settled(Sending(kind, what).heard)
<1> DEFINE all == SuffixOf(commands, Len(commands))
           b == SuffixOf(commands, op.began)
<1>1. /\ Working(a) /\ op.cmd \in Gated3 /\ a \in Late /\ Place = a /\ op \in OpTypes
      /\ (a = "press" /\ Bound(op.cp)) \/ a = "send-card"
  BY DEF Sends, Working, Gated3, Late
<1>2. ControlFit(control, commands) /\ OpFit(control, commands, op, a)
  BY <1>1, StopsAre
<1>3. ~control.stopped
  BY <1>1, <1>2 DEF OpFit, ReplyFit, Bound, GateHolds
<1>4. Settled(SubSeq(all, 1, control.seen)) /\ control.seen <= Len(all)
  BY <1>2, <1>3 DEF ControlFit
<1>5. CASE op.cp.kind = "ui-observed"
  <2>1. control.seen = Len(b)
    BY <1>1, <1>2, <1>5 DEF OpFit, ReplyFit
  <2>2. commands \in Seq(Orders) /\ control.seen \in Nat /\ op.began \in 0 .. Len(commands)
    <3>1. op.began <= Len(commands) /\ op.began \in Nat
      BY <1>1, <1>2 DEF OpFit, OpTypes, Working
    <3> QED BY <3>1, TypedParts DEF ControlTypes
  <2>3. /\ all \in Seq(Orders) /\ Len(b) \in Nat /\ Len(b) <= Len(all)
        /\ \A i \in 1 .. Len(b) : b[i] = all[i]
    <3>1. 0 \in Nat /\ 0 <= Len(b)
      BY <2>1, <2>2
    <3> QED BY <2>2, <3>1, HeardPart
  <2>4. b \in Seq(Orders)
    BY <2>2, SuffixFacts
  <2>5. Sending(kind, what).heard = b
    BY <1>5, UnseenIs DEF Sending, Heard
  <2> HIDE DEF all, b
  <2>6. b = SubSeq(all, 1, control.seen)
    BY <2>1, <2>3, <2>4
  <2> QED BY <1>4, <2>5, <2>6
<1>6. CASE op.cp.kind # "ui-observed"
  <2>1. Sending(kind, what).heard = SubSeq(all, 1, control.seen)
    BY <1>6, UnseenIs DEF Sending, Heard
  <2> QED BY <1>4, <2>1
<1> QED BY <1>5, <1>6

LEMMA PressesStaySettled ==
  ASSUME Typed, StopsFit, PressesSettled, PressCase
  PROVE  PressesSettled'
<1>1. ASSUME NEW p, Sent(p) PROVE Settled(p.heard)
  <2>1. ASSUME NEW kind, NEW what PROVE Settled(Unasked(kind, what).heard)
    BY DEF Settled, Unasked
  <2>2. orphan # None => Settled(orphan.heard)
    BY DEF PressesSettled
  <2> QED BY <1>1, <2>1, <2>2, SendingSettled DEF Sent
<1>2. \A i \in 1 .. Len(presses') : Settled(presses'[i].heard)
  <2>1. CASE presses' = presses
    BY <2>1 DEF PressesSettled
  <2>2. CASE \E p \in PressTypes : Sent(p) /\ presses' = Append(presses, p)
    <3>1. PICK p \in PressTypes : Sent(p) /\ presses' = Append(presses, p)
      BY <2>2
    <3>2. \A i \in 1 .. Len(presses') : (i \in 1 .. Len(presses) /\ presses'[i] = presses[i]) \/ presses'[i] = p
      BY <3>1, PressesAfter
    <3> QED BY <1>1, <3>1, <3>2 DEF PressesSettled
  <2> QED BY <2>1, <2>2 DEF PressCase
<1>3. orphan' # None => Settled(orphan'.heard)
  BY <1>1 DEF PressCase, PressesSettled
<1> QED BY <1>2, <1>3 DEF PressesSettled, Settled

(***************************************************************************)
(* The runtime, in every reachable state.                                    *)
(***************************************************************************)
RuntimeInv == Typed /\ AnswersFit /\ StopsFit /\ PressesAsked /\ PressesSettled

LEMMA InvStarts == ASSUME LiveAssumption, Init PROVE RuntimeInv
BY InitTyped, InitRest DEF RuntimeInv

LEMMA InvSteps == ASSUME RuntimeInv, [Next]_vars PROVE RuntimeInv'
<1>1. Typed /\ AnswersFit /\ StopsFit /\ PressesAsked /\ PressesSettled
  BY DEF RuntimeInv
<1>2. Typed' /\ AnswersFit' /\ StopsFit'
  BY <1>1, NextTyped, NextAnswers, NextStops
<1>3. PressCase
  BY <1>1, <1>2, PressCases
<1>4. PressesAsked' /\ PressesSettled'
  BY <1>1, <1>3, PressesStayAsked, PressesStaySettled
<1> QED BY <1>2, <1>4 DEF RuntimeInv

(* The live runtime is always in order: its stores, session, proofs and the   *)
(* operation under way have their types and places, what an answer answers,   *)
(* what was heard and what was sent fit together.                          *)
THEOREM RuntimeIsSound == Spec => []RuntimeInv
<1>1. Init => RuntimeInv
  BY LiveAssumption, InvStarts
<1>2. RuntimeInv /\ [Next]_vars => RuntimeInv'
  BY InvSteps
<1> QED BY <1>1, <1>2, PTL DEF Spec

(* A reply, and the card of a request, is sent only to the chat its client    *)
(* saw: NothingSlipsIn, whatever is read, evaluated, cut off or repeated.     *)
THEOREM NothingEverSlipsIn == Spec => []NothingSlipsIn
<1>1. RuntimeInv => NothingSlipsIn
  <2> SUFFICES ASSUME Typed, PressesAsked PROVE NothingSlipsIn
    BY DEF RuntimeInv
  <2>1. DOMAIN presses = 1 .. Len(presses)
    BY TypedParts
  <2> QED BY <2>1 DEF NothingSlipsIn, PressesAsked, Asked, Range
<1> QED BY <1>1, RuntimeIsSound, PTL

(* No reply and no requested card goes out over a stop of the control chat:  *)
(* StopIsHonoured, for any commands of the owner, at any moment.            *)
THEOREM StopIsAlwaysHonoured == Spec => []StopIsHonoured
<1>1. RuntimeInv => StopIsHonoured
  <2> SUFFICES ASSUME Typed, PressesSettled, NEW p, p \in Range(presses),
                      NEW j, j \in DOMAIN p.heard, p.heard[j] = "stop"
               PROVE  \E k \in DOMAIN p.heard : k > j /\ p.heard[k] = "resume"
    BY DEF RuntimeInv, StopIsHonoured
  <2>1. presses \in Seq(PressTypes)
    BY TypedParts
  <2>2. PICK i \in 1 .. Len(presses) : p = presses[i]
    BY <2>1 DEF Range
  <2>3. p.heard \in Seq(Orders)
    <3>1. p \in PressTypes
      BY <2>1, <2>2
    <3> QED BY <3>1 DEF PressTypes
  <2>4. DOMAIN p.heard = 1 .. Len(p.heard) /\ Settled(p.heard)
    BY <2>2, <2>3 DEF PressesSettled
  <2> QED BY <2>4 DEF Settled
<1> QED BY <1>1, RuntimeIsSound, PTL

(***************************************************************************)
(* What may still be sent.  A reply is clean while neither a press, nor a    *)
(* key press under way, nor the client of the tools has used it.            *)
(***************************************************************************)
Pressed(kind, x) == \E i \in 1 .. Len(presses) : presses[i].kind = kind /\ presses[i].what = x
Unpressed(x) == ~Pressed("reply", x) /\ ~(orphan # None /\ orphan.what = x)
Using(x) == client.stage \in {"verified", "pressed"} /\ client.text = x
Clean(x) == Unpressed(x) /\ ~Using(x)
TargetPending == pending # None /\ pending.conv = "target"
PendingOf(o) == TargetPending /\ pending.token = o.token /\ pending.text = o.text
IntentOf(o) == intent # None /\ intent.token = o.token /\ intent.text = o.text

(* A text without a claim is clean, and so is what a draft not yet verified,  *)
(* a prepared send not yet consumed or an abort intent is about.             *)
ClaimsFit ==
  \A x \in Replies : outgoing[x] = "none" => Clean(x) /\ (TargetPending /\ pending.text = x => intent # None)
DraftFits == TargetPending /\ ~pending.verified => Clean(pending.text)
PreparedFits ==
  \A p \in host.prepared :
    /\ p.token \in Nat /\ p.token # client.token
    /\ pending # None /\ pending.token = p.token =>
         pending.conv = "target" /\ (p.token \notin host.consumed => Clean(pending.text))
IntentFits ==
  intent # None =>
    /\ Clean(intent.text)
    /\ pending # None => PendingOf(intent) /\ ~pending.verified
    /\ client.token # None /\ client.token = intent.token => client.text = intent.text
ClientFits ==
  /\ client.token # None \/ client.stage # "none" => client.text \in Replies
  /\ pending # None /\ pending.token = client.token =>
       /\ pending.conv = "target" /\ client.text = pending.text /\ client.text \in Replies
       /\ Using(client.text) \/ Unpressed(client.text)
  /\ Using(client.text) /\ composer["target"] = client.text => Unpressed(client.text)
OrphanFits ==
  orphan # None => orphan.kind = "reply" /\ ~Pressed("reply", orphan.what) /\ ~Using(orphan.what)
RepliesFit == ClaimsFit /\ DraftFits /\ PreparedFits /\ IntentFits /\ ClientFits /\ OrphanFits

(* The tokens in use are those that have been spent; a call of the client's   *)
(* is about the draft it works on.                                          *)
InUseTokens ==
  {None, client.token, session.token} \union {w.token : w \in Range(waiting)} \union {p.token : p \in host.prepared}
FromClient(w) == w.cmd = "abort-draft" \/ (w.cmd = "verify-draft" /\ host.kind = "tools")
TokensFit == \A t \in InUseTokens : t # None => t > budget.tokens
WaitingFits ==
  \A w \in Range(waiting) :
    /\ w.cmd \in {"prepare", "prepare-draft"} => w.text \in Replies /\ w.token = None
    /\ FromClient(w) /\ pending # None /\ pending.token = w.token =>
         client.token = w.token /\ w.text = client.text
    /\ w.cmd = "abort-draft" /\ intent # None /\ intent.token = w.token => w.text = intent.text

(* What each step of an operation on a reply may rely on.                    *)
Before == {"bound", "control", "consume", "stop-clear", "stop-proven", "read", "evaluate"}
Drafts == {"prepare", "prepare-draft"}
DraftStep(o, p) ==
  /\ p \in Before \union {"look", "claim"} => pending = None /\ intent = None
  /\ p = "put" => Clean(o.text) /\ outgoing[o.text] # "none"
  /\ p \in {"put", "type"} \/ (p = "end" /\ ~o.failed) => o.token \in Nat /\ o.token > budget.tokens
  /\ p = "type" \/ (o.cmd = "prepare-draft" /\ p = "end" /\ ~o.failed) =>
       PendingOf(o) /\ ~pending.verified /\ intent = None
  /\ o.cmd = "prepare-draft" /\ p = "end" /\ ~o.failed => o.token \notin InUseTokens
  /\ p \in {"clear", "proven", "clearPending", "release"} => o.failed
SubmitStep(o, p) ==
  /\ p \in Before \union {"press"} =>
       /\ PendingOf(o) /\ pending.verified /\ Clean(o.text)
       /\ o.token \in host.consumed /\ o.token # client.token
  /\ p \notin Before \union {"press", "end"} => o.failed
VerifyStep(o, p) ==
  p = "verify-draft" \/ (p = "end" /\ ~o.failed) =>
    /\ intent = None
    /\ p = "end" => pending # None /\ pending.verified
    /\ host.kind = "tools" => pending # None /\ pending.token = o.token /\ client.token = o.token
AbortStep(o, p) ==
  /\ p \in {"look", "put-intent"} => IntentOf(o) \/ (intent = None /\ PendingOf(o) /\ ~pending.verified)
  /\ p = "clear-intent" \/ (p = "end" /\ ~o.failed) => pending = None
AnyStep(o, p) ==
  /\ o.cmd \in Drafts => o.text \in Replies
  /\ p \in {"put", "type"} => o.token \notin InUseTokens
  /\ p = "look-at-marker" => control.active \/ intent = None
  /\ p \in {"put", "type", "verify-draft"} => intent = None
  /\ p = "put" => pending = None
  /\ p \in {"clear", "proven", "clearPending"} /\ o.cmd \in {"prepare", "abort", "submit"} => Clean(o.text)
  /\ p = "release" => Clean(o.text) /\ (pending = None \/ intent # None)
  /\ o.cmd = "verify-send" /\ p = "end" /\ ~o.failed => pending = None
StepFits(o, p) ==
  /\ AnyStep(o, p)
  /\ o.cmd \in Drafts => DraftStep(o, p)
  /\ o.cmd = "submit" => SubmitStep(o, p)
  /\ o.cmd = "verify-draft" => VerifyStep(o, p)
  /\ o.cmd = "abort-draft" => AbortStep(o, p)

(* A marker in the chat is not sent again, and a card has its entry in the    *)
(* ledger before it is sent.                                                *)
MarkersFit ==
  /\ Pressed("marker", Marker) => Bounded
  /\ op.cmd = "establish" /\ Place \in {"put", "type", "verify-draft", "press-marker"} => ~Pressed("marker", Marker)
WakeFits(o) == o.tp # None /\ o.tp.wake => o.tp.trigger.msg \in Wakes
Carding == Before \union {"look", "send-card"}
CardsFit ==
  /\ \A o \in Doing \union {session} : WakeFits(o)
  /\ \A k \in Wakes \union {Acceptance} : ledger[k] = "none" => ~Pressed("card", k)
  /\ op.cmd = "show-card" /\ Place # "end" => op.tp.wake
  /\ op.cmd \in {"show-card", "accept-card"} /\ Place \in Carding =>
       ledger[CardKey] # "none" /\ ~Pressed("card", CardKey)

OpStep == Busy => StepFits(op, Place)

(***************************************************************************)
(* Where a step of an operation comes from.                                 *)
(***************************************************************************)
Moves(a) ==
  /\ Working(a) /\ op' \in OpTypes /\ op'.cmd = op.cmd /\ op'.text = op.text /\ op'.token = op.token
  /\ \/ op'.failed = op.failed /\ Follows(op.cmd, op.cp, a, Place') /\ (a = "stop-proven" => op.cmd \notin Gated3)
     \/ op'.failed /\ Recovers(op.cmd, op.failed, a, Place')
     \/ a \in {"control", "consume"} /\ Place' = "stop-clear"
     \/ a = "card-intent" /\ op.cmd \in {"show-card", "accept-card"} /\ Place' \in {"consume-trigger", "end"}
     \/ a = "gate" /\ op.cmd = "read-direct" /\ Place' \in {"read", "end"}
Back(a) ==
  /\ Working(a) /\ op' \in OpTypes /\ op'.cmd = op.cmd /\ op'.text = op.text /\ op'.token = op.token
  /\ op'.failed /\ Recovers(op.cmd, op.failed, a, Place')
Eventful ==   \* the places whose step may change what the others rely on
  {"claim", "put", "type", "verify-draft", "press", "clearPending", "clear-if-present", "release",
   "put-intent", "clear-intent", "look-at-marker"}

LEMMA MovesOn == ASSUME NEW a, Working(a), a # "stop-proven", Onwards(op, a) \/ FallsBack(op, a) PROVE Moves(a)
BY DEF Moves, Onwards, FallsBack, Alike

LEMMA MovesBack == ASSUME NEW a, Working(a), FallsBack(op, a) PROVE Moves(a) /\ Back(a)
BY DEF Moves, Back, FallsBack, Alike

LEMMA BackMoves == ASSUME NEW a, Back(a) PROVE Moves(a)
BY DEF Moves, Back

LEMMA SomePlace == ASSUME NEW a, Working(a) PROVE a \in Places /\ a # "end"
<1>1. op.todo # <<>> /\ op.todo \in Seq(Places) /\ Head(op.todo) = a
  BY DEF Working
<1>2. a \in Places
  BY <1>1
<1> QED BY <1>2 DEF Places

LEMMA QuietPlaces ==
  ASSUME NEW a, Moves(a), a \notin Eventful \/ Back(a)
  PROVE  /\ Place' \notin {"claim", "put", "type", "verify-draft", "look-at-marker", "clear-intent"} \/ (Place' = "claim" /\ a \in {"evaluate", "look"} /\ op.cmd \in Drafts)
         /\ Place' = "release" => a = "put" /\ op.cmd \in Drafts
         /\ op.cmd \in Drafts \union {"verify-draft", "abort-draft", "verify-send"} /\ Place' = "end" => op'.failed
         /\ op.cmd \in Drafts /\ Place' \in Before \union {"look", "claim"} => a \in Before \union {"look", "claim"}
         /\ op.cmd \in {"prepare", "abort", "submit"} /\ Place' \in {"clear", "proven", "clearPending"} =>
              \/ a \in {"clear", "proven"} 
              \/ op.cmd = "prepare" /\ a = "type"
              \/ op.cmd = "submit" /\ ~op.failed /\ a # "press" 
         /\ op.cmd = "submit" => /\ Place' \in Before \union {"press"} => a \in Before
                                 /\ Place' \notin Before \union {"press", "end"} /\ ~op'.failed => a \notin Before \union {"press"}
         /\ op.cmd = "abort-draft" => (Place' \in {"look", "put-intent"} => a = "look")
         /\ op.cmd \in Drafts /\ Place' \in {"clear", "proven", "clearPending", "release"} /\ ~op'.failed =>
              a \in {"clear", "proven", "clearPending", "release"} /\ op'.failed = op.failed
<1> QED BY DEF Moves, Back, Follows, Recovers, Eventful, Before, Drafts, Gated3

(***************************************************************************)
(* What a step leaves as it is.                                             *)
(***************************************************************************)
Kept ==   \* what the steps of an operation rely on
  /\ UNCHANGED <<pending, intent>> /\ client'.token = client.token
  /\ \A x \in Replies : outgoing'[x] = "none" => outgoing[x] = "none"
  /\ host'.kind = host.kind /\ host.consumed \subseteq host'.consumed /\ budget'.tokens = budget.tokens
  /\ InUseTokens' \subseteq InUseTokens
  /\ \A x : Clean(x) => Clean(x)'

(* The operation stands still.                                              *)
LEMMA StandsStill ==
  ASSUME OpStep, op' = op, Kept, control' = control
  PROVE  OpStep'
<1> SUFFICES ASSUME Busy' PROVE StepFits(op, Place)'
  BY DEF OpStep
<1>1. Busy /\ StepFits(op, Place) /\ Place' = Place
  BY DEF Busy, OpStep, Place
<1> DEFINE o == op
           p == Place
<1>2. /\ AnyStep(o, p) /\ (o.cmd \in Drafts => DraftStep(o, p)) /\ (o.cmd = "submit" => SubmitStep(o, p))
      /\ (o.cmd = "verify-draft" => VerifyStep(o, p)) /\ (o.cmd = "abort-draft" => AbortStep(o, p))
  BY <1>1 DEF StepFits
<1>3. o' = o /\ p' = p
  BY <1>1
<1> HIDE DEF o, p
<1>4. PendingOf(o)' <=> PendingOf(o)
  BY <1>3 DEF PendingOf, TargetPending, Kept
<1>5. IntentOf(o)' <=> IntentOf(o)
  BY <1>3 DEF IntentOf, Kept
<1>6. AnyStep(o, p)'
  BY <1>2, <1>3 DEF AnyStep, Kept
<1>7. o.cmd \in Drafts => DraftStep(o, p)'
  BY <1>2, <1>3, <1>4 DEF DraftStep, AnyStep, Kept
<1>8. o.cmd = "submit" => SubmitStep(o, p)'
  BY <1>2, <1>3, <1>4 DEF SubmitStep, Kept
<1>9. o.cmd = "verify-draft" => VerifyStep(o, p)'
  BY <1>2, <1>3 DEF VerifyStep, Kept
<1>10. o.cmd = "abort-draft" => AbortStep(o, p)'
  BY <1>2, <1>3, <1>4, <1>5 DEF AbortStep, Kept
<1> QED BY <1>3, <1>6, <1>7, <1>8, <1>9, <1>10 DEF StepFits, o, p

(* The operation goes on, and nothing it relies on has changed.              *)
LEMMA StepsQuietly ==
  ASSUME OpStep, DraftFits, NEW a, Moves(a), a \notin Eventful \/ Back(a), Kept
  PROVE  OpStep'
<1>1. StepFits(op, a) /\ op'.cmd = op.cmd /\ op'.text = op.text /\ op'.token = op.token
  BY DEF OpStep, Moves, Working, Busy
<1>2. a # "end"
  BY SomePlace DEF Moves
<1>3. /\ AnyStep(op, a) /\ (op.cmd \in Drafts => DraftStep(op, a)) /\ (op.cmd = "submit" => SubmitStep(op, a))
      /\ (op.cmd = "abort-draft" => AbortStep(op, a))
  BY <1>1 DEF StepFits
<1>4. PendingOf(op)' <=> PendingOf(op)
  BY <1>1 DEF PendingOf, TargetPending, Kept
<1>5. IntentOf(op)' <=> IntentOf(op)
  BY <1>1 DEF IntentOf, Kept
<1>6. AnyStep(op, Place)'
  <2>1. Place' \in {"clear", "proven", "clearPending"} /\ op.cmd \in {"prepare", "abort", "submit"} => Clean(op.text)
    <3>1. op.cmd = "prepare" /\ a = "type" => Clean(op.text)
      BY <1>3 DEF DraftStep, Drafts, DraftFits, PendingOf
    <3>2. op.cmd = "submit" /\ ~op.failed /\ a # "press" => Clean(op.text)
      BY <1>2, <1>3 DEF SubmitStep
    <3> QED BY <1>3, <3>1, <3>2, QuietPlaces DEF AnyStep
  <2>2. Place' = "release" => Clean(op.text) /\ pending = None
    BY <1>3, QuietPlaces DEF AnyStep, DraftStep
  <2>3. /\ Place' \notin {"put", "type", "look-at-marker", "verify-draft"}
        /\ op.cmd = "verify-send" /\ Place' = "end" => op'.failed
    BY QuietPlaces
  <2>4. op.cmd \in Drafts => op.text \in Replies
    BY <1>3 DEF AnyStep
  <2> QED BY <1>1, <2>1, <2>2, <2>3, <2>4 DEF AnyStep, Kept
<1>7. op.cmd \in Drafts => DraftStep(op, Place)'
  <2>1. ASSUME op.cmd \in Drafts
        PROVE  /\ Place' \notin {"put", "type"} /\ (Place' = "end" => op'.failed)
               /\ Place' \in {"clear", "proven", "clearPending", "release"} => op'.failed
               /\ Place' \in Before \union {"look", "claim"} => pending = None /\ intent = None
    BY <1>3, <2>1, QuietPlaces DEF DraftStep
  <2> QED BY <1>1, <2>1 DEF DraftStep, Kept
<1>8. op.cmd = "submit" => SubmitStep(op, Place)'
  <2>1. ASSUME op.cmd = "submit"
        PROVE  /\ Place' \in Before \union {"press"} => a \in Before
               /\ Place' \notin Before \union {"press", "end"} => op'.failed
    <3>1. op'.failed = op.failed \/ op'.failed \/ Place' = "stop-clear"
      BY <2>1 DEF Moves
    <3> QED BY <1>2, <1>3, <2>1, <3>1, QuietPlaces DEF SubmitStep, Before
  <2> QED BY <1>1, <1>3, <1>4, <2>1 DEF SubmitStep, Kept
<1>9. op.cmd = "verify-draft" => VerifyStep(op, Place)'
  BY <1>1, QuietPlaces DEF VerifyStep
<1>10. op.cmd = "abort-draft" => AbortStep(op, Place)'
  <2>1. ASSUME op.cmd = "abort-draft"
        PROVE  /\ Place' \in {"look", "put-intent"} => a = "look"
               /\ Place' # "clear-intent" /\ (Place' = "end" => op'.failed)
    BY <2>1, QuietPlaces
  <2> QED BY <1>1, <1>3, <1>4, <1>5, <2>1 DEF AbortStep, Kept
<1> QED BY <1>1, <1>6, <1>7, <1>8, <1>9, <1>10 DEF OpStep, StepFits

(* What has been claimed and said of the replies, when a step claims no less, *)
(* prepares no more and presses no reply.                                   *)
Still ==
  /\ pending' \in {pending, None} /\ UNCHANGED <<intent, client, orphan>>
  /\ host'.prepared \subseteq host.prepared /\ host.consumed \subseteq host'.consumed
  /\ \A x : Pressed("reply", x)' <=> Pressed("reply", x)
  /\ composer'["target"] \in {composer["target"], Empty, Own}
Calm == Still /\ \A x \in Replies : outgoing'[x] = "none" => outgoing[x] = "none"

LEMMA StillClean ==
  ASSUME Still, NEW x
  PROVE  (Clean(x)' <=> Clean(x)) /\ (Unpressed(x)' <=> Unpressed(x)) /\ (Using(x)' <=> Using(x))
<1>1. Pressed("reply", x)' <=> Pressed("reply", x)
  BY DEF Still
<1>2. orphan' = orphan /\ client' = client
  BY DEF Still
<1>3. (Unpressed(x)' <=> Unpressed(x)) /\ (Using(x)' <=> Using(x))
  BY <1>1, <1>2 DEF Unpressed, Using
<1> QED BY <1>3 DEF Clean

LEMMA StillFits ==
  ASSUME RepliesFit, Own \notin Replies, Still
  PROVE  DraftFits' /\ PreparedFits' /\ IntentFits' /\ ClientFits' /\ OrphanFits'
<1>1. /\ \A x : Clean(x)' <=> Clean(x)
      /\ \A x : Unpressed(x)' <=> Unpressed(x)
      /\ \A x : Using(x)' <=> Using(x)
  <2>1. ASSUME NEW x PROVE (Clean(x)' <=> Clean(x)) /\ (Unpressed(x)' <=> Unpressed(x)) /\ (Using(x)' <=> Using(x))
    BY StillClean
  <2> QED BY <2>1
<1>2. DraftFits'
  BY <1>1 DEF RepliesFit, DraftFits, Still, TargetPending
<1>3. PreparedFits'
  BY <1>1 DEF RepliesFit, PreparedFits, Still
<1>4. IntentFits'
  BY <1>1 DEF RepliesFit, IntentFits, Still, PendingOf, TargetPending
<1>5. ClientFits'
  <2>1. client.token # None \/ client.stage # "none" => client.text \in Replies
    BY DEF RepliesFit, ClientFits
  <2>2. Using(client.text) => client.text \notin {Empty, Own}
    BY <2>1, LiveAssumption DEF Using
  <2> QED BY <1>1, <2>1, <2>2 DEF RepliesFit, ClientFits, Still
<1>6. OrphanFits'
  BY <1>1 DEF RepliesFit, OrphanFits, Still
<1> QED BY <1>2, <1>3, <1>4, <1>5, <1>6

LEMMA RepliesKept == ASSUME RepliesFit, Own \notin Replies, Calm PROVE RepliesFit'
<1>1. DraftFits' /\ PreparedFits' /\ IntentFits' /\ ClientFits' /\ OrphanFits'
  BY StillFits DEF Calm
<1>2. \A x : Clean(x)' <=> Clean(x)
  <2>1. ASSUME NEW x PROVE Clean(x)' <=> Clean(x)
    BY StillClean DEF Calm
  <2> QED BY <2>1
<1>3. ClaimsFit'
  BY <1>2 DEF RepliesFit, ClaimsFit, Calm, Still, TargetPending
<1> QED BY <1>1, <1>3 DEF RepliesFit

LEMMA SamePresses ==
  ASSUME presses' = presses
  PROVE  \A kind, x : Pressed(kind, x)' <=> Pressed(kind, x)
BY DEF Pressed

LEMMA MorePressed ==
  ASSUME Typed, NEW p, p \in PressTypes, presses' = Append(presses, p)
  PROVE  \A kind, x : Pressed(kind, x)' <=> Pressed(kind, x) \/ (p.kind = kind /\ p.what = x)
<1>1. presses \in Seq(PressTypes) /\ Len(presses') = Len(presses) + 1 /\ Len(presses) \in Nat
  BY TypedParts, PressesAfter
<1>2. \A i \in 1 .. Len(presses) : i \in 1 .. Len(presses') /\ presses'[i] = presses[i]
  BY <1>1
<1>3. Len(presses') \in 1 .. Len(presses') /\ presses'[Len(presses')] = p
  BY <1>1
<1>4. \A i \in 1 .. Len(presses') : (i \in 1 .. Len(presses) /\ presses'[i] = presses[i]) \/ presses'[i] = p
  BY PressesAfter
<1> QED BY <1>2, <1>3, <1>4 DEF Pressed

(* Nothing is sent twice, as long as what is sent has not been.               *)
LEMMA SentOnceKept ==
  ASSUME Typed, SentOnce,
         presses' = presses \/ \E p \in PressTypes : presses' = Append(presses, p) /\ ~Pressed(p.kind, p.what)
  PROVE  SentOnce'
<1>1. CASE presses' = presses
  BY <1>1 DEF SentOnce
<1>2. ASSUME NEW p \in PressTypes, presses' = Append(presses, p), ~Pressed(p.kind, p.what) PROVE SentOnce'
  <2>1. /\ \A i \in 1 .. Len(presses') : (i \in 1 .. Len(presses) /\ presses'[i] = presses[i]) \/ (i = Len(presses) + 1 /\ presses'[i] = p)
        /\ presses' \in Seq(PressTypes) /\ presses \in Seq(PressTypes)
    BY <1>2, TypedParts
  <2>2. DOMAIN presses' = 1 .. Len(presses') /\ DOMAIN presses = 1 .. Len(presses)
    BY <2>1
  <2>3. \A i \in 1 .. Len(presses) : ~(presses[i].kind = p.kind /\ presses[i].what = p.what)
    BY <1>2 DEF Pressed
  <2> SUFFICES ASSUME NEW i \in 1 .. Len(presses'), NEW j \in 1 .. Len(presses'),
                      presses'[i].kind = presses'[j].kind, presses'[i].what = presses'[j].what
               PROVE  i = j
    BY <2>2 DEF SentOnce
  <2>4. CASE i \in 1 .. Len(presses) /\ j \in 1 .. Len(presses)
    <3>1. presses'[i] = presses[i] /\ presses'[j] = presses[j]
      BY <1>2, <2>1, <2>4
    <3> QED BY <2>2, <2>4, <3>1 DEF SentOnce
  <2>5. CASE i \notin 1 .. Len(presses) \/ j \notin 1 .. Len(presses)
    BY <2>1, <2>3, <2>5
  <2> QED BY <2>4, <2>5
<1> QED BY <1>1, <1>2

(***************************************************************************)
(* The steps that only move the operation on.                               *)
(***************************************************************************)
Sendings == RepliesFit /\ TokensFit /\ WaitingFits /\ OpStep
Unmoved ==
  /\ Calm /\ pending' = pending /\ UNCHANGED <<waiting, session>>
  /\ host'.kind = host.kind /\ budget'.tokens = budget.tokens

LEMMA UnmovedKeeps ==
  ASSUME RepliesFit, TokensFit, WaitingFits, Own \notin Replies, Unmoved
  PROVE  RepliesFit' /\ TokensFit' /\ WaitingFits' /\ Kept
<1>1. RepliesFit'
  BY RepliesKept DEF Unmoved
<1>2. InUseTokens' \subseteq InUseTokens
  BY DEF InUseTokens, Unmoved, Calm, Still
<1>3. TokensFit'
  BY <1>2 DEF TokensFit, Unmoved
<1>4. WaitingFits'
  BY DEF WaitingFits, FromClient, Unmoved, Calm, Still
<1>5. \A x : Clean(x) => Clean(x)'
  <2>1. ASSUME NEW x PROVE Clean(x)' <=> Clean(x)
    BY StillClean DEF Unmoved, Calm, Still
  <2> QED BY <2>1
<1>6. Kept
  BY <1>2, <1>5 DEF Kept, Unmoved, Calm, Still
<1> QED BY <1>1, <1>3, <1>4, <1>6

LEMMA QuietStep ==
  ASSUME Sendings, Own \notin Replies, NEW a, Moves(a), a \notin Eventful \/ Back(a), Unmoved
  PROVE  Sendings'
BY UnmovedKeeps, StepsQuietly DEF Sendings, RepliesFit

LEMMA StandStep == ASSUME Sendings, Own \notin Replies, op' = op, control' = control, Unmoved PROVE Sendings'
BY UnmovedKeeps, StandsStill DEF Sendings

LEMMA UnmovedWhen ==
  ASSUME presses' = presses, UNCHANGED <<pending, outgoing, intent, client, orphan, waiting, session, host>>,
         budget'.tokens = budget.tokens, composer'["target"] \in {composer["target"], Empty, Own}
  PROVE  Unmoved
<1>1. \A x : Pressed("reply", x)' <=> Pressed("reply", x)
  BY SamePresses
<1> QED BY <1>1 DEF Unmoved, Calm, Still

LEMMA SpendKeeps ==
  ASSUME Typed, NEW thing \in {"in", "owner", "typed", "faults", "starts"}, Spend(thing)
  PROVE  budget'.tokens = budget.tokens
BY TypedParts DEF Spend, BudgetTypes

LEMMA AnsweredKeeps == ASSUME Typed, NEW P, Answered(P) PROVE budget'.tokens = budget.tokens
BY SpendKeeps DEF Answered, Fault

(* The operation keeps its text and its token.                               *)
LEMMA SameToken ==
  ASSUME Typed, Busy, ReadControl \/ ConsumeControl \/ ReadChat \/ SeeSent \/ TakeGate \/ ClaimCard
  PROVE  op'.token = op.token
<1>1. op \in OpTypes
  BY BusyWorks
<1>3. (Fail => op'.token = op.token) /\ (Done => op'.token = op.token)
  BY <1>1 DEF Fail, Done, Then, OpTypes
<1>4. \A P : Require(P) => op'.token = op.token
  BY <1>3 DEF Require
<1>5. CASE ReadControl
  BY <1>1, <1>3, <1>5 DEF ReadControl, Then, OpTypes
<1>6. CASE ConsumeControl
  BY <1>1, <1>4, <1>6 DEF ConsumeControl, OpTypes
<1>7. CASE ReadChat
  BY <1>1, <1>3, <1>7 DEF ReadChat, Then, OpTypes
<1>8. CASE SeeSent
  BY <1>1, <1>3, <1>8 DEF SeeSent, Then, OpTypes
<1>9. CASE TakeGate
  BY <1>1, <1>3, <1>9 DEF TakeGate, Then, OpTypes
<1>10. CASE ClaimCard
  BY <1>1, <1>3, <1>10 DEF ClaimCard, OpTypes
<1> QED BY <1>5, <1>6, <1>7, <1>8, <1>9, <1>10

QuietSteps ==
  \/ AssertBound \/ ReadControl \/ ConsumeControl \/ StopClear \/ StopProven \/ Activate \/ PressMarker
  \/ ReadChat \/ EvaluateReply \/ TakeGate \/ Look \/ SeeSent \/ ClearDraft \/ Proven
  \/ ClaimCard \/ SendCard \/ SettleCard \/ ConsumeTrigger \/ MarkVerified \/ MarkUncertain \/ StepFails

LEMMA QuietMoves ==
  ASSUME Typed, StopsFit, QuietSteps
  PROVE  \E a : Moves(a) /\ (a \notin Eventful \/ Back(a))
<1>1. ASSUME NEW a, Working(a), a # "stop-proven", a \notin Eventful, Onwards(op, a) \/ FallsBack(op, a)
      PROVE  \E b : Moves(b) /\ (b \notin Eventful \/ Back(b))
  BY <1>1, MovesOn
<1>2. CASE AssertBound
  <2>1. Working("bound")
    BY <1>2, AtWorks DEF AssertBound
  <2>2. Onwards(op, "bound") \/ FallsBack(op, "bound")
    BY <1>2, <2>1, RequireMoves DEF AssertBound
  <2> QED BY <1>1, <2>1, <2>2 DEF Eventful
<1>3. CASE Proven
  <2>1. Working("proven")
    BY <1>3, AtWorks DEF Proven
  <2>2. Onwards(op, "proven") \/ FallsBack(op, "proven")
    BY <1>3, <2>1, RequireMoves DEF Proven
  <2> QED BY <1>1, <2>1, <2>2 DEF Eventful
<1>4. CASE Activate
  <2>1. Working("activate")
    BY <1>4, AtWorks DEF Activate
  <2>2. Onwards(op, "activate")
    BY <1>4, <2>1, DoneMoves DEF Activate
  <2> QED BY <1>1, <2>1, <2>2 DEF Eventful
<1>5. CASE StopClear
  BY <1>1, <1>5, StopClearMoves DEF Eventful
<1>6. CASE PressMarker
  BY <1>1, <1>6, PressMarkerMoves DEF Eventful
<1>7. CASE EvaluateReply
  BY <1>1, <1>7, EvaluateMoves DEF Eventful
<1>8. CASE ClearDraft
  BY <1>1, <1>8, ClearDraftMoves DEF Eventful
<1>9. CASE SendCard
  BY <1>1, <1>9, SendCardMoves DEF Eventful
<1>10. CASE SettleCard
  <2>1. PICK a : Working(a) /\ SettleCardDoes(a)
    BY <1>10, SettleCardMoves
  <2> QED BY <1>1, <2>1 DEF SettleCardDoes, Eventful
<1>11. CASE ConsumeTrigger
  BY <1>1, <1>11, ConsumeTriggerMoves DEF ConsumeTriggerDoes, Eventful
<1>12. CASE MarkVerified
  BY <1>1, <1>12, MarkVerifiedMoves DEF Eventful
<1>13. CASE MarkUncertain
  BY <1>1, <1>13, MarkUncertainMoves DEF Eventful
<1>14. CASE StepFails
  BY <1>14, StepFailsTyped, MovesBack
<1>15. CASE StopProven
  <2>1. Working("stop-proven") /\ StopProvenDoes
    BY <1>15, StopProvenMoves
  <2>2. CASE FallsBack(op, "stop-proven")
    BY <2>1, <2>2, MovesBack
  <2>3. CASE Reader /\ Onwards(op, "stop-proven")
    BY <2>1, <2>3 DEF Moves, Onwards, Alike, Reader, Gated3, Eventful
  <2> QED BY <2>1, <2>2, <2>3 DEF StopProvenDoes
<1>16. ASSUME NEW a, Working(a), Goes(op), op'.token = op.token, a # "stop-proven",
              \/ op'.failed = op.failed /\ Follows(op.cmd, op.cp, a, Place')
              \/ FallsBack(op, a)
              \/ a \in {"control", "consume"} /\ Place' = "stop-clear"
              \/ a = "card-intent" /\ op.cmd \in {"show-card", "accept-card"} /\ Place' \in {"consume-trigger", "end"}
              \/ a = "gate" /\ op.cmd = "read-direct" /\ Place' \in {"read", "end"}
       PROVE  Moves(a)
  BY <1>16 DEF Moves, Goes, Fixed, FallsBack
<1>17. CASE ReadControl
  <2>1. Working("control") /\ Goes(op) /\ ReadControlDoes /\ op'.token = op.token
    BY <1>17, ReadControlMoves, SameToken DEF Working, ReadControl, At
  <2>2. Place' = "consume" => Follows(op.cmd, op.cp, "control", Place')
    <3>1. Follows(op.cmd, op.cp, "control", First(Tail(op.todo), "end"))
      BY <2>1, PathTail DEF Working, Path
    <3> QED BY <3>1 DEF Follows
  <2>3. Moves("control")
    BY <1>16, <2>1, <2>2 DEF ReadControlDoes
  <2> QED BY <2>3 DEF Eventful
<1>18. CASE ConsumeControl
  <2>1. Working("consume") /\ Goes(op) /\ ConsumeDoes /\ op'.token = op.token
    BY <1>18, ConsumeMoves, SameToken DEF Working, ConsumeControl, At
  <2>2. CASE Place' = "stop-clear"
    BY <1>16, <2>1, <2>2 DEF Eventful
  <2>3. CASE Onwards(op, "consume") \/ FallsBack(op, "consume")
    BY <1>1, <2>1, <2>3 DEF Eventful
  <2> QED BY <2>1, <2>2, <2>3 DEF ConsumeDoes
<1>19. CASE ReadChat
  <2>1. Working("read") /\ Goes(op) /\ ReadChatDoes /\ op'.token = op.token
    BY <1>19, ReadChatMoves, SameToken DEF Working, ReadChat, At
  <2>2. Place' = "evaluate" => Follows(op.cmd, op.cp, "read", Place')
    <3>1. Follows(op.cmd, op.cp, "read", First(Tail(op.todo), "end"))
      BY <2>1, PathTail DEF Working, Path
    <3> QED BY <3>1 DEF Follows
  <2>3. Moves("read")
    BY <1>16, <2>1, <2>2 DEF ReadChatDoes
  <2> QED BY <2>3 DEF Eventful
<1>20. CASE TakeGate
  <2>1. Working("gate") /\ Goes(op) /\ TakeGateDoes /\ op'.token = op.token
    BY <1>20, TakeGateMoves, SameToken DEF Working, TakeGate, At
  <2>2. Moves("gate")
    BY <1>16, <2>1 DEF TakeGateDoes
  <2> QED BY <2>2 DEF Eventful
<1>21. CASE Look
  <2>1. Working("look") /\ Goes(op) /\ LookDoes /\ op'.token = op.token
    BY <1>21, LookMoves
  <2>2. Moves("look")
    BY <1>16, <2>1 DEF LookDoes
  <2> QED BY <2>2 DEF Eventful
<1>22. CASE SeeSent
  <2>1. Working("see-sent") /\ Goes(op) /\ SeeSentDoes /\ op'.token = op.token
    BY <1>22, SeeSentMoves, SameToken DEF Working, SeeSent, At
  <2>2. Place' = "verified" => Follows(op.cmd, op.cp, "see-sent", Place')
    <3>1. Follows(op.cmd, op.cp, "see-sent", First(Tail(op.todo), "end"))
      BY <2>1, PathTail DEF Working, Path
    <3> QED BY <3>1 DEF Follows
  <2>3. Moves("see-sent")
    BY <1>16, <2>1, <2>2 DEF SeeSentDoes
  <2> QED BY <2>3 DEF Eventful
<1>23. CASE ClaimCard
  <2>1. /\ Working("card-intent") /\ Goes(op) /\ ClaimCardDoes /\ op'.token = op.token
        /\ op.cmd \in {"show-card", "accept-card"}
    BY <1>23, ClaimCardMoves, SameToken DEF Working, ClaimCard, At
  <2>2. CASE Onwards(op, "card-intent")
    BY <1>1, <2>1, <2>2 DEF Eventful
  <2>3. CASE Place' = IF op.cmd = "show-card" THEN "consume-trigger" ELSE "end"
    <3>1. Moves("card-intent")
      BY <1>16, <2>1, <2>3
    <3> QED BY <3>1 DEF Eventful
  <2> QED BY <2>1, <2>2, <2>3 DEF ClaimCardDoes
<1> QED BY <1>2, <1>3, <1>4, <1>5, <1>6, <1>7, <1>8, <1>9, <1>10, <1>11, <1>12, <1>13, <1>14, <1>15, <1>17, <1>18,
           <1>19, <1>20, <1>21, <1>22, <1>23 DEF QuietSteps

LEMMA QuietUnmoved ==
  ASSUME Typed, Typed', StopsFit, QuietSteps
  PROVE  Unmoved
<1>1. ASSUME presses' = presses, UNCHANGED <<durable, orphan, composer>>, UNCHANGED Process, budget' = budget PROVE Unmoved
  BY <1>1, UnmovedWhen DEF durable, Process
<1>2. CASE AssertBound \/ SeeSent \/ Proven
  BY <1>1, <1>2 DEF AssertBound, SeeSent, Proven, World
<1>3. CASE ReadControl \/ ConsumeControl \/ StopProven \/ Activate \/ ReadChat \/ EvaluateReply \/ Look
           \/ ClaimCard \/ SettleCard
  <2>1. UNCHANGED <<pending, outgoing, intent, World, Process, budget>>
    BY <1>3 DEF ReadControl, ConsumeControl, StopProven, Activate, ReadChat, EvaluateReply, Look, ClaimCard, SettleCard
  <2> QED BY <2>1, UnmovedWhen DEF World, Process
<1>4. CASE TakeGate
  <2>1. UNCHANGED <<World, durable, session, client, waiting, budget>>
    BY <1>4 DEF TakeGate
  <2>2. host'.kind = host.kind /\ host'.prepared = host.prepared /\ host'.consumed = host.consumed
    BY <1>4, HostParts DEF TakeGate, HostTypes
  <2>3. \A x : Pressed("reply", x)' <=> Pressed("reply", x)
    BY <2>1, SamePresses DEF World
  <2> QED BY <2>1, <2>2, <2>3 DEF Unmoved, Calm, Still, World, durable
<1>5. CASE StepFails
  <2>1. UNCHANGED <<World, durable, Process>> /\ Spend("faults")
    BY <1>5 DEF StepFails, Fault
  <2> QED BY <2>1, SpendKeeps, UnmovedWhen DEF World, durable, Process
<1>6. CASE StopClear
  <2>1. UNCHANGED <<orphan, presses, durable, Process>> /\ Answered(Done) /\ SetComposer("target", Empty)
    BY <1>6 DEF StopClear
  <2>2. composer'["target"] = Empty
    BY <2>1, TypedParts DEF SetComposer
  <2> QED BY <2>1, <2>2, AnsweredKeeps, UnmovedWhen DEF durable, Process
<1>7. CASE ClearDraft
  <2>1. UNCHANGED <<orphan, presses, durable, Process>> /\ Answered(Done) /\ SetComposer(op.conv, Empty)
    BY <1>7 DEF ClearDraft
  <2>2. composer'["target"] \in {composer["target"], Empty}
    BY <2>1, TypedParts DEF SetComposer
  <2> QED BY <2>1, <2>2, AnsweredKeeps, UnmovedWhen DEF durable, Process
<1>8. CASE ConsumeTrigger
  <2>1. /\ UNCHANGED <<World, outgoing, pending, intent, session, client, waiting, budget>>
        /\ host' = host \/ ForgetPrepared
    BY <1>8 DEF ConsumeTrigger
  <2>2. host'.kind = host.kind /\ host'.prepared \subseteq host.prepared /\ host'.consumed = host.consumed
    BY <2>1, HostParts DEF ForgetPrepared, HostTypes
  <2>3. \A x : Pressed("reply", x)' <=> Pressed("reply", x)
    BY <2>1, SamePresses DEF World
  <2> QED BY <2>1, <2>2, <2>3 DEF Unmoved, Calm, Still, World
<1>9. CASE MarkVerified \/ MarkUncertain
  <2>1. /\ UNCHANGED <<World, pending, intent, Process, budget>>
        /\ \E status \in {"verified", "uncertain"} : Settle(status)
    BY <1>9 DEF MarkVerified, MarkUncertain
  <2>2. \A x \in Replies : outgoing'[x] = "none" => outgoing[x] = "none"
    <3>1. PICK status \in {"verified", "uncertain"} : Settle(status)
      BY <2>1
    <3>2. CASE outgoing' = [outgoing EXCEPT ![pending.text] = status]
      <4>1. outgoing \in [Replies -> {"none", "claimed", "verified", "uncertain"}] /\ status # "none"
        BY DEF Typed, StoresTyped
      <4> QED BY <3>2, <4>1
    <3>3. CASE outgoing' = outgoing
      BY <3>3
    <3> QED BY <3>1, <3>2, <3>3 DEF Settle
  <2>3. \A x : Pressed("reply", x)' <=> Pressed("reply", x)
    BY <2>1, SamePresses DEF World
  <2> QED BY <2>1, <2>2, <2>3 DEF Unmoved, Calm, Still, World, Process
<1>10. CASE PressMarker
  <2>1. /\ UNCHANGED <<orphan, durable, Process>> /\ (Answered(Done) \/ budget' = budget) /\ PressMarkerDoes
        /\ SetComposer("control", Empty) \/ composer' = composer
    BY <1>10, PressMarkerMoves DEF PressMarker
  <2>2. composer'["target"] = composer["target"]
    BY <2>1, TypedParts DEF SetComposer
  <2>3. \A x : Pressed("reply", x)' <=> Pressed("reply", x)
    <3>1. CASE presses' = Append(presses, Unasked("marker", Marker))
      BY <3>1, LastPress, MorePressed DEF Unasked
    <3>2. CASE presses' = presses
      BY <3>2, SamePresses
    <3> QED BY <2>1, <3>1, <3>2 DEF PressMarkerDoes
  <2>4. budget'.tokens = budget.tokens
    BY <2>1, AnsweredKeeps
  <2> QED BY <2>1, <2>2, <2>3, <2>4 DEF Unmoved, Calm, Still, durable, Process
<1>11. CASE SendCard
  <2>1. /\ UNCHANGED <<orphan, durable, Process, composer>> /\ Answered(Done) /\ presses' = Append(presses, CardSent)
    BY <1>11, SendCardMoves DEF SendCard
  <2>2. \A x : Pressed("reply", x)' <=> Pressed("reply", x)
    <3>1. CardSent.kind = "card"
      BY DEF CardSent, Sending, Unasked
    <3> QED BY <2>1, <3>1, LastPress, MorePressed
  <2>3. budget'.tokens = budget.tokens
    BY <2>1, AnsweredKeeps
  <2> QED BY <2>1, <2>2, <2>3 DEF Unmoved, Calm, Still, durable, Process
<1> QED BY <1>2, <1>3, <1>4, <1>5, <1>6, <1>7, <1>8, <1>9, <1>10, <1>11 DEF QuietSteps

LEMMA QuietStepsKeep ==
  ASSUME Typed, Typed', StopsFit, Sendings, Own \notin Replies, QuietSteps
  PROVE  Sendings'
<1>1. PICK a : Moves(a) /\ (a \notin Eventful \/ Back(a))
  BY QuietMoves
<1> QED BY <1>1, QuietStep, QuietUnmoved

(***************************************************************************)
(* The steps that claim, put, type, send, settle and release.               *)
(***************************************************************************)
LEMMA Leading == ASSUME NEW a, Working(a) PROVE Follows(op.cmd, op.cp, a, First(Tail(op.todo), "end"))
<1>1. op.todo \in Seq(Places) /\ op.todo # <<>> /\ Leads(op.cmd, op.cp, op.todo, "end") /\ Head(op.todo) = a
  BY DEF Working, Path
<1>2. Follows(op.cmd, op.cp, Head(op.todo), First(Tail(op.todo), "end"))
  BY <1>1, PathTail
<1> QED BY <1>1, <1>2

LEMMA FewerTokens ==
  ASSUME TokensFit, InUseTokens' \subseteq InUseTokens, budget'.tokens = budget.tokens
  PROVE  TokensFit'
BY DEF TokensFit

LEMMA SpendsToken ==
  ASSUME Typed, Spend("tokens"), LiveAssumption, TokensFit, InUseTokens' = InUseTokens
  PROVE  /\ budget.tokens \in Nat /\ budget'.tokens \in Nat /\ budget'.tokens < budget.tokens
         /\ budget.tokens \notin InUseTokens /\ TokensFit'
<1>1. budget.tokens \in Nat /\ budget'.tokens \in Nat /\ budget'.tokens = budget.tokens - 1 /\ budget.tokens > 0
  BY TypedParts DEF Spend, BudgetTypes
<1>2. \A t \in InUseTokens : t # None => t \in Nat /\ t > budget.tokens
  <2>1. client.token \in Tokens /\ session.token \in Tokens
    BY TypedParts DEF ClientTypesAre, SessionTypes
  <2>2. \A w \in Range(waiting) : w.token \in Tokens
    <3>1. ASSUME NEW w \in Range(waiting) PROVE w \in OpTypes
      BY TypedParts DEF Range
    <3> QED BY <3>1 DEF OpTypes
  <2>3. \A p \in host.prepared : p.token \in Tokens
    <3>1. ASSUME NEW p \in host.prepared PROVE p \in PreparedTypes
      BY TypedParts DEF HostTypes
    <3> QED BY <3>1 DEF PreparedTypes
  <2>4. InUseTokens \subseteq Tokens
    BY <2>1, <2>2, <2>3 DEF InUseTokens, Tokens
  <2> QED BY <2>4 DEF TokensFit, Tokens
<1>3. None \notin Nat
  BY DEF LiveAssumption
<1>4. budget.tokens \notin InUseTokens
  BY <1>1, <1>2, <1>3
<1>5. TokensFit'
  BY <1>1, <1>2 DEF TokensFit
<1> QED BY <1>1, <1>4, <1>5

LEMMA WaitingKept ==
  ASSUME WaitingFits, waiting' = waiting, host'.kind = host.kind, client' = client, intent' = intent,
         pending' \in {pending, None}
  PROVE  WaitingFits'
BY DEF WaitingFits, FromClient

Busied == {"prepare", "prepare-draft", "submit", "abort", "verify-draft", "abort-draft", "verify-send"}
LEMMA AsideFits ==
  ASSUME op'.cmd \notin Busied, Place' \notin {"put", "type", "release", "look-at-marker", "verify-draft"}
  PROVE  OpStep'
BY DEF OpStep, StepFits, AnyStep, Busied, Drafts

LEMMA LookAtMarkerKeeps ==
  ASSUME Typed, LiveAssumption, Sendings, Own \notin Replies, LookAtMarker
  PROVE  Sendings'
<1>1. Working("look-at-marker") /\ Goes(op) /\ LookAtMarkerDoes
  BY LookAtMarkerMoves
<1>2. op.cmd = "establish" /\ op'.cmd = "establish"
  <2>1. Follows(op.cmd, op.cp, "look-at-marker", First(Tail(op.todo), "end"))
    BY <1>1, Leading
  <2> QED BY <1>1, <2>1 DEF Follows, Goes, Fixed
<1>3. UNCHANGED <<World, durable, Process>>
  BY DEF LookAtMarker
<1>4. InUseTokens' = InUseTokens
  BY <1>3 DEF InUseTokens, Process
<1>5. RepliesFit' /\ WaitingFits'
  <2>1. \A x : Pressed("reply", x)' <=> Pressed("reply", x)
    BY <1>3, SamePresses DEF World
  <2>2. Calm
    BY <1>3, <2>1 DEF Calm, Still, World, durable, Process
  <2> QED BY <1>3, <2>2, RepliesKept, WaitingKept DEF Sendings, durable, Process
<1>6. CASE Place' # "put" /\ budget' = budget
  <2>1. Place' \notin {"put", "type", "release", "look-at-marker", "verify-draft"}
    BY <1>1, <1>2, <1>6 DEF LookAtMarkerDoes, FallsBack, Recovers
  <2>2. OpStep'
    BY <1>2, <2>1, AsideFits DEF Busied
  <2> QED BY <1>4, <1>5, <1>6, <2>2, FewerTokens DEF Sendings
<1>7. CASE /\ ~control.active /\ pending = None /\ op'.token = budget.tokens /\ Spend("tokens") /\ Place' = "put"
  <2>1. budget.tokens \notin InUseTokens /\ TokensFit'
    BY <1>4, <1>7, SpendsToken DEF Sendings
  <2>2. AnyStep(op, "look-at-marker")
    BY <1>1 DEF Sendings, OpStep, StepFits, Working, Busy
  <2>3. intent = None
    BY <1>7, <2>2 DEF AnyStep
  <2>4. AnyStep(op, Place)'
    BY <1>2, <1>3, <1>4, <1>7, <2>1, <2>3 DEF AnyStep, Drafts, durable
  <2>5. OpStep'
    BY <1>2, <2>4 DEF OpStep, StepFits, Drafts
  <2> QED BY <1>5, <2>1, <2>5 DEF Sendings
<1>8. FallsBack(op, "look-at-marker") => Place' # "put"
  BY <1>2 DEF FallsBack, Recovers
<1> QED BY <1>1, <1>6, <1>7, <1>8 DEF LookAtMarkerDoes

LEMMA RecoverKeeps ==
  ASSUME Typed, Sendings, Own \notin Replies, Recover
  PROVE  Sendings'
<1>1. Working("recover") /\ RecoverDoes
  BY RecoverMoves
<1>2. op.cmd \in {"read-control", "read-direct", "get-state"}
  <2>1. Follows(op.cmd, op.cp, "recover", First(Tail(op.todo), "end"))
    BY <1>1, Leading
  <2> QED BY <2>1 DEF Follows
<1>3. UNCHANGED <<World, outgoing, intent, Process, budget>> /\ pending' \in {pending, None}
  BY <1>1 DEF Recover, RecoverDoes
<1>4. op'.cmd = op.cmd /\ Place' \in {"recover", "control", "gate", "end"}
  BY <1>1, <1>2 DEF RecoverDoes, Onwards, Alike, Follows, Working, Place
<1>5. OpStep'
  BY <1>2, <1>4, AsideFits DEF Busied
<1>6. \A x : Pressed("reply", x)' <=> Pressed("reply", x)
  BY <1>3, SamePresses DEF World
<1>7. Calm
  BY <1>3, <1>6 DEF Calm, Still, World, Process
<1>8. InUseTokens' = InUseTokens
  BY <1>3 DEF InUseTokens, Process
<1> QED BY <1>3, <1>5, <1>7, <1>8, RepliesKept, WaitingKept, FewerTokens DEF Sendings, Process

(* Null is no record.                                                       *)
LEMMA NoNull == None \notin PendingTypes /\ None \notin [token : Tokens, text : Texts]
<1> DEFINE texts == Replies \cup Msgs \cup {Own, "marker", None, Empty}
<1>1. texts = Texts
  BY DEF Texts, Marker
<1>2. Nat \cup {None} = Tokens
  BY DEF Tokens
<1>3. /\ None \notin [token : Nat \cup {None}, text : texts]
      /\ None \notin [conv : {"target", "control"}, text : texts, token : Nat \cup {None},
                      base : Seq([dir : {"in", "out"}, text : texts]), verified : BOOLEAN]
  BY LiveAssumption DEF LiveAssumption
<1> HIDE DEF texts
<1> QED BY <1>1, <1>2, <1>3 DEF PendingTypes, Chats, Bubbles

LEMMA BackStep ==
  ASSUME Sendings, Own \notin Replies, NEW a, Working(a), FallsBack(op, a), Unmoved
  PROVE  Sendings'
BY MovesBack, QuietStep

LEMMA Fitting ==
  ASSUME Sendings, NEW a, Working(a)
  PROVE  /\ StepFits(op, a) /\ AnyStep(op, a) /\ (op.cmd \in Drafts => DraftStep(op, a)) /\ (op.cmd = "submit" => SubmitStep(op, a))
         /\ (op.cmd = "verify-draft" => VerifyStep(op, a)) /\ (op.cmd = "abort-draft" => AbortStep(op, a))
<1>1. Busy /\ Place = a
  BY DEF Working, Busy
<1> QED BY <1>1 DEF Sendings, OpStep, StepFits

LEMMA ClaimKeeps ==
  ASSUME Typed, LiveAssumption, Sendings, Own \notin Replies, Claim
  PROVE  Sendings'
<1>1. Working("claim") /\ Goes(op) /\ ClaimDoes
  BY ClaimMoves
<1>2. UNCHANGED <<World, control, target, known, pending, intent, ledger, Process>>
  BY DEF Claim
<1>3. \A x : Pressed("reply", x)' <=> Pressed("reply", x)
  BY <1>2, SamePresses DEF World
<1>4. CASE FallsBack(op, "claim") /\ UNCHANGED <<outgoing, budget>>
  <2>1. Unmoved
    BY <1>2, <1>4, UnmovedWhen DEF World, Process
  <2> QED BY <1>1, <1>4, <2>1, BackStep
<1>5. CASE /\ outgoing[op.text] = "none" /\ outgoing' = [outgoing EXCEPT ![op.text] = "claimed"]
           /\ op'.token = budget.tokens /\ Place' = "put" /\ op'.failed = op.failed
           /\ Spend("tokens")
  <2>1. op.cmd \in Drafts
    <3>1. Follows(op.cmd, op.cp, "claim", First(Tail(op.todo), "end"))
      BY <1>1, Leading
    <3> QED BY <3>1 DEF Follows, Drafts
  <2>2. op.text \in Replies /\ pending = None /\ intent = None
    BY <1>1, <2>1, Fitting DEF AnyStep, DraftStep
  <2>3. Clean(op.text)
    BY <1>5, <2>2 DEF Sendings, RepliesFit, ClaimsFit
  <2>4. outgoing \in [Replies -> {"none", "claimed", "verified", "uncertain"}]
    BY DEF Typed, StoresTyped
  <2>5. (\A x \in Replies : outgoing'[x] = "none" => outgoing[x] = "none") /\ outgoing'[op.text] = "claimed"
    BY <1>5, <2>2, <2>4
  <2>6. Calm
    BY <1>2, <1>3, <2>5 DEF Calm, Still, World, Process
  <2>7. Clean(op.text)'
    <3>1. Still
      BY <2>6 DEF Calm
    <3>2. Unpressed(op.text)' <=> Unpressed(op.text)
      BY <1>2, <1>3, <1>1, StillClean, <3>1 DEF Unpressed, World, Goes, Fixed
    <3>3. Using(op.text)' <=> Using(op.text)
      BY <1>1, <1>2 DEF Using, Process, Goes, Fixed
    <3> QED BY <2>3, <3>2, <3>3 DEF Clean
  <2>8. InUseTokens' = InUseTokens
    BY <1>2 DEF InUseTokens, Process
  <2>9. /\ budget.tokens \in Nat /\ budget'.tokens \in Nat /\ budget'.tokens < budget.tokens
        /\ budget.tokens \notin InUseTokens /\ TokensFit'
    BY <1>5, <2>8, SpendsToken DEF Sendings
  <2>10. op'.cmd = op.cmd /\ op'.text = op.text
    BY <1>1 DEF Goes, Fixed
  <2>11. OpStep'
    <3>1. AnyStep(op, Place)'
      BY <1>2, <1>5, <2>1, <2>2, <2>8, <2>9, <2>10 DEF AnyStep, Drafts
    <3>2. DraftStep(op, Place)'
      BY <1>2, <1>5, <2>2, <2>5, <2>7, <2>9, <2>10 DEF DraftStep, Before
    <3> QED BY <2>1, <2>10, <3>1, <3>2 DEF OpStep, StepFits, Drafts
  <2>12. RepliesFit' /\ WaitingFits'
    BY <1>2, <2>6, RepliesKept, WaitingKept DEF Sendings, Process
  <2> QED BY <2>9, <2>11, <2>12 DEF Sendings
<1> QED BY <1>1, <1>4, <1>5 DEF ClaimDoes

LEMMA PutPendingKeeps ==
  ASSUME Typed, LiveAssumption, Sendings, Own \notin Replies, PutPending
  PROVE  Sendings'
<1>1. /\ Working("put") /\ Onwards(op, "put")
      /\ pending' = [conv |-> op.conv, text |-> op.text, token |-> op.token, base |-> op.chat, verified |-> FALSE]
  BY PutPendingMoves
<1>2. UNCHANGED <<World, control, outgoing, target, known, intent, ledger, Process, budget>>
  BY DEF PutPending
<1>3. \A x : Pressed("reply", x)' <=> Pressed("reply", x)
  BY <1>2, SamePresses DEF World
<1>4. op.token \notin InUseTokens /\ intent = None /\ pending = None
  BY <1>1, Fitting DEF AnyStep
<1>5. op'.cmd = op.cmd /\ op'.text = op.text /\ op'.token = op.token /\ op'.failed = op.failed
  BY <1>1 DEF Onwards, Alike
<1>6. pending' # None => /\ pending'.conv = op.conv /\ pending'.text = op.text /\ pending'.token = op.token
                         /\ ~pending'.verified
  BY <1>1
<1>7. \A x : Clean(x)' <=> Clean(x)
  BY <1>2, <1>3 DEF Clean, Unpressed, Using, World, Process
<1>8. op.conv = "target" => op.cmd \in Drafts /\ op.cmd # "establish"
  <2>1. Follows(op.cmd, op.cp, "put", Place')
    BY <1>1 DEF Onwards
  <2> QED BY <1>1, <2>1 DEF Follows, Drafts, Working, CallFits
<1>9. op.conv = "target" => Clean(op.text) /\ outgoing[op.text] # "none"
  BY <1>1, <1>8, Fitting DEF DraftStep
<1>10. RepliesFit'
  <2>1. ClaimsFit'
    BY <1>2, <1>6, <1>7, <1>9 DEF Sendings, RepliesFit, ClaimsFit, TargetPending
  <2>2. DraftFits'
    BY <1>6, <1>7, <1>9 DEF DraftFits, TargetPending
  <2>3. PreparedFits'
    <3>1. \A p \in host.prepared : p.token \in InUseTokens
      BY DEF InUseTokens
    <3> QED BY <1>2, <1>4, <1>6, <3>1 DEF Sendings, RepliesFit, PreparedFits, Process
  <2>4. IntentFits'
    BY <1>2, <1>4 DEF IntentFits
  <2>5. ClientFits'
    <3>1. client.token \in InUseTokens
      BY DEF InUseTokens
    <3>2. pending' # None => pending'.token # client.token
      BY <1>4, <1>6, <3>1
    <3>3. (Using(client.text)' <=> Using(client.text)) /\ (Unpressed(client.text)' <=> Unpressed(client.text))
      BY <1>2, <1>3 DEF Unpressed, Using, World, Process
    <3> QED BY <1>2, <3>2, <3>3 DEF Sendings, RepliesFit, ClientFits, Process, World
  <2>6. OrphanFits'
    BY <1>2, <1>3 DEF Sendings, RepliesFit, OrphanFits, Using, World, Process
  <2> QED BY <2>1, <2>2, <2>3, <2>4, <2>5, <2>6 DEF RepliesFit
<1>11. InUseTokens' = InUseTokens
  BY <1>2 DEF InUseTokens, Process
<1>12. TokensFit'
  BY <1>2, <1>11, FewerTokens DEF Sendings
<1>13. WaitingFits'
  <2>1. \A w \in Range(waiting) : w.token \in InUseTokens
    BY DEF InUseTokens
  <2>2. pending' # None => \A w \in Range(waiting) : pending'.token # w.token
    BY <1>4, <1>6, <2>1
  <2> QED BY <1>2, <2>2 DEF Sendings, WaitingFits, FromClient, Process
<1>14. OpStep'
  <2>1. (op.cmd \in {"prepare", "establish"} /\ Place' = "type") \/ (op.cmd = "prepare-draft" /\ Place' = "end")
    BY <1>1 DEF Onwards, Follows
  <2>2. AnyStep(op, Place)'
    <3>1. op.cmd \in Drafts => op.text \in Replies
      BY <1>1, Fitting DEF AnyStep
    <3> QED BY <1>2, <1>4, <1>5, <1>11, <2>1, <3>1 DEF AnyStep
  <2>3. op.cmd \in Drafts => DraftStep(op, Place)'
    <3> SUFFICES ASSUME op.cmd \in Drafts PROVE DraftStep(op, Place)'
      OBVIOUS
    <3>1. op.token \in Nat /\ op.token > budget.tokens
      BY <1>1, Fitting DEF DraftStep
    <3>2. op.conv = "target"
      BY <1>1 DEF Working, CallFits, Drafts
    <3>3. pending' \in PendingTypes
      <4>1. Typed'
        BY PutPendingMoves
      <4> QED BY <1>1, <4>1, TypedParts DEF Working, OpTypes, PendingTypes
    <3>4. PendingOf(op)' /\ ~pending'.verified
      <4>1. pending' # None
        BY <3>3, NoNull
      <4> QED BY <1>5, <1>6, <3>2, <4>1 DEF PendingOf, TargetPending
    <3> QED BY <1>2, <1>4, <1>5, <1>11, <2>1, <3>1, <3>4 DEF DraftStep, Before
  <2> QED BY <1>5, <2>1, <2>2, <2>3 DEF OpStep, StepFits
<1> QED BY <1>10, <1>12, <1>13, <1>14 DEF Sendings

LEMMA TypeKeeps ==
  ASSUME Typed, Sendings, Own \notin Replies, Type
  PROVE  Sendings'
<1>1. Working("type") /\ TypeDoes
  BY TypeMoves
<1>2. UNCHANGED <<chat, commands, orphan, presses, durable, session, client, waiting>> /\ SetComposer(op.conv, op.text)
  BY DEF Type
<1>3. /\ AnyStep(op, "type") /\ (op.cmd \in Drafts => DraftStep(op, "type"))
      /\ op.token \notin InUseTokens /\ intent = None
  BY <1>1, Fitting DEF AnyStep
<1>4. op.cmd \in {"prepare", "establish"} /\ op.conv = (IF op.cmd = "establish" THEN "control" ELSE "target")
  <2>1. Follows(op.cmd, op.cp, "type", First(Tail(op.todo), "end"))
    BY <1>1, Leading
  <2> QED BY <1>1, <2>1 DEF Follows, Working, CallFits
<1>5. op.cmd = "prepare" => /\ PendingOf(op) /\ ~pending.verified /\ Clean(op.text)
                            /\ op.token \in Nat /\ op.token > budget.tokens
  <2>1. op.cmd = "prepare" => PendingOf(op) /\ ~pending.verified /\ op.token \in Nat /\ op.token > budget.tokens
    BY <1>3 DEF DraftStep, Drafts
  <2> QED BY <2>1 DEF Sendings, RepliesFit, DraftFits, PendingOf
<1>6. /\ host'.kind = host.kind /\ host'.consumed = host.consumed /\ budget'.tokens = budget.tokens
      /\ \A p \in host'.prepared : p \in host.prepared \/ (op.cmd = "prepare" /\ p.token = op.token)
      /\ Onwards(op, "type") \/ (FallsBack(op, "type") /\ host' = host)
  <2> DEFINE new == [token |-> op.token, trigger |-> op.tp.trigger.id, control |-> op.cp.cap, target |-> op.tp.cap]
  <2>1. new.token = op.token
    OBVIOUS
  <2> HIDE DEF new
  <2>2. CASE /\ Done /\ UNCHANGED budget
             /\ host' = IF op.cmd # "prepare" THEN host
                        ELSE [host EXCEPT !.prepared = @ \cup {new}, !.controls = @ \ {op.cp.cap}, !.targets = @ \ {op.tp.cap}]
    <3>1. host \in HostTypes
      BY TypedParts
    <3>2. Onwards(op, "type")
      BY <1>1, <2>2, DoneMoves
    <3> QED BY <2>1, <2>2, <3>1, <3>2 DEF HostTypes
  <2>3. CASE Fail /\ Fault /\ UNCHANGED host
    <3>1. FallsBack(op, "type")
      BY <1>1, <2>3, FailMoves
    <3>2. budget'.tokens = budget.tokens
      BY <2>3, SpendKeeps DEF Fault
    <3> QED BY <2>3, <3>1, <3>2
  <2> QED BY <2>2, <2>3 DEF Type, new
<1>7. op'.cmd = op.cmd /\ op'.text = op.text /\ op'.token = op.token
  BY <1>6 DEF Onwards, FallsBack, Alike
<1>8. \A x : Pressed("reply", x)' <=> Pressed("reply", x)
  BY <1>2, SamePresses
<1>9. /\ \A x : Clean(x)' <=> Clean(x)
      /\ \A x : Unpressed(x)' <=> Unpressed(x)
      /\ \A x : Using(x)' <=> Using(x)
  BY <1>2, <1>8 DEF Clean, Unpressed, Using
<1>10. RepliesFit'
  <2>1. ClaimsFit' /\ DraftFits' /\ IntentFits' /\ OrphanFits'
    BY <1>2, <1>3, <1>8, <1>9 DEF Sendings, RepliesFit, ClaimsFit, DraftFits, IntentFits, OrphanFits, TargetPending, durable
  <2>2. PreparedFits'
    <3>1. client.token \in InUseTokens
      BY DEF InUseTokens
    <3>2. op.cmd = "prepare" => TargetPending /\ Clean(pending.text)
      BY <1>5 DEF PendingOf
    <3> QED BY <1>2, <1>3, <1>5, <1>6, <1>9, <3>1, <3>2 DEF Sendings, RepliesFit, PreparedFits, durable, TargetPending
  <2>3. ClientFits'
    <3>1. composer'["target"] = composer["target"] \/ (composer'["target"] = op.text /\ Clean(op.text))
      <4>1. composer \in [{"target", "control"} -> Texts]
        BY TypedParts
      <4> QED BY <1>2, <1>4, <1>5, <4>1 DEF SetComposer
    <3>2. Using(client.text) /\ composer'["target"] = client.text => Unpressed(client.text)
      BY <3>1 DEF Clean, Sendings, RepliesFit, ClientFits
    <3> QED BY <1>2, <1>9, <3>2 DEF Sendings, RepliesFit, ClientFits, durable
  <2> QED BY <2>1, <2>2, <2>3 DEF RepliesFit
<1>11. \A t \in InUseTokens' : t \in InUseTokens \/ (op.cmd = "prepare" /\ t = op.token)
  BY <1>2, <1>6 DEF InUseTokens
<1>12. TokensFit'
  BY <1>5, <1>6, <1>11 DEF Sendings, TokensFit
<1>13. WaitingFits'
  BY <1>2, <1>6, WaitingKept DEF Sendings, durable
<1>14. OpStep'
  <2>1. CASE Onwards(op, "type")
    <3>1. (op.cmd = "prepare" /\ Place' = "end") \/ (op.cmd = "establish" /\ Place' = "verify-draft")
      BY <1>4, <2>1 DEF Onwards, Follows
    <3>2. AnyStep(op, Place)'
      BY <1>2, <1>3, <1>7, <3>1 DEF AnyStep, durable, Drafts
    <3>3. op.cmd = "prepare" => DraftStep(op, Place)'
      BY <1>5, <1>6, <1>7, <3>1 DEF DraftStep, Before
    <3> QED BY <1>7, <3>1, <3>2, <3>3 DEF OpStep, StepFits, Drafts
  <2>2. CASE FallsBack(op, "type") /\ host' = host
    <3>1. Kept
      BY <1>2, <1>6, <1>9, <2>2 DEF Kept, durable, InUseTokens
    <3>2. Moves("type") /\ Back("type")
      BY <1>1, <2>2, MovesBack
    <3> QED BY <3>1, <3>2, StepsQuietly DEF Sendings, RepliesFit
  <2> QED BY <1>6, <2>1, <2>2
<1> QED BY <1>10, <1>12, <1>13, <1>14 DEF Sendings

LEMMA VerifyDraftKeeps ==
  ASSUME Typed, Sendings, Own \notin Replies, VerifyDraft
  PROVE  Sendings'
<1>1. Working("verify-draft") /\ pending \in PendingTypes
  <2>1. Working("verify-draft")
    BY VerifyDraftMoves
  <2> QED BY <2>1 DEF Typed, CallsFit, Working
<1>2. UNCHANGED <<World, control, outgoing, target, known, intent, ledger, Process, budget>>
  BY DEF VerifyDraft
<1>3. \A x : Pressed("reply", x)' <=> Pressed("reply", x)
  BY <1>2, SamePresses DEF World
<1>4. CASE Fail /\ UNCHANGED pending
  <2>1. Unmoved
    BY <1>2, <1>4, UnmovedWhen DEF World, Process
  <2>2. FallsBack(op, "verify-draft")
    BY <1>1, <1>4, FailMoves
  <2> QED BY <1>1, <2>1, <2>2, BackStep
<1>5. CASE Done /\ pending' = [pending EXCEPT !.verified = TRUE]
  <2>1. /\ pending' \in PendingTypes /\ pending'.verified /\ pending'.token = pending.token
        /\ pending'.text = pending.text /\ pending'.conv = pending.conv
    BY <1>1, <1>5 DEF PendingTypes
  <2>2. pending # None /\ pending' # None
    BY <1>1, <2>1, NoNull
  <2>3. Onwards(op, "verify-draft")
    BY <1>1, <1>5, DoneMoves
  <2>4. op'.cmd = op.cmd /\ op'.token = op.token
    BY <2>3 DEF Onwards, Alike
  <2>5. intent = None
    BY <1>1, Fitting DEF AnyStep
  <2>6. /\ \A x : Clean(x)' <=> Clean(x)
        /\ \A x : Unpressed(x)' <=> Unpressed(x)
        /\ \A x : Using(x)' <=> Using(x)
    BY <1>2, <1>3 DEF Clean, Unpressed, Using, World, Process
  <2>7. RepliesFit'
    <3>1. ClaimsFit' /\ DraftFits' /\ PreparedFits' /\ IntentFits' /\ OrphanFits'
      BY <1>2, <1>3, <2>1, <2>2, <2>5, <2>6 DEF Sendings, RepliesFit, ClaimsFit, DraftFits, PreparedFits, IntentFits, OrphanFits,
         TargetPending, World, Process
    <3>2. ClientFits'
      BY <1>2, <2>1, <2>2, <2>6 DEF Sendings, RepliesFit, ClientFits, World, Process
    <3> QED BY <3>1, <3>2 DEF RepliesFit
  <2>8. TokensFit' /\ WaitingFits'
    BY <1>2, <2>1, <2>2 DEF Sendings, TokensFit, InUseTokens, WaitingFits, FromClient, Process
  <2>9. OpStep'
    <3>1. (op.cmd = "verify-draft" /\ Place' = "end") \/ (op.cmd = "establish" /\ Place' = "press-marker")
      BY <2>3 DEF Onwards, Follows
    <3>2. CASE op.cmd = "establish" /\ Place' = "press-marker"
      BY <2>4, <3>2, AsideFits DEF Busied
    <3>3. CASE op.cmd = "verify-draft" /\ Place' = "end"
      <4>1. VerifyStep(op, "verify-draft")
        BY <1>1, <3>3, Fitting
      <4>2. VerifyStep(op, Place)'
        BY <1>2, <2>1, <2>2, <2>4, <2>5, <3>3, <4>1 DEF VerifyStep, Process
      <4>3. AnyStep(op, Place)'
        BY <2>4, <3>3 DEF AnyStep, Drafts
      <4> QED BY <2>4, <3>3, <4>2, <4>3 DEF OpStep, StepFits, Drafts
    <3> QED BY <3>1, <3>2, <3>3
  <2> QED BY <2>7, <2>8, <2>9 DEF Sendings
<1> QED BY <1>4, <1>5 DEF VerifyDraft

LEMMA PressKeeps ==
  ASSUME Typed, StopsFit, LiveAssumption, Sendings, Own \notin Replies, Press
  PROVE  Sendings'
<1>1. Working("press") /\ op.cmd = "submit" /\ Typed'
  BY PressMoves
<1>2. UNCHANGED <<commands, orphan, durable, Process>>
  BY DEF Press
<1>3. CASE Fail /\ UNCHANGED <<chat, composer, presses, budget>>
  <2>1. Unmoved
    BY <1>2, <1>3, UnmovedWhen DEF durable, Process
  <2>2. FallsBack(op, "press")
    BY <1>1, <1>3, FailMoves
  <2> QED BY <1>1, <2>1, <2>2, BackStep
<1>4. CASE /\ composer["target"] = op.text /\ SetComposer("target", Empty) /\ Answered(Done)
           /\ presses' = Append(presses, Sending("reply", op.text))
  <2>1. /\ PendingOf(op) /\ pending.verified /\ Clean(op.text)
        /\ op.token \in host.consumed /\ op.token # client.token
    BY <1>1, Fitting DEF SubmitStep
  <2>2. \A x : Pressed("reply", x)' <=> Pressed("reply", x) \/ x = op.text
    <3>1. Sending("reply", op.text) \in PressTypes
      BY <1>1, <1>4, LastPress
    <3>2. Sending("reply", op.text).kind = "reply" /\ Sending("reply", op.text).what = op.text
      BY DEF Sending
    <3> QED BY <1>4, <3>1, <3>2, MorePressed
  <2>3. composer'["target"] = Empty
    BY <1>4, TypedParts DEF SetComposer
  <2>4. /\ \A x : Clean(x)' <=> Clean(x) /\ x # op.text
        /\ \A x : Unpressed(x)' <=> Unpressed(x) /\ x # op.text
        /\ \A x : Using(x)' <=> Using(x)
    BY <1>2, <2>2 DEF Clean, Unpressed, Using, Process
  <2>5. intent = None
    BY <2>1 DEF Sendings, RepliesFit, IntentFits, PendingOf, TargetPending
  <2>6. pending # None /\ pending.conv = "target" /\ pending.text = op.text /\ pending.token = op.token /\ TargetPending
    BY <2>1 DEF PendingOf, TargetPending
  <2>7. RepliesFit'
    <3>1. ClaimsFit'
      BY <1>2, <2>4, <2>5, <2>6 DEF Sendings, RepliesFit, ClaimsFit, TargetPending, durable
    <3>2. DraftFits' /\ IntentFits'
      BY <1>2, <2>1, <2>5 DEF DraftFits, IntentFits, durable
    <3>3. PreparedFits'
      BY <1>2, <2>1, <2>6 DEF Sendings, RepliesFit, PreparedFits, durable, Process
    <3>4. ClientFits'
      <4>1. client.token # None \/ client.stage # "none" => client.text \in Replies
        BY DEF Sendings, RepliesFit, ClientFits
      <4>2. Using(client.text) => client.text # Empty
        BY <4>1, LiveAssumption DEF LiveAssumption, Using
      <4>3. pending.token # client.token
        BY <2>1, <2>6
      <4> QED BY <1>2, <2>3, <2>4, <4>1, <4>2, <4>3 DEF ClientFits, durable, Process
    <3>5. OrphanFits'
      BY <1>2, <2>1, <2>2, <2>4 DEF Sendings, RepliesFit, OrphanFits, Clean, Unpressed
    <3> QED BY <3>1, <3>2, <3>3, <3>4, <3>5 DEF RepliesFit
  <2>8. TokensFit' /\ WaitingFits'
    <3>1. budget'.tokens = budget.tokens
      BY <1>4, AnsweredKeeps
    <3>2. InUseTokens' = InUseTokens
      BY <1>2 DEF InUseTokens, Process
    <3> QED BY <1>2, <3>1, <3>2, FewerTokens, WaitingKept DEF Sendings, durable, Process
  <2>9. OpStep'
    <3>1. Onwards(op, "press") \/ FallsBack(op, "press")
      BY PressMoves
    <3>2. op'.cmd = op.cmd
      BY <3>1 DEF Onwards, FallsBack, Alike
    <3>3. Place' = "end" \/ (Place' \in {"uncertain", "consume-trigger", "clear-if-present"} /\ op'.failed)
      BY <1>1, <3>1 DEF Onwards, FallsBack, Follows, Recovers
    <3>4. AnyStep(op, Place)' /\ SubmitStep(op, Place)'
      BY <1>1, <3>2, <3>3 DEF AnyStep, SubmitStep, Before, Drafts
    <3> QED BY <1>1, <3>2, <3>4 DEF OpStep, StepFits, Drafts
  <2> QED BY <2>7, <2>8, <2>9 DEF Sendings
<1> QED BY <1>3, <1>4 DEF Press

LEMMA ClearPendingKeeps ==
  ASSUME Typed, Sendings, Own \notin Replies, ClearPending
  PROVE  Sendings'
<1>1. PICK a : Working(a) /\ a \in {"clearPending", "clear-if-present"} /\ (Onwards(op, a) \/ FallsBack(op, a))
  BY ClearPendingMoves DEF ClearPendingDoes
<1>2. /\ UNCHANGED <<World, control, outgoing, target, known, intent, ledger, session, client, waiting, budget>>
      /\ host' = host \/ ForgetPrepared
  BY DEF ClearPending
<1>3. host'.kind = host.kind /\ host'.prepared \subseteq host.prepared /\ host'.consumed = host.consumed
  BY <1>2, HostParts DEF ForgetPrepared, HostTypes
<1>4. \A x : Pressed("reply", x)' <=> Pressed("reply", x)
  BY <1>2, SamePresses DEF World
<1>5. (Done /\ pending' = None) \/ (Fail /\ pending' = pending)
  BY DEF ClearPending, Require
<1>6. CASE Fail /\ pending' = pending
  <2>1. Unmoved
    BY <1>2, <1>3, <1>4, <1>6 DEF Unmoved, Calm, Still, World
  <2>2. FallsBack(op, a)
    BY <1>1, <1>6, FailMoves
  <2> QED BY <1>1, <2>1, <2>2, BackStep
<1>7. CASE Done /\ pending' = None
  <2>1. Calm
    BY <1>2, <1>3, <1>4, <1>7 DEF Calm, Still, World
  <2>2. RepliesFit' /\ WaitingFits'
    BY <1>2, <1>3, <1>7, <2>1, RepliesKept, WaitingKept DEF Sendings
  <2>3. TokensFit'
    <3>1. InUseTokens' \subseteq InUseTokens
      BY <1>2, <1>3 DEF InUseTokens
    <3> QED BY <1>2, <3>1, FewerTokens DEF Sendings
  <2>4. OpStep'
    <3>1. Onwards(op, a)
      BY <1>1, <1>7, DoneMoves
    <3>2. op'.cmd = op.cmd /\ op'.text = op.text /\ op'.failed = op.failed
      BY <3>1 DEF Onwards, Alike
    <3>3. \/ op.cmd \in {"abort", "prepare", "submit"} /\ a = "clearPending" /\ Place' = "release"
          \/ op.cmd \in {"verify-send", "establish", "submit"} /\ Place' = "end"
          \/ op.cmd = "abort-draft" /\ Place' = "clear-intent"
      BY <1>1, <3>1 DEF Onwards, Follows
    <3>4. /\ AnyStep(op, a) /\ (op.cmd \in Drafts => DraftStep(op, a)) /\ (op.cmd = "submit" => SubmitStep(op, a))
      BY <1>1, Fitting
    <3>5. Clean(op.text) => Clean(op.text)'
      BY <2>1, <3>2, StillClean DEF Calm, Clean, Unpressed, Using, Pressed
    <3>6. AnyStep(op, Place)'
      BY <1>7, <3>2, <3>3, <3>4, <3>5 DEF AnyStep
    <3>7. op.cmd \in Drafts => DraftStep(op, Place)'
      BY <1>1, <3>2, <3>3, <3>4 DEF DraftStep, Drafts, Before
    <3>8. op.cmd = "submit" => SubmitStep(op, Place)'
      BY <1>1, <3>2, <3>3, <3>4 DEF SubmitStep, Before
    <3>9. op.cmd = "abort-draft" => AbortStep(op, Place)'
      BY <1>7, <3>2, <3>3 DEF AbortStep
    <3> QED BY <3>2, <3>3, <3>6, <3>7, <3>8, <3>9 DEF OpStep, StepFits
  <2> QED BY <2>2, <2>3, <2>4 DEF Sendings
<1> QED BY <1>5, <1>6, <1>7

LEMMA ReleaseKeeps ==
  ASSUME Typed, Sendings, Own \notin Replies, Release
  PROVE  Sendings'
<1>1. Working("release") /\ ReleaseDoes
  BY ReleaseMoves
<1>2. /\ UNCHANGED <<World, control, target, known, pending, intent, ledger, session, client, waiting, budget>>
      /\ UNCHANGED <<outgoing, host>> \/ ForgetPrepared
  BY DEF Release
<1>3. host'.kind = host.kind /\ host'.prepared \subseteq host.prepared /\ host'.consumed = host.consumed
  BY <1>2, HostParts DEF ForgetPrepared, HostTypes
<1>4. \A x : Pressed("reply", x)' <=> Pressed("reply", x)
  BY <1>2, SamePresses DEF World
<1>5. CASE FallsBack(op, "release") /\ UNCHANGED <<outgoing, host>>
  <2>1. Unmoved
    BY <1>2, <1>3, <1>4, <1>5 DEF Unmoved, Calm, Still, World
  <2> QED BY <1>1, <1>5, <2>1, BackStep
<1>6. CASE Onwards(op, "release") /\ outgoing' = [outgoing EXCEPT ![op.text] = "none"]
  <2>1. Still
    BY <1>2, <1>3, <1>4 DEF Still, World
  <2>2. Clean(op.text) /\ (pending = None \/ intent # None)
    BY <1>1, Fitting DEF AnyStep
  <2>3. \A x \in Replies : outgoing'[x] = "none" => x = op.text \/ outgoing[x] = "none"
    <3>1. outgoing \in [Replies -> {"none", "claimed", "verified", "uncertain"}]
      BY DEF Typed, StoresTyped
    <3> QED BY <1>6, <3>1
  <2>4. \A x : Clean(x)' <=> Clean(x)
    <3>1. ASSUME NEW x PROVE Clean(x)' <=> Clean(x)
      BY <2>1, StillClean
    <3> QED BY <3>1
  <2>5. ClaimsFit'
    BY <1>2, <2>2, <2>3, <2>4 DEF Sendings, RepliesFit, ClaimsFit, TargetPending
  <2>6. RepliesFit'
    BY <2>1, <2>5, StillFits DEF Sendings, RepliesFit
  <2>7. TokensFit' /\ WaitingFits'
    <3>1. InUseTokens' \subseteq InUseTokens
      BY <1>2, <1>3 DEF InUseTokens
    <3> QED BY <1>2, <1>3, <3>1, FewerTokens, WaitingKept DEF Sendings
  <2>8. OpStep'
    <3>1. op'.cmd = op.cmd /\ op'.text = op.text /\ op'.failed = op.failed
      BY <1>6 DEF Onwards, Alike
    <3>2. \/ op.cmd \in {"abort", "prepare", "submit", "prepare-draft"} /\ Place' = "end"
          \/ op.cmd = "abort-draft" /\ Place' = "clear-if-present"
      BY <1>6 DEF Onwards, Follows
    <3>3. AnyStep(op, "release") /\ (op.cmd \in Drafts => DraftStep(op, "release"))
      BY <1>1, Fitting
    <3>4. AnyStep(op, Place)'
      BY <3>1, <3>2, <3>3 DEF AnyStep
    <3>5. op.cmd \in Drafts => DraftStep(op, Place)'
      BY <3>1, <3>2, <3>3 DEF DraftStep, Drafts, Before
    <3>6. op.cmd = "submit" => SubmitStep(op, Place)'
      BY <3>1, <3>2 DEF SubmitStep, Before
    <3>7. op.cmd = "abort-draft" => AbortStep(op, Place)'
      BY <3>1, <3>2 DEF AbortStep
    <3> QED BY <3>1, <3>2, <3>4, <3>5, <3>6, <3>7 DEF OpStep, StepFits
  <2> QED BY <2>6, <2>7, <2>8 DEF Sendings
<1> QED BY <1>1, <1>5, <1>6 DEF ReleaseDoes

LEMMA PutIntentKeeps ==
  ASSUME Typed, Sendings, Own \notin Replies, PutIntent
  PROVE  Sendings'
<1>1. Working("put-intent") /\ op.cmd = "abort-draft"
  <2>1. Working("put-intent")
    BY PutIntentMoves
  <2>2. Follows(op.cmd, op.cp, "put-intent", First(Tail(op.todo), "end"))
    BY <2>1, Leading
  <2> QED BY <2>1, <2>2 DEF Follows
<1>2. UNCHANGED <<World, control, outgoing, target, known, pending, ledger, Process, budget>>
  BY DEF PutIntent
<1>3. IntentOf(op) \/ (intent = None /\ PendingOf(op) /\ ~pending.verified)
  BY <1>1, Fitting DEF AbortStep
<1>4. \A x : Pressed("reply", x)' <=> Pressed("reply", x)
  BY <1>2, SamePresses DEF World
<1>5. CASE Fail /\ UNCHANGED intent
  <2>1. Unmoved
    BY <1>2, <1>5, UnmovedWhen DEF World, Process
  <2>2. FallsBack(op, "put-intent")
    BY <1>1, <1>5, FailMoves
  <2> QED BY <1>1, <2>1, <2>2, BackStep
<1>6. ASSUME Done, RepliesFit', WaitingFits', Clean(op.text)', intent' # None PROVE Sendings'
  <2>1. TokensFit'
    <3>1. InUseTokens' = InUseTokens
      BY <1>2 DEF InUseTokens, Process
    <3> QED BY <1>2, <3>1, FewerTokens DEF Sendings
  <2>2. Onwards(op, "put-intent")
    BY <1>1, <1>6, DoneMoves
  <2>3. op'.cmd = "abort-draft" /\ Place' = "release"
    BY <1>1, <2>2 DEF Onwards, Alike, Follows
  <2>4. OpStep'
    BY <1>6, <2>3 DEF OpStep, StepFits, AnyStep, AbortStep, Drafts
  <2> QED BY <1>6, <2>1, <2>4 DEF Sendings
<1>7. op'.text = op.text \/ ~Done
  <2>1. Done => Onwards(op, "put-intent")
    BY <1>1, DoneMoves
  <2> QED BY <2>1 DEF Onwards, Alike
<1>8. CASE Done /\ intent # None /\ UNCHANGED intent
  <2>1. Unmoved
    BY <1>2, <1>8, UnmovedWhen DEF World, Process
  <2>2. RepliesFit' /\ WaitingFits'
    BY <2>1, UnmovedKeeps DEF Sendings
  <2>3. Clean(op.text)
    BY <1>3, <1>8 DEF Sendings, RepliesFit, IntentFits, IntentOf
  <2>4. Clean(op.text)'
    BY <1>2, <1>4, <1>7, <1>8, <2>3 DEF Clean, Unpressed, Using, World, Process
  <2> QED BY <1>6, <1>8, <2>2, <2>4
<1>9. CASE Done /\ intent = None /\ intent' = [token |-> op.token, text |-> op.text]
  <2>1. PendingOf(op) /\ ~pending.verified
    BY <1>3, <1>9 DEF IntentOf
  <2>2. pending # None /\ pending.conv = "target" /\ pending.token = op.token /\ pending.text = op.text
    BY <2>1 DEF PendingOf, TargetPending
  <2>3. Clean(op.text)
    BY <2>1, <2>2 DEF Sendings, RepliesFit, DraftFits, PendingOf
  <2>4. /\ \A x : Clean(x)' <=> Clean(x)
        /\ \A x : Unpressed(x)' <=> Unpressed(x)
        /\ \A x : Using(x)' <=> Using(x)
    BY <1>2, <1>4 DEF Clean, Unpressed, Using, World, Process
  <2>5. intent'.token = op.token /\ intent'.text = op.text /\ intent' # None
    <3>1. intent' \in [token : Tokens, text : Texts]
      BY <1>1, <1>9 DEF Working, OpTypes
    <3> QED BY <1>9, <3>1, NoNull
  <2>6. RepliesFit'
    <3>1. ClaimsFit' /\ DraftFits' /\ PreparedFits' /\ OrphanFits'
      BY <1>2, <1>4, <2>4, <2>5 DEF Sendings, RepliesFit, ClaimsFit, DraftFits, PreparedFits, OrphanFits,
         TargetPending, World, Process
    <3>2. ClientFits'
      BY <1>2, <2>4 DEF Sendings, RepliesFit, ClientFits, World, Process
    <3>3. IntentFits'
      <4>1. client.token = op.token => client.text = op.text
        BY <2>2 DEF Sendings, RepliesFit, ClientFits
      <4> QED BY <1>2, <2>1, <2>2, <2>3, <2>4, <2>5, <4>1 DEF IntentFits, PendingOf, TargetPending, World, Process
    <3> QED BY <3>1, <3>2, <3>3 DEF RepliesFit
  <2>7. WaitingFits'
    <3>1. ASSUME NEW w \in Range(waiting), w.cmd = "abort-draft", w.token = op.token PROVE w.text = op.text
      <4>1. client.token = w.token /\ w.text = client.text
        BY <2>2, <3>1 DEF Sendings, WaitingFits, FromClient
      <4> QED BY <2>2, <3>1, <4>1 DEF Sendings, RepliesFit, ClientFits
    <3> QED BY <1>2, <2>5, <3>1 DEF Sendings, WaitingFits, FromClient, Process
  <2>8. Clean(op.text)'
    BY <1>7, <1>9, <2>3, <2>4
  <2> QED BY <1>6, <1>9, <2>5, <2>6, <2>7, <2>8
<1> QED BY <1>5, <1>8, <1>9 DEF PutIntent

LEMMA ClearIntentKeeps ==
  ASSUME Typed, Sendings, Own \notin Replies, ClearIntent
  PROVE  Sendings'
<1>1. Working("clear-intent") /\ op.cmd = "abort-draft" /\ Onwards(op, "clear-intent")
  <2>1. Working("clear-intent")
    BY ClearIntentMoves
  <2>2. Follows(op.cmd, op.cp, "clear-intent", First(Tail(op.todo), "end"))
    BY <2>1, Leading
  <2>3. Onwards(op, "clear-intent")
    BY <2>1, DoneMoves DEF ClearIntent
  <2> QED BY <2>1, <2>2, <2>3 DEF Follows
<1>2. UNCHANGED <<World, control, outgoing, target, known, pending, ledger, Process, budget>> /\ intent' = None
  BY DEF ClearIntent
<1>3. pending = None
  BY <1>1, Fitting DEF AbortStep
<1>4. \A x : Pressed("reply", x)' <=> Pressed("reply", x)
  BY <1>2, SamePresses DEF World
<1>5. /\ \A x : Clean(x)' <=> Clean(x)
      /\ \A x : Unpressed(x)' <=> Unpressed(x)
      /\ \A x : Using(x)' <=> Using(x)
  BY <1>2, <1>4 DEF Clean, Unpressed, Using, World, Process
<1>6. RepliesFit'
  <2>1. ClaimsFit' /\ DraftFits' /\ PreparedFits' /\ IntentFits' /\ OrphanFits'
    BY <1>2, <1>3, <1>4, <1>5 DEF Sendings, RepliesFit, ClaimsFit, DraftFits, PreparedFits, IntentFits, OrphanFits,
       TargetPending, World, Process
  <2>2. ClientFits'
    BY <1>2, <1>5 DEF Sendings, RepliesFit, ClientFits, World, Process
  <2> QED BY <2>1, <2>2 DEF RepliesFit
<1>7. TokensFit' /\ WaitingFits'
  BY <1>2 DEF Sendings, TokensFit, InUseTokens, WaitingFits, FromClient, Process
<1>8. OpStep'
  <2>1. op'.cmd = "abort-draft" /\ Place' = "end"
    BY <1>1 DEF Onwards, Alike, Follows
  <2> QED BY <1>2, <1>3, <2>1 DEF OpStep, StepFits, AnyStep, AbortStep, Drafts
<1> QED BY <1>6, <1>7, <1>8 DEF Sendings

LEMMA StepsKeep ==
  ASSUME Typed, Typed', StopsFit, Sendings, Own \notin Replies, Steps \/ StepFails
  PROVE  Sendings'
<1>1. \/ QuietSteps \/ LookAtMarker \/ Recover \/ Claim \/ PutPending \/ Type \/ VerifyDraft \/ Press \/ ClearPending
      \/ Release \/ PutIntent \/ ClearIntent
  BY DEF Steps, QuietSteps
<1> QED BY <1>1, LiveAssumption, QuietStepsKeep, LookAtMarkerKeeps, RecoverKeeps, ClaimKeeps, PutPendingKeeps, TypeKeeps,
           VerifyDraftKeeps, PressKeeps, ClearPendingKeeps, ReleaseKeeps, PutIntentKeeps, ClearIntentKeeps

(***************************************************************************)
(* An operation begins.                                                     *)
(***************************************************************************)
TextOf(o) == IF PendingIs(o) THEN pending.text ELSE o.text
LEMMA Admitted ==
  ASSUME Typed, RepliesFit, WaitingFits, NEW o \in Range(waiting), Admissible(o)
  PROVE  /\ o.cmd \in Drafts => pending = None /\ intent = None /\ TextOf(o) \in Replies
         /\ o.cmd = "submit" => /\ TargetPending /\ pending.token = o.token /\ pending.text = TextOf(o) /\ pending.verified
                                /\ Clean(TextOf(o)) /\ o.token # client.token
         /\ o.cmd = "verify-draft" => /\ intent = None
                                      /\ host.kind = "tools" => pending # None /\ pending.token = o.token /\ client.token = o.token
         /\ o.cmd = "abort" => Clean(TextOf(o))
         /\ o.cmd = "abort-draft" =>
              \/ intent # None /\ intent.token = o.token /\ intent.text = TextOf(o)
              \/ intent = None /\ TargetPending /\ pending.token = o.token /\ pending.text = TextOf(o) /\ ~pending.verified
         /\ o.cmd = "establish" => control.active \/ intent = None
<1>1. ASSUME o.cmd \in Drafts PROVE pending = None /\ intent = None /\ TextOf(o) \in Replies
  <2>1. pending = None /\ intent = None
    BY <1>1 DEF Admissible, MayPrepare, Drafts
  <2> QED BY <1>1, <2>1 DEF TextOf, PendingIs, WaitingFits, Drafts
<1>2. ASSUME o.cmd = "submit"
      PROVE  /\ TargetPending /\ pending.token = o.token /\ pending.text = TextOf(o) /\ pending.verified
             /\ Clean(TextOf(o)) /\ o.token # client.token
  <2> DEFINE p == [token |-> o.token, trigger |-> o.tp.trigger.id, control |-> o.cp.cap, target |-> o.tp.cap]
  <2>1. p.token = o.token
    OBVIOUS
  <2>2. PendingIs(o) /\ pending.verified /\ p \in host.prepared /\ o.token \notin host.consumed
    BY <1>2 DEF Admissible
  <2> HIDE DEF p
  <2> QED BY <2>1, <2>2 DEF PendingIs, TextOf, RepliesFit, PreparedFits, TargetPending
<1>3. ASSUME o.cmd = "verify-draft"
      PROVE  intent = None /\ (host.kind = "tools" => pending # None /\ pending.token = o.token /\ client.token = o.token)
  <2>1. intent = None /\ PendingIs(o)
    BY <1>3 DEF Admissible
  <2> QED BY <1>3, <2>1 DEF PendingIs, WaitingFits, FromClient
<1>4. ASSUME o.cmd = "abort" PROVE Clean(TextOf(o))
  <2>1. o.token \notin host.consumed /\ PendingIs(o) /\ \E p \in host.prepared : p.token = o.token
    BY <1>4 DEF Admissible
  <2> QED BY <2>1 DEF PendingIs, TextOf, RepliesFit, PreparedFits
<1>5. ASSUME o.cmd = "abort-draft"
      PROVE  \/ intent # None /\ intent.token = o.token /\ intent.text = TextOf(o)
             \/ intent = None /\ TargetPending /\ pending.token = o.token /\ pending.text = TextOf(o) /\ ~pending.verified
  <2>1. /\ IF intent = None THEN PendingIs(o) ELSE intent.token = o.token /\ (pending = None \/ PendingIs(o))
        /\ pending # None => ~pending.verified
    BY <1>5 DEF Admissible
  <2>2. CASE intent = None
    <3>1. PendingIs(o) /\ ~pending.verified
      BY <2>1, <2>2 DEF PendingIs
    <3>2. client.token = o.token
      BY <1>5, <3>1 DEF PendingIs, WaitingFits, FromClient
    <3>3. pending.conv = "target"
      BY <3>1, <3>2 DEF PendingIs, RepliesFit, ClientFits
    <3> QED BY <2>2, <3>1, <3>3 DEF PendingIs, TextOf, TargetPending
  <2>3. CASE intent # None /\ pending = None
    <3>1. o.text = intent.text
      BY <1>5, <2>1, <2>3 DEF WaitingFits
    <3> QED BY <2>1, <2>3, <3>1 DEF TextOf, PendingIs
  <2>4. CASE intent # None /\ pending # None
    <3>1. PendingIs(o) /\ intent.token = o.token
      BY <2>1, <2>4
    <3>2. pending.text = intent.text
      BY <2>4 DEF RepliesFit, IntentFits, PendingOf
    <3> QED BY <2>4, <3>1, <3>2 DEF TextOf
  <2> QED BY <2>2, <2>3, <2>4
<1>6. o.cmd = "establish" => control.active \/ intent = None
  BY DEF Admissible
<1> QED BY <1>1, <1>2, <1>3, <1>4, <1>5, <1>6

LEMMA BeginKeeps ==
  ASSUME Typed, Sendings, Own \notin Replies, Begin
  PROVE  Sendings'
<1> DEFINE o == Head(waiting)
<1>1. /\ ~Busy /\ waiting' = Tail(waiting) /\ o \in Range(waiting) /\ Range(Tail(waiting)) \subseteq Range(waiting)
      /\ o \in OpTypes /\ op' \in OpTypes /\ Begun(o) /\ BeginDoes(o)
      /\ UNCHANGED <<World, durable, session, client, budget>>
  BY BeginMoves
<1>2. \/ /\ Admissible(o) /\ op'.text = TextOf(o) /\ Starts(o.cmd, Place')
         /\ host' = IF o.cmd = "submit" THEN [host EXCEPT !.consumed = @ \cup {o.token}] ELSE host
      \/ op'.text = o.text /\ op'.failed /\ Place' = "end" /\ host' = host
  <2>1. CASE Admissible(o)
    <3> DEFINE text == IF PendingIs(o) THEN pending.text ELSE o.text
               began == IF o.tp = None THEN 0 ELSE Len(commands)
    <3>1. /\ op' = [o EXCEPT !.todo = Program(o), !.text = text, !.began = began]
          /\ host' = IF o.cmd = "submit" THEN [host EXCEPT !.consumed = @ \cup {o.token}] ELSE host
      BY <2>1 DEF Begin
    <3>2. text = TextOf(o)
      BY DEF TextOf
    <3> HIDE DEF o, text, began
    <3>3. op'.text = text /\ op'.todo = Program(o)
      BY <1>1, <3>1 DEF OpTypes
    <3>4. Starts(o.cmd, Place')
      <4>1. /\ CallFits(o) /\ o.cmd # "none"
        <5>1. o.cmd # "none"
          BY <1>1 DEF OpTypes, Commands
        <5>2. o \in Doing
          BY <1>1, <5>1 DEF Doing
        <5> QED BY <5>1, <5>2 DEF Typed, CallsFit
      <4>2. Starts(o.cmd, First(Program(o), "end"))
        BY <1>1, <4>1, ProgramPath
      <4> QED BY <3>3, <4>2 DEF Place
    <3> QED BY <2>1, <3>1, <3>2, <3>3, <3>4
  <2>2. CASE ~Admissible(o)
    <3>1. op' = [o EXCEPT !.failed = TRUE] /\ host' = host
      BY <2>2 DEF Begin
    <3> HIDE DEF o
    <3>2. op'.text = o.text /\ op'.failed /\ op'.todo = o.todo
      BY <1>1, <3>1 DEF OpTypes
    <3>3. Place' = "end"
      BY <1>1, <3>2 DEF Typed, CallsFit, Place, First
    <3> QED BY <3>1, <3>2, <3>3
  <2> QED BY <2>1, <2>2
<1> HIDE DEF o
<1>3. /\ host'.kind = host.kind /\ host'.prepared = host.prepared /\ host.consumed \subseteq host'.consumed
      /\ o.cmd = "submit" /\ ~(op'.failed /\ Place' = "end") => o.token \in host'.consumed
  BY <1>2, HostParts DEF HostTypes
<1>4. op'.cmd = o.cmd /\ op'.token = o.token
  BY <1>1 DEF Begun
<1>5. \A x : Pressed("reply", x)' <=> Pressed("reply", x)
  BY <1>1, SamePresses DEF World
<1>6. Calm
  BY <1>1, <1>3, <1>5 DEF Calm, Still, World, durable
<1>7. RepliesFit'
  BY <1>6, RepliesKept DEF Sendings
<1>8. InUseTokens' \subseteq InUseTokens
  BY <1>1, <1>3 DEF InUseTokens
<1>9. TokensFit'
  BY <1>1, <1>8, FewerTokens DEF Sendings
<1>10. WaitingFits'
  BY <1>1, <1>3 DEF Sendings, WaitingFits, FromClient, durable
<1>11. \A x : Clean(x)' <=> Clean(x)
  BY <1>1, <1>5 DEF Clean, Unpressed, Using, World
<1>12. OpStep'
  <2>1. CASE op'.text = o.text /\ op'.failed /\ Place' = "end"
    <3>1. o.cmd \in Drafts => o.text \in Replies
      BY <1>1 DEF Sendings, WaitingFits, Drafts
    <3>2. AnyStep(op, Place)'
      BY <1>4, <2>1, <3>1 DEF AnyStep
    <3>3. DraftStep(op, Place)' /\ SubmitStep(op, Place)' /\ VerifyStep(op, Place)' /\ AbortStep(op, Place)'
      BY <2>1 DEF DraftStep, SubmitStep, VerifyStep, AbortStep, Before
    <3> QED BY <3>2, <3>3 DEF OpStep, StepFits
  <2>2. CASE Admissible(o) /\ op'.text = TextOf(o) /\ Starts(o.cmd, Place') /\ ~(op'.failed /\ Place' = "end")
    <3>1. /\ o.cmd \in Drafts => pending = None /\ intent = None /\ TextOf(o) \in Replies
          /\ o.cmd = "submit" => /\ TargetPending /\ pending.token = o.token /\ pending.text = TextOf(o) /\ pending.verified
                                 /\ Clean(TextOf(o)) /\ o.token # client.token
          /\ o.cmd = "verify-draft" => /\ intent = None
                                       /\ host.kind = "tools" => pending # None /\ pending.token = o.token /\ client.token = o.token
          /\ o.cmd = "abort" => Clean(TextOf(o))
          /\ o.cmd = "abort-draft" =>
               \/ intent # None /\ intent.token = o.token /\ intent.text = TextOf(o)
               \/ intent = None /\ TargetPending /\ pending.token = o.token /\ pending.text = TextOf(o) /\ ~pending.verified
          /\ o.cmd = "establish" => control.active \/ intent = None
      BY <1>1, <2>2, Admitted DEF Sendings
    <3>2. UNCHANGED <<pending, intent, client, control>>
      BY <1>1 DEF durable
    <3>3. Clean(TextOf(o)) => Clean(op.text)'
      BY <1>1, <1>5, <2>2 DEF Clean, Unpressed, Using, World
    <3>4. AnyStep(op, Place)'
      <4>1. /\ Place' \notin {"put", "type", "release", "proven", "clearPending"}
            /\ Place' = "clear" => o.cmd = "abort"
            /\ Place' = "verify-draft" => o.cmd = "verify-draft"
            /\ Place' = "look-at-marker" => o.cmd = "establish"
            /\ ~(o.cmd = "verify-send" /\ Place' = "end")
        BY <2>2 DEF Starts
      <4> QED BY <1>4, <2>2, <3>1, <3>2, <3>3, <4>1 DEF AnyStep
    <3>5. o.cmd \in Drafts => DraftStep(op, Place)'
      <4>1. o.cmd \in Drafts => Place' \in {"bound", "look"}
        BY <2>2 DEF Starts, Drafts
      <4> QED BY <3>1, <3>2, <4>1 DEF DraftStep
    <3>6. o.cmd = "submit" => SubmitStep(op, Place)'
      <4>1. o.cmd = "submit" => Place' = "bound"
        BY <2>2 DEF Starts
      <4>2. o.cmd = "submit" => PendingOf(op)'
        BY <1>4, <2>2, <3>1, <3>2 DEF PendingOf, TargetPending
      <4> QED BY <1>3, <1>4, <2>2, <3>1, <3>2, <3>3, <4>1, <4>2 DEF SubmitStep, Before
    <3>7. o.cmd = "verify-draft" => VerifyStep(op, Place)'
      <4>1. o.cmd = "verify-draft" => Place' = "verify-draft"
        BY <2>2 DEF Starts
      <4> QED BY <1>3, <1>4, <3>1, <3>2, <4>1 DEF VerifyStep
    <3>8. o.cmd = "abort-draft" => AbortStep(op, Place)'
      <4>1. o.cmd = "abort-draft" => Place' = "look"
        BY <2>2 DEF Starts
      <4>2. o.cmd = "abort-draft" => IntentOf(op)' \/ (intent' = None /\ PendingOf(op)' /\ ~pending'.verified)
        BY <1>4, <2>2, <3>1, <3>2 DEF IntentOf, PendingOf, TargetPending
      <4> QED BY <4>1, <4>2 DEF AbortStep
    <3> QED BY <1>4, <3>4, <3>5, <3>6, <3>7, <3>8 DEF OpStep, StepFits
  <2>3. CASE Admissible(o) /\ op'.text = TextOf(o) /\ Starts(o.cmd, Place') /\ op'.failed /\ Place' = "end"
    <3>1. o.cmd \notin Busied
      BY <2>3 DEF Starts, Busied
    <3> QED BY <1>4, <2>3, <3>1, AsideFits
  <2> QED BY <1>2, <2>1, <2>2, <2>3
<1> QED BY <1>7, <1>9, <1>10, <1>12 DEF Sendings

(***************************************************************************)
(* An operation returns.                                                    *)
(***************************************************************************)
LEMMA IdleStep == ASSUME ~Busy' PROVE OpStep'
BY DEF OpStep

Finished == Busy /\ Place = "end" /\ ~op.failed /\ StepFits(op, "end") /\ ~Busy' /\ UNCHANGED <<World, durable, waiting, budget>>
LEMMA SessionReturnsKeep ==
  ASSUME Typed, Sendings, Own \notin Replies, Finished, SessionReturns, client' = client
  PROVE  Sendings'
<1>1. host \in HostTypes /\ session \in SessionTypes
  BY TypedParts
<1>2. host'.kind = host.kind /\ host'.prepared = host.prepared /\ host'.consumed = host.consumed
  BY <1>1 DEF SessionReturns, HostTypes, ForgetProofs
<1>3. session'.token \in {session.token, None} \/ (op.cmd = "prepare" /\ session'.token = op.token)
  BY <1>1 DEF SessionReturns, SessionTypes, Ended
<1>4. op.cmd = "prepare" => op.token > budget.tokens
  BY DEF Finished, StepFits, DraftStep, Drafts
<1>5. \A x : Pressed("reply", x)' <=> Pressed("reply", x)
  BY SamePresses DEF Finished, World
<1>6. Calm
  BY <1>2, <1>5 DEF Calm, Still, Finished, World, durable
<1>7. RepliesFit' /\ WaitingFits'
  BY <1>2, <1>6, RepliesKept, WaitingKept DEF Sendings, Finished, durable
<1>8. \A t \in InUseTokens' : t \in InUseTokens \/ t = None \/ (op.cmd = "prepare" /\ t = op.token)
  BY <1>2, <1>3 DEF InUseTokens, Finished
<1>9. TokensFit'
  BY <1>4, <1>8 DEF Sendings, TokensFit, Finished
<1> QED BY <1>7, <1>9, IdleStep DEF Sendings, Finished

LEMMA DraftReturns ==
  ASSUME Typed, Sendings, Own \notin Replies, Finished, op.cmd = "prepare-draft", UNCHANGED <<session, host>>,
         client' = [stage |-> "prepared", token |-> op.token, text |-> op.text]
  PROVE  Sendings'
<1>1. /\ op.text \in Replies /\ op.token \in Nat /\ op.token > budget.tokens /\ PendingOf(op) /\ ~pending.verified
      /\ intent = None /\ op.token \notin InUseTokens
  BY DEF Finished, StepFits, AnyStep, DraftStep, Drafts
<1>2. TargetPending /\ pending # None /\ pending.conv = "target" /\ pending.token = op.token /\ pending.text = op.text
  BY <1>1 DEF PendingOf, TargetPending
<1>3. Clean(op.text)
  BY <1>1, <1>2 DEF Sendings, RepliesFit, DraftFits
<1>4. client'.stage = "prepared" /\ client'.token = op.token /\ client'.text = op.text
  OBVIOUS
<1>5. UNCHANGED <<World, durable, waiting, budget>>
  BY DEF Finished
<1>6. \A x : Pressed("reply", x)' <=> Pressed("reply", x)
  BY <1>5, SamePresses DEF World
<1>7. /\ \A x : ~Using(x)'
      /\ \A x : Unpressed(x)' <=> Unpressed(x)
      /\ \A x : Clean(x) => Clean(x)'
  BY <1>4, <1>5, <1>6 DEF Clean, Unpressed, Using, World
<1>8. RepliesFit'
  <2>1. ClaimsFit' /\ DraftFits' /\ OrphanFits'
    BY <1>5, <1>6, <1>7 DEF Sendings, RepliesFit, ClaimsFit, DraftFits, OrphanFits, TargetPending, World, durable
  <2>2. PreparedFits'
    <3>1. \A p \in host.prepared : p.token \in InUseTokens
      BY DEF InUseTokens
    <3> QED BY <1>1, <1>4, <1>5, <1>7, <3>1 DEF Sendings, RepliesFit, PreparedFits, durable
  <2>3. IntentFits'
    BY <1>1, <1>5 DEF IntentFits, durable
  <2>4. ClientFits'
    <3>1. Unpressed(op.text)
      BY <1>3 DEF Clean
    <3>2. Unpressed(client.text)'
      BY <1>4, <1>5, <1>6, <3>1 DEF Unpressed, World
    <3> QED BY <1>1, <1>2, <1>4, <1>5, <1>7, <3>2 DEF ClientFits, durable
  <2> QED BY <2>1, <2>2, <2>3, <2>4 DEF RepliesFit
<1>9. TokensFit'
  <2>1. \A t \in InUseTokens' : t \in InUseTokens \/ t = op.token
    BY <1>4, <1>5 DEF InUseTokens
  <2> QED BY <1>1, <1>5, <2>1 DEF Sendings, TokensFit
<1>10. WaitingFits'
  <2>1. \A w \in Range(waiting) : w.token \in InUseTokens
    BY DEF InUseTokens
  <2> QED BY <1>1, <1>2, <1>5, <2>1 DEF Sendings, WaitingFits, FromClient, durable
<1> QED BY <1>8, <1>9, <1>10, IdleStep DEF Sendings, Finished

LEMMA VerifiedReturns ==
  ASSUME Typed, Sendings, Own \notin Replies, Finished, op.cmd = "verify-draft", host.kind = "tools",
         UNCHANGED <<session, host>>, client' = [client EXCEPT !.stage = "verified"]
  PROVE  Sendings'
<1>1. intent = None /\ pending # None /\ pending.verified /\ pending.token = op.token /\ client.token = op.token
  BY DEF Finished, StepFits, VerifyStep
<1>2. /\ pending.conv = "target" /\ client.text = pending.text /\ client.text \in Replies
      /\ Using(client.text) \/ Unpressed(client.text)
  BY <1>1 DEF Sendings, RepliesFit, ClientFits
<1>3. client'.stage = "verified" /\ client'.token = client.token /\ client'.text = client.text
  BY TypedParts DEF ClientTypesAre
<1>4. UNCHANGED <<World, durable, waiting, budget>>
  BY DEF Finished
<1>5. \A x : Pressed("reply", x)' <=> Pressed("reply", x)
  BY <1>4, SamePresses DEF World
<1>6. /\ \A x : Using(x)' <=> x = client.text
      /\ \A x : Unpressed(x)' <=> Unpressed(x)
      /\ \A x : Clean(x) /\ x # client.text => Clean(x)'
  BY <1>3, <1>4, <1>5 DEF Clean, Unpressed, Using, World
<1>7. RepliesFit'
  <2>1. ClaimsFit'
    <3>1. outgoing[client.text] # "none"
      BY <1>1, <1>2 DEF Sendings, RepliesFit, ClaimsFit, TargetPending
    <3> QED BY <1>4, <1>6, <3>1 DEF Sendings, RepliesFit, ClaimsFit, TargetPending, durable
  <2>2. DraftFits' /\ IntentFits'
    BY <1>1, <1>4 DEF DraftFits, IntentFits, durable
  <2>3. PreparedFits'
    BY <1>1, <1>3, <1>4 DEF Sendings, RepliesFit, PreparedFits, durable
  <2>4. ClientFits'
    <3>1. Using(client.text) /\ composer["target"] = client.text => Unpressed(client.text)
      BY DEF Sendings, RepliesFit, ClientFits
    <3>2. Unpressed(client.text)' <=> Unpressed(client.text)
      BY <1>3, <1>4, <1>5 DEF Unpressed, World
    <3>3. Using(client.text)'
      BY <1>3 DEF Using
    <3> QED BY <1>1, <1>2, <1>3, <1>4, <3>1, <3>2, <3>3 DEF ClientFits, durable, World
  <2>5. OrphanFits'
    <3>1. orphan # None => orphan.what # client.text
      BY <1>2 DEF Sendings, RepliesFit, OrphanFits, Unpressed, Using
    <3> QED BY <1>4, <1>5, <1>6, <3>1 DEF Sendings, RepliesFit, OrphanFits, World
  <2> QED BY <2>1, <2>2, <2>3, <2>4, <2>5 DEF RepliesFit
<1>8. TokensFit' /\ WaitingFits'
  BY <1>3, <1>4 DEF Sendings, TokensFit, InUseTokens, WaitingFits, FromClient, durable
<1> QED BY <1>7, <1>8, IdleStep DEF Sendings, Finished

LEMMA DraftEnds ==
  ASSUME Typed, LiveAssumption, Sendings, Own \notin Replies, Finished, pending = None,
         UNCHANGED <<session, host>>, client' = NoDraft
  PROVE  Sendings'
<1>1. client'.stage = "none" /\ client'.token = None
  BY DEF NoDraft
<1>2. UNCHANGED <<World, durable, waiting, budget>>
  BY DEF Finished
<1>3. \A x : Pressed("reply", x)' <=> Pressed("reply", x)
  BY <1>2, SamePresses DEF World
<1>4. /\ \A x : ~Using(x)'
      /\ \A x : Unpressed(x)' <=> Unpressed(x)
      /\ \A x : Clean(x) => Clean(x)'
  BY <1>1, <1>2, <1>3 DEF Clean, Unpressed, Using, World
<1>5. RepliesFit'
  <2>1. ClaimsFit' /\ DraftFits' /\ IntentFits' /\ OrphanFits'
    BY <1>1, <1>2, <1>3, <1>4 DEF Sendings, RepliesFit, ClaimsFit, DraftFits, IntentFits, OrphanFits, TargetPending, World, durable
  <2>2. PreparedFits'
    BY <1>1, <1>2, LiveAssumption DEF LiveAssumption, Sendings, RepliesFit, PreparedFits, durable
  <2>3. ClientFits'
    BY <1>1, <1>2, <1>4 DEF ClientFits, durable
  <2> QED BY <2>1, <2>2, <2>3 DEF RepliesFit
<1>6. TokensFit'
  <2>1. \A t \in InUseTokens' : t \in InUseTokens \/ t = None
    BY <1>1, <1>2 DEF InUseTokens
  <2> QED BY <1>2, <2>1 DEF Sendings, TokensFit
<1>7. WaitingFits'
  BY <1>2 DEF Sendings, WaitingFits, FromClient, durable
<1> QED BY <1>5, <1>6, <1>7, IdleStep DEF Sendings, Finished

LEMMA ReturnKeeps ==
  ASSUME Typed, Sendings, Own \notin Replies, Return
  PROVE  Sendings'
<1>1. Busy /\ Place = "end" /\ ~Busy' /\ UNCHANGED <<World, durable, waiting, budget>>
  BY ReturnMoves DEF ReturnDoes
<1>2. CASE UNCHANGED <<session, client, host>>
  <2>1. Unmoved
    BY <1>1, <1>2, UnmovedWhen DEF World, durable
  <2> QED BY <1>1, <2>1, UnmovedKeeps, IdleStep DEF Sendings
<1>3. ASSUME ~op.failed PROVE Finished
  BY <1>1, <1>3 DEF Sendings, OpStep, Finished
<1>4. CASE ~op.failed /\ host.kind # "tools"
  BY <1>3, <1>4, SessionReturnsKeep DEF Return
<1>5. CASE ~op.failed /\ host.kind = "tools"
  <2>1. ClientReturns /\ UNCHANGED <<session, host>>
    BY <1>5 DEF Return
  <2>2. CASE op.cmd = "prepare-draft"
    BY <1>3, <1>5, <2>1, <2>2, DraftReturns DEF ClientReturns
  <2>3. CASE op.cmd = "verify-draft"
    BY <1>3, <1>5, <2>1, <2>3, VerifiedReturns DEF ClientReturns
  <2>4. CASE op.cmd \in {"verify-send", "abort-draft"}
    <3>1. pending = None
      BY <1>3, <1>5, <2>4 DEF Finished, StepFits, AnyStep, AbortStep
    <3> QED BY <1>3, <1>5, <2>1, <2>4, <3>1, DraftEnds, LiveAssumption DEF ClientReturns
  <2>5. CASE op.cmd \notin {"prepare-draft", "verify-draft", "verify-send", "abort-draft"}
    BY <1>2, <2>1, <2>5 DEF ClientReturns
  <2> QED BY <2>2, <2>3, <2>4, <2>5
<1>6. CASE op.failed
  BY <1>2, <1>6 DEF Return
<1> QED BY <1>4, <1>5, <1>6

(***************************************************************************)
(* A call.                                                                  *)
(***************************************************************************)
Asks(o) ==
  /\ o \in OpTypes /\ o.token \in {client.token, session.token, None}
  /\ o.cmd \in Drafts => o.text \in Replies /\ o.token = None
  /\ FromClient(o) => o.token = client.token /\ o.token # None /\ o.text = client.text
Asked3 ==
  /\ session'.token \in {session.token, None}
  /\ waiting' = waiting \/ \E o : Asks(o) /\ waiting' = Append(waiting, o)
LEMMA EnqueueAsks ==
  ASSUME NEW o, Asks(o), Enqueue(o), session'.token = session.token
  PROVE  Asked3
BY DEF Asked3, Enqueue

(* A command keeps what it was called with, whatever proofs it carries.      *)
LEMMA CommandAsks ==
  ASSUME Typed, NEW cmd \in Commands, NEW conv \in {"target", "control"}, NEW text \in Texts, NEW token \in Tokens,
         token \in {client.token, session.token, None},
         cmd \in Drafts => text \in Replies /\ token = None,
         cmd = "abort-draft" \/ (cmd = "verify-draft" /\ host.kind = "tools") =>
           token = client.token /\ token # None /\ text = client.text
  PROVE  /\ Asks(Command(cmd, conv, text, token))
         /\ Asks([Command(cmd, conv, text, token) EXCEPT !.tp = None])
         /\ Asks([Command(cmd, conv, text, token) EXCEPT !.cp = None, !.tp = None])
<1> DEFINE o == Command(cmd, conv, text, token)
<1>1. CommandIs(o, cmd, conv)
  BY CommandTypes
<1>2. o.text = text /\ o.token = token
  BY DEF Command
<1> HIDE DEF o
<1>3. o \in OpTypes /\ o.cmd = cmd /\ [o EXCEPT !.tp = None] \in OpTypes /\ [o EXCEPT !.cp = None, !.tp = None] \in OpTypes
  BY <1>1 DEF CommandIs
<1>4. ASSUME NEW p \in OpTypes, p.cmd = cmd, p.text = text, p.token = token PROVE Asks(p)
  BY <1>4 DEF Asks, FromClient
<1>5. /\ [o EXCEPT !.tp = None].cmd = cmd /\ [o EXCEPT !.tp = None].text = text /\ [o EXCEPT !.tp = None].token = token
      /\ [o EXCEPT !.cp = None, !.tp = None].cmd = cmd /\ [o EXCEPT !.cp = None, !.tp = None].text = text
      /\ [o EXCEPT !.cp = None, !.tp = None].token = token
  BY <1>2, <1>3 DEF OpTypes
<1>6. Asks(o)
  BY <1>2, <1>3, <1>4
<1>7. Asks([o EXCEPT !.tp = None])
  BY <1>3, <1>4, <1>5
<1>8. Asks([o EXCEPT !.cp = None, !.tp = None])
  BY <1>3, <1>4, <1>5
<1> QED BY <1>6, <1>7, <1>8 DEF o

LEMMA CallsAsk == ASSUME Typed, Calls PROVE Asked3
<1>1. /\ None \in Tokens /\ session.token \in Tokens /\ client.token \in Tokens
      /\ session.text \in Texts /\ client.text \in Texts /\ Marker \in Texts /\ None \in Texts
  BY TypedParts DEF Tokens, Texts, SessionTypes, ClientTypesAre
<1>2. InSession => host.kind # "tools"
  BY DEF InSession
<1>3. ASSUME NEW cmd \in {"establish", "read-control", "read-target", "read-direct"}, SessionReads(cmd) PROVE Asked3
  <2> DEFINE conv == IF cmd = "establish" THEN "control" ELSE "target"
             o == Command(cmd, conv, Marker, None)
  <2>1. conv \in {"target", "control"} /\ cmd \in Commands /\ cmd \notin Drafts /\ cmd \notin {"abort-draft", "verify-draft"}
    BY DEF Commands, Drafts
  <2>2. Enqueue(IF cmd = "read-target" THEN [o EXCEPT !.tp = None] ELSE [o EXCEPT !.cp = None, !.tp = None])
        /\ UNCHANGED session
    BY <1>3 DEF SessionReads
  <2> HIDE DEF conv
  <2>3. Asks([o EXCEPT !.tp = None]) /\ Asks([o EXCEPT !.cp = None, !.tp = None])
    BY <1>1, <2>1, CommandAsks
  <2> HIDE DEF o
  <2> QED BY <2>2, <2>3, EnqueueAsks
<1>4. ASSUME NEW cmd \in {"prepare", "show-card"}, NEW text \in Texts, SessionReplies(cmd, text), cmd = "prepare" => text \in Replies
      PROVE  Asked3
  <2>1. cmd \in Commands /\ cmd \notin {"abort-draft", "verify-draft"} /\ (cmd \in Drafts => text \in Replies)
    BY <1>4 DEF Commands, Drafts
  <2>2. Asks(Command(cmd, "target", text, None))
    BY <1>1, <2>1, CommandAsks
  <2>3. Enqueue(Command(cmd, "target", text, None)) /\ UNCHANGED session
    BY <1>4 DEF SessionReplies
  <2> QED BY <2>2, <2>3, EnqueueAsks
<1>5. ASSUME NEW cmd \in {"verify-draft", "submit", "abort", "verify-send"}, SessionSends(cmd) PROVE Asked3
  <2>1. cmd \in Commands /\ cmd # "abort-draft" /\ cmd \notin Drafts /\ host.kind # "tools"
    BY <1>2, <1>5 DEF Commands, Drafts, SessionSends
  <2>2. Asks(Command(cmd, "target", session.text, session.token))
    BY <1>1, <2>1, CommandAsks
  <2>3. Enqueue(Command(cmd, "target", session.text, session.token)) /\ session'.token = session.token
    BY <1>5, TypedParts DEF SessionSends, SessionTypes
  <2> QED BY <2>2, <2>3, EnqueueAsks
<1>6. CASE SessionCloses
  BY <1>6, TypedParts DEF SessionCloses, Ended, SessionTypes, Asked3
<1>7. CASE AcceptCard
  <2>1. Asks([Command("accept-card", "target", None, None) EXCEPT !.cp = None, !.tp = None])
    <3>1. "accept-card" \in Commands /\ "accept-card" \notin Drafts
      BY DEF Commands, Drafts
    <3> QED BY <1>1, <3>1, CommandAsks
  <2> QED BY <1>7, <2>1, EnqueueAsks DEF AcceptCard
<1>8. ASSUME NEW cmd \in {"get-state", "read-chat", "read-control", "prepare-draft", "verify-draft", "abort-draft", "verify-send"},
             NEW text \in budget.texts \cup {None}, ToolCalls(cmd, text)
      PROVE  Asked3
  <2>1. /\ cmd \in Commands /\ text \in Texts
        /\ cmd \in Drafts => text \in Replies /\ client.token = None
        /\ cmd = "abort-draft" \/ (cmd = "verify-draft" /\ host.kind = "tools") => client.token # None /\ text = client.text
    <3>1. text \in Replies \/ text = None
      BY TypedParts DEF BudgetTypes
    <3>2. /\ \/ cmd \in {"get-state", "read-chat", "read-control"} /\ text = None
             \/ cmd = "prepare-draft" /\ client.token = None /\ text # None
             \/ cmd \in {"verify-draft", "abort-draft", "verify-send"} /\ client.token # None /\ text = client.text
      BY <1>8 DEF ToolCalls
    <3> QED BY <1>1, <3>1, <3>2 DEF Commands, Drafts, Texts
  <2>2. Asks([Command(cmd, "target", text, client.token) EXCEPT !.cp = None, !.tp = None])
    BY <1>1, <2>1, CommandAsks
  <2>3. Enqueue([Command(cmd, "target", text, client.token) EXCEPT !.cp = None, !.tp = None]) /\ UNCHANGED session
    BY <1>8 DEF ToolCalls
  <2> QED BY <2>2, <2>3, EnqueueAsks
<1>9. ASSUME NEW text \in budget.texts PROVE text \in Replies /\ text \in Texts
  BY TypedParts DEF BudgetTypes, Texts
<1>10. CASE \E text \in budget.texts : SessionReplies("prepare", text)
  BY <1>4, <1>9, <1>10
<1>11. CASE SessionReplies("show-card", None)
  BY <1>1, <1>4, <1>11
<1> QED BY <1>3, <1>5, <1>6, <1>7, <1>8, <1>10, <1>11 DEF Calls

LEMMA CallsKeep ==
  ASSUME Typed, Sendings, Own \notin Replies, Calls
  PROVE  Sendings'
<1>1. UNCHANGED <<World, durable, host, client, op, budget>>
  BY CallsMoves DEF CallsDo
<1>2. Asked3
  BY CallsAsk
<1>3. \A x : Pressed("reply", x)' <=> Pressed("reply", x)
  BY <1>1, SamePresses DEF World
<1>4. Calm
  BY <1>1, <1>3 DEF Calm, Still, World, durable
<1>5. RepliesFit'
  BY <1>4, RepliesKept DEF Sendings
<1>6. \A w \in Range(waiting)' : w \in Range(waiting) \/ Asks(w)
  <2>1. CASE waiting' = waiting
    BY <2>1
  <2>2. ASSUME NEW o, Asks(o), waiting' = Append(waiting, o) PROVE \A w \in Range(waiting)' : w \in Range(waiting) \/ Asks(w)
    <3>1. o \in OpTypes /\ waiting \in Seq(OpTypes)
      BY <2>2, TypedParts DEF Asks
    <3> QED BY <2>2, <3>1, AppendRange
  <2> QED BY <1>2, <2>1, <2>2 DEF Asked3
<1>7. InUseTokens' \subseteq InUseTokens
  <2>1. \A w \in Range(waiting)' : w.token \in InUseTokens
    BY <1>6 DEF Asks, InUseTokens
  <2>2. session'.token \in InUseTokens
    BY <1>2 DEF Asked3, InUseTokens
  <2> QED BY <1>1, <2>1, <2>2 DEF InUseTokens
<1>8. TokensFit'
  BY <1>1, <1>7, FewerTokens DEF Sendings
<1>9. WaitingFits'
  <2>1. ASSUME NEW w, Asks(w)
        PROVE  /\ w.cmd \in {"prepare", "prepare-draft"} => w.text \in Replies /\ w.token = None
               /\ FromClient(w) /\ pending # None /\ pending.token = w.token => client.token = w.token /\ w.text = client.text
               /\ w.cmd = "abort-draft" /\ intent # None /\ intent.token = w.token => w.text = intent.text
    <3>1. w.cmd = "abort-draft" => w.token = client.token /\ w.token # None /\ w.text = client.text
      BY <2>1 DEF Asks, FromClient
    <3> QED BY <2>1, <3>1 DEF Asks, Drafts, Sendings, RepliesFit, IntentFits
  <2> QED BY <1>1, <1>6, <2>1 DEF Sendings, WaitingFits, FromClient, durable
<1>10. OpStep'
  <2>1. \A x : Clean(x) => Clean(x)'
    BY <1>1, <1>3 DEF Clean, Unpressed, Using, World
  <2>2. Kept
    BY <1>1, <1>7, <2>1 DEF Kept, durable
  <2> QED BY <1>1, <2>2, StandsStill DEF Sendings, durable
<1> QED BY <1>5, <1>8, <1>9, <1>10 DEF Sendings

(***************************************************************************)
(* The client, the world, and the process.                                  *)
(***************************************************************************)
LEMMA ApartKeeps ==
  ASSUME Sendings, Outside, client'.token = client.token, client'.text = client.text,
         budget'.tokens = budget.tokens, \A x : Clean(x) => Clean(x)', ClientFits', OrphanFits'
  PROVE  Sendings'
<1>1. RepliesFit'
  BY DEF Sendings, RepliesFit, ClaimsFit, DraftFits, PreparedFits, IntentFits, PendingOf, TargetPending, Outside, durable
<1>2. InUseTokens' = InUseTokens
  BY DEF InUseTokens, Outside
<1>3. TokensFit'
  BY <1>2, FewerTokens DEF Sendings
<1>4. WaitingFits'
  BY DEF Sendings, WaitingFits, FromClient, Outside, durable
<1>5. Kept
  BY <1>2 DEF Kept, Outside, durable
<1>6. OpStep'
  BY <1>5, StandsStill DEF Sendings, Outside, durable
<1> QED BY <1>1, <1>3, <1>4, <1>6 DEF Sendings

LEMMA ClientNamesReply == ASSUME ClientFits, LiveAssumption, client.stage # "none" PROVE client.text \in Replies /\ client.text # Empty
BY DEF ClientFits, LiveAssumption

LEMMA ClientTypesKeeps ==
  ASSUME Typed, Sendings, Own \notin Replies, ClientTypes
  PROVE  Sendings'
<1>1. Outside /\ UNCHANGED <<presses, orphan, client, budget>> /\ client.stage = "prepared"
  BY DEF ClientTypes, Outside, Process
<1>2. \A x : Pressed("reply", x)' <=> Pressed("reply", x)
  BY <1>1, SamePresses
<1>3. /\ \A x : Clean(x)' <=> Clean(x)
      /\ \A x : Unpressed(x)' <=> Unpressed(x)
      /\ \A x : ~Using(x)' /\ ~Using(x)
  BY <1>1, <1>2 DEF Clean, Unpressed, Using
<1>4. ClientFits' /\ OrphanFits'
  BY <1>1, <1>2, <1>3 DEF Sendings, RepliesFit, ClientFits, OrphanFits, Outside, durable
<1> QED BY <1>1, <1>3, <1>4, ApartKeeps

LEMMA ClientPressesKeeps ==
  ASSUME Typed, LiveAssumption, Sendings, Own \notin Replies, ClientPresses
  PROVE  Sendings' /\ ~Pressed("reply", client.text)
<1>1. /\ Outside /\ UNCHANGED <<orphan, budget>> /\ client.stage = "verified" /\ composer["target"] = client.text
      /\ SetComposer("target", Empty) /\ presses' = Append(presses, Unasked("reply", client.text))
      /\ client' = [client EXCEPT !.stage = "pressed"]
  BY DEF ClientPresses, Outside
<1>2. client'.stage = "pressed" /\ client'.token = client.token /\ client'.text = client.text
  BY <1>1, TypedParts DEF ClientTypesAre
<1>3. client.text \in Replies /\ client.text # Empty
  BY <1>1, ClientNamesReply DEF Sendings, RepliesFit
<1>4. Using(client.text) /\ Unpressed(client.text)
  BY <1>1 DEF Using, Sendings, RepliesFit, ClientFits
<1>5. \A x : Pressed("reply", x)' <=> Pressed("reply", x) \/ x = client.text
  <2>1. Unasked("reply", client.text) \in PressTypes
    BY <1>3, UnaskedTypes DEF Texts
  <2>2. Unasked("reply", client.text).kind = "reply" /\ Unasked("reply", client.text).what = client.text
    BY DEF Unasked
  <2> QED BY <1>1, <2>1, <2>2, MorePressed
<1>6. /\ \A x : Using(x)' <=> Using(x)
      /\ \A x : Unpressed(x)' <=> Unpressed(x) /\ x # client.text
      /\ \A x : Clean(x) => Clean(x)'
  BY <1>1, <1>2, <1>4, <1>5 DEF Clean, Unpressed, Using
<1>7. composer'["target"] = Empty
  BY <1>1, TypedParts DEF SetComposer
<1>8. ClientFits'
  BY <1>1, <1>2, <1>3, <1>4, <1>6, <1>7 DEF Sendings, RepliesFit, ClientFits, Outside, durable
<1>9. OrphanFits'
  BY <1>1, <1>4, <1>5, <1>6 DEF Sendings, RepliesFit, OrphanFits
<1> QED BY <1>1, <1>2, <1>4, <1>6, <1>8, <1>9, ApartKeeps DEF Unpressed

LEMMA OrphanLandsKeeps ==
  ASSUME Typed, LiveAssumption, Sendings, Own \notin Replies, OrphanLands
  PROVE  Sendings' /\ orphan.kind = "reply" /\ ~Pressed("reply", orphan.what)
<1>1. Outside /\ UNCHANGED <<client, budget>> /\ orphan # None /\ orphan' = None
  BY DEF OrphanLands, Outside, Process
<1>2. orphan.kind = "reply" /\ ~Pressed("reply", orphan.what) /\ ~Using(orphan.what)
  BY <1>1 DEF Sendings, RepliesFit, OrphanFits
<1>3. OrphanFits'
  BY <1>1 DEF OrphanFits
<1>4. \A x : Using(x)' <=> Using(x)
  BY <1>1 DEF Using
<1>5. CASE composer["target"] = orphan.what
  <2>1. SetComposer("target", Empty) /\ presses' = Append(presses, orphan) /\ orphan \in PressTypes
    BY <1>1, <1>5, TypedParts DEF OrphanLands
  <2>2. \A x : Pressed("reply", x)' <=> Pressed("reply", x) \/ x = orphan.what
    BY <1>2, <2>1, MorePressed
  <2>3. /\ \A x : Unpressed(x)' <=> Unpressed(x)
        /\ \A x : Clean(x)' <=> Clean(x)
    BY <1>1, <1>4, <2>2 DEF Clean, Unpressed
  <2>4. composer'["target"] = Empty
    BY <2>1, TypedParts DEF SetComposer
  <2>5. Using(client.text) => client.text # Empty
    BY ClientNamesReply DEF Using, Sendings, RepliesFit
  <2>6. ClientFits'
    BY <1>1, <1>4, <2>3, <2>4, <2>5 DEF Sendings, RepliesFit, ClientFits, Outside, durable
  <2> QED BY <1>1, <1>2, <1>3, <2>3, <2>6, ApartKeeps
<1>6. CASE composer["target"] # orphan.what
  <2>1. UNCHANGED <<composer, presses>>
    BY <1>6 DEF OrphanLands
  <2>2. \A x : Pressed("reply", x)' <=> Pressed("reply", x)
    BY <2>1, SamePresses
  <2>3. /\ \A x : Unpressed(x) => Unpressed(x)'
        /\ \A x : Clean(x) => Clean(x)'
    BY <1>1, <1>4, <2>2 DEF Clean, Unpressed
  <2>4. ClientFits'
    BY <1>1, <1>4, <2>1, <2>3 DEF Sendings, RepliesFit, ClientFits, Outside, durable
  <2> QED BY <1>1, <1>2, <1>3, <2>3, <2>4, ApartKeeps
<1> QED BY <1>5, <1>6

LEMMA WorldUnmoved ==
  ASSUME Typed, UNCHANGED vars \/ (\E m \in budget.msgs : ContactWrites(m)) \/ (\E c \in budget.commands : OwnerCommands(c))
                \/ OwnerTypes \/ OwnerPresses
  PROVE  Unmoved /\ op' = op /\ control' = control
<1>1. CASE UNCHANGED vars
  BY <1>1, UnmovedWhen DEF vars, durable
<1>2. ASSUME Spend("in") \/ Spend("owner") \/ Spend("typed"), UNCHANGED <<orphan, presses, durable, Process, op>>,
             composer' = composer \/ SetComposer("target", Own) \/ SetComposer("target", Empty)
      PROVE  Unmoved /\ op' = op /\ control' = control
  <2>1. budget'.tokens = budget.tokens
    BY <1>2, SpendKeeps
  <2>2. composer'["target"] \in {composer["target"], Empty, Own}
    BY <1>2, TypedParts DEF SetComposer
  <2> QED BY <1>2, <2>1, <2>2, UnmovedWhen DEF durable, Process
<1>3. CASE (\E m \in budget.msgs : ContactWrites(m)) \/ (\E c \in budget.commands : OwnerCommands(c))
  BY <1>2, <1>3 DEF ContactWrites, OwnerCommands
<1>4. CASE OwnerTypes \/ OwnerPresses
  BY <1>2, <1>4 DEF OwnerTypes, OwnerPresses
<1> QED BY <1>1, <1>3, <1>4

LEMMA RestartKeeps ==
  ASSUME Typed, StopsFit, LiveAssumption, Sendings, Own \notin Replies, NEW kind \in budget.hosts, Restart(kind)
  PROVE  Sendings'
<1>1. /\ RestartDoes /\ Spend("starts") /\ host' = [NoHost EXCEPT !.kind = kind]
      /\ session' = (IF kind = "tools" THEN NoSession ELSE NewSession)
  BY RestartMoves DEF Restart
<1>2. host'.prepared = {} /\ session'.token = None /\ Range(waiting)' = {} /\ ~Busy'
  BY <1>1 DEF NoHost, NoSession, NewSession, RestartDoes, Range
<1>3. UNCHANGED <<composer, presses, durable, client>>
  BY <1>1 DEF RestartDoes
<1>4. \A x : Pressed("reply", x)' <=> Pressed("reply", x)
  BY <1>3, SamePresses
<1>5. \A x : Using(x)' <=> Using(x)
  BY <1>3 DEF Using
<1>6. TokensFit' /\ WaitingFits' /\ OpStep' /\ PreparedFits'
  <2>1. budget'.tokens = budget.tokens
    BY <1>1, SpendKeeps
  <2>2. InUseTokens' \subseteq InUseTokens
    BY <1>2, <1>3 DEF InUseTokens
  <2>3. PreparedFits'
    BY <1>2 DEF PreparedFits
  <2>4. WaitingFits'
    BY <1>2 DEF WaitingFits
  <2> QED BY <1>2, <2>1, <2>2, <2>3, <2>4, FewerTokens, IdleStep DEF Sendings
<1>7. CASE orphan' = orphan
  <2>1. /\ \A x : Clean(x)' <=> Clean(x)
        /\ \A x : Unpressed(x)' <=> Unpressed(x)
    BY <1>4, <1>5, <1>7 DEF Clean, Unpressed
  <2>2. RepliesFit'
    BY <1>3, <1>4, <1>5, <1>6, <1>7, <2>1 DEF Sendings, RepliesFit, ClaimsFit, DraftFits, IntentFits, ClientFits, OrphanFits,
       PendingOf, TargetPending, durable
  <2> QED BY <1>6, <2>2 DEF Sendings
<1>8. CASE Working("press") /\ op.cmd = "submit" /\ orphan' = Sending("reply", op.text)
  <2>1. /\ PendingOf(op) /\ pending.verified /\ Clean(op.text) /\ op.token # client.token
    BY <1>8, Fitting DEF SubmitStep
  <2>2. pending # None /\ pending.conv = "target" /\ pending.text = op.text /\ pending.token = op.token /\ TargetPending
    BY <2>1 DEF PendingOf, TargetPending
  <2>3. intent = None
    BY <2>1, <2>2 DEF Sendings, RepliesFit, IntentFits
  <2>4. orphan'.kind = "reply" /\ orphan'.what = op.text
    BY <1>8 DEF Sending
  <2>5. /\ \A x : Clean(x) /\ x # op.text => Clean(x)'
        /\ \A x : Unpressed(x) /\ x # op.text => Unpressed(x)'
    BY <1>4, <1>5, <2>4 DEF Clean, Unpressed
  <2>6. ClaimsFit'
    BY <1>3, <2>2, <2>3, <2>5 DEF Sendings, RepliesFit, ClaimsFit, TargetPending, durable
  <2>7. DraftFits' /\ IntentFits'
    BY <1>3, <2>1, <2>3 DEF DraftFits, IntentFits, durable
  <2>8. ClientFits'
    <3>1. Using(client.text) => client.text # op.text
      BY <2>1 DEF Clean
    <3> QED BY <1>3, <1>5, <2>1, <2>2, <2>5, <3>1 DEF Sendings, RepliesFit, ClientFits, durable
  <2>9. OrphanFits'
    BY <1>4, <1>5, <2>1, <2>4 DEF OrphanFits, Clean, Unpressed
  <2> QED BY <1>6, <2>6, <2>7, <2>8, <2>9 DEF Sendings, RepliesFit
<1> QED BY <1>1, <1>7, <1>8 DEF RestartDoes

LEMMA NextKeeps ==
  ASSUME Typed, Typed', StopsFit, Sendings, Own \notin Replies, [Next]_vars
  PROVE  Sendings'
<1>1. \/ Steps \/ StepFails
      \/ Begin \/ Return \/ Calls
      \/ ClientTypes \/ ClientPresses \/ OrphanLands
      \/ \E kind \in budget.hosts : Restart(kind)
      \/ \/ UNCHANGED vars \/ (\E m \in budget.msgs : ContactWrites(m)) \/ (\E c \in budget.commands : OwnerCommands(c))
         \/ OwnerTypes \/ OwnerPresses
  BY DEF Next
<1>2. CASE Steps \/ StepFails
  BY <1>2, StepsKeep
<1>3. CASE Begin \/ Return \/ Calls
  BY <1>3, BeginKeeps, ReturnKeeps, CallsKeep
<1>4. CASE ClientTypes \/ ClientPresses \/ OrphanLands
  BY <1>4, LiveAssumption, ClientTypesKeeps, ClientPressesKeeps, OrphanLandsKeeps
<1>5. CASE \E kind \in budget.hosts : Restart(kind)
  BY <1>5, LiveAssumption, RestartKeeps
<1>6. CASE \/ UNCHANGED vars \/ (\E m \in budget.msgs : ContactWrites(m)) \/ (\E c \in budget.commands : OwnerCommands(c))
           \/ OwnerTypes \/ OwnerPresses
  BY <1>6, WorldUnmoved, StandStep
<1> QED BY <1>1, <1>2, <1>3, <1>4, <1>5, <1>6

(***************************************************************************)
(* From step to step.                                                       *)
(***************************************************************************)
Strides(a) ==
  /\ Working(a) /\ op'.cmd = op.cmd /\ op'.tp = op.tp
  /\ a = "card-intent" /\ Place' \in Carding => CardFree /\ SetCard("intent")
  /\ \/ Follows(op.cmd, op.cp, a, Place')
     \/ Recovers(op.cmd, op.failed, a, Place')
     \/ a \in {"control", "consume"} /\ Place' = "stop-clear"
     \/ a = "card-intent" /\ Place' \in {"consume-trigger", "end"}
     \/ a = "gate" /\ op.cmd = "read-direct" /\ Place' \in {"read", "end"}
     \/ a = "look-at-marker" /\ op.cmd = "establish" /\ Place' \in {"end", "activate", "clear", "clearPending"}
     \/ a = "look-at-marker" /\ op.cmd = "establish" /\ Place' = "put" /\ Count(commands, Marker) = 0
     \/ a = "recover" /\ Place' = "recover"

LEMMA MovesStride ==
  ASSUME NEW a, Working(a), Onwards(op, a) \/ FallsBack(op, a), a # "card-intent" \/ FallsBack(op, a)
  PROVE  Strides(a)
<1>1. op'.cmd = op.cmd /\ op'.tp = op.tp
  BY DEF Onwards, FallsBack, Alike
<1>2. FallsBack(op, a) /\ a = "card-intent" => Place' \notin Carding
  BY DEF FallsBack, Recovers, Carding, Before
<1> QED BY <1>1, <1>2 DEF Strides, Onwards, FallsBack

LEMMA StepsStride ==
  ASSUME Typed, StopsFit, Steps \/ StepFails
  PROVE  \E a : Strides(a)
<1>1. ASSUME NEW a, Working(a), Goes(op), a # "card-intent",
             \/ Follows(op.cmd, op.cp, a, Place')
             \/ FallsBack(op, a)
             \/ a \in {"control", "consume"} /\ Place' = "stop-clear"
             \/ a = "gate" /\ op.cmd = "read-direct" /\ Place' \in {"read", "end"}
             \/ a = "look-at-marker" /\ op.cmd = "establish" /\ Place' \in {"end", "activate", "clear", "clearPending"}
             \/ a = "look-at-marker" /\ op.cmd = "establish" /\ Place' = "put" /\ Count(commands, Marker) = 0
      PROVE  \E b : Strides(b)
  BY <1>1 DEF Strides, Goes, Fixed, FallsBack
<1>2. CASE PlainStep
  <2>1. PICK a : Plain(a) /\ At(a)
    BY <1>2, PlainSteps
  <2>2. a # "card-intent"
    <3>2. At("card-intent") => ~PlainStep
      BY DEF At, PlainStep, AssertBound, StopClear, StopProven, Activate, PressMarker, PutPending, Type, VerifyDraft,
         Press, MarkVerified, MarkUncertain, ClearPending, Release, ClearDraft, Proven,
         PutIntent, ClearIntent, SendCard, SettleCard
    <3> QED BY <1>2, <2>1, <3>2
  <2> QED BY <2>1, <2>2, MovesStride DEF Plain
<1>3. CASE StepFails
  BY <1>3, StepFailsTyped, MovesStride
<1>4. ASSUME NEW a, Working(a) PROVE Follows(op.cmd, op.cp, a, First(Tail(op.todo), "end"))
  BY <1>4, Leading
<1>5. CASE ReadControl
  <2>1. Working("control") /\ Goes(op) /\ ReadControlDoes
    BY <1>5, ReadControlMoves
  <2>2. Place' = "consume" => Follows(op.cmd, op.cp, "control", Place')
    BY <1>4, <2>1 DEF Follows
  <2> QED BY <1>1, <2>1, <2>2 DEF ReadControlDoes
<1>6. CASE ConsumeControl
  <2>1. Working("consume") /\ Goes(op) /\ ConsumeDoes
    BY <1>6, ConsumeMoves
  <2>2. Place' = "stop-clear" \/ Onwards(op, "consume") \/ FallsBack(op, "consume")
    BY <2>1 DEF ConsumeDoes
  <2> QED BY <1>1, <2>1, <2>2 DEF Onwards
<1>7. CASE ReadChat
  <2>1. Working("read") /\ Goes(op) /\ ReadChatDoes
    BY <1>7, ReadChatMoves
  <2>2. Place' = "evaluate" => Follows(op.cmd, op.cp, "read", Place')
    BY <1>4, <2>1 DEF Follows
  <2> QED BY <1>1, <2>1, <2>2 DEF ReadChatDoes
<1>8. CASE TakeGate
  <2>1. Working("gate") /\ Goes(op) /\ TakeGateDoes
    BY <1>8, TakeGateMoves
  <2> QED BY <1>1, <2>1 DEF TakeGateDoes
<1>9. CASE Look
  <2>1. Working("look") /\ Goes(op) /\ LookDoes
    BY <1>9, LookMoves
  <2> QED BY <1>1, <2>1 DEF LookDoes
<1>10. CASE Claim
  <2>1. Working("claim") /\ Goes(op) /\ ClaimDoes
    BY <1>10, ClaimMoves
  <2>2. Place' = "put" => Follows(op.cmd, op.cp, "claim", Place')
    BY <1>4, <2>1 DEF Follows
  <2> QED BY <1>1, <2>1, <2>2 DEF ClaimDoes
<1>11. CASE SeeSent
  <2>1. Working("see-sent") /\ Goes(op) /\ SeeSentDoes
    BY <1>11, SeeSentMoves
  <2>2. Place' = "verified" => Follows(op.cmd, op.cp, "see-sent", Place')
    BY <1>4, <2>1 DEF Follows
  <2> QED BY <1>1, <2>1, <2>2 DEF SeeSentDoes
<1>12. CASE LookAtMarker
  <2>1. Working("look-at-marker") /\ Goes(op) /\ LookAtMarkerDoes
    BY <1>12, LookAtMarkerMoves
  <2>2. op.cmd = "establish"
    BY <1>4, <2>1 DEF Follows
  <2>3. \/ Place' \in {"end", "activate", "clear", "clearPending"}
        \/ Place' = "put" /\ Count(commands, Marker) = 0
        \/ FallsBack(op, "look-at-marker")
    BY <2>1 DEF LookAtMarkerDoes
  <2> QED BY <1>1, <2>1, <2>2, <2>3
<1>13. CASE EvaluateReply
  BY <1>13, EvaluateMoves, MovesStride
<1>14. CASE ConsumeTrigger
  BY <1>14, ConsumeTriggerMoves, MovesStride DEF ConsumeTriggerDoes
<1>15. CASE Recover
  <2>1. Working("recover") /\ RecoverDoes
    BY <1>15, RecoverMoves
  <2>2. CASE op' = op
    <3>1. Place' = "recover"
      BY <2>1, <2>2 DEF Place, Working
    <3> QED BY <2>1, <2>2, <3>1 DEF Strides
  <2> QED BY <2>1, <2>2, MovesStride DEF RecoverDoes
<1>16. CASE ClaimCard
  <2>1. Working("card-intent") /\ Goes(op) /\ ClaimCardDoes
    BY <1>16, ClaimCardMoves
  <2>2. op'.cmd = op.cmd /\ op'.tp = op.tp
    BY <2>1 DEF Goes, Fixed
  <2>3. CASE CardFree /\ SetCard("intent") /\ Onwards(op, "card-intent")
    BY <2>1, <2>2, <2>3 DEF Strides, Onwards
  <2>4. CASE Place' = IF op.cmd = "show-card" THEN "consume-trigger" ELSE "end"
    <3>1. Place' \in {"consume-trigger", "end"} /\ Place' \notin Carding
      BY <2>4 DEF Carding, Before
    <3> QED BY <2>1, <2>2, <3>1 DEF Strides
  <2> QED BY <2>1, <2>3, <2>4 DEF ClaimCardDoes
<1> QED BY <1>2, <1>3, <1>5, <1>6, <1>7, <1>8, <1>9, <1>10, <1>11, <1>12, <1>13, <1>14, <1>15, <1>16 DEF Steps, PlainStep

LEMMA StepsStay == ASSUME Steps \/ StepFails PROVE UNCHANGED <<waiting, session>>
BY DEF Steps, StepFails, AssertBound, ReadControl, ConsumeControl, StopClear, StopProven,
   LookAtMarker, Activate, PressMarker, ReadChat, EvaluateReply, TakeGate, Recover, Look,
   Claim, PutPending, Type, VerifyDraft, Press, SeeSent, MarkVerified, MarkUncertain, ConsumeTrigger, ClearPending, Release,
   ClearDraft, Proven, PutIntent, ClearIntent, ClaimCard, SendCard, SettleCard, Process

(* The kinds of a step, as the operation sees them.                          *)
LEMMA Kinds ==
  ASSUME Typed, StopsFit, [Next]_vars
  PROVE  \/ (\E a : Strides(a)) /\ UNCHANGED <<waiting, session>>
         \/ Begin \/ Return
         \/ ~Busy' /\ Doing' = {} /\ session'.tp = None
         \/ op' = op /\ CallsDo
         \/ op' = op /\ Outside
<1>1. CASE Steps \/ StepFails
  BY <1>1, StepsStride, StepsStay
<1>2. CASE Calls
  BY <1>2, CallsMoves DEF CallsDo
<1>3. CASE WorldSteps
  BY <1>3, WorldStepsTyped DEF Outside
<1>4. CASE \E kind \in budget.hosts : Restart(kind)
  BY <1>4, RestartMoves DEF RestartDoes
<1>5. CASE UNCHANGED vars
  BY <1>5, StaysTyped DEF Outside
<1> QED BY <1>1, <1>2, <1>3, <1>4, <1>5 DEF Next, WorldSteps

(* What a step sends: a reply not yet sent, or the marker, or the card.      *)
Apart ==   \* no marker, no card
  /\ \A kind \in {"marker", "card"} : \A x : Pressed(kind, x)' <=> Pressed(kind, x)
  /\ presses' = presses \/ \E p \in PressTypes : presses' = Append(presses, p) /\ ~Pressed(p.kind, p.what)
  /\ commands' = commands \/ \E c \in Orders : commands' = Append(commands, c)
LEMMA ReplySent ==
  ASSUME Typed, Typed', NEW p, presses' = Append(presses, p), p.kind = "reply", ~Pressed("reply", p.what),
         commands' = commands
  PROVE  Apart
<1>1. p \in PressTypes
  BY LastPress
<1> QED BY <1>1, MorePressed DEF Apart

LEMMA NothingSent ==
  ASSUME presses' = presses, commands' = commands \/ \E c \in Orders : commands' = Append(commands, c)
  PROVE  Apart
BY SamePresses DEF Apart

LEMMA StepSends ==
  ASSUME Typed, Typed', StopsFit, Sendings, Own \notin Replies, [Next]_vars
  PROVE  Apart \/ PressMarker \/ SendCard
<1>1. CASE Press
  <2>1. Working("press") /\ op.cmd = "submit"
    BY <1>1, PressMoves
  <2>2. Clean(op.text)
    BY <2>1, Fitting DEF SubmitStep
  <2>3. Sending("reply", op.text).kind = "reply" /\ Sending("reply", op.text).what = op.text
    BY DEF Sending
  <2>4. commands' = commands /\ (presses' = presses \/ presses' = Append(presses, Sending("reply", op.text)))
    BY <1>1 DEF Press
  <2> QED BY <2>2, <2>3, <2>4, ReplySent, NothingSent DEF Clean, Unpressed
<1>2. CASE ClientPresses
  <2>1. ~Pressed("reply", client.text)
    BY <1>2, LiveAssumption, ClientPressesKeeps
  <2>2. Unasked("reply", client.text).kind = "reply" /\ Unasked("reply", client.text).what = client.text
    BY DEF Unasked
  <2>3. commands' = commands /\ presses' = Append(presses, Unasked("reply", client.text))
    BY <1>2 DEF ClientPresses
  <2> QED BY <2>1, <2>2, <2>3, ReplySent
<1>3. CASE OrphanLands
  <2>1. orphan.kind = "reply" /\ ~Pressed("reply", orphan.what)
    BY <1>3, LiveAssumption, OrphanLandsKeeps
  <2>2. commands' = commands /\ (presses' = presses \/ presses' = Append(presses, orphan))
    BY <1>3 DEF OrphanLands
  <2> QED BY <2>1, <2>2, ReplySent, NothingSent
<1>4. CASE \E c \in budget.commands : OwnerCommands(c)
  BY <1>4, OwnerCommandsTyped, NothingSent DEF OwnerCommands
<1>5. CASE Steps /\ ~Press /\ ~PressMarker /\ ~SendCard
  <2>1. presses' = presses
    BY <1>5, StillPresses
  <2>2. commands' = commands
    BY <1>5 DEF Steps, AssertBound, ReadControl, ConsumeControl, StopClear, StopProven,
       LookAtMarker, Activate, ReadChat, EvaluateReply, TakeGate, Recover, Look,
       Claim, PutPending, Type, VerifyDraft, SeeSent, MarkVerified, MarkUncertain, ConsumeTrigger, ClearPending, Release,
       ClearDraft, Proven, PutIntent, ClearIntent, ClaimCard, SettleCard, World
  <2> QED BY <2>1, <2>2, NothingSent
<1>6. CASE StepFails \/ Begin \/ Return
  <2>1. presses' = presses /\ commands' = commands
    BY <1>6 DEF StepFails, Begin, Return, World
  <2> QED BY <2>1, NothingSent
<1>7. CASE Calls
  <2>1. presses' = presses /\ commands' = commands
    BY <1>7, CallsMoves DEF CallsDo, World
  <2> QED BY <2>1, NothingSent
<1>8. CASE \E kind \in budget.hosts : Restart(kind)
  <2>1. presses' = presses /\ commands' = commands
    BY <1>8, RestartMoves DEF RestartDoes
  <2> QED BY <2>1, NothingSent
<1>9. CASE ClientTypes \/ OwnerTypes \/ OwnerPresses \/ (\E m \in budget.msgs : ContactWrites(m)) \/ UNCHANGED vars
  <2>1. presses' = presses /\ commands' = commands
    BY <1>9 DEF ClientTypes, OwnerTypes, OwnerPresses, ContactWrites, vars
  <2> QED BY <2>1, NothingSent
<1>10. Steps \/ ~Steps
  OBVIOUS
<1> QED BY <1>1, <1>2, <1>3, <1>4, <1>5, <1>6, <1>7, <1>8, <1>9 DEF Next

LEMMA BoundStays ==
  ASSUME Typed, Bounded, commands' = commands \/ \E c \in Orders : commands' = Append(commands, c)
  PROVE  Bounded'
<1>1. commands \in Seq(Orders)
  BY TypedParts
<1>2. PICK i \in 1 .. Len(commands) : commands[i] = Marker
  BY DEF Bounded
<1>3. i \in 1 .. Len(commands') /\ commands'[i] = Marker
  BY <1>1, <1>2
<1> QED BY <1>3 DEF Bounded

LEMMA NoMark == ASSUME Typed, Count(commands, Marker) = 0 PROVE ~Bounded
<1>1. commands \in Seq(Orders)
  BY TypedParts
<1> DEFINE I == {i \in DOMAIN commands : commands[i] = Marker}
<1>2. IsFiniteSet(I)
  <2>1. DOMAIN commands = 1 .. Len(commands) /\ Len(commands) \in Nat
    BY <1>1
  <2>2. IsFiniteSet(1 .. Len(commands))
    BY <2>1, FS_Interval
  <2> QED BY <2>1, <2>2, FS_Subset
<1>3. Cardinality(I) = 0
  BY DEF Count
<1>4. I = {}
  BY <1>2, <1>3, FS_EmptySet
<1> QED BY <1>1, <1>4 DEF Bounded

(* The marker is sent only to a chat without one.                            *)
Marking == {"put", "type", "verify-draft", "press-marker"}
LEMMA MarkersKeep ==
  ASSUME Typed, Typed', StopsFit, Sendings, MarkersFit, Own \notin Replies, [Next]_vars
  PROVE  MarkersFit'
<1>1. op.cmd = "establish" /\ Place \in Marking => ~Pressed("marker", Marker)
  BY DEF MarkersFit, Marking
<1>2. CASE PressMarker
  <2>1. PressMarkerDoes /\ Place' \notin Marking
    <3>1. PressMarkerDoes /\ (Onwards(op, "press-marker") \/ FallsBack(op, "press-marker"))
      BY <1>2, PressMarkerMoves
    <3> QED BY <3>1 DEF Onwards, FallsBack, Follows, Recovers, Marking
  <2>2. Pressed("marker", Marker)' => Bounded'
    <3>1. CASE commands' = Append(commands, Marker)
      <4>1. commands \in Seq(Orders)
        BY TypedParts
      <4>2. Len(commands) + 1 \in 1 .. Len(commands') /\ commands'[Len(commands) + 1] = Marker
        BY <3>1, <4>1
      <4> QED BY <4>2 DEF Bounded
    <3>2. CASE UNCHANGED <<commands, presses>>
      BY <3>2, SamePresses, BoundStays DEF MarkersFit
    <3> QED BY <2>1, <3>1, <3>2 DEF PressMarkerDoes
  <2> QED BY <2>1, <2>2 DEF MarkersFit, Marking
<1>3. CASE SendCard
  <2>1. /\ Working("send-card") /\ op.cmd \in {"show-card", "accept-card"} /\ presses' = Append(presses, CardSent)
        /\ Onwards(op, "send-card") \/ FallsBack(op, "send-card")
    BY <1>3, SendCardMoves
  <2>2. op'.cmd # "establish"
    BY <2>1 DEF Onwards, FallsBack, Alike
  <2>3. CardSent.kind = "card" /\ commands' = commands
    BY <1>3 DEF CardSent, Sending, Unasked, SendCard
  <2>4. Pressed("marker", Marker)' <=> Pressed("marker", Marker)
    BY <2>1, <2>3, LastPress, MorePressed
  <2> QED BY <2>2, <2>3, <2>4, BoundStays DEF MarkersFit
<1>4. CASE Apart
  <2>1. Pressed("marker", Marker)' <=> Pressed("marker", Marker)
    BY <1>4 DEF Apart
  <2>2. Bounded => Bounded'
    BY <1>4, BoundStays DEF Apart
  <2>3. op'.cmd = "establish" /\ Place' \in Marking => ~Pressed("marker", Marker)
    <3>1. ASSUME NEW a, Strides(a), op'.cmd = "establish", Place' \in Marking PROVE ~Pressed("marker", Marker)
      <4>1. op.cmd = "establish" /\ Place = a
        BY <3>1 DEF Strides, Working
      <4>2. a \in Marking \/ Count(commands, Marker) = 0
        BY <3>1, <4>1 DEF Strides, Follows, Recovers, Marking
      <4> QED BY <1>1, <4>1, <4>2, NoMark DEF MarkersFit
    <3>2. CASE op' = op
      <4>1. Place' = Place
        BY <3>2 DEF Place
      <4> QED BY <1>1, <3>2, <4>1
    <3>3. CASE Begin
      <4>1. PICK o : Begun(o) /\ BeginDoes(o)
        BY <3>3, BeginMoves
      <4> QED BY <4>1 DEF Begun, BeginDoes, Starts, Marking
    <3>4. CASE ~Busy'
      BY <3>4 DEF Busy
    <3>5. Return => ~Busy'
      BY ReturnMoves DEF ReturnDoes
    <3> QED BY <3>1, <3>2, <3>3, <3>4, <3>5, Kinds
  <2> QED BY <2>1, <2>2, <2>3 DEF MarkersFit, Marking
<1> QED BY <1>2, <1>3, <1>4, StepSends

(***************************************************************************)
(* The card has its entry in the ledger before it is sent.                   *)
(***************************************************************************)
CardKeys == Wakes \union {Acceptance}
LEMMA LedgerKept ==
  ASSUME Typed, StopsFit, [Next]_vars, NEW k \in CardKeys, ledger'[k] = "none"
  PROVE  ledger[k] = "none"
<1>1. ledger \in [CardKeys -> {"none", "intent", "verified", "uncertain"}]
  BY DEF Typed, StoresTyped, CardKeys
<1>2. CASE ledger' = ledger
  BY <1>2
<1>3. CASE \E status \in {"intent", "verified", "uncertain"} : SetCard(status)
  <2>1. PICK status \in {"intent", "verified", "uncertain"} : ledger' = [ledger EXCEPT ![CardKey] = status]
    BY <1>3 DEF SetCard
  <2> QED BY <1>1, <2>1
<1>4. CASE ClaimCard \/ SettleCard
  <2>1. ledger' = ledger \/ SetCard("intent") \/ SetCard("verified") \/ SetCard("uncertain")
    BY <1>4 DEF ClaimCard, SettleCard
  <2> QED BY <1>2, <1>3, <2>1
<1>5. CASE Steps /\ ~ClaimCard /\ ~SettleCard
  <2>1. ledger' = ledger
    BY <1>5 DEF Steps, AssertBound, ReadControl, ConsumeControl, StopClear, StopProven,
       LookAtMarker, Activate, PressMarker, ReadChat, EvaluateReply, TakeGate, Recover, Look,
       Claim, PutPending, Type, VerifyDraft, Press, SeeSent, MarkVerified, MarkUncertain, ConsumeTrigger, ClearPending,
       Release, ClearDraft, Proven, PutIntent, ClearIntent, SendCard, durable
  <2> QED BY <1>2, <2>1
<1>6. CASE StepFails \/ Begin \/ Return \/ UNCHANGED vars
  <2>1. ledger' = ledger
    BY <1>6 DEF StepFails, Begin, Return, vars, durable
  <2> QED BY <1>2, <2>1
<1>7. CASE Calls \/ WorldSteps
  <2>1. ledger' = ledger
    BY <1>7, CallsMoves, WorldStepsTyped DEF CallsDo, Outside, durable
  <2> QED BY <1>2, <2>1
<1>8. CASE \E kind \in budget.hosts : Restart(kind)
  <2>1. ledger' = ledger
    BY <1>8, RestartMoves DEF RestartDoes, durable
  <2> QED BY <1>2, <2>1
<1> QED BY <1>4, <1>5, <1>6, <1>7, <1>8 DEF Next, WorldSteps

LEMMA ReturnWakes == ASSUME Typed, AnswersFit, CardsFit, Return PROVE WakeFits(session')
<1>1. ReturnDoes
  BY ReturnMoves
<1>2. WakeFits(session)
  BY DEF CardsFit
<1>3. CASE session'.tp = session.tp \/ session'.tp = None
  BY <1>2, <1>3 DEF WakeFits
<1>4. CASE Seen /\ UNCHANGED session
  BY <1>3, <1>4
<1>5. CASE Seen /\ SessionReturns
  <2>1. /\ op.cmd \in {"read-target", "read-direct"} /\ ~op.failed /\ op.cp # None /\ target.trigger # None
        /\ session \in SessionTypes /\ Place = "end"
    BY <1>1, <1>5, TypedParts DEF Seen, ReturnDoes
  <2>2. target.trigger.chat = op.chat /\ TriggerIs(target.trigger)
    BY <2>1 DEF AnswersFit
  <2> DEFINE proof == TargetProof(op.chat)
             read == [session EXCEPT !.phase = "target-read", !.tp = proof, !.saw = op.chat]
  <2>3. session' = IF op.cmd = "read-target" THEN read ELSE [read EXCEPT !.cp = op.cp, !.token = None]
    BY <1>5, <2>1 DEF SessionReturns
  <2>4. proof.trigger = target.trigger /\ proof.wake = (Last(op.chat).text \in Wakes)
    BY DEF TargetProof
  <2> HIDE DEF proof
  <2>5. session'.tp = proof
    BY <2>1, <2>3 DEF SessionTypes
  <2>6. Last(op.chat).text = target.trigger.msg
    BY <2>2 DEF TriggerIs, In
  <2> QED BY <2>4, <2>5, <2>6 DEF WakeFits
<1> QED BY <1>1, <1>3, <1>4, <1>5 DEF ReturnDoes, Return

LEMMA WakesKeep ==
  ASSUME Typed, StopsFit, AnswersFit, CardsFit, [Next]_vars
  PROVE  \A q \in (Doing \union {session})' : WakeFits(q)
<1>1. \A q \in Doing \union {session} : WakeFits(q)
  BY DEF CardsFit
<1>2. ASSUME NEW a, Strides(a), UNCHANGED <<waiting, session>> PROVE \A q \in (Doing \union {session})' : WakeFits(q)
  <2>1. op \in Doing /\ op'.tp = op.tp
    BY <1>2 DEF Strides, Working, Doing
  <2>2. WakeFits(op')
    BY <1>1, <2>1 DEF WakeFits
  <2> QED BY <1>1, <1>2, <2>2 DEF Doing
<1>3. CASE Begin
  <2> DEFINE o == Head(waiting)
  <2>1. /\ waiting' = Tail(waiting) /\ o \in Range(waiting) /\ Range(Tail(waiting)) \subseteq Range(waiting)
        /\ o \in OpTypes /\ op'.tp = o.tp /\ session' = session
    BY <1>3, BeginMoves DEF Begun
  <2> HIDE DEF o
  <2>2. o \in Doing
    BY <2>1 DEF Doing, OpTypes, Commands
  <2>3. WakeFits(op')
    BY <1>1, <2>1, <2>2 DEF WakeFits
  <2> QED BY <1>1, <2>1, <2>3 DEF Doing
<1>4. CASE Return
  <2>1. waiting' = waiting /\ ~Busy'
    BY <1>4, ReturnMoves DEF ReturnDoes
  <2> QED BY <1>1, <1>4, <2>1, ReturnWakes DEF Doing, Busy
<1>5. CASE Doing' = {} /\ session'.tp = None
  BY <1>5 DEF WakeFits
<1>6. CASE op' = op /\ CallsDo
  <2>1. \A w \in Range(waiting)' : w \in Range(waiting) \/ NewCall(w)
    <3>1. CASE waiting' = waiting
      BY <3>1
    <3>2. ASSUME NEW w, NewCall(w), waiting' = Append(waiting, w) PROVE \A q \in Range(waiting)' : q \in Range(waiting) \/ NewCall(q)
      <4>1. w \in OpTypes /\ waiting \in Seq(OpTypes)
        BY <3>2, TypedParts DEF NewCall
      <4> QED BY <3>2, <4>1, AppendRange
    <3> QED BY <1>6, <3>1, <3>2 DEF CallsDo
  <2>2. \A w : NewCall(w) => WakeFits(w)
    BY <1>1 DEF NewCall, WakeFits
  <2>3. WakeFits(session')
    BY <1>1, <1>6 DEF CallsDo, WakeFits
  <2> QED BY <1>1, <1>6, <2>1, <2>2, <2>3 DEF Doing
<1>7. CASE op' = op /\ Outside
  BY <1>1, <1>7 DEF Outside, Doing
<1> QED BY <1>2, <1>3, <1>4, <1>5, <1>6, <1>7, Kinds

LEMMA BeginCard ==
  ASSUME Typed, Begin
  PROVE  /\ op'.cmd = "show-card" /\ Place' # "end" => op'.tp.wake
         /\ Place' \notin Carding \/ op'.cmd \notin {"show-card", "accept-card"}
<1> DEFINE o == Head(waiting)
<1>1. o \in OpTypes /\ o \in Range(waiting) /\ Begun(o) /\ BeginDoes(o) /\ op' \in OpTypes
  BY BeginMoves
<1>2. ASSUME o.cmd = "show-card", ~o.tp.wake PROVE Place' = "end"
  <2>1. Program(o) = <<>>
    BY <1>2 DEF Program
  <2>2. o.todo = <<>>
    BY <1>1 DEF Typed, CallsFit
  <2>3. op'.todo = <<>>
    <3>1. \/ \E text, began : op' = [o EXCEPT !.todo = Program(o), !.text = text, !.began = began]
          \/ op' = [o EXCEPT !.failed = TRUE]
      BY DEF Begin
    <3> HIDE DEF o
    <3> QED BY <1>1, <2>1, <2>2, <3>1 DEF OpTypes
  <2> QED BY <2>3, NoPath DEF Place
<1> HIDE DEF o
<1>3. op'.cmd = "show-card" /\ Place' # "end" => op'.tp.wake
  BY <1>1, <1>2 DEF Begun
<1>4. op'.cmd \in {"show-card", "accept-card"} => Place' \notin Carding
  BY <1>1 DEF Begun, BeginDoes, Starts, Carding, Before
<1> QED BY <1>3, <1>4

LEMMA KeyFits ==
  ASSUME Typed, CardsFit, Busy, op.cmd = "accept-card" \/ (op.cmd = "show-card" /\ Place # "end")
  PROVE  CardKey \in CardKeys
<1>1. CASE op.cmd = "accept-card"
  BY <1>1 DEF CardKey, CardKeys
<1>2. CASE op.cmd = "show-card" /\ Place # "end"
  <2>1. op.tp.wake /\ op \in Doing /\ WakeFits(op)
    BY <1>2 DEF CardsFit, Doing
  <2>2. op.tp # None
    BY <1>2, BusyWorks DEF CallFits, Gated3
  <2> QED BY <1>2, <2>1, <2>2 DEF WakeFits, CardKey, CardKeys
<1> QED BY <1>1, <1>2

LEMMA CardSends ==
  ASSUME Typed, StopsFit, CardsFit, SendCard
  PROVE  /\ CardSent.kind = "card" /\ CardSent.what = CardKey
         /\ CardKey \in CardKeys /\ ledger[CardKey] # "none" /\ ~Pressed("card", CardKey)
         /\ Place' \notin Carding
<1>1. Working("send-card") /\ op.cmd \in {"show-card", "accept-card"} /\ (Onwards(op, "send-card") \/ FallsBack(op, "send-card"))
  BY SendCardMoves
<1>2. CardSent.kind = "card" /\ CardSent.what = CardKey
  BY <1>1 DEF CardSent, Sending, Unasked, CardKey
<1>3. Busy /\ Place = "send-card"
  BY <1>1 DEF Working, Busy
<1>4. CardKey \in CardKeys
  BY <1>1, <1>3, KeyFits
<1>5. ledger[CardKey] # "none" /\ ~Pressed("card", CardKey)
  BY <1>1, <1>3 DEF CardsFit, Carding
<1>6. Place' \notin Carding
  BY <1>1 DEF Onwards, FallsBack, Follows, Recovers, Carding, Before
<1> QED BY <1>2, <1>4, <1>5, <1>6

LEMMA CardsKeep ==
  ASSUME Typed, Typed', StopsFit, AnswersFit, Sendings, CardsFit, Own \notin Replies, [Next]_vars
  PROVE  CardsFit'
<1>1. \A q \in (Doing \union {session})' : WakeFits(q)
  BY WakesKeep
<1>2. \A q \in (Doing \union {session})' : WakeFits(q)'
  BY <1>1 DEF WakeFits
<1>3. \A k \in CardKeys : ledger'[k] = "none" => ledger[k] = "none"
  <2>1. ASSUME NEW k \in CardKeys, ledger'[k] = "none" PROVE ledger[k] = "none"
    BY <2>1, LedgerKept
  <2> QED BY <2>1
<1>4. ~SendCard => \A x : Pressed("card", x)' <=> Pressed("card", x)
  <2>1. CASE Apart
    BY <2>1 DEF Apart
  <2>2. CASE PressMarker
    <3>1. CASE presses' = Append(presses, Unasked("marker", Marker))
      BY <3>1, LastPress, MorePressed DEF Unasked
    <3>2. CASE presses' = presses
      BY <3>2, SamePresses
    <3> QED BY <2>2, <3>1, <3>2, PressMarkerMoves DEF PressMarkerDoes
  <2> QED BY <2>1, <2>2, StepSends
<1>5. SendCard => \A x : Pressed("card", x)' <=> Pressed("card", x) \/ x = CardKey
  <2> SUFFICES ASSUME SendCard PROVE \A x : Pressed("card", x)' <=> Pressed("card", x) \/ x = CardKey
    OBVIOUS
  <2>1. presses' = Append(presses, CardSent) /\ CardSent.kind = "card" /\ CardSent.what = CardKey
    BY SendCardMoves, CardSends
  <2> QED BY <2>1, LastPress, MorePressed
<1>6. \A k \in CardKeys : ledger'[k] = "none" => ~Pressed("card", k)'
  <2>1. \A k \in CardKeys : ledger[k] = "none" => ~Pressed("card", k)
    BY DEF CardsFit, CardKeys
  <2>2. CASE SendCard
    <3>1. ledger[CardKey] # "none"
      BY <2>2, CardSends
    <3> QED BY <1>3, <1>5, <2>1, <2>2, <3>1
  <2> QED BY <1>3, <1>4, <2>1, <2>2
<1>7. op'.cmd = "show-card" /\ Place' # "end" => op'.tp.wake
  <2>1. ASSUME NEW a, Strides(a) PROVE op'.cmd = "show-card" => op'.tp.wake
    <3>1. op'.cmd = op.cmd /\ op'.tp = op.tp /\ Place = a /\ Working(a)
      BY <2>1 DEF Strides, Working
    <3>2. Place # "end"
      BY <3>1, SomePlace
    <3> QED BY <3>1, <3>2 DEF CardsFit
  <2>2. CASE op' = op
    <3>1. Place' = Place
      BY <2>2 DEF Place
    <3> QED BY <2>2, <3>1 DEF CardsFit
  <2>3. CASE ~Busy'
    BY <2>3 DEF Busy
  <2>4. Return => ~Busy'
    BY ReturnMoves DEF ReturnDoes
  <2> QED BY <2>1, <2>2, <2>3, <2>4, BeginCard, Kinds
<1>8. op'.cmd \in {"show-card", "accept-card"} /\ Place' \in Carding => ledger'[CardKey'] # "none" /\ ~Pressed("card", CardKey)'
  <2>1. ASSUME op.cmd = op'.cmd, op'.tp = op.tp, ~SendCard, CardKey \in CardKeys,
               ledger'[CardKey] # "none", ~Pressed("card", CardKey)
        PROVE  ledger'[CardKey'] # "none" /\ ~Pressed("card", CardKey)'
    <3>1. CardKey' = CardKey
      BY <2>1 DEF CardKey
    <3> QED BY <1>4, <2>1, <3>1 DEF Pressed
  <2>2. ASSUME NEW a, Strides(a), op'.cmd \in {"show-card", "accept-card"}, Place' \in Carding
        PROVE  ledger'[CardKey'] # "none" /\ ~Pressed("card", CardKey)'
    <3>1. Working(a) /\ op'.cmd = op.cmd /\ op'.tp = op.tp /\ Busy /\ Place = a /\ a # "end"
      BY <2>2, SomePlace DEF Strides, Working, Busy
    <3>2. CardKey \in CardKeys
      BY <2>2, <3>1, KeyFits
    <3>3. ~SendCard
      BY <2>2, CardSends
    <3>4. CASE a = "card-intent"
      <4>1. CardFree /\ SetCard("intent")
        BY <2>2, <3>4 DEF Strides
      <4>2. ~Pressed("card", CardKey)
        BY <3>2, <4>1 DEF CardFree, CardsFit, CardKeys
      <4>3. ledger'[CardKey] = "intent"
        BY <3>2, <4>1 DEF SetCard, Typed, StoresTyped, CardKeys
      <4> QED BY <2>1, <3>1, <3>2, <3>3, <4>2, <4>3
    <3>5. CASE a # "card-intent"
      <4>1. a \in Carding
        BY <2>2, <3>1, <3>5 DEF Strides, Follows, Recovers, Carding, Before
      <4>2. ledger[CardKey] # "none" /\ ~Pressed("card", CardKey)
        BY <2>2, <3>1, <4>1 DEF CardsFit
      <4> QED BY <1>3, <2>1, <3>1, <3>2, <3>3, <4>2
    <3> QED BY <3>4, <3>5
  <2>3. ASSUME op' = op, op'.cmd \in {"show-card", "accept-card"}, Place' \in Carding
        PROVE  ledger'[CardKey'] # "none" /\ ~Pressed("card", CardKey)'
    <3>1. Place' = Place /\ Busy /\ Place # "end"
      BY <2>3 DEF Place, Busy, Carding, Before
    <3>2. ~SendCard
      BY <2>3, CardSends
    <3>3. CardKey \in CardKeys
      BY <2>3, <3>1, KeyFits
    <3>4. ledger[CardKey] # "none" /\ ~Pressed("card", CardKey)
      BY <2>3, <3>1 DEF CardsFit
    <3> QED BY <1>3, <2>1, <2>3, <3>2, <3>3, <3>4
  <2>4. CASE ~Busy'
    BY <2>4 DEF Busy
  <2>5. Return => ~Busy'
    BY ReturnMoves DEF ReturnDoes
  <2> QED BY <2>2, <2>3, <2>4, <2>5, BeginCard, Kinds
<1> QED BY <1>2, <1>6, <1>7, <1>8 DEF CardsFit, CardKeys

(***************************************************************************)
(* Nothing is sent twice, in every reachable state.                          *)
(***************************************************************************)
SendingInv == RuntimeInv /\ Sendings /\ MarkersFit /\ CardsFit /\ SentOnce

LEMMA SendingStarts == ASSUME LiveAssumption, Init PROVE SendingInv
<1>1. RuntimeInv
  BY InvStarts
<1>2. /\ outgoing = [r \in Replies |-> "none"] /\ pending = None /\ intent = None
      /\ host = NoHost /\ session = NoSession /\ client = NoDraft /\ waiting = <<>> /\ op = NoOp
      /\ orphan = None /\ presses = <<>>
  BY DEF Init
<1>3. ~Busy /\ Range(waiting) = {} /\ client.stage = "none" /\ client.token = None /\ session.token = None
      /\ session.tp = None /\ host.prepared = {} /\ op.cmd = "none"
  BY <1>2 DEF Busy, NoOp, Range, NoDraft, NoSession, NoHost
<1>4. \A kind, x : ~Pressed(kind, x)
  BY <1>2 DEF Pressed
<1>5. \A x : Clean(x) /\ Unpressed(x) /\ ~Using(x)
  BY <1>2, <1>3, <1>4 DEF Clean, Unpressed, Using
<1>6. Sendings
  <2>1. RepliesFit
    BY <1>2, <1>3, <1>5, LiveAssumption DEF RepliesFit, ClaimsFit, DraftFits, PreparedFits, IntentFits, ClientFits, OrphanFits,
       TargetPending
  <2>2. TokensFit /\ WaitingFits /\ OpStep
    BY <1>3 DEF TokensFit, InUseTokens, WaitingFits, OpStep
  <2> QED BY <2>1, <2>2 DEF Sendings
<1>7. MarkersFit
  BY <1>4 DEF MarkersFit
<1>8. CardsFit
  <2>1. Doing = {}
    BY <1>3 DEF Doing
  <2> QED BY <1>3, <1>4, <2>1 DEF CardsFit, WakeFits
<1>9. SentOnce
  BY <1>2 DEF SentOnce
<1> QED BY <1>1, <1>6, <1>7, <1>8, <1>9 DEF SendingInv

LEMMA SendingSteps == ASSUME SendingInv, Own \notin Replies, [Next]_vars PROVE SendingInv'
<1>1. RuntimeInv' /\ Typed /\ Typed' /\ StopsFit /\ AnswersFit /\ Sendings /\ MarkersFit /\ CardsFit /\ SentOnce
  <2>1. RuntimeInv'
    BY InvSteps DEF SendingInv
  <2> QED BY <2>1 DEF SendingInv, RuntimeInv
<1>2. Sendings' /\ MarkersFit' /\ CardsFit'
  BY <1>1, NextKeeps, MarkersKeep, CardsKeep
<1>3. presses' = presses \/ \E p \in PressTypes : presses' = Append(presses, p) /\ ~Pressed(p.kind, p.what)
  <2>1. CASE Apart
    BY <2>1 DEF Apart
  <2>2. CASE PressMarker
    <3>1. Working("press-marker") /\ PressMarkerDoes
      BY <1>1, <2>2, PressMarkerMoves
    <3>2. op.cmd = "establish"
      <4>1. Follows(op.cmd, op.cp, "press-marker", First(Tail(op.todo), "end"))
        BY <3>1, Leading
      <4> QED BY <4>1 DEF Follows
    <3>3. ~Pressed("marker", Marker)
      BY <1>1, <3>1, <3>2 DEF MarkersFit, Working
    <3>4. Unasked("marker", Marker).kind = "marker" /\ Unasked("marker", Marker).what = Marker
      BY DEF Unasked
    <3> QED BY <1>1, <3>1, <3>3, <3>4, LastPress DEF PressMarkerDoes
  <2>3. CASE SendCard
    <3>1. presses' = Append(presses, CardSent)
      BY <1>1, <2>3, SendCardMoves
    <3>2. CardSent.kind = "card" /\ CardSent.what = CardKey /\ ~Pressed("card", CardKey)
      BY <1>1, <2>3, CardSends
    <3> QED BY <1>1, <3>1, <3>2, LastPress
  <2> QED BY <1>1, <2>1, <2>2, <2>3, StepSends
<1>4. SentOnce'
  BY <1>1, <1>3, SentOnceKept
<1> QED BY <1>1, <1>2, <1>4 DEF SendingInv

(* No reply, no card and no marker is ever sent twice: SentOnce, whatever is  *)
(* cancelled, aborted, retried, lost or cut off, as long as what the owner    *)
(* types is not itself the text of a reply.                                 *)
THEOREM NothingIsSentTwice == ASSUME Own \notin Replies PROVE Spec => []SentOnce
<1>1. Init => SendingInv
  BY LiveAssumption, SendingStarts
<1>2. SendingInv /\ [Next]_vars => SendingInv'
  BY SendingSteps
<1>3. SendingInv => SentOnce
  BY DEF SendingInv
<1> QED BY <1>1, <1>2, <1>3, PTL DEF Spec

=============================================================================
