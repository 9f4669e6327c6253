---------------------------- MODULE ReplyPathProofs ----------------------------
EXTENDS DispatcherAdmission, NativeDelivery, InboundSource, SequenceTheorems, TLAPS

(***************************************************************************)
(* The delivery: types.                                                    *)
(***************************************************************************)
Said == Words \union {Mixed}
Bubble == [from : {"contact", "owner", "bridge"}, text : Said, by : Nat]
Seen == [incoming : BOOLEAN, text : Said]
Pictures == {NoPicture} \union [header : Contacts, pane : Seq(Seen)]
Drafts == {NoTextDraft} \union [contact : Contacts, revision : Nat, window : Nat]
Memories == [window : Nat, first : Pictures, last : Pictures, draft : Drafts]

Kinds == {"select", "type", "press"}
Stages == {"sent", "looked", "empty", "typed", "failed", "read", "matched", "pressed", "restored",
           "pressed again", "done"}
Capabilities ==
  [action : Kinds, contact : Contacts, revision : Nat, text : ReplyTexts, window : Nat,
   proof : Seq(Seen)]
CommandTypes == [kind : Kinds, stage : Stages, touched : BOOLEAN, capability : Capabilities]

Reads == {"validate", "beforeSubmit", "beforeFence"}
LastPlace == IF operation \in Reads THEN 9 ELSE IF operation = "prepare" THEN 12 ELSE 14

WorldTyped ==
  /\ window \in Nat /\ shown \in Contacts
  /\ composers \in [Contacts -> Said \union {Blank}]
  /\ conversation \in [Contacts -> Seq(Bubble)]
  /\ revisions \in [Contacts -> Nat]

PlaceTyped ==
  /\ operation \in {"idle", "prepare", "submit"} \union Reads
  /\ place \in 1 .. LastPlace

DeliveryTyped ==
  /\ memory \in Memories /\ authorizedTextDraft \in Drafts
  /\ proof \in [pane : Seq(Seen), length : Nat]
  /\ attempted \in BOOLEAN /\ aborted \in BOOLEAN
  /\ command \in {NoCommand} \union CommandTypes
  /\ fenced \subseteq Nat
  /\ outcome \in Seq({"open", "refused", "uncertain", "verified"})
  /\ operation # "idle" =>
       job \in [contact : Contacts, revision : Nat, text : ReplyTexts, trigger : Said]

SurfaceTyped == WorldTyped /\ PlaceTyped /\ DeliveryTyped

StepAt(s) ==
  /\ s = "press" <=> (operation = "submit" /\ place = 9)
  /\ s = "mark" <=> (operation = "submit" /\ place = 7)
  /\ s = "marking" <=> (operation = "submit" /\ place = 8)
  /\ s = "see append" <=> (operation = "submit" /\ place = 14)
  /\ s = "see first" <=> ((operation \in Reads /\ place = 3) \/ (operation = "submit" /\ place = 6))
  /\ s = "judge" <=> (operation \in Reads /\ place = 9)
  /\ s = "keep" <=> (operation = "prepare" /\ place = 12)
  /\ s = "select" <=> (operation = "prepare" /\ place = 5)
  /\ s = "type" <=> (operation = "prepare" /\ place = 11)
  /\ s = "open?" <=> (operation = "prepare" /\ place = 3)
  /\ s = "judge" \/ s = "keep" \/ s = "see append" \/ place # LastPlace

\* Where a step of an operation stands
LEMMA PlacesAre ==
  ASSUME PlaceTyped, operation # "idle"
  PROVE  StepAt(Operations[operation][place])
<1>1. CASE operation \in Reads
  <2>1. Operations[operation] = Reading
    <3>1. /\ Operations["validate"] = Reading /\ Operations["beforeSubmit"] = Reading
          /\ Operations["beforeFence"] = Reading
      BY DEF Operations
    <3> QED BY <1>1, <3>1 DEF Reads
  <2>2. place \in 1 .. 9
    BY <1>1 DEF PlaceTyped, LastPlace
  <2>3. /\ Reading[1] = "target" /\ Reading[2] = "window" /\ Reading[3] = "see first"
        /\ Reading[4] = "match" /\ Reading[5] = "see" /\ Reading[6] = "match"
        /\ Reading[7] = "same window" /\ Reading[8] = "target" /\ Reading[9] = "judge"
    BY DEF Reading
  <2>4. operation # "submit" /\ operation # "prepare" /\ LastPlace = 9
    BY <1>1 DEF Reads, LastPlace
  <2>5. place = 1 \/ place = 2 \/ place = 3 \/ place = 4 \/ place = 5 \/ place = 6 \/ place = 7
        \/ place = 8 \/ place = 9
    BY <2>2
  <2>6. Operations[operation][place] = Reading[place]
    BY <2>1
  <2> DEFINE t == Operations[operation][place]
  <2>7. t = Reading[place]
    BY <2>6
  <2> HIDE DEF t
  <2>8. StepAt(t)
    BY <1>1, <2>2, <2>3, <2>4, <2>5, <2>7 DEF StepAt
  <2> QED BY <2>8 DEF t
<1>2. CASE operation = "prepare"
  <2> DEFINE s == Operations["prepare"]
  <2>2. place \in 1 .. 12
    BY <1>2 DEF PlaceTyped, LastPlace, Reads
  <2>3. /\ s[1] = "target" /\ s[2] = "window" /\ s[3] = "open?" /\ s[4] = "locate"
        /\ s[5] = "select" /\ s[6] = "see" /\ s[7] = "match opened" /\ s[8] = "focus"
        /\ s[9] = "match" /\ s[10] = "header" /\ s[11] = "type" /\ s[12] = "keep"
    BY DEF Operations
  <2> HIDE DEF s
  <2>4. operation # "submit" /\ operation \notin Reads /\ LastPlace = 12
    BY <1>2 DEF Reads, LastPlace
  <2>5. \/ place = 1 \/ place = 2 \/ place = 3 \/ place = 4 \/ place = 5 \/ place = 6 \/ place = 7
        \/ place = 8 \/ place = 9 \/ place = 10 \/ place = 11 \/ place = 12
    BY <2>2
  <2>6. Operations[operation][place] = s[place]
    BY <1>2 DEF s
  <2> DEFINE t == Operations[operation][place]
  <2>7. t = s[place]
    BY <2>6
  <2> HIDE DEF t
  <2>8. StepAt(t)
    BY <1>2, <2>2, <2>3, <2>4, <2>5, <2>7 DEF StepAt
  <2> QED BY <2>8 DEF t
<1>3. CASE operation = "submit"
  <2> DEFINE s == Operations["submit"]
  <2>2. place \in 1 .. 14
    BY <1>3 DEF PlaceTyped, LastPlace, Reads
  <2>3. /\ s[1] = "target" /\ s[2] = "window" /\ s[3] = "focus" /\ s[4] = "match"
        /\ s[5] = "header" /\ s[6] = "see first" /\ s[7] = "mark" /\ s[8] = "marking"
        /\ s[9] = "press" /\ s[10] = "target" /\ s[11] = "window" /\ s[12] = "match"
        /\ s[13] = "header" /\ s[14] = "see append"
    BY DEF Operations
  <2> HIDE DEF s
  <2>4. operation # "prepare" /\ operation \notin Reads /\ LastPlace = 14
    BY <1>3 DEF Reads, LastPlace
  <2>5. \/ place = 1 \/ place = 2 \/ place = 3 \/ place = 4 \/ place = 5 \/ place = 6 \/ place = 7
        \/ place = 8 \/ place = 9 \/ place = 10 \/ place = 11 \/ place = 12 \/ place = 13 \/ place = 14
    BY <2>2
  <2>6. Operations[operation][place] = s[place]
    BY <1>3 DEF s
  <2> DEFINE t == Operations[operation][place]
  <2>7. t = s[place]
    BY <2>6
  <2> HIDE DEF t
  <2>8. StepAt(t)
    BY <1>3, <2>2, <2>3, <2>4, <2>5, <2>7 DEF StepAt
  <2> QED BY <2>8 DEF t
<1> QED BY <1>1, <1>2, <1>3 DEF PlaceTyped

\* What the pane shows
LEMMA PaneIs ==
  ASSUME WorldTyped, NEW c \in Contacts
  PROVE  /\ Pane(c) \in Seq(Seen)
         /\ Len(Pane(c)) = IF Len(conversation[c]) < PaneSize THEN Len(conversation[c]) ELSE PaneSize
         /\ Len(conversation[c]) > 0 =>
              Len(Pane(c)) > 0 /\ Latest(Pane(c)) = Candidate(Latest(conversation[c]))
<1> DEFINE n == Len(conversation[c])
           k == IF n < PaneSize THEN n ELSE PaneSize
<1>1. conversation[c] \in Seq(Bubble) /\ n \in Nat /\ k \in Nat /\ k <= n /\ (n > 0 => k > 0)
      /\ PaneSize \in Nat \ {0}
  BY PaneAssumption DEF WorldTyped
<1>2. Pane(c) = [i \in 1 .. k |-> Candidate(conversation[c][n - k + i])]
  BY DEF Pane
<1> HIDE DEF k
<1>3. \A i \in 1 .. k : Candidate(conversation[c][n - k + i]) \in Seen
  <2> SUFFICES ASSUME NEW i \in 1 .. k PROVE Candidate(conversation[c][n - k + i]) \in Seen
    OBVIOUS
  <2>1. n - k + i \in 1 .. n
    BY <1>1
  <2>2. conversation[c][n - k + i] \in Bubble
    BY <1>1, <2>1
  <2> QED BY <2>2 DEF Candidate, Seen, Bubble
<1>4. Pane(c) \in Seq(Seen) /\ Len(Pane(c)) = k
  BY <1>1, <1>2, <1>3
<1>5. k > 0 => Pane(c)[k] = Candidate(conversation[c][n])
  <2>1. k > 0 => k \in 1 .. k /\ n - k + k = n
    BY <1>1
  <2> QED BY <1>2, <2>1
<1> QED BY <1>1, <1>4, <1>5 DEF Latest, k

\* A pane that is not full shows the whole conversation
LEMMA ShortPane ==
  ASSUME WorldTyped, NEW c \in Contacts
  PROVE  /\ Len(conversation[c]) \in Nat /\ Len(Pane(c)) \in Nat
         /\ Len(Pane(c)) <= Len(conversation[c])
         /\ Len(Pane(c)) < PaneSize => Len(Pane(c)) = Len(conversation[c])
<1> DEFINE n == Len(conversation[c])
           k == Len(Pane(c))
<1>1. n \in Nat
  BY DEF WorldTyped
<1>2. k = IF n < PaneSize THEN n ELSE PaneSize
  BY PaneIs
<1> HIDE DEF n, k
<1>3. k \in Nat /\ k <= n /\ (k < PaneSize => k = n)
  BY <1>1, <1>2, PaneAssumption
<1> QED BY <1>1, <1>3 DEF n, k

\* One bubble more
LEMMA AddsOne ==
  ASSUME WorldTyped, outcome \in Seq({"open", "refused", "uncertain", "verified"}),
         NEW c \in Contacts, NEW from \in {"contact", "owner", "bridge"}, NEW text \in Said,
         Adds(c, from, text)
  PROVE  /\ conversation' \in [Contacts -> Seq(Bubble)]
         /\ Len(conversation'[c]) = Len(conversation[c]) + 1
         /\ Latest(conversation'[c]) = [from |-> from, text |-> text, by |-> Delivery]
         /\ \A i \in 1 .. Len(conversation[c]) : conversation'[c][i] = conversation[c][i]
         /\ conversation'[c][Len(conversation[c]) + 1] = [from |-> from, text |-> text, by |-> Delivery]
         /\ \A d \in Contacts \ {c} : conversation'[d] = conversation[d]
<1> DEFINE b == [from |-> from, text |-> text, by |-> Delivery]
           more == Append(conversation[c], b)
<1>1. b \in Bubble /\ conversation[c] \in Seq(Bubble)
  <2>1. Delivery \in Nat
    BY DEF Delivery
  <2> QED BY <2>1 DEF Bubble, WorldTyped
<1>2. conversation' = [conversation EXCEPT ![c] = more]
  BY DEF Adds
<1> HIDE DEF b
<1>3. /\ more \in Seq(Bubble) /\ Len(more) = Len(conversation[c]) + 1
      /\ \A i \in 1 .. Len(conversation[c]) : more[i] = conversation[c][i]
      /\ more[Len(conversation[c]) + 1] = b
  BY <1>1
<1> HIDE DEF more
<1> QED BY <1>1, <1>2, <1>3 DEF WorldTyped, Latest, b

(***************************************************************************)
(* The delivery: what the bridge sent, the command that runs and the reads.  *)
(***************************************************************************)
Sent(n) ==
  \E c \in Contacts : \E i \in 1 .. Len(conversation[c]) :
    conversation[c][i].from = "bridge" /\ conversation[c][i].by = n

CallFits ==
  /\ operation = "idle" => command = NoCommand /\ ~attempted
  /\ attempted <=> (operation = "submit" /\ place \in 9 .. 14)
  /\ operation # "idle" => Len(outcome) > 0 /\ outcome[Len(outcome)] = "open"
  /\ command # NoCommand => command.kind = Operations[operation][place]

SendFits ==
  /\ attempted => Len(outcome) \in fenced
  /\ \A n \in Nat : Sent(n) =>
       /\ n \in 1 .. Len(outcome) /\ n \in fenced /\ outcome[n] # "refused"
       /\ operation # "idle" /\ n = Len(outcome) => attempted

Untouched ==
  /\ window = memory.window /\ shown = job.contact
  /\ command.stage \in {"read", "matched", "restored"} => composers[shown] = job.text
  /\ command.stage \in {"matched", "restored"} => Pane(shown) = proof.pane
  /\ command.stage = "pressed" =>
       composers[shown] = Blank \/ (composers[shown] = job.text /\ Pane(shown) = proof.pane)

CommandFits ==
  command # NoCommand =>
    /\ command.capability.contact = job.contact /\ command.capability.text = job.text
    /\ command.capability.window = memory.window
    /\ command.kind = "press" => command.capability.proof = proof.pane
    /\ command.kind = "press" /\ command.stage # "sent" /\ ~command.touched => Untouched

ReadsFit ==
  operation = "submit" =>
    /\ proof.length <= Len(conversation[job.contact])
    /\ (/\ place \in 7 .. 14 /\ memory.first.header = job.contact
         /\ Len(memory.first.pane) < PaneSize) =>
         proof.length <= Len(memory.first.pane)

DeliveryInv == SurfaceTyped /\ CallFits /\ SendFits /\ CommandFits /\ ReadsFit

LEMMA DeliveryBegins == DeliveryInit => DeliveryInv
<1> SUFFICES ASSUME DeliveryInit PROVE DeliveryInv
  OBVIOUS
<1> USE DEF DeliveryInit
<1> DEFINE First == [from : {"contact", "owner"}, text : Words, by : {0}]
<1>0. \A b \in First : b \in Bubble /\ b.from # "bridge"
  BY DEF Bubble, Said
<1> HIDE DEF First
<1>1. \A c \in Contacts :
        /\ conversation[c] \in Seq(First)
        /\ \A i \in 1 .. Len(conversation[c]) : conversation[c][i] \in First
  <2>1. Histories \subseteq Seq(First)
    BY HistoriesAssumption DEF First
  <2>2. \A c \in Contacts : conversation[c] \in Seq(First)
    BY <2>1
  <2> QED BY <2>2, ElementOfSeq
<1>9. conversation \in [Contacts -> Seq(Bubble)]
  <2>1. First \subseteq Bubble
    BY <1>0
  <2>2. \A c \in Contacts : conversation[c] \in Seq(Bubble)
    BY <1>1, <2>1, SeqMonotonic
  <2> QED BY <2>2
<1>2. WorldTyped
  BY <1>9 DEF WorldTyped
<1>3. PlaceTyped
  BY DEF PlaceTyped, LastPlace, Reads
<1>4. DeliveryTyped
  <2>1. NoPicture \in Pictures /\ NoTextDraft \in Drafts
    BY DEF Pictures, Drafts
  <2>2. memory \in Memories /\ authorizedTextDraft \in Drafts
    BY <2>1 DEF Nothing, Memories
  <2>3. proof \in [pane : Seq(Seen), length : Nat]
    BY DEF NoBubbles
  <2>4. outcome \in Seq({"open", "refused", "uncertain", "verified"}) /\ fenced \subseteq Nat
    OBVIOUS
  <2> QED BY <2>2, <2>3, <2>4 DEF DeliveryTyped
<1>5. CallFits
  BY DEF CallFits
<1>6. \A n \in Nat : ~Sent(n)
  <2> SUFFICES ASSUME NEW c \in Contacts, NEW i \in 1 .. Len(conversation[c]),
                      conversation[c][i].from = "bridge"
               PROVE  FALSE
    BY DEF Sent
  <2> QED BY <1>0, <1>1
<1>7. SendFits /\ CommandFits /\ ReadsFit
  BY <1>6 DEF SendFits, CommandFits, ReadsFit
<1> QED BY <1>2, <1>3, <1>4, <1>5, <1>7 DEF DeliveryInv, SurfaceTyped

\* What owner, contact and WeChat do around the delivery
LEMMA AroundKeeps ==
  ASSUME DeliveryInv, AroundWindow
  PROVE  DeliveryInv'
<1> USE DEF DeliveryInv, SurfaceTyped
<1>1. /\ UNCHANGED <<callVars, deliveryVars, authorizedTextDraft>>
      /\ command' = IF command = NoCommand THEN command ELSE [command EXCEPT !.touched = TRUE]
  BY DEF AroundWindow, Writes, OwnerOpens, OwnerEdits, OwnerSends, WechatRestarts, Reenrolled, Move
<1>2. /\ command = NoCommand => command' = NoCommand
      /\ command # NoCommand =>
           /\ command' # NoCommand /\ command' \in CommandTypes /\ command'.touched
           /\ command'.kind = command.kind /\ command'.capability = command.capability
  <2>1. CASE command = NoCommand
    BY <1>1, <2>1
  <2>2. CASE command # NoCommand
    <3>1. command \in CommandTypes
      BY <2>2 DEF DeliveryTyped
    <3>2. command' = [command EXCEPT !.touched = TRUE]
      BY <1>1, <2>2
    <3>3. /\ command' \in CommandTypes /\ command'.touched
          /\ command'.kind = command.kind /\ command'.capability = command.capability
      BY <3>1, <3>2 DEF CommandTypes
    <3>4. command' # NoCommand
      <4>1. NoCommand.stage \notin Stages
        BY DEF NoCommand, Stages
      <4> QED BY <3>3, <4>1 DEF CommandTypes
    <3> QED BY <2>2, <3>3, <3>4
  <2> QED BY <2>1, <2>2
<1>3. /\ WorldTyped'
      /\ \A c \in Contacts :
           \/ conversation'[c] = conversation[c]
           \/ \E from \in {"contact", "owner"}, w \in Said : Adds(c, from, w)
      /\ \A c \in Contacts : conversation'[c] = conversation[c] \/ UNCHANGED <<window, revisions>>
  <2>1. CASE Writes
    <3>1. PICK c \in Contacts, from \in {"contact", "owner"}, w \in Words : Adds(c, from, w)
      BY <2>1 DEF Writes
    <3>2. w \in Said /\ from \in {"contact", "owner", "bridge"}
      BY DEF Said
    <3>3. /\ conversation' \in [Contacts -> Seq(Bubble)]
          /\ \A d \in Contacts \ {c} : conversation'[d] = conversation[d]
      BY <3>1, <3>2, AddsOne DEF DeliveryTyped
    <3> QED BY <2>1, <3>1, <3>2, <3>3 DEF Writes, WorldTyped
  <2>2. CASE OwnerOpens
    BY <2>2 DEF OwnerOpens, WorldTyped
  <2>3. CASE OwnerEdits
    BY <2>3 DEF OwnerEdits, WorldTyped, Said
  <2>4. CASE OwnerSends
    <3>1. composers[shown] \in Said /\ Adds(shown, "owner", composers[shown]) /\ shown \in Contacts
      BY <2>4 DEF OwnerSends, WorldTyped
    <3>2. /\ conversation' \in [Contacts -> Seq(Bubble)]
          /\ \A d \in Contacts \ {shown} : conversation'[d] = conversation[d]
      BY <3>1, AddsOne DEF DeliveryTyped
    <3> QED BY <2>4, <3>1, <3>2 DEF OwnerSends, WorldTyped
  <2>5. CASE WechatRestarts
    BY <2>5 DEF WechatRestarts, WorldTyped
  <2>6. CASE Reenrolled
    <3>1. PICK c \in Contacts : revisions' = [revisions EXCEPT ![c] = revisions[c] + 1]
      BY <2>6 DEF Reenrolled
    <3>2. revisions' \in [Contacts -> Nat]
      BY <3>1 DEF WorldTyped
    <3> QED BY <2>6, <3>2 DEF Reenrolled, WorldTyped
  <2> QED BY <2>1, <2>2, <2>3, <2>4, <2>5, <2>6 DEF AroundWindow
<1>4. PlaceTyped' /\ DeliveryTyped'
  BY <1>1, <1>2 DEF PlaceTyped, LastPlace, DeliveryTyped, callVars, deliveryVars
<1>5. CallFits'
  BY <1>1, <1>2 DEF CallFits, callVars, deliveryVars
<1>6. \A c \in Contacts :
        /\ Len(conversation'[c]) >= Len(conversation[c])
        /\ \A i \in 1 .. Len(conversation'[c]) : conversation'[c][i].from = "bridge" =>
             i \in 1 .. Len(conversation[c]) /\ conversation'[c][i] = conversation[c][i]
  <2> SUFFICES ASSUME NEW c \in Contacts
               PROVE  /\ Len(conversation'[c]) >= Len(conversation[c])
                      /\ \A i \in 1 .. Len(conversation'[c]) : conversation'[c][i].from = "bridge" =>
                           i \in 1 .. Len(conversation[c]) /\ conversation'[c][i] = conversation[c][i]
    OBVIOUS
  <2>0. Len(conversation[c]) \in Nat
    BY DEF WorldTyped
  <2>1. CASE conversation'[c] = conversation[c]
    BY <2>0, <2>1
  <2>2. ASSUME NEW from \in {"contact", "owner"}, NEW w \in Said, Adds(c, from, w)
        PROVE  /\ Len(conversation'[c]) >= Len(conversation[c])
               /\ \A i \in 1 .. Len(conversation'[c]) : conversation'[c][i].from = "bridge" =>
                    i \in 1 .. Len(conversation[c]) /\ conversation'[c][i] = conversation[c][i]
    <3> DEFINE b == [from |-> from, text |-> w, by |-> Delivery]
    <3>4. from \in {"contact", "owner", "bridge"} /\ b.from # "bridge"
      OBVIOUS
    <3>5. outcome \in Seq({"open", "refused", "uncertain", "verified"})
      BY DEF DeliveryTyped
    <3>6. /\ Len(conversation'[c]) = Len(conversation[c]) + 1
          /\ \A i \in 1 .. Len(conversation[c]) : conversation'[c][i] = conversation[c][i]
          /\ conversation'[c][Len(conversation[c]) + 1] = b
      BY <2>2, <3>4, <3>5, AddsOne
    <3> HIDE DEF b
    <3>1. /\ Len(conversation'[c]) = Len(conversation[c]) + 1
          /\ \A i \in 1 .. Len(conversation[c]) : conversation'[c][i] = conversation[c][i]
          /\ conversation'[c][Len(conversation[c]) + 1].from # "bridge"
      BY <3>4, <3>6
    <3>2. \A i \in 1 .. Len(conversation'[c]) :
            i \in 1 .. Len(conversation[c]) \/ i = Len(conversation[c]) + 1
      BY <2>0, <3>1
    <3>3. Len(conversation'[c]) >= Len(conversation[c])
      BY <2>0, <3>1
    <3> QED BY <3>1, <3>2, <3>3
  <2> QED BY <1>3, <2>1, <2>2
<1>7. \A n \in Nat : Sent(n)' => Sent(n)
  BY <1>6 DEF Sent
<1>8. SendFits'
  BY <1>1, <1>7 DEF SendFits, callVars, deliveryVars
<1>9. CommandFits'
  BY <1>1, <1>2 DEF CommandFits, callVars, deliveryVars
<1>10. ReadsFit'
  <2>1. operation = "submit" => job.contact \in Contacts
    BY DEF DeliveryTyped
  <2>2. \A c \in Contacts : Len(conversation[c]) \in Nat /\ Len(conversation'[c]) \in Nat
    BY <1>3 DEF WorldTyped
  <2>3. proof.length \in Nat
    BY DEF DeliveryTyped
  <2> QED BY <1>1, <1>6, <2>1, <2>2, <2>3 DEF ReadsFit, callVars, deliveryVars
<1> QED BY <1>3, <1>4, <1>5, <1>8, <1>9, <1>10

\* The two keys of the transaction
LEMMA PairsAre ==
  ASSUME NEW pair \in {<<"matched", "pressed">>, <<"restored", "pressed again">>}
  PROVE  \/ pair[1] = "matched" /\ pair[2] = "pressed"
         \/ pair[1] = "restored" /\ pair[2] = "pressed again"
<1>1. CASE pair = <<"matched", "pressed">>
  BY <1>1
<1>2. CASE pair = <<"restored", "pressed again">>
  BY <1>2
<1> QED BY <1>1, <1>2

\* What a step of the child leaves alone
LEMMA ChildFrame ==
  ASSUME DeliveryInv, Child
  PROVE  /\ command \in CommandTypes /\ command # NoCommand /\ operation # "idle"
         /\ job \in [contact : Contacts, revision : Nat, text : ReplyTexts, trigger : Said]
         /\ UNCHANGED <<window, revisions, moves, callVars, deliveryVars, authorizedTextDraft>>
         /\ command' \in CommandTypes /\ command' # NoCommand
         /\ command'.kind = command.kind /\ command'.capability = command.capability
         /\ command'.touched = (IF command.stage = "sent" THEN FALSE ELSE command.touched)
         /\ command'.stage # "sent"
         /\ PlaceTyped' /\ DeliveryTyped' /\ CallFits'
<1> USE DEF DeliveryInv, SurfaceTyped
<1>1. /\ command.stage # "none"
      /\ UNCHANGED <<window, revisions, moves, callVars, deliveryVars, authorizedTextDraft>>
      /\ \/ command.stage = "sent" /\ command' = [command EXCEPT !.stage = "looked", !.touched = FALSE]
         \/ /\ command.stage # "sent"
            /\ \E stage \in Stages \ {"sent"} : command' = [command EXCEPT !.stage = stage]
  <2> DEFINE Frame == /\ command.stage # "none"
                      /\ UNCHANGED <<window, revisions, moves, callVars, deliveryVars, authorizedTextDraft>>
             To(t) == command' = [command EXCEPT !.stage = t]
             Ahead == Frame /\ command.stage # "sent" /\ \E t \in Stages \ {"sent"} : To(t)
  <2>1. CASE Looks
    BY <2>1 DEF Looks
  <2>2. CASE Selects \/ FindsEmpty \/ Pastes
    <3>1. Frame /\ command.stage # "sent" /\ (To("done") \/ To("empty") \/ To("typed"))
      BY <2>2 DEF Selects, FindsEmpty, Pastes, ChildAt, Comes
    <3>2. Ahead
      BY <3>1 DEF Stages
    <3> QED BY <3>2
  <2>3. CASE ReadsDraft \/ SubmitReadsDraft \/ MatchesFinalState
    <3>1. /\ Frame /\ command.stage # "sent"
          /\ To("done") \/ To("failed") \/ To("read") \/ To("matched")
      BY <2>3 DEF ReadsDraft, SubmitReadsDraft, MatchesFinalState, ChildAt, Comes
    <3>2. Ahead
      BY <3>1 DEF Stages
    <3> QED BY <3>2
  <2>4. CASE Presses
    <3>1. PICK pair \in {<<"matched", "pressed">>, <<"restored", "pressed again">>} :
            ChildAt("press", pair[1]) /\ Comes(pair[2])
      BY <2>4 DEF Presses
    <3>2. \/ pair[1] = "matched" /\ pair[2] = "pressed"
          \/ pair[1] = "restored" /\ pair[2] = "pressed again"
      BY <3>1, PairsAre
    <3>3. Frame /\ command.stage # "sent" /\ (To("pressed") \/ To("pressed again"))
      BY <3>1, <3>2 DEF ChildAt, Comes
    <3>4. Ahead
      BY <3>3 DEF Stages
    <3> QED BY <3>4
  <2>5. CASE ReadsComposer
    <3>1. Frame /\ command.stage # "sent" /\ (To("done") \/ To("restored"))
      BY <2>5 DEF ReadsComposer, ChildAt, Comes
    <3>2. Ahead
      BY <3>1 DEF Stages
    <3> QED BY <3>2
  <2> QED BY <2>1, <2>2, <2>3, <2>4, <2>5 DEF Child
<1>2. command # NoCommand /\ command \in CommandTypes
  <2>1. command # NoCommand
    BY <1>1 DEF NoCommand
  <2> QED BY <2>1 DEF DeliveryTyped
<1>3. /\ command' \in CommandTypes
      /\ command'.kind = command.kind /\ command'.capability = command.capability
      /\ command'.touched = (IF command.stage = "sent" THEN FALSE ELSE command.touched)
      /\ command'.stage # "sent"
  <2>1. CASE command.stage = "sent"
    <3>1. command' = [command EXCEPT !.stage = "looked", !.touched = FALSE]
      BY <1>1, <2>1
    <3> QED BY <1>2, <2>1, <3>1 DEF CommandTypes, Stages
  <2>2. CASE command.stage # "sent"
    <3>1. PICK stage \in Stages \ {"sent"} : command' = [command EXCEPT !.stage = stage]
      BY <1>1, <2>2
    <3> QED BY <1>2, <2>2, <3>1 DEF CommandTypes
  <2> QED BY <2>1, <2>2
<1>4. command' # NoCommand
  <2>1. NoCommand.stage \notin Stages
    BY DEF NoCommand, Stages
  <2> QED BY <1>3, <2>1 DEF CommandTypes
<1>5. operation # "idle"
  BY <1>2 DEF CallFits
<1>6. PlaceTyped' /\ DeliveryTyped'
  BY <1>1, <1>3 DEF PlaceTyped, LastPlace, DeliveryTyped, callVars, deliveryVars
<1>7. CallFits'
  BY <1>1, <1>2, <1>3 DEF CallFits, callVars, deliveryVars
<1>8. job \in [contact : Contacts, revision : Nat, text : ReplyTexts, trigger : Said]
  BY <1>5 DEF DeliveryTyped
<1> QED BY <1>1, <1>2, <1>3, <1>4, <1>5, <1>6, <1>7, <1>8

\* The child presses in a submit that is marked
LEMMA PressIsMarked ==
  ASSUME DeliveryInv, command # NoCommand, command.kind = "press"
  PROVE  operation = "submit" /\ place = 9 /\ attempted
<1> USE DEF DeliveryInv, SurfaceTyped
<1>1. operation # "idle" /\ Operations[operation][place] = "press"
  BY DEF CallFits
<1>2. StepAt(Operations[operation][place])
  BY <1>1, PlacesAre
<1>3. operation = "submit" /\ place = 9
  BY <1>1, <1>2 DEF StepAt
<1>4. 9 \in 9 .. 14
  OBVIOUS
<1> QED BY <1>3, <1>4 DEF CallFits

\* Looking, selecting, typing and reading: no bubble is made
LEMMA ChildKeeps ==
  ASSUME DeliveryInv, Child, ~Presses
  PROVE  DeliveryInv'
<1> USE DEF DeliveryInv, SurfaceTyped
<1>1. /\ command \in CommandTypes /\ command # NoCommand /\ operation # "idle"
      /\ job \in [contact : Contacts, revision : Nat, text : ReplyTexts, trigger : Said]
      /\ UNCHANGED <<window, revisions, moves, callVars, deliveryVars, authorizedTextDraft>>
      /\ command' \in CommandTypes /\ command' # NoCommand
      /\ command'.kind = command.kind /\ command'.capability = command.capability
      /\ command'.touched = (IF command.stage = "sent" THEN FALSE ELSE command.touched)
      /\ command'.stage # "sent"
      /\ PlaceTyped' /\ DeliveryTyped' /\ CallFits'
  BY ChildFrame
<1>2. command.capability.contact \in Contacts /\ command.capability.text \in Said
  BY <1>1, WordsAssumption DEF CommandTypes, Capabilities, Said
<1>3. conversation' = conversation
  BY DEF Child, Looks, Selects, FindsEmpty, Pastes, ReadsDraft, SubmitReadsDraft, MatchesFinalState,
         ReadsComposer, Sees
<1>4. shown' \in Contacts /\ composers' \in [Contacts -> Said \union {Blank}]
  <2>1. CASE Looks \/ FindsEmpty \/ SubmitReadsDraft \/ MatchesFinalState \/ ReadsComposer
    BY <2>1 DEF Looks, FindsEmpty, SubmitReadsDraft, MatchesFinalState, ReadsComposer, Sees, WorldTyped
  <2>2. CASE Selects
    BY <1>2, <2>2 DEF Selects, WorldTyped, Ordered
  <2>3. CASE Pastes
    BY <1>2, <2>3 DEF Pastes, WorldTyped, Ordered, Said
  <2>4. CASE ReadsDraft
    BY <2>4 DEF ReadsDraft, WorldTyped
  <2> QED BY <2>1, <2>2, <2>3, <2>4 DEF Child
<1>5. WorldTyped'
  BY <1>1, <1>3, <1>4 DEF WorldTyped
<1>6. SendFits'
  BY <1>1, <1>3 DEF SendFits, Sent, callVars, deliveryVars
<1>7. ReadsFit'
  BY <1>1, <1>3 DEF ReadsFit, callVars, deliveryVars
<1>8. CommandFits'
  <2>1. /\ command.capability.contact = job.contact /\ command.capability.text = job.text
        /\ command.capability.window = memory.window
        /\ command.kind = "press" => command.capability.proof = proof.pane
    BY <1>1 DEF CommandFits
  <2>2. memory' = memory /\ job' = job /\ proof' = proof /\ window' = window
    BY <1>1 DEF callVars, deliveryVars
  <2>3. ASSUME command.kind = "press", ~command'.touched
        PROVE  Untouched'
    <3>1. shown' = shown /\ composers' = composers /\ Pane(shown)' = Pane(shown)
      <4>1. shown' = shown /\ composers' = composers
        BY <2>3 DEF Child, Looks, Selects, FindsEmpty, Pastes, ReadsDraft, SubmitReadsDraft,
             MatchesFinalState, ReadsComposer, Sees, ChildAt
      <4> QED BY <1>3, <4>1 DEF Pane
    <3>2. CASE Looks
      <4>1. command'.stage = "looked" /\ window = Ordered.window /\ shown = Ordered.contact
        BY <1>1, <2>3, <3>2 DEF Looks, CommandTypes
      <4> QED BY <2>1, <2>2, <3>1, <4>1 DEF Untouched, Ordered
    <3>3. ASSUME ~Looks
          PROVE  command.stage # "sent" /\ Untouched
      <4>1. command.stage # "sent"
        BY <2>3, <3>3 DEF Child, Selects, FindsEmpty, Pastes, ReadsDraft, SubmitReadsDraft,
             MatchesFinalState, ReadsComposer, ChildAt
      <4> QED BY <1>1, <2>3, <4>1 DEF CommandFits
    <3>4. CASE SubmitReadsDraft
      <4>1. command'.stage = "read" /\ composers[shown] = Ordered.text /\ Untouched
        BY <1>1, <3>3, <3>4 DEF SubmitReadsDraft, Comes, ChildAt, CommandTypes, Looks
      <4> QED BY <2>1, <2>2, <3>1, <4>1 DEF Untouched, Ordered
    <3>5. CASE MatchesFinalState
      <4>1. /\ command'.stage = "matched" /\ Pane(shown) = Ordered.proof /\ command.stage = "read"
            /\ Untouched
        BY <1>1, <3>3, <3>5 DEF MatchesFinalState, Comes, ChildAt, CommandTypes, Looks
      <4> QED BY <2>1, <2>2, <2>3, <3>1, <4>1 DEF Untouched, Ordered
    <3>6. CASE ReadsComposer
      <4>1. Untouched
        BY <3>3, <3>6 DEF ReadsComposer, ChildAt, Looks
      <4>2. job.text # Blank
        BY <1>1, WordsAssumption
      <4>3. \/ command'.stage = "done"
            \/ /\ command'.stage = "restored" /\ command.stage = "pressed"
               /\ composers[shown] = Ordered.text
        BY <1>1, <3>6 DEF ReadsComposer, Comes, ChildAt, CommandTypes
      <4> QED BY <2>1, <2>2, <3>1, <4>1, <4>2, <4>3 DEF Untouched, Ordered
    <3>7. ~Selects /\ ~FindsEmpty /\ ~Pastes /\ ~ReadsDraft
      BY <2>3 DEF Selects, FindsEmpty, Pastes, ReadsDraft, ChildAt
    <3> QED BY <3>2, <3>4, <3>5, <3>6, <3>7 DEF Child
  <2> QED BY <1>1, <2>1, <2>2, <2>3 DEF CommandFits
<1> QED BY <1>1, <1>5, <1>6, <1>7, <1>8

\* Return is pressed
LEMMA PressesKeeps ==
  ASSUME DeliveryInv, Presses
  PROVE  DeliveryInv'
<1> USE DEF DeliveryInv, SurfaceTyped
<1>1. /\ command \in CommandTypes /\ command # NoCommand /\ operation # "idle"
      /\ job \in [contact : Contacts, revision : Nat, text : ReplyTexts, trigger : Said]
      /\ UNCHANGED <<window, revisions, moves, callVars, deliveryVars, authorizedTextDraft>>
      /\ command' \in CommandTypes /\ command' # NoCommand
      /\ command'.kind = command.kind /\ command'.capability = command.capability
      /\ command'.touched = (IF command.stage = "sent" THEN FALSE ELSE command.touched)
      /\ command'.stage # "sent"
      /\ PlaceTyped' /\ DeliveryTyped' /\ CallFits'
  BY ChildFrame DEF Child
<1>2. /\ command.kind = "press" /\ command.stage \in {"matched", "restored"}
      /\ command'.stage \in {"pressed", "pressed again"}
      /\ shown' = shown /\ shown \in Contacts
      /\ \/ composers[shown] \in Said /\ Adds(shown, "bridge", composers[shown])
            /\ composers' = [composers EXCEPT ![shown] = Blank]
         \/ UNCHANGED <<composers, conversation>>
  <2>1. PICK pair \in {<<"matched", "pressed">>, <<"restored", "pressed again">>} :
          /\ ChildAt("press", pair[1])
          /\ Comes(pair[2])
          /\ \/ /\ composers[shown] # Blank
                /\ Adds(shown, "bridge", composers[shown])
                /\ composers' = [composers EXCEPT ![shown] = Blank]
             \/ UNCHANGED <<composers, conversation>>
          /\ UNCHANGED shown
    BY DEF Presses
  <2>2. /\ pair[1] \in {"matched", "restored"} /\ pair[2] \in {"pressed", "pressed again"}
    <3>1. \/ pair[1] = "matched" /\ pair[2] = "pressed"
          \/ pair[1] = "restored" /\ pair[2] = "pressed again"
      BY <2>1, PairsAre
    <3> QED BY <3>1
  <2>3. shown \in Contacts /\ (composers[shown] # Blank => composers[shown] \in Said)
    BY DEF WorldTyped
  <2>4. command'.stage = pair[2] /\ command.kind = "press" /\ command.stage = pair[1]
    BY <1>1, <2>1 DEF Comes, ChildAt, CommandTypes
  <2> QED BY <2>1, <2>2, <2>3, <2>4
<1>3. operation = "submit" /\ place = 9 /\ attempted
  BY <1>1, <1>2, PressIsMarked
<1>4. /\ WorldTyped'
      /\ \A c \in Contacts : Len(conversation'[c]) >= Len(conversation[c])
      /\ \A c \in Contacts : \A i \in 1 .. Len(conversation'[c]) :
           \/ i \in 1 .. Len(conversation[c]) /\ conversation'[c][i] = conversation[c][i]
           \/ conversation'[c][i].by = Delivery
  <2>0. \A c \in Contacts : Len(conversation[c]) \in Nat
    BY DEF WorldTyped
  <2>1. CASE UNCHANGED <<composers, conversation>>
    <3>1. WorldTyped'
      BY <1>1, <1>2, <2>1 DEF WorldTyped
    <3>2. conversation' = conversation
      BY <2>1
    <3>3. \A c \in Contacts : Len(conversation'[c]) >= Len(conversation[c])
      BY <2>0, <3>2
    <3> QED BY <3>1, <3>2, <3>3
  <2>2. CASE composers[shown] \in Said /\ Adds(shown, "bridge", composers[shown])
               /\ composers' = [composers EXCEPT ![shown] = Blank]
    <3> DEFINE b == [from |-> "bridge", text |-> composers[shown], by |-> Delivery]
               n == Len(conversation[shown])
    <3>5. b.by = Delivery /\ n \in Nat
      BY <1>2, <2>0
    <3>6. outcome \in Seq({"open", "refused", "uncertain", "verified"})
      BY DEF DeliveryTyped
    <3>7. "bridge" \in {"contact", "owner", "bridge"}
      OBVIOUS
    <3>8. /\ conversation' \in [Contacts -> Seq(Bubble)]
          /\ Len(conversation'[shown]) = n + 1
          /\ \A i \in 1 .. n : conversation'[shown][i] = conversation[shown][i]
          /\ conversation'[shown][n + 1] = b
          /\ \A d \in Contacts \ {shown} : conversation'[d] = conversation[d]
      BY <1>2, <2>2, <3>6, <3>7, AddsOne
    <3> HIDE DEF b
    <3>1. /\ conversation' \in [Contacts -> Seq(Bubble)]
          /\ Len(conversation'[shown]) = n + 1
          /\ \A i \in 1 .. n : conversation'[shown][i] = conversation[shown][i]
          /\ conversation'[shown][n + 1].by = Delivery
          /\ \A d \in Contacts \ {shown} : conversation'[d] = conversation[d]
      BY <3>5, <3>8
    <3>2. WorldTyped'
      BY <1>1, <1>2, <2>2, <3>1 DEF WorldTyped
    <3> HIDE DEF n
    <3>9. \A i \in 1 .. n + 1 : i \in 1 .. n \/ i = n + 1
      BY <3>5
    <3>3. \A i \in 1 .. Len(conversation'[shown]) : i \in 1 .. n \/ i = n + 1
      BY <3>1, <3>9
    <3>10. \A c \in Contacts :
             \/ conversation'[c] = conversation[c]
             \/ Len(conversation[c]) = n /\ Len(conversation'[c]) = n + 1
      BY <3>1 DEF n
    <3>4. \A c \in Contacts : Len(conversation'[c]) >= Len(conversation[c])
      BY <2>0, <3>5, <3>10
    <3> QED BY <3>1, <3>2, <3>3, <3>4 DEF n
  <2> QED BY <1>2, <2>1, <2>2
<1>5. SendFits'
  <2>1. Len(outcome) \in Nat /\ Len(outcome) > 0 /\ Len(outcome) \in fenced
        /\ outcome[Len(outcome)] = "open"
    BY <1>1, <1>3 DEF SendFits, CallFits, DeliveryTyped
  <2>2. \A n \in Nat : Sent(n)' => Sent(n) \/ n = Len(outcome)
    BY <1>4 DEF Sent, Delivery
  <2>3. Len(outcome) \in 1 .. Len(outcome)
    BY <2>1
  <2> QED BY <1>1, <1>3, <2>1, <2>2, <2>3 DEF SendFits, callVars, deliveryVars
<1>6. ReadsFit'
  <2>1. \A c \in Contacts : Len(conversation[c]) \in Nat /\ Len(conversation'[c]) \in Nat
    BY <1>4 DEF WorldTyped
  <2>2. proof.length \in Nat /\ job.contact \in Contacts
    BY <1>1 DEF DeliveryTyped
  <2> QED BY <1>1, <1>4, <2>1, <2>2 DEF ReadsFit, callVars, deliveryVars
<1>7. CommandFits'
  <2>1. /\ command.capability.contact = job.contact /\ command.capability.text = job.text
        /\ command.capability.window = memory.window
        /\ command.capability.proof = proof.pane
        /\ ~command.touched => Untouched
    BY <1>1, <1>2 DEF CommandFits
  <2>2. memory' = memory /\ job' = job /\ proof' = proof /\ window' = window
    BY <1>1 DEF callVars, deliveryVars
  <2>3. ASSUME ~command'.touched PROVE Untouched'
    <3>1. /\ window = memory.window /\ shown = job.contact
          /\ composers[shown] = job.text /\ Pane(shown) = proof.pane
      BY <1>1, <1>2, <2>1, <2>3 DEF Untouched
    <3>2. composers'[shown] = Blank \/ (composers'[shown] = job.text /\ Pane(shown)' = proof.pane)
      <4>1. CASE UNCHANGED <<composers, conversation>>
        BY <1>2, <3>1, <4>1 DEF Pane
      <4>2. CASE composers' = [composers EXCEPT ![shown] = Blank]
        BY <1>2, <4>2 DEF WorldTyped
      <4> QED BY <1>2, <4>1, <4>2
    <3> QED BY <1>2, <2>2, <3>1, <3>2 DEF Untouched
  <2> QED BY <1>1, <2>1, <2>2, <2>3 DEF CommandFits
<1> QED BY <1>1, <1>4, <1>5, <1>6, <1>7

\* The places a step leads to
LEMMA Forward ==
  ASSUME NEW last \in {9, 12, 14}, NEW p \in 1 .. last, p # last
  PROVE  /\ p + 1 \in 1 .. last
         /\ p = 3 => p + 4 \in 1 .. last
         /\ last = 14 => p \in 1 .. 13
         /\ p # 8 => (p \in 9 .. 14 <=> p + 1 \in 9 .. 14) \/ last # 14
         /\ p # 6 /\ p + 1 \in 7 .. 14 => p \in 7 .. 14
  OBVIOUS

\* A step forward within an operation
LEMMA OnwardKeeps ==
  ASSUME DeliveryInv, operation # "idle", NEW s, s = Operations[operation][place],
         s \notin {"judge", "keep", "see append", "marking"},
         place' = place + 1 \/ (s = "open?" /\ place' = place + 4),
         operation' = operation, memory' \in Memories, command' = NoCommand,
         memory'.first = IF s = "see first" THEN Picture ELSE memory.first,
         UNCHANGED <<worldVars, deliveryVars, authorizedTextDraft>>
  PROVE  DeliveryInv'
<1> USE DEF DeliveryInv, SurfaceTyped, worldVars, deliveryVars
<1>1. StepAt(s)
  BY PlacesAre
<1>2. place \in 1 .. LastPlace /\ place # LastPlace /\ LastPlace' = LastPlace
      /\ LastPlace \in {9, 12, 14}
  <2>1. place \in 1 .. LastPlace /\ place # LastPlace
    BY <1>1 DEF PlaceTyped, StepAt
  <2>2. LastPlace' = LastPlace /\ LastPlace \in {9, 12, 14}
    BY DEF LastPlace
  <2> QED BY <2>1, <2>2
<1>3. place' \in 1 .. LastPlace
  <2>1. s = "open?" => place = 3
    BY <1>1 DEF StepAt
  <2> QED BY <1>2, <2>1, Forward
<1>4. PlaceTyped'
  BY <1>2, <1>3 DEF PlaceTyped
<1>5. WorldTyped' /\ DeliveryTyped'
  BY DEF WorldTyped, DeliveryTyped
<1>6. operation = "submit" => place' = place + 1 /\ place \in 1 .. 13 /\ place # 8
  <2> SUFFICES ASSUME operation = "submit" PROVE place' = place + 1 /\ place \in 1 .. 13 /\ place # 8
    OBVIOUS
  <2>1. s # "open?" /\ place # 8
    BY <1>1 DEF StepAt
  <2>2. LastPlace = 14
    BY DEF LastPlace, Reads
  <2> QED BY <1>2, <2>1, <2>2, Forward
<1>7. CallFits'
  <2>1. attempted' <=> (operation' = "submit" /\ place' \in 9 .. 14)
    <3>1. CASE operation = "submit"
      <4>1. attempted <=> place \in 9 .. 14
        BY <3>1 DEF CallFits
      <4>2. LastPlace = 14
        BY <3>1 DEF LastPlace, Reads
      <4>3. place \in 9 .. 14 <=> place' \in 9 .. 14
        BY <1>2, <1>6, <3>1, <4>2, Forward
      <4> QED BY <3>1, <4>1, <4>3
    <3>2. CASE operation # "submit"
      BY <3>2 DEF CallFits
    <3> QED BY <3>1, <3>2
  <2> QED BY <2>1 DEF CallFits
<1>8. SendFits'
  BY DEF SendFits, Sent
<1>9. CommandFits'
  BY DEF CommandFits
<1>10. ReadsFit'
  <2> SUFFICES ASSUME operation = "submit"
               PROVE  /\ proof.length <= Len(conversation[job.contact])
                      /\ (/\ place' \in 7 .. 14 /\ memory'.first.header = job.contact
                          /\ Len(memory'.first.pane) < PaneSize) =>
                           proof.length <= Len(memory'.first.pane)
    BY DEF ReadsFit
  <2>1. proof.length <= Len(conversation[job.contact]) /\ job.contact \in Contacts
    BY DEF ReadsFit, DeliveryTyped
  <2>2. CASE place = 6
    <3>1. memory'.first = Picture
      BY <1>1, <2>2 DEF StepAt
    <3>2. memory'.first.header = shown /\ memory'.first.pane = Pane(shown)
      <4>1. Picture.header = shown /\ Picture.pane = Pane(shown)
        BY DEF Picture
      <4> QED BY <3>1, <4>1
    <3>3. shown = job.contact /\ Len(Pane(shown)) < PaneSize =>
            Len(Pane(shown)) = Len(conversation[job.contact])
      <4>1. shown \in Contacts /\ WorldTyped
        BY DEF WorldTyped
      <4> QED BY <4>1, ShortPane
    <3> QED BY <2>1, <3>2, <3>3
  <2>3. CASE place # 6
    <3>1. s # "see first"
      BY <1>1, <2>3 DEF StepAt, Reads
    <3>2. place' \in 7 .. 14 => place \in 7 .. 14
      BY <1>2, <1>6, <2>3, Forward
    <3> QED BY <2>1, <3>1, <3>2 DEF ReadsFit
  <2> QED BY <2>2, <2>3
<1> QED BY <1>4, <1>5, <1>7, <1>8, <1>9, <1>10

\* The end of a delivery
LEMMA EndKeeps ==
  ASSUME DeliveryInv, operation # "idle", NEW how \in {"refused", "uncertain", "verified"},
         Ends(how), how = "refused" => ~attempted,
         fenced' = fenced \/ fenced' = fenced \union {Delivery}
  PROVE  DeliveryInv'
<1> USE DEF DeliveryInv, SurfaceTyped
<1>1. /\ operation' = "idle" /\ place' = 1 /\ memory' = Nothing /\ command' = NoCommand
      /\ attempted' = FALSE /\ UNCHANGED <<worldVars, job, proof, aborted, authorizedTextDraft>>
  BY DEF Ends
<1>2. /\ Len(outcome) \in Nat /\ Len(outcome) \in 1 .. Len(outcome)
      /\ outcome \in Seq({"open", "refused", "uncertain", "verified"})
  BY DEF CallFits, DeliveryTyped
<1>3. /\ outcome' \in Seq({"open", "refused", "uncertain", "verified"})
      /\ Len(outcome') = Len(outcome) /\ outcome'[Len(outcome)] = how
      /\ \A n \in 1 .. Len(outcome) : n # Len(outcome) => outcome'[n] = outcome[n]
  <2>1. outcome' = [outcome EXCEPT ![Len(outcome)] = how]
    BY DEF Ends, Delivery
  <2> QED BY <1>2, <2>1
<1>4. WorldTyped'
  BY <1>1 DEF WorldTyped, worldVars
<1>5. PlaceTyped'
  <2>1. LastPlace' \in {9, 12, 14}
    BY DEF LastPlace
  <2> QED BY <1>1, <2>1 DEF PlaceTyped
<1>6. DeliveryTyped'
  <2>1. Nothing \in Memories
    BY DEF Nothing, Memories, Pictures, Drafts
  <2>2. fenced' \subseteq Nat
    BY <1>2 DEF DeliveryTyped, Delivery
  <2> QED BY <1>1, <1>3, <2>1, <2>2 DEF DeliveryTyped
<1>7. CallFits'
  BY <1>1 DEF CallFits
<1>8. SendFits'
  <2>1. \A n \in Nat : Sent(n)' <=> Sent(n)
    BY <1>1 DEF Sent, worldVars
  <2>2. how = "refused" => ~Sent(Len(outcome))
    BY <1>2 DEF SendFits
  <2> QED BY <1>1, <1>2, <1>3, <2>1, <2>2 DEF SendFits
<1>9. CommandFits' /\ ReadsFit'
  BY <1>1 DEF CommandFits, ReadsFit
<1> QED BY <1>4, <1>5, <1>6, <1>7, <1>8, <1>9

\* A child is spawned
LEMMA SpawnKeeps ==
  ASSUME DeliveryInv, NEW kind \in Kinds, Spawn(kind)
  PROVE  DeliveryInv'
<1> USE DEF DeliveryInv, SurfaceTyped
<1>1. /\ operation # "idle" /\ kind = Operations[operation][place]
      /\ UNCHANGED <<worldVars, callVars, deliveryVars, authorizedTextDraft>>
      /\ job \in [contact : Contacts, revision : Nat, text : ReplyTexts, trigger : Said]
  BY DEF Spawn, Awaits, DeliveryTyped
<1> DEFINE c == DynamicCapability(kind)
<1>2. /\ c \in Capabilities /\ c.contact = job.contact /\ c.text = job.text
      /\ c.window = memory.window /\ (kind = "press" => c.proof = proof.pane)
  <2>1. Issued(kind) \in Capabilities
    BY <1>1 DEF Issued, Capabilities, DeliveryTyped, Memories
  <2>2. proof.pane \in Seq(Seen)
    BY DEF DeliveryTyped
  <2> QED BY <2>1, <2>2 DEF DynamicCapability, BoundToProof, Issued, Capabilities
<1> HIDE DEF c
<1>3. /\ command' \in CommandTypes /\ command'.kind = kind /\ command'.stage = "sent"
      /\ command'.capability = c
  <2>1. command' = [kind |-> kind, stage |-> "sent", touched |-> FALSE, capability |-> c]
    BY DEF Spawn, c
  <2> QED BY <1>2, <2>1 DEF CommandTypes, Stages
<1>4. WorldTyped' /\ PlaceTyped' /\ DeliveryTyped'
  BY <1>1, <1>3 DEF WorldTyped, PlaceTyped, LastPlace, DeliveryTyped, worldVars, callVars, deliveryVars
<1>5. CallFits'
  BY <1>1, <1>3 DEF CallFits, callVars, deliveryVars
<1>6. SendFits' /\ ReadsFit'
  BY <1>1 DEF SendFits, Sent, ReadsFit, worldVars, callVars, deliveryVars
<1>7. CommandFits'
  BY <1>1, <1>2, <1>3 DEF CommandFits, callVars, deliveryVars
<1> QED BY <1>4, <1>5, <1>6, <1>7

\* A new delivery has sent nothing
LEMMA DeliverKeeps ==
  ASSUME DeliveryInv, Deliver
  PROVE  DeliveryInv'
<1>0. WorldTyped /\ PlaceTyped /\ DeliveryTyped /\ CallFits /\ SendFits /\ CommandFits /\ ReadsFit
  BY DEF DeliveryInv, SurfaceTyped
<1> DEFINE Ends4 == {"open", "refused", "uncertain", "verified"}
<1>1. /\ operation' = "validate" /\ place' = 1 /\ memory' = Nothing /\ proof' = NoBubbles
      /\ aborted' = FALSE /\ outcome' = Append(outcome, "open")
      /\ UNCHANGED <<worldVars, attempted, fenced, authorizedTextDraft, command>>
      /\ command = NoCommand /\ attempted = FALSE
  BY <1>0 DEF Deliver, CallFits, DeliveryTyped
<1>2. job' \in [contact : Contacts, revision : Nat, text : ReplyTexts, trigger : Said]
  <2>1. PICK c \in Contacts, r \in ReplyTexts : \E i \in 1 .. Len(conversation[c]) :
          job' = [contact |-> c, revision |-> revisions[c], text |-> r,
                  trigger |-> conversation[c][i].text]
    BY DEF Deliver
  <2>2. PICK i \in 1 .. Len(conversation[c]) :
          job' = [contact |-> c, revision |-> revisions[c], text |-> r,
                  trigger |-> conversation[c][i].text]
    BY <2>1
  <2>3. conversation[c] \in Seq(Bubble) /\ revisions[c] \in Nat
    BY <1>0 DEF WorldTyped
  <2>4. conversation[c][i] \in Bubble
    BY <2>3, ElementOfSeq
  <2>5. conversation[c][i].text \in Said
    BY <2>4 DEF Bubble
  <2> QED BY <2>2, <2>3, <2>5
<1>3. /\ outcome' \in Seq(Ends4) /\ Len(outcome') = Len(outcome) + 1 /\ Len(outcome) \in Nat
      /\ outcome'[Len(outcome')] = "open"
      /\ \A n \in 1 .. Len(outcome) : outcome'[n] = outcome[n]
  <2>1. outcome \in Seq(Ends4) /\ "open" \in Ends4
    BY <1>0 DEF DeliveryTyped
  <2> HIDE DEF Ends4
  <2> QED BY <1>1, <2>1
<1>4. WorldTyped'
  BY <1>0, <1>1 DEF WorldTyped, worldVars
<1>5. PlaceTyped'
  <2>1. LastPlace' = 9
    BY <1>1 DEF LastPlace, Reads
  <2> QED BY <1>1, <2>1 DEF PlaceTyped, Reads
<1>6. DeliveryTyped'
  <2>1. Nothing \in Memories
    BY DEF Nothing, Memories, Pictures, Drafts
  <2>2. NoBubbles \in [pane : Seq(Seen), length : Nat]
    BY DEF NoBubbles
  <2>3. fenced' \subseteq Nat /\ authorizedTextDraft' \in Drafts /\ attempted' \in BOOLEAN
    BY <1>0, <1>1 DEF DeliveryTyped
  <2> QED BY <1>1, <1>2, <1>3, <2>1, <2>2, <2>3 DEF DeliveryTyped
<1>7. CallFits'
  <2>1. Len(outcome') > 0
    BY <1>3
  <2> QED BY <1>1, <1>3, <2>1 DEF CallFits
<1>8. SendFits'
  <2>1. \A n \in Nat : Sent(n)' => Sent(n)
    BY <1>1 DEF Sent, worldVars
  <2>2. \A n \in 1 .. Len(outcome) : n \in 1 .. Len(outcome') /\ n # Len(outcome')
    BY <1>3
  <2>3. \A n \in Nat : Sent(n) => n \in 1 .. Len(outcome) /\ n \in fenced /\ outcome[n] # "refused"
    BY <1>0 DEF SendFits
  <2> QED BY <1>1, <1>3, <2>1, <2>2, <2>3 DEF SendFits
<1>9. CommandFits' /\ ReadsFit'
  BY <1>1 DEF CommandFits, ReadsFit
<1> QED BY <1>4, <1>5, <1>6, <1>7, <1>8, <1>9 DEF DeliveryInv, SurfaceTyped

\* Whatever leaves all but the signal alone
LEMMA AbortKeeps ==
  ASSUME DeliveryInv, aborted' \in BOOLEAN,
         UNCHANGED <<worldVars, callVars, job, proof, attempted, fenced, outcome,
                     authorizedTextDraft, command>>
  PROVE  DeliveryInv'
<1> USE DEF worldVars, callVars
<1>0. WorldTyped /\ PlaceTyped /\ DeliveryTyped /\ CallFits /\ SendFits /\ CommandFits /\ ReadsFit
  BY DEF DeliveryInv, SurfaceTyped
<1>1. WorldTyped' /\ PlaceTyped' /\ DeliveryTyped'
  BY <1>0 DEF WorldTyped, PlaceTyped, LastPlace, DeliveryTyped
<1>2. CallFits' /\ SendFits'
  BY <1>0 DEF CallFits, SendFits, Sent
<1>3. CommandFits' /\ ReadsFit'
  BY <1>0 DEF CommandFits, ReadsFit, Untouched, Pane
<1> QED BY <1>1, <1>2, <1>3 DEF DeliveryInv, SurfaceTyped

\* The next operation begins
LEMMA NextKeeps ==
  ASSUME DeliveryInv, operation # "idle", operation' \in Reads \union {"prepare", "submit"},
         place' = 1, memory' \in Memories, authorizedTextDraft' \in Drafts, ~attempted,
         proof' \in [pane : Seq(Seen), length : Nat], command' = NoCommand,
         operation' = "submit" => proof'.length = Len(conversation[job.contact]),
         UNCHANGED <<worldVars, job, attempted, aborted, fenced, outcome>>
  PROVE  DeliveryInv'
<1> USE DEF worldVars
<1>0. WorldTyped /\ PlaceTyped /\ DeliveryTyped /\ CallFits /\ SendFits /\ CommandFits /\ ReadsFit
  BY DEF DeliveryInv, SurfaceTyped
<1>1. WorldTyped' /\ DeliveryTyped'
  BY <1>0 DEF WorldTyped, DeliveryTyped
<1>2. PlaceTyped'
  <2>1. LastPlace' \in {9, 12, 14}
    BY DEF LastPlace
  <2> QED BY <2>1 DEF PlaceTyped
<1>3. operation' # "idle"
  BY DEF Reads
<1>4. CallFits'
  <2>1. place' \notin 9 .. 14
    OBVIOUS
  <2> QED BY <1>0, <1>3, <2>1 DEF CallFits
<1>5. SendFits'
  BY <1>0, <1>3 DEF SendFits, Sent
<1>6. CommandFits'
  BY DEF CommandFits
<1>7. ReadsFit'
  <2> SUFFICES ASSUME operation' = "submit"
               PROVE  proof'.length <= Len(conversation[job.contact])
    BY DEF ReadsFit
  <2>1. job.contact \in Contacts /\ proof'.length = Len(conversation[job.contact])
    BY <1>0 DEF DeliveryTyped
  <2>2. Len(conversation[job.contact]) \in Nat
    BY <1>0, <2>1 DEF WorldTyped
  <2> QED BY <2>1, <2>2
<1> QED BY <1>1, <1>2, <1>4, <1>5, <1>6, <1>7 DEF DeliveryInv, SurfaceTyped

\* What the operation awaits
LEMMA OperationKeeps ==
  ASSUME DeliveryInv, Operation
  PROVE  DeliveryInv'
<1>0. WorldTyped /\ PlaceTyped /\ DeliveryTyped /\ CallFits /\ SendFits /\ CommandFits /\ ReadsFit
  BY DEF DeliveryInv, SurfaceTyped
<1>1. memory \in Memories /\ window \in Nat
  BY <1>0 DEF DeliveryTyped, WorldTyped
<1> DEFINE Goes == {"target", "window", "see first", "match", "see", "same window", "open?",
                    "locate", "match opened", "focus", "header", "mark", "select", "type", "press"}
<1>2. \A s \in Goes : s \notin {"judge", "keep", "see append", "marking"}
  OBVIOUS
<1>3. ASSUME NEW s \in Goes \ {"see first"}, Awaits(s), Passes
      PROVE  DeliveryInv'
  <2>1. /\ operation # "idle" /\ s = Operations[operation][place] /\ command' = NoCommand
        /\ place' = place + 1 /\ operation' = operation /\ memory' = memory
        /\ UNCHANGED <<worldVars, deliveryVars, authorizedTextDraft>>
    BY <1>3 DEF Awaits, Passes, Onward
  <2>2. s \notin {"judge", "keep", "see append", "marking"} /\ s # "see first"
    BY <1>2, <1>3
  <2>3. memory' \in Memories /\ memory'.first = IF s = "see first" THEN Picture ELSE memory.first
    BY <1>1, <2>1, <2>2
  <2> HIDE DEF Goes
  <2> QED BY <2>1, <2>2, <2>3, OnwardKeeps
<1>4. CASE RequireTextTarget
  <2>1. Awaits("target") /\ Passes
    BY <1>4 DEF RequireTextTarget
  <2> QED BY <1>3, <2>1
<1>5. CASE SameWindow
  <2>1. Awaits("same window") /\ Passes
    BY <1>5 DEF SameWindow
  <2> QED BY <1>3, <2>1
<1>6. CASE LocateAuthorizedIdentity
  <2>1. Awaits("locate") /\ Passes
    BY <1>6 DEF LocateAuthorizedIdentity
  <2> QED BY <1>3, <2>1
<1>7. CASE MatchAuthorizedIdentity
  <2>1. (Awaits("match") \/ Awaits("match opened")) /\ Passes
    BY <1>7 DEF MatchAuthorizedIdentity
  <2> QED BY <1>3, <2>1
<1>8. CASE SeesHeader
  <2>1. (Awaits("focus") \/ Awaits("header")) /\ Passes
    BY <1>8 DEF SeesHeader
  <2> QED BY <1>3, <2>1
<1>9. CASE AsksForMark
  <2>1. Awaits("mark") /\ Passes
    BY <1>9 DEF AsksForMark
  <2> QED BY <1>3, <2>1
<1>10. CASE MainWindow
  <2>1. /\ operation # "idle" /\ Operations[operation][place] = "window" /\ command' = NoCommand
        /\ place' = place + 1 /\ operation' = operation
        /\ memory' = [memory EXCEPT !.window = window]
        /\ UNCHANGED <<worldVars, deliveryVars, authorizedTextDraft>>
    BY <1>10 DEF MainWindow, Awaits, Onward
  <2>2. memory' \in Memories /\ memory'.first = memory.first
    BY <1>1, <2>1 DEF Memories
  <2> QED BY <2>1, <2>2, OnwardKeeps
<1>11. Picture \in Pictures
  <2>1. Pane(shown) \in Seq(Seen) /\ shown \in Contacts
    BY <1>0, PaneIs DEF WorldTyped
  <2> QED BY <2>1 DEF Picture, Pictures
<1>12. CASE ReadLines
  <2>1. CASE Awaits("see first") /\ memory' = [memory EXCEPT !.first = Picture]
    <3>1. /\ operation # "idle" /\ Operations[operation][place] = "see first" /\ command' = NoCommand
          /\ place' = place + 1 /\ operation' = operation
          /\ UNCHANGED <<worldVars, deliveryVars, authorizedTextDraft>>
      BY <1>12, <2>1 DEF ReadLines, Awaits, Onward
    <3>2. memory' \in Memories /\ memory'.first = Picture
      BY <1>1, <1>11, <2>1 DEF Memories
    <3> QED BY <3>1, <3>2, OnwardKeeps
  <2>2. CASE Awaits("see") /\ memory' = [memory EXCEPT !.last = Picture]
    <3>1. /\ operation # "idle" /\ Operations[operation][place] = "see" /\ command' = NoCommand
          /\ place' = place + 1 /\ operation' = operation
          /\ UNCHANGED <<worldVars, deliveryVars, authorizedTextDraft>>
      BY <1>12, <2>2 DEF ReadLines, Awaits, Onward
    <3>2. memory' \in Memories /\ memory'.first = memory.first
      BY <1>1, <1>11, <2>2 DEF Memories
    <3> QED BY <3>1, <3>2, OnwardKeeps
  <2> QED BY <1>12, <2>1, <2>2 DEF ReadLines
<1>13. CASE LooksWhetherOpen
  <2>1. /\ operation # "idle" /\ Operations[operation][place] = "open?" /\ command' = NoCommand
        /\ place' = place + 1 \/ place' = place + 4
        /\ operation' = operation /\ memory' = [memory EXCEPT !.last = Picture]
        /\ UNCHANGED <<worldVars, deliveryVars, authorizedTextDraft>>
    BY <1>13 DEF LooksWhetherOpen, Awaits
  <2>2. memory' \in Memories /\ memory'.first = memory.first
    BY <1>1, <1>11, <2>1 DEF Memories
  <2> QED BY <2>1, <2>2, OnwardKeeps
<1>14. CASE Settles
  <2>1. /\ command # NoCommand /\ command' = NoCommand
        /\ place' = place + 1 /\ operation' = operation /\ memory' = memory
        /\ UNCHANGED <<worldVars, deliveryVars, authorizedTextDraft>>
    BY <1>14 DEF Settles, Onward, NoCommand
  <2>2. operation # "idle" /\ command.kind = Operations[operation][place] /\ command.kind \in Kinds
    BY <1>0, <2>1 DEF CallFits, DeliveryTyped, CommandTypes
  <2>3. command.kind \notin {"judge", "keep", "see append", "marking"} /\ command.kind # "see first"
    BY <2>2 DEF Kinds
  <2> DEFINE s == command.kind
  <2>4. memory'.first = IF s = "see first" THEN Picture ELSE memory.first
    BY <2>1, <2>3
  <2>5. memory' \in Memories
    BY <1>1, <2>1
  <2> HIDE DEF Goes
  <2> QED BY <2>1, <2>2, <2>3, <2>4, <2>5, OnwardKeeps
<1>15. CASE ClickWechatWindowPoint \/ TypeText \/ SubmitWechatDraft
  <2>1. Spawn("select") \/ Spawn("type") \/ Spawn("press")
    BY <1>15 DEF ClickWechatWindowPoint, TypeText, SubmitWechatDraft
  <2>2. {"select", "type", "press"} \subseteq Kinds
    BY DEF Kinds
  <2> QED BY <2>1, <2>2, SpawnKeeps
<1>16. CASE AcceptsSnapshot
  <2>1. operation # "idle" /\ Operations[operation][place] = "judge" /\ command = NoCommand
    BY <1>16 DEF AcceptsSnapshot, Awaits
  <2>2. operation \in Reads
    BY <1>0, <2>1, PlacesAre DEF StepAt
  <2>3. job.contact \in Contacts /\ ~attempted
    BY <1>0, <2>1, <2>2 DEF DeliveryTyped, CallFits, Reads
  <2>4. memory.last.pane \in Seq(Seen)
    <3>1. memory.last.header # "none" /\ memory.last \in Pictures
      BY <1>1, <1>16, <2>3, ContactsAssumption DEF AcceptsSnapshot, Judges, Memories
    <3> QED BY <3>1 DEF Pictures, NoPicture
  <2>5. Len(conversation[job.contact]) \in Nat
    BY <1>0, <2>3 DEF WorldTyped
  <2>6. /\ proof' \in [pane : Seq(Seen), length : Nat]
        /\ operation = "beforeFence" => proof'.length = Len(conversation[job.contact])
    <3>1. proof' = IF operation = "beforeFence"
                     THEN [pane |-> memory.last.pane, length |-> Len(conversation[job.contact])]
                     ELSE proof
      BY <1>16 DEF AcceptsSnapshot
    <3>2. proof \in [pane : Seq(Seen), length : Nat]
      BY <1>0 DEF DeliveryTyped
    <3> QED BY <2>4, <2>5, <3>1, <3>2
  <2>7. /\ operation' = Follows[operation] /\ place' = 1
        /\ memory' = [Nothing EXCEPT !.draft =
                         IF operation' = "submit" THEN authorizedTextDraft ELSE NoTextDraft]
        /\ authorizedTextDraft' = IF operation' \in {"prepare", "submit"} THEN NoTextDraft
                                     ELSE authorizedTextDraft
        /\ UNCHANGED <<worldVars, job, attempted, aborted, fenced, outcome, command>>
    BY <1>16 DEF AcceptsSnapshot, NextOperation
  <2>8. /\ operation' \in Reads \union {"prepare", "submit"}
        /\ operation' = "submit" => operation = "beforeFence"
    <3>1. /\ Follows["validate"] = "prepare" /\ Follows["beforeSubmit"] = "beforeFence"
          /\ Follows["beforeFence"] = "submit"
      BY DEF Follows
    <3> QED BY <2>2, <2>7, <3>1 DEF Reads
  <2>9. memory' \in Memories /\ authorizedTextDraft' \in Drafts
    <3>1. authorizedTextDraft \in Drafts /\ NoTextDraft \in Drafts
      BY <1>0 DEF DeliveryTyped, Drafts
    <3>2. Nothing \in Memories
      BY DEF Nothing, Memories, Pictures, Drafts
    <3>3. memory' \in Memories
      BY <2>7, <3>1, <3>2 DEF Memories
    <3> QED BY <2>7, <3>1, <3>3
  <2>10. command' = NoCommand /\ (operation' = "submit" => proof'.length = Len(conversation[job.contact]))
    BY <2>1, <2>6, <2>7, <2>8
  <2> HIDE DEF Goes
  <2> QED BY <2>1, <2>3, <2>6, <2>7, <2>8, <2>9, <2>10, NextKeeps
<1>17. CASE KeepsDraft
  <2>1. /\ operation # "idle" /\ Operations[operation][place] = "keep"
        /\ operation' = "beforeSubmit" /\ place' = 1 /\ memory' = Nothing /\ command' = NoCommand
        /\ authorizedTextDraft' = [contact |-> job.contact, revision |-> job.revision,
                                   window |-> memory.window]
        /\ UNCHANGED <<worldVars, deliveryVars>>
    BY <1>17 DEF KeepsDraft, Awaits
  <2>2. operation = "prepare"
    BY <1>0, <2>1, PlacesAre DEF StepAt
  <2>3. ~attempted /\ proof' \in [pane : Seq(Seen), length : Nat]
    BY <1>0, <2>1, <2>2 DEF CallFits, DeliveryTyped, deliveryVars
  <2>4. memory' \in Memories
    BY <2>1 DEF Nothing, Memories, Pictures, Drafts
  <2>5. authorizedTextDraft' \in Drafts
    BY <1>0, <1>1, <2>1 DEF DeliveryTyped, Drafts, Memories
  <2>6. operation' \in Reads \union {"prepare", "submit"} /\ operation' # "submit"
    BY <2>1 DEF Reads
  <2>7. UNCHANGED <<worldVars, job, attempted, aborted, fenced, outcome>>
    BY <2>1 DEF deliveryVars
  <2> HIDE DEF Goes
  <2> QED BY <2>1, <2>3, <2>4, <2>5, <2>6, <2>7, NextKeeps
<1>18. CASE MarksSubmitStarted
  <2>1. /\ operation # "idle" /\ Operations[operation][place] = "marking" /\ command = NoCommand
        /\ fenced' = fenced \union {Delivery}
    BY <1>18 DEF MarksSubmitStarted, Awaits
  <2>2. operation = "submit" /\ place = 8
    BY <1>0, <2>1, PlacesAre DEF StepAt
  <2>3. ~attempted
    <3>1. 8 \notin 9 .. 14
      OBVIOUS
    <3> QED BY <1>0, <2>2, <3>1 DEF CallFits
  <2>4. CASE Ends("refused")
    BY <2>1, <2>3, <2>4, EndKeeps
  <2>5. CASE attempted' = TRUE /\ Onward
             /\ UNCHANGED <<worldVars, memory, job, proof, aborted, outcome, authorizedTextDraft, command>>
    <3>1. operation' = "submit" /\ place' = 9 /\ operation' = operation /\ attempted' = TRUE
      BY <2>2, <2>5 DEF Onward
    <3>2. Len(outcome) \in Nat /\ Len(outcome) > 0 /\ outcome[Len(outcome)] = "open"
      BY <1>0, <2>1 DEF CallFits, DeliveryTyped
    <3>3. WorldTyped'
      BY <1>0, <2>5 DEF WorldTyped, worldVars
    <3>4. PlaceTyped'
      <4>1. LastPlace' = 14
        BY <3>1 DEF LastPlace, Reads
      <4> QED BY <3>1, <4>1 DEF PlaceTyped
    <3>5. DeliveryTyped'
      <4>1. fenced' \subseteq Nat
        BY <1>0, <2>1, <3>2 DEF DeliveryTyped, Delivery
      <4> QED BY <1>0, <2>5, <3>1, <4>1 DEF DeliveryTyped
    <3>6. CallFits'
      <4>1. 9 \in 9 .. 14
        OBVIOUS
      <4> QED BY <1>0, <2>1, <2>5, <3>1, <3>2, <4>1 DEF CallFits
    <3>7. SendFits'
      <4>1. \A n \in Nat : Sent(n)' <=> Sent(n)
        BY <2>5 DEF Sent, worldVars
      <4>2. Len(outcome') = Len(outcome) /\ outcome' = outcome /\ Len(outcome) \in fenced'
        BY <2>1, <2>5 DEF Delivery
      <4> QED BY <1>0, <2>1, <3>1, <4>1, <4>2 DEF SendFits
    <3>8. CommandFits'
      BY <2>1, <2>5 DEF CommandFits
    <3>9. ReadsFit'
      <4>1. 8 \in 7 .. 14
        OBVIOUS
      <4> QED BY <1>0, <2>2, <2>5, <4>1 DEF ReadsFit, worldVars
    <3> QED BY <3>3, <3>4, <3>5, <3>6, <3>7, <3>8, <3>9 DEF DeliveryInv, SurfaceTyped
  <2> QED BY <1>18, <2>4, <2>5 DEF MarksSubmitStarted
<1>19. CASE ReadsBack
  <2>1. operation # "idle" /\ Ends("verified") /\ fenced' = fenced
    BY <1>19 DEF ReadsBack, Awaits
  <2> QED BY <2>1, EndKeeps
<1>20. CASE Fails
  <2>1. operation # "idle" /\ Ends(Rejected) /\ fenced' = fenced
    BY <1>20 DEF Fails
  <2>2. Rejected \in {"refused", "uncertain", "verified"} /\ (Rejected = "refused" => ~attempted)
    BY DEF Rejected
  <2> QED BY <2>1, <2>2, EndKeeps
<1> HIDE DEF Goes
<1> QED BY <1>4, <1>5, <1>6, <1>7, <1>8, <1>9, <1>10, <1>12, <1>13, <1>14, <1>15, <1>16, <1>17, <1>18,
          <1>19, <1>20 DEF Operation

\* The inductive invariant of the delivery
LEMMA DeliveryInvHolds == DeliverySpec => []DeliveryInv
<1>1. DeliveryInit => DeliveryInv
  BY DeliveryBegins
<1>2. DeliveryInv /\ [DeliveryNext]_surfaceVars => DeliveryInv'
  <2> SUFFICES ASSUME DeliveryInv, [DeliveryNext]_surfaceVars PROVE DeliveryInv'
    OBVIOUS
  <2>1. CASE AroundWindow
    BY <2>1, AroundKeeps
  <2>2. CASE Aborts
    <3>1. /\ aborted' \in BOOLEAN
          /\ UNCHANGED <<worldVars, callVars, job, proof, attempted, fenced, outcome,
                         authorizedTextDraft, command>>
      BY <2>2 DEF Aborts
    <3> QED BY <3>1, AbortKeeps
  <2>3. CASE Deliver
    BY <2>3, DeliverKeeps
  <2>4. CASE Child
    BY <2>4, ChildKeeps, PressesKeeps
  <2>5. CASE Operation
    BY <2>5, OperationKeeps
  <2>6. CASE UNCHANGED surfaceVars
    <3>1. /\ aborted' \in BOOLEAN
          /\ UNCHANGED <<worldVars, callVars, job, proof, attempted, fenced, outcome,
                         authorizedTextDraft, command>>
      BY <2>6 DEF surfaceVars, deliveryVars, DeliveryInv, SurfaceTyped, DeliveryTyped
    <3> QED BY <3>1, AbortKeeps
  <2> QED BY <2>1, <2>2, <2>3, <2>4, <2>5, <2>6 DEF DeliveryNext
<1> QED BY <1>1, <1>2, PTL DEF DeliverySpec

(***************************************************************************)
(* The delivery: what its record says is true.                             *)
(***************************************************************************)
LEMMA SentForIsSent ==
  ASSUME WorldTyped, NEW n \in Nat
  PROVE  SentFor(n) # {} <=> Sent(n)
<1>1. ASSUME SentFor(n) # {} PROVE Sent(n)
  <2>1. PICK bubble \in UNION {{conversation[c][i] : i \in DOMAIN conversation[c]} : c \in Contacts} :
          bubble.from = "bridge" /\ bubble.by = n
    BY <1>1 DEF SentFor
  <2>2. PICK c \in Contacts : bubble \in {conversation[c][i] : i \in DOMAIN conversation[c]}
    BY <2>1
  <2>3. PICK i \in DOMAIN conversation[c] : bubble = conversation[c][i]
    BY <2>2
  <2>4. DOMAIN conversation[c] = 1 .. Len(conversation[c])
    BY DEF WorldTyped
  <2> QED BY <2>1, <2>3, <2>4 DEF Sent
<1>2. ASSUME Sent(n) PROVE SentFor(n) # {}
  <2>1. PICK c \in Contacts : \E i \in 1 .. Len(conversation[c]) :
          conversation[c][i].from = "bridge" /\ conversation[c][i].by = n
    BY <1>2 DEF Sent
  <2>2. PICK i \in 1 .. Len(conversation[c]) :
          conversation[c][i].from = "bridge" /\ conversation[c][i].by = n
    BY <2>1
  <2>3. DOMAIN conversation[c] = 1 .. Len(conversation[c])
    BY DEF WorldTyped
  <2>4. conversation[c][i] \in
          UNION {{conversation[d][j] : j \in DOMAIN conversation[d]} : d \in Contacts}
    BY <2>3
  <2> QED BY <2>2, <2>4 DEF SentFor
<1> QED BY <1>1, <1>2

(* What the bridge sends belongs to a record that was submit-started before,  *)
(* and a delivery its callers see as not attempted has sent nothing: a crash, *)
(* a timer, an abort and a rejected await may fall between any two steps, for *)
(* any number of deliveries (submitWechatDraft, submit of the P1 operations). *)
THEOREM RecordIsAlwaysTrue == DeliverySpec => []RecordIsTrue
<1>1. DeliveryInv => RecordIsTrue
  <2> SUFFICES ASSUME DeliveryInv PROVE RecordIsTrue
    OBVIOUS
  <2>1. WorldTyped /\ SendFits /\ Delivery \in Nat
    BY DEF DeliveryInv, SurfaceTyped, DeliveryTyped, Delivery
  <2>2. \A n \in 1 .. Delivery : SentFor(n) # {} => n \in fenced /\ outcome[n] # "refused"
    <3>1. \A n \in 1 .. Delivery : n \in Nat
      BY <2>1
    <3>2. \A n \in Nat : SentFor(n) # {} <=> Sent(n)
      BY <2>1, SentForIsSent
    <3> QED BY <2>1, <3>1, <3>2 DEF SendFits
  <2> QED BY <2>2 DEF RecordIsTrue, MarkedBeforeSent, RefusedSentNothing
<1> QED BY <1>1, DeliveryInvHolds, PTL

(***************************************************************************)
(* The delivery: what is pressed was seen, what is verified is new.         *)
(***************************************************************************)
LEMMA PressedWasSeen ==
  ASSUME DeliveryInv, DeliveryNext
  PROVE  PressesWhatItSaw
<1>0. WorldTyped /\ DeliveryTyped /\ CommandFits
  BY DEF DeliveryInv, SurfaceTyped
<1>1. SUFFICES ASSUME NEW c \in Contacts, conversation'[c] # conversation[c],
                      Latest(conversation'[c]).from = "bridge", ~command.touched
               PROVE  /\ c = job.contact /\ window = memory.window
                      /\ Latest(conversation'[c]).text = job.text
                      /\ Pane(c) = proof.pane
  BY DEF PressesWhatItSaw
<1>2. outcome \in Seq({"open", "refused", "uncertain", "verified"})
  BY <1>0 DEF DeliveryTyped
<1>3. ~AroundWindow
  <2>1. ASSUME NEW from \in {"contact", "owner"}, NEW d \in Contacts, NEW w \in Said,
               Adds(d, from, w)
        PROVE  FALSE
    <3> DEFINE b == [from |-> from, text |-> w, by |-> Delivery]
    <3>1. from \in {"contact", "owner", "bridge"} /\ b.from # "bridge"
      OBVIOUS
    <3>2. Latest(conversation'[d]) = b /\ \A e \in Contacts \ {d} : conversation'[e] = conversation[e]
      BY <1>0, <1>2, <2>1, <3>1, AddsOne
    <3> HIDE DEF b
    <3>3. c = d
      BY <1>1, <3>2
    <3> QED BY <1>1, <3>1, <3>2, <3>3
  <2>2. ~Writes
    BY <2>1 DEF Writes, Said
  <2>3. ~OwnerSends
    BY <1>0, <2>1 DEF OwnerSends, WorldTyped
  <2> QED BY <1>1, <2>2, <2>3 DEF AroundWindow, OwnerOpens, OwnerEdits, WechatRestarts, Reenrolled
<1>4. Presses
  <2>1. ASSUME UNCHANGED conversation PROVE FALSE
    BY <1>1, <2>1
  <2>2. ~Aborts /\ ~Deliver
    BY <2>1 DEF Aborts, Deliver, worldVars
  <2>3. ~Operation
    BY <2>1 DEF Operation, RequireTextTarget, MainWindow, SameWindow, ReadLines, LooksWhetherOpen,
         LocateAuthorizedIdentity, MatchAuthorizedIdentity, SeesHeader, AcceptsSnapshot, KeepsDraft,
         ClickWechatWindowPoint, TypeText, SubmitWechatDraft, AsksForMark, MarksSubmitStarted,
         Settles, ReadsBack, Fails, Passes, Spawn, Ends, worldVars
  <2>4. Child
    BY <1>3, <2>2, <2>3 DEF DeliveryNext
  <2> QED BY <2>1, <2>4 DEF Child, Looks, Selects, FindsEmpty, Pastes, ReadsDraft, SubmitReadsDraft,
            MatchesFinalState, ReadsComposer, Sees
<1>5. /\ command.kind = "press" /\ command.stage \in {"matched", "restored"}
      /\ Adds(shown, "bridge", composers[shown]) /\ composers[shown] # Blank
  <2>1. PICK pair \in {<<"matched", "pressed">>, <<"restored", "pressed again">>} :
          /\ ChildAt("press", pair[1])
          /\ \/ composers[shown] # Blank /\ Adds(shown, "bridge", composers[shown])
             \/ UNCHANGED conversation
    BY <1>4 DEF Presses
  <2>2. pair[1] \in {"matched", "restored"}
    BY <2>1, PairsAre
  <2> QED BY <1>1, <2>1, <2>2 DEF ChildAt
<1>6. /\ window = memory.window /\ shown = job.contact
      /\ composers[shown] = job.text /\ Pane(shown) = proof.pane
  <2>1. command # NoCommand /\ command.stage # "sent"
    BY <1>5 DEF NoCommand
  <2>2. Untouched
    BY <1>0, <1>1, <1>5, <2>1 DEF CommandFits
  <2> QED BY <1>5, <2>2 DEF Untouched
<1>7. c = shown /\ Latest(conversation'[c]).text = composers[shown]
  <2>1. shown \in Contacts /\ composers[shown] \in Said
    BY <1>0, <1>5 DEF WorldTyped
  <2> DEFINE b == [from |-> "bridge", text |-> composers[shown], by |-> Delivery]
  <2>2. b.text = composers[shown] /\ "bridge" \in {"contact", "owner", "bridge"}
    OBVIOUS
  <2>3. Latest(conversation'[shown]) = b /\ \A e \in Contacts \ {shown} : conversation'[e] = conversation[e]
    BY <1>0, <1>2, <1>5, <2>1, <2>2, AddsOne
  <2> HIDE DEF b
  <2>4. c = shown
    BY <1>1, <2>3
  <2> QED BY <2>2, <2>3, <2>4
<1> QED BY <1>6, <1>7

LEMMA VerifiedIsNew ==
  ASSUME DeliveryInv, DeliveryNext
  PROVE  VerifiedByANewBubble
<1>0. WorldTyped /\ PlaceTyped /\ DeliveryTyped /\ CallFits /\ ReadsFit
  BY DEF DeliveryInv, SurfaceTyped
<1>1. SUFFICES ASSUME outcome' # outcome, Len(outcome') = Len(outcome), outcome'[Delivery] = "verified",
                      memory.first.header = job.contact, shown = job.contact
               PROVE  /\ Len(conversation[job.contact]) > proof.length
                      /\ Candidate(Latest(conversation[job.contact])) =
                           [incoming |-> FALSE, text |-> job.text]
  BY DEF VerifiedByANewBubble
<1>2. /\ outcome \in Seq({"open", "refused", "uncertain", "verified"}) /\ Len(outcome) \in Nat
  BY <1>0 DEF DeliveryTyped
<1>3. ReadsBack
  <2>1. ~Deliver
    <3>1. Len(Append(outcome, "open")) = Len(outcome) + 1
      BY <1>2
    <3> QED BY <1>1, <1>2, <3>1 DEF Deliver
  <2>2. ASSUME NEW how \in {"refused", "uncertain"}, operation # "idle", Ends(how) PROVE FALSE
    <3>1. Len(outcome) \in 1 .. Len(outcome)
      BY <1>0, <1>2, <2>2 DEF CallFits
    <3>2. outcome' = [outcome EXCEPT ![Len(outcome)] = how]
      BY <2>2 DEF Ends, Delivery
    <3>3. outcome'[Len(outcome)] = how
      BY <1>2, <3>1, <3>2
    <3> QED BY <1>1, <3>3 DEF Delivery
  <2>3. ASSUME UNCHANGED outcome PROVE FALSE
    BY <1>1, <2>3
  <2>4. ~AroundWindow /\ ~Aborts
    BY <2>3 DEF AroundWindow, Writes, OwnerOpens, OwnerEdits, OwnerSends, WechatRestarts, Reenrolled,
         Move, Aborts, deliveryVars
  <2>5. ~Child
    BY <2>3, ChildFrame DEF deliveryVars
  <2>6. ~MarksSubmitStarted
    BY <2>2, <2>3 DEF MarksSubmitStarted, Awaits
  <2>7. ~Fails
    <3>1. Rejected \in {"refused", "uncertain"}
      BY DEF Rejected
    <3> QED BY <2>2, <3>1 DEF Fails
  <2>8. Operation
    BY <2>1, <2>4, <2>5 DEF DeliveryNext
  <2> QED BY <2>3, <2>6, <2>7, <2>8
           DEF Operation, RequireTextTarget, MainWindow, SameWindow, ReadLines, LooksWhetherOpen,
             LocateAuthorizedIdentity, MatchAuthorizedIdentity, SeesHeader, AcceptsSnapshot, KeepsDraft,
             ClickWechatWindowPoint, TypeText, SubmitWechatDraft, AsksForMark, Settles, Passes, Spawn,
             deliveryVars
<1>4. operation = "submit" /\ place \in 7 .. 14
  <2>1. operation # "idle" /\ Operations[operation][place] = "see append"
    BY <1>3 DEF ReadsBack, Awaits
  <2>2. operation = "submit" /\ place = 14
    BY <1>0, <2>1, PlacesAre DEF StepAt
  <2> QED BY <2>2
<1> DEFINE first == memory.first.pane
           now == Pane(shown)
<1>5. /\ Len(now) = Len(first) + 1
      /\ Latest(now) = [incoming |-> FALSE, text |-> job.text]
  <2>1. Picture.pane = now
    BY DEF Picture
  <2> QED BY <1>3, <2>1 DEF ReadsBack, IsSingleMonotonicOutgoingAppend
<1>6. shown \in Contacts /\ job.contact \in Contacts
  BY <1>0, <1>1 DEF WorldTyped
<1>7. Len(first) \in Nat /\ proof.length \in Nat
  <2>1. memory.first \in Pictures /\ memory.first.header # "none" /\ proof.length \in Nat
    BY <1>0, <1>1, <1>6, ContactsAssumption DEF DeliveryTyped, Memories
  <2>2. first \in Seq(Seen)
    BY <2>1 DEF Pictures, NoPicture
  <2> QED BY <2>1, <2>2
<1>8. Len(first) < PaneSize => proof.length <= Len(first)
  BY <1>0, <1>1, <1>4 DEF ReadsFit
<1>9. /\ Len(conversation[shown]) \in Nat /\ Len(now) <= Len(conversation[shown])
      /\ Len(now) \in Nat /\ Len(now) <= PaneSize
      /\ Len(conversation[shown]) > 0 => Latest(now) = Candidate(Latest(conversation[shown]))
  <2>1. /\ Len(conversation[shown]) \in Nat /\ Len(now) \in Nat /\ Len(now) <= Len(conversation[shown])
    BY <1>0, <1>6, ShortPane
  <2>2. /\ Len(now) = IF Len(conversation[shown]) < PaneSize THEN Len(conversation[shown]) ELSE PaneSize
        /\ Len(conversation[shown]) > 0 => Latest(now) = Candidate(Latest(conversation[shown]))
    BY <1>0, <1>6, PaneIs
  <2> HIDE DEF now
  <2>3. Len(now) <= PaneSize
    BY <2>1, <2>2, PaneAssumption
  <2> QED BY <2>1, <2>2, <2>3
<1> HIDE DEF now, first
<1>10. Len(conversation[shown]) > proof.length /\ Len(conversation[shown]) > 0
  <2> DEFINE n == Len(conversation[shown])
             k == Len(now)
             f == Len(first)
  <2>1. n \in Nat /\ k \in Nat /\ f \in Nat /\ k = f + 1 /\ k <= n /\ k <= PaneSize
        /\ proof.length \in Nat /\ (f < PaneSize => proof.length <= f)
    BY <1>5, <1>7, <1>8, <1>9
  <2> HIDE DEF n, k, f
  <2>2. n > proof.length /\ n > 0
    BY <2>1, PaneAssumption
  <2> QED BY <2>2 DEF n
<1> QED BY <1>1, <1>5, <1>9, <1>10

(* What the bridge sends without anybody touching the window after the        *)
(* command looked goes to the contact, in the window of the draft, as it was  *)
(* prepared, after the messages of the proof; and what verifies a reply is a *)
(* bubble younger than the proof: whatever the length of the pane and of the *)
(* conversations, and however often owner, contact and WeChat act in between *)
(* (submitWechatDraft and matchesFinalState of the bridge,                   *)
(* submitAuthorizedTextDraft of the surface).                               *)
THEOREM WindowIsAlwaysTrusted == DeliverySpec => WindowIsTrusted
<1>1. DeliveryInv /\ [DeliveryNext]_surfaceVars =>
        [PressesWhatItSaw /\ VerifiedByANewBubble]_surfaceVars
  <2> SUFFICES ASSUME DeliveryInv, DeliveryNext PROVE PressesWhatItSaw /\ VerifiedByANewBubble
    OBVIOUS
  <2> QED BY PressedWasSeen, VerifiedIsNew
<1> QED BY <1>1, DeliveryInvHolds, PTL DEF DeliverySpec, WindowIsTrusted

(***************************************************************************)
(* The cursor of the source.  A pane is a stretch of the chat; a poll that   *)
(* delivers knows the cursor to stand where its pane has been passed: at the  *)
(* message before the next one when the pane goes on, anywhere when the end   *)
(* was proved.  What a commit counts has been taken just before it.         *)
(***************************************************************************)
Contents == [from : {"contact", "owner"}, text : Sayings, minute : Nat]
Proofs == {NoProof} \union [text : Sayings, minute : Nat, window : Nat]
CallPlaces == {"start", "start read", "start again", "baseline",
               "poll", "poll read", "poll again", "compare", "deliver", "commit"}
CallTypes == [pc : CallPlaces, pane : Seq(Nat), proof : Proofs, left : Seq(Nat), recovered : BOOLEAN]
CursorTypes == [identity : Nat \X Nat, baseline : Seq(Nat), consumed : SUBSET Proofs, next : Nat \ {0}]
HandedTypes == [identity : Nat \X Nat, sequence : Nat, at : Nat, since : Nat, recovered : BOOLEAN]

SourceTyped ==
  /\ said \in Seq(Contents)
  /\ lastWindow \in Nat /\ contactRevision \in Nat /\ epoch \in Nat /\ sourceRevision \in Nat
  /\ cursor \in CursorTypes
  /\ task \in {Idle} \union CallTypes
  /\ handed \in Seq(HandedTypes) /\ since \in Nat

InChat(pane) == \A i \in 1 .. Len(pane) : pane[i] \in Positions

PanesFit ==
  /\ InChat(cursor.baseline)
  /\ \A i \in 1 .. Len(handed) : handed[i].at \in Positions
  /\ since > 0 \/ cursor.next > 1 => Len(cursor.baseline) > 0
  /\ task # Idle =>
       /\ InChat(task.pane)
       /\ \A i \in 1 .. Len(task.pane) - 1 : task.pane[i + 1] = task.pane[i] + 1
       /\ task.proof # NoProof => Len(task.pane) > 0

Behind == Len(task.pane) - Len(task.left)  \* how much of the pane is behind the cursor

PollFits ==
  task # Idle /\ task.pc \in {"deliver", "commit"} =>
    /\ cursor.identity = Identity
    /\ Len(task.left) <= Len(task.pane)
    /\ \A i \in 1 .. Len(task.left) : task.left[i] = task.pane[Behind + i]
    /\ ~task.recovered \/ Len(task.left) = 0 =>
         /\ Len(cursor.baseline) = Behind
         /\ Behind > 0 =>
              /\ Signature(cursor.baseline[Behind]) = Signature(task.pane[Behind])
              /\ Distinct => cursor.baseline[Behind] = task.pane[Behind]
    /\ task.recovered => Len(task.left) <= 1
    /\ task.pc = "commit" =>
         /\ Len(task.left) > 0
         /\ \E i \in 1 .. Len(handed) :
              /\ handed[i].identity = cursor.identity /\ handed[i].sequence = cursor.next
              /\ handed[i].at = task.left[1] /\ handed[i].recovered = task.recovered

SourceInv == SourceTyped /\ PanesFit /\ PollFits /\ CursorIsTrue

USE DEF saidVars, sourceVars, processVars, logVars

LEMMA SourceBegins == SourceInit => SourceInv
<1> SUFFICES ASSUME SourceInit PROVE SourceInv
  OBVIOUS
<1> USE DEF SourceInit
<1>1. said \in Seq(Contents)
  <2>1. \A w \in Sayings : <<[from |-> "contact", text |-> w, minute |-> 1]>> \in Seq(Contents)
    <3> SUFFICES ASSUME NEW w \in Sayings
                 PROVE  <<[from |-> "contact", text |-> w, minute |-> 1]>> \in Seq(Contents)
      OBVIOUS
    <3>1. [from |-> "contact", text |-> w, minute |-> 1] \in Contents
      BY DEF Contents
    <3> QED BY <3>1
  <2>2. CASE said = <<>>
    BY <2>2
  <2>3. CASE said # <<>>
    <3>1. PICK w \in Sayings : said = <<[from |-> "contact", text |-> w, minute |-> 1]>>
      BY <2>3
    <3> QED BY <2>1, <3>1
  <2> QED BY <2>2, <2>3
<1>2. cursor \in CursorTypes
  BY DEF NoCursor, CursorTypes
<1>3. SourceTyped
  BY <1>1, <1>2 DEF SourceTyped
<1>4. PanesFit
  BY DEF PanesFit, InChat, NoCursor
<1>5. PollFits
  BY DEF PollFits
<1>6. DeliveredBeforeCounted
  <2>1. cursor.next = 1
    BY DEF NoCursor
  <2> QED BY <2>1 DEF DeliveredBeforeCounted
<1>7. NothingSlipsPast
  BY DEF NothingSlipsPast
<1> QED BY <1>3, <1>4, <1>5, <1>6, <1>7 DEF SourceInv, CursorIsTrue

\* The chat grows
LEMMA SaidGrows ==
  ASSUME SourceInv, NEW b \in Contents, said' = Append(said, b),
         UNCHANGED <<lastWindow, contactRevision, epoch, sourceRevision, cursor, task, handed, since>>
  PROVE  SourceInv'
<1>0. SourceTyped /\ PanesFit /\ PollFits /\ DeliveredBeforeCounted /\ NothingSlipsPast
  BY DEF SourceInv, CursorIsTrue
<1>1. /\ said' \in Seq(Contents) /\ Len(said) \in Nat /\ Len(said') = Len(said) + 1
      /\ \A m \in 1 .. Len(said) : said'[m] = said[m]
  BY <1>0 DEF SourceTyped
<1>2. \A m \in Positions : m \in Positions' /\ Signature(m)' = Signature(m)
  BY <1>1 DEF Positions, Signature
<1>3. Distinct' => Distinct
  BY <1>2 DEF Distinct
<1>4. SourceTyped'
  BY <1>0, <1>1 DEF SourceTyped
<1>5. PanesFit'
  BY <1>0, <1>2 DEF PanesFit, InChat
<1>6. PollFits'
  <2> SUFFICES ASSUME task # Idle, task.pc \in {"deliver", "commit"}
               PROVE  PollFits'
    BY DEF PollFits
  <2>1. task \in CallTypes /\ cursor \in CursorTypes
    BY <1>0 DEF SourceTyped
  <2>2. Behind' = Behind /\ Identity' = Identity
    BY DEF Behind, Identity
  <2>3. \A n \in Nat \ {0} : n <= Len(task.pane) /\ n <= Len(cursor.baseline) =>
          cursor.baseline[n] \in Positions /\ task.pane[n] \in Positions
    BY <1>0, <2>1 DEF PanesFit, InChat, CallTypes, CursorTypes
  <2>4. ASSUME Len(cursor.baseline) = Behind, Behind > 0
        PROVE  /\ Signature(cursor.baseline[Behind])' = Signature(cursor.baseline[Behind])
               /\ Signature(task.pane[Behind])' = Signature(task.pane[Behind])
    <3>1. Len(task.pane) \in Nat /\ Len(task.left) \in Nat /\ Len(cursor.baseline) \in Nat
      BY <2>1 DEF CallTypes, CursorTypes
    <3> DEFINE p == Len(task.pane)
               l == Len(task.left)
               n == Len(cursor.baseline)
    <3>4. p \in Nat /\ l \in Nat /\ n \in Nat /\ n = p - l /\ p - l > 0 /\ Behind = p - l
      BY <2>4, <3>1 DEF Behind
    <3> HIDE DEF p, l, n
    <3>5. p - l \in Nat \ {0} /\ p - l <= p /\ p - l <= n
      BY <3>4
    <3>2. Behind \in Nat \ {0} /\ Behind <= Len(task.pane) /\ Behind <= Len(cursor.baseline)
      BY <3>4, <3>5 DEF p, n
    <3>3. cursor.baseline[Behind] \in Positions /\ task.pane[Behind] \in Positions
      BY <2>3, <3>2
    <3> QED BY <1>2, <2>2, <3>3 DEF Signature
  <2> QED BY <1>0, <1>3, <2>2, <2>4 DEF PollFits
<1>7. DeliveredBeforeCounted'
  <2>1. Session' = Session
    BY DEF Session
  <2>2. ASSUME cursor.next > 1
        PROVE  Signature(Edge(cursor.baseline))' = Signature(Edge(cursor.baseline))
    <3>1. Len(cursor.baseline) > 0 /\ cursor.baseline \in Seq(Nat)
      BY <1>0, <2>2 DEF PanesFit, SourceTyped, CursorTypes
    <3>2. Edge(cursor.baseline) = cursor.baseline[Len(cursor.baseline)]
      BY <3>1 DEF Edge, Last
    <3>3. Edge(cursor.baseline) \in Positions
      BY <1>0, <3>1, <3>2 DEF PanesFit, InChat
    <3> QED BY <1>2, <3>3 DEF Signature, Edge, Last
  <2>3. \A i \in Session : Signature(handed[i].at)' = Signature(handed[i].at)
    <3>1. \A i \in Session : i \in 1 .. Len(handed)
      BY <1>0 DEF Session, SourceTyped
    <3> QED BY <1>0, <1>2, <3>1 DEF PanesFit, Signature
  <2> QED BY <1>0, <2>1, <2>2, <2>3 DEF DeliveredBeforeCounted
<1>8. NothingSlipsPast'
  <2>1. Session' = Session /\ Edge(cursor.baseline)' = Edge(cursor.baseline)
    BY DEF Session, Edge, Last
  <2> QED BY <1>0, <1>3, <2>1 DEF NothingSlipsPast
<1> QED BY <1>4, <1>5, <1>6, <1>7, <1>8 DEF SourceInv, CursorIsTrue

\* The call goes on, or ends, and the cursor stays
LEMMA CallGoesOn ==
  ASSUME SourceInv, UNCHANGED <<said, cursor, handed, since>>,
         {lastWindow', contactRevision', epoch', sourceRevision'} \subseteq Nat,
         \/ task' = Idle
         \/ task' = task /\ UNCHANGED <<epoch, sourceRevision>>
         \/ task' \in CallTypes /\ task'.pc \notin {"deliver", "commit"}
              /\ InChat(task'.pane)
              /\ (\A i \in 1 .. Len(task'.pane) - 1 : task'.pane[i + 1] = task'.pane[i] + 1)
              /\ (task'.proof # NoProof => Len(task'.pane) > 0)
  PROVE  SourceInv'
<1>0. SourceTyped /\ PanesFit /\ PollFits /\ DeliveredBeforeCounted /\ NothingSlipsPast
  BY DEF SourceInv, CursorIsTrue
<1>1. \A p : InChat(p)' <=> InChat(p)
  BY DEF InChat, Positions
<1>2. SourceTyped'
  BY <1>0 DEF SourceTyped
<1>3. PanesFit'
  BY <1>0, <1>1 DEF PanesFit, Positions, InChat
<1>4. PollFits'
  <2>1. CASE task' = Idle \/ (task' \in CallTypes /\ task'.pc \notin {"deliver", "commit"})
    BY <2>1 DEF PollFits
  <2>2. CASE task' = task /\ UNCHANGED <<epoch, sourceRevision>>
    BY <1>0, <2>2 DEF PollFits, Behind, Identity, Distinct, Positions, Signature
  <2> QED BY <2>1, <2>2
<1>5. DeliveredBeforeCounted'
  BY <1>0 DEF DeliveredBeforeCounted, Session, Signature, Edge, Last
<1>6. NothingSlipsPast'
  BY <1>0 DEF NothingSlipsPast, Distinct, Positions, Session, Signature, Edge, Last
<1> QED BY <1>2, <1>3, <1>4, <1>5, <1>6 DEF SourceInv, CursorIsTrue

\* A session begins, or goes on where it was
LEMMA EstablishKeeps ==
  ASSUME SourceInv, EstablishBaseline, task' = Idle, UNCHANGED <<said, handed>>,
         {lastWindow', contactRevision', epoch', sourceRevision'} \subseteq Nat
  PROVE  SourceInv'
<1>0. SourceTyped /\ PanesFit /\ PollFits /\ DeliveredBeforeCounted /\ NothingSlipsPast
  BY DEF SourceInv, CursorIsTrue
<1>1. CASE SameIdentity(Identity)
  <2>1. UNCHANGED <<said, cursor, handed, since>>
    BY <1>1 DEF EstablishBaseline, SameIdentity
  <2> QED BY <2>1, CallGoesOn
<1>2. CASE ~SameIdentity(Identity)
  <2>1. /\ cursor' = [identity |-> Identity, baseline |-> task.pane,
                      consumed |-> {task.proof} \ {NoProof}, next |-> 1]
        /\ since' = Edge(task.pane) /\ task.pc = "baseline"
    BY <1>2 DEF EstablishBaseline, SameIdentity
  <2>2. task # Idle /\ task \in CallTypes
    BY <1>0, <2>1 DEF Idle, SourceTyped
  <2>3. task.pane \in Seq(Nat) /\ task.proof \in Proofs /\ InChat(task.pane)
    BY <1>0, <2>2 DEF CallTypes, PanesFit
  <2>4. Edge(task.pane) \in Nat /\ (Edge(task.pane) > 0 => Len(task.pane) > 0)
    <3>1. CASE task.pane = <<>>
      BY <3>1 DEF Edge
    <3>2. CASE task.pane # <<>>
      <4>1. Len(task.pane) \in 1 .. Len(task.pane)
        BY <2>3, <3>2
      <4>2. Edge(task.pane) = task.pane[Len(task.pane)]
        BY <3>2 DEF Edge, Last
      <4> QED BY <2>3, <4>1, <4>2
    <3> QED BY <3>1, <3>2
  <2>5. Identity \in Nat \X Nat
    BY <1>0 DEF SourceTyped, Identity
  <2>6. cursor' \in CursorTypes
    BY <2>1, <2>3, <2>5 DEF CursorTypes
  <2>7. SourceTyped'
    BY <1>0, <2>1, <2>4, <2>6 DEF SourceTyped
  <2>8. PanesFit'
    BY <1>0, <2>1, <2>3, <2>4 DEF PanesFit, InChat, Positions
  <2>9. PollFits'
    BY DEF PollFits
  <2>10. DeliveredBeforeCounted'
    <3>1. cursor'.next = 1
      BY <2>1
    <3> QED BY <3>1 DEF DeliveredBeforeCounted
  <2>11. NothingSlipsPast'
    <3>1. Edge(cursor.baseline)' = since'
      BY <2>1 DEF Edge, Last
    <3>2. since' \in Nat
      BY <2>1, <2>4
    <3>3. \A s \in Nat : s + 1 .. s = {}
      OBVIOUS
    <3>4. since' + 1 .. Edge(cursor.baseline)' = {}
      BY <3>1, <3>2, <3>3
    <3> QED BY <3>4 DEF NothingSlipsPast
  <2> QED BY <2>7, <2>8, <2>9, <2>10, <2>11 DEF SourceInv, CursorIsTrue
<1> QED BY <1>1, <1>2

\* What a poll has at hand
LEMMA PollHas ==
  ASSUME SourceTyped, PanesFit, task.pc \in CallPlaces
  PROVE  /\ task # Idle /\ task \in CallTypes /\ cursor \in CursorTypes
         /\ task.pane \in Seq(Nat) /\ task.left \in Seq(Nat) /\ cursor.baseline \in Seq(Nat)
         /\ Len(task.pane) \in Nat /\ Len(task.left) \in Nat /\ Len(cursor.baseline) \in Nat
         /\ InChat(task.pane) /\ InChat(cursor.baseline)
         /\ \A i \in 1 .. Len(task.pane) - 1 : task.pane[i + 1] = task.pane[i] + 1
<1>1. task # Idle
  <2>1. Idle.pc = "idle" /\ "idle" \notin CallPlaces
    BY DEF Idle, CallPlaces
  <2> QED BY <2>1
<1> QED BY <1>1 DEF SourceTyped, PanesFit, CallTypes, CursorTypes

\* The handler takes a message
LEMMA HandsOverKeeps ==
  ASSUME SourceInv, HandsOver
  PROVE  SourceInv'
<1>0. SourceTyped /\ PanesFit /\ PollFits /\ DeliveredBeforeCounted /\ NothingSlipsPast
  BY DEF SourceInv, CursorIsTrue
<1>1. /\ task.pc = "deliver" /\ task.left # <<>> /\ handed' = Append(handed, Message)
      /\ task' = [task EXCEPT !.pc = "commit"]
      /\ UNCHANGED <<saidVars, contactRevision, processVars, cursor, status, sourceRevision, since>>
  BY DEF HandsOver, AtAwait, ResumeAt
<1>2. /\ task # Idle /\ task \in CallTypes /\ cursor \in CursorTypes
      /\ task.left \in Seq(Nat) /\ Len(task.left) > 0 /\ Len(task.pane) \in Nat
      /\ InChat(task.pane)
  BY <1>0, <1>1, PollHas DEF CallPlaces
<1>3. /\ task'.pc = "commit" /\ task'.pane = task.pane /\ task'.left = task.left
      /\ task'.proof = task.proof /\ task'.recovered = task.recovered /\ task' \in CallTypes
  BY <1>1, <1>2 DEF CallTypes, CallPlaces
<1>4. Following = task.left[1] /\ Following \in Nat /\ Following \in Positions
  <2>1. Following = task.left[1] /\ Following \in Nat /\ 1 \in 1 .. Len(task.left)
    BY <1>2 DEF Following
  <2>2. task.left[1] = task.pane[Behind + 1] /\ Len(task.left) <= Len(task.pane)
    BY <1>0, <1>1, <1>2, <2>1 DEF PollFits
  <2> DEFINE p == Len(task.pane)
             l == Len(task.left)
  <2>3. p \in Nat /\ l \in Nat /\ l > 0 /\ l <= p /\ Behind = p - l
    BY <1>2, <2>2 DEF Behind
  <2> HIDE DEF p, l
  <2>4. Behind + 1 \in 1 .. p
    BY <2>3
  <2>5. task.pane[Behind + 1] \in Positions
    BY <1>2, <2>4 DEF InChat, p
  <2> QED BY <2>1, <2>2, <2>5
<1>5. /\ Message \in HandedTypes /\ Message.identity = cursor.identity
      /\ Message.sequence = cursor.next /\ Message.at = task.left[1]
      /\ Message.recovered = task.recovered
  <2>1. Identity = cursor.identity /\ Identity \in Nat \X Nat
    BY <1>0, <1>1, <1>2 DEF PollFits, CursorTypes
  <2> QED BY <1>0, <1>2, <1>4, <2>1 DEF Message, HandedTypes, CallTypes, CursorTypes, SourceTyped
<1> DEFINE msg == Message
<1> HIDE DEF msg
<1>6. /\ handed' \in Seq(HandedTypes) /\ Len(handed) \in Nat /\ Len(handed') = Len(handed) + 1
      /\ \A i \in 1 .. Len(handed) : handed'[i] = handed[i]
      /\ handed'[Len(handed) + 1] = msg
  <2>1. handed \in Seq(HandedTypes) /\ msg \in HandedTypes /\ handed' = Append(handed, msg)
    BY <1>0, <1>1, <1>5 DEF SourceTyped, msg
  <2> QED BY <2>1
<1>7. SourceTyped'
  BY <1>0, <1>1, <1>3, <1>6 DEF SourceTyped
<1>8. PanesFit'
  <2>1. \A i \in 1 .. Len(handed') : i \in 1 .. Len(handed) \/ i = Len(handed) + 1
    BY <1>6
  <2>2. \A i \in 1 .. Len(handed') : handed'[i].at \in Positions
    BY <1>0, <1>4, <1>5, <1>6, <2>1 DEF PanesFit, msg
  <2>3. Positions' = Positions /\ cursor' = cursor /\ since' = since
    BY <1>1 DEF Positions
  <2> QED BY <1>0, <1>2, <1>3, <2>2, <2>3 DEF PanesFit, InChat
<1>9. PollFits'
  <2>1. Behind' = Behind /\ Identity' = Identity /\ cursor' = cursor /\ said' = said
    BY <1>1, <1>3 DEF Behind, Identity
  <2>2. Len(handed) + 1 \in 1 .. Len(handed')
    BY <1>6
  <2>3. \E i \in 1 .. Len(handed') :
          /\ handed'[i].identity = cursor.identity /\ handed'[i].sequence = cursor.next
          /\ handed'[i].at = task.left[1] /\ handed'[i].recovered = task.recovered
    BY <1>5, <1>6, <2>2 DEF msg
  <2>4. Distinct' = Distinct
    BY <2>1 DEF Distinct, Positions, Signature
  <2> QED BY <1>0, <1>1, <1>2, <1>3, <2>1, <2>3, <2>4 DEF PollFits, Signature
<1>10. \A i \in Session : i \in Session' /\ handed'[i] = handed[i]
  <2>1. DOMAIN handed = 1 .. Len(handed) /\ DOMAIN handed' = 1 .. Len(handed')
    BY <1>0, <1>6 DEF SourceTyped
  <2>2. \A i \in 1 .. Len(handed) : i \in 1 .. Len(handed')
    BY <1>6
  <2> QED BY <1>1, <1>6, <2>1, <2>2 DEF Session
<1>11. DeliveredBeforeCounted'
  <2>1. cursor' = cursor /\ said' = said
    BY <1>1
  <2> QED BY <1>0, <1>10, <2>1 DEF DeliveredBeforeCounted, Signature, Edge, Last
<1>12. NothingSlipsPast'
  <2>1. cursor' = cursor /\ said' = said /\ since' = since
    BY <1>1
  <2>2. Distinct' = Distinct
    BY <2>1 DEF Distinct, Positions, Signature
  <2> QED BY <1>0, <1>10, <2>1, <2>2 DEF NothingSlipsPast, Edge, Last
<1> QED BY <1>7, <1>8, <1>9, <1>11, <1>12 DEF SourceInv, CursorIsTrue

\* What a pane begins with
LEMMA FirstOnes ==
  ASSUME NEW s \in Seq(Nat), NEW n \in 1 .. Len(s)
  PROVE  LET b == SubSeq(s, 1, n)
         IN  b \in Seq(Nat) /\ Len(b) = n /\ \A i \in 1 .. n : b[i] = s[i]
<1>1. Len(s) \in Nat /\ n \in Nat /\ n <= Len(s)
  OBVIOUS
<1>2. SubSeq(s, 1, n) \in Seq(Nat) /\ Len(SubSeq(s, 1, n)) = n
  BY <1>1
<1>3. \A i \in 1 .. n : SubSeq(s, 1, n)[i] = s[i]
  BY <1>1
<1> QED BY <1>2, <1>3

\* The rest of a sequence
LEMMA RestOf ==
  ASSUME NEW s \in Seq(Nat), Len(s) > 0
  PROVE  /\ Tail(s) \in Seq(Nat) /\ Len(Tail(s)) = Len(s) - 1
         /\ \A i \in 1 .. Len(s) - 1 : Tail(s)[i] = s[i + 1]
<1>1. s # <<>>
  OBVIOUS
<1> QED BY <1>1

\* The cursor counts a message
LEMMA CommitKeeps ==
  ASSUME SourceInv, CommitDelivered, UNCHANGED <<said, handed, since>>,
         {lastWindow', contactRevision', epoch', sourceRevision'} \subseteq Nat,
         \/ task' = Idle
         \/ /\ task' = [task EXCEPT !.pc = "deliver", !.left = Tail(task.left)]
            /\ UNCHANGED <<epoch, sourceRevision>>
  PROVE  SourceInv'
<1>0. SourceTyped /\ PanesFit /\ PollFits /\ DeliveredBeforeCounted /\ NothingSlipsPast
  BY DEF SourceInv, CursorIsTrue
<1> DEFINE p == Len(task.pane)
           l == Len(task.left)
           c == CommittedPane
<1>1. /\ task.pc = "commit"
      /\ cursor' = [cursor EXCEPT !.baseline = c, !.consumed = cursor.consumed \union BoundProof,
                                  !.next = cursor.next + 1]
  BY DEF CommitDelivered, AtAwait
<1>2. /\ task # Idle /\ task \in CallTypes /\ cursor \in CursorTypes
      /\ task.pane \in Seq(Nat) /\ task.left \in Seq(Nat) /\ cursor.baseline \in Seq(Nat)
      /\ p \in Nat /\ l \in Nat /\ InChat(task.pane) /\ InChat(cursor.baseline)
      /\ \A i \in 1 .. p - 1 : task.pane[i + 1] = task.pane[i] + 1
  BY <1>0, <1>1, PollHas DEF CallPlaces
<1>3. /\ cursor.identity = Identity /\ l <= p /\ l > 0 /\ (task.recovered => l <= 1)
      /\ \A i \in 1 .. l : task.left[i] = task.pane[Behind + i]
      /\ Behind = p - l
      /\ \E i \in 1 .. Len(handed) :
           /\ handed[i].identity = cursor.identity /\ handed[i].sequence = cursor.next
           /\ handed[i].at = task.left[1] /\ handed[i].recovered = task.recovered
  BY <1>0, <1>1, <1>2 DEF PollFits, Behind
<1> DEFINE j == Behind
<1>4. j \in Nat /\ j + 1 \in 1 .. p /\ (task.recovered => j + 1 = p) /\ 1 \in 1 .. l
  <2>1. p \in Nat /\ l \in Nat
    BY ONLY <1>2
  <2>2. j = p - l /\ l <= p /\ l > 0 /\ (task.recovered => l <= 1)
    BY ONLY <1>3
  <2> HIDE DEF j, p, l, c
  <2>3. j \in Nat /\ j + 1 \in 1 .. p /\ 1 \in 1 .. l
    BY ONLY <2>1, <2>2
  <2>4. task.recovered => j + 1 = p
    BY ONLY <2>1, <2>2
  <2> QED BY ONLY <2>3, <2>4
<1>5. c \in Seq(Nat) /\ Len(c) = j + 1 /\ \A i \in 1 .. j + 1 : c[i] = task.pane[i]
  <2>1. CASE task.recovered
    <3>1. c = task.pane
      BY <2>1 DEF CommittedPane
    <3> HIDE DEF c, j
    <3> QED BY <1>2, <1>4, <2>1, <3>1
  <2>2. CASE ~task.recovered
    <3>1. c = SubSeq(task.pane, 1, p - l + 1)
      BY <2>2 DEF CommittedPane
    <3>2. c = SubSeq(task.pane, 1, j + 1)
      BY <1>3, <3>1
    <3> QED BY <1>2, <1>4, <3>2, FirstOnes
  <2> QED BY <2>1, <2>2
<1>6. c[j + 1] = task.left[1] /\ j + 1 \in 1 .. Len(c) /\ Edge(c) = task.left[1]
  <2>1. task.left[1] = task.pane[j + 1]
    BY <1>3, <1>4
  <2>2. j + 1 \in 1 .. j + 1
    BY <1>4
  <2>3. c[j + 1] = task.left[1] /\ j + 1 \in 1 .. Len(c)
    BY <1>5, <2>1, <2>2
  <2>4. c # <<>>
    <3> HIDE DEF c, j
    <3> QED BY <1>5, <2>3
  <2>5. Edge(c) = c[Len(c)]
    BY <2>4 DEF Edge, Last
  <2> QED BY <1>5, <2>3, <2>5
<1>7. InChat(c) /\ c[j + 1] \in Positions
  <2>1. \A i \in 1 .. j + 1 : i \in 1 .. p
    BY <1>2, <1>4
  <2>2. \A i \in 1 .. j + 1 : c[i] \in Positions
    BY <1>2, <1>5, <2>1 DEF InChat
  <2> QED BY <1>5, <1>6, <2>2 DEF InChat
<1> HIDE DEF c
<1>8. /\ cursor' \in CursorTypes /\ cursor'.baseline = c /\ cursor'.next = cursor.next + 1
      /\ cursor'.identity = cursor.identity
  <2>1. BoundProof \subseteq Proofs
    BY <1>2 DEF BoundProof, CallTypes
  <2>2. /\ cursor.consumed \union BoundProof \in SUBSET Proofs
        /\ cursor.next \in Nat \ {0} /\ cursor.next + 1 \in Nat \ {0}
    BY <1>2, <2>1 DEF CursorTypes
  <2>3. cursor' = [identity |-> cursor.identity, baseline |-> c,
                   consumed |-> cursor.consumed \union BoundProof, next |-> cursor.next + 1]
    BY <1>1, <1>2 DEF CursorTypes
  <2> QED BY <1>2, <1>5, <2>2, <2>3 DEF CursorTypes
<1>9. task' = Idle \/ (/\ task' \in CallTypes /\ task'.pc = "deliver" /\ task'.left = Tail(task.left)
                       /\ task'.pane = task.pane /\ task'.proof = task.proof
                       /\ task'.recovered = task.recovered /\ UNCHANGED <<epoch, sourceRevision>>)
  <2>1. Tail(task.left) \in Seq(Nat)
    BY <1>2, <1>3
  <2> QED BY <1>2, <2>1 DEF CallTypes, CallPlaces
<1>10. SourceTyped'
  BY <1>0, <1>8, <1>9 DEF SourceTyped
<1>11. PanesFit'
  <2>1. Positions' = Positions
    BY DEF Positions
  <2>2. Len(c) > 0
    BY <1>4, <1>5
  <2> QED BY <1>0, <1>2, <1>7, <1>8, <1>9, <2>1, <2>2 DEF PanesFit, InChat
<1>12. PollFits'
  <2>1. CASE task' = Idle
    BY <2>1 DEF PollFits
  <2>2. CASE task' # Idle
    <3>1. /\ Len(task'.left) = l - 1 /\ \A i \in 1 .. l - 1 : task'.left[i] = task.left[i + 1]
      BY <1>2, <1>3, <1>9, <2>2, RestOf
    <3>2. Behind' = j + 1 /\ Identity' = Identity
      <4>1. Behind' = p - (l - 1)
        BY <1>9, <2>2, <3>1 DEF Behind
      <4>2. Identity' = Identity
        BY <1>9, <2>2 DEF Identity
      <4> HIDE DEF p, l
      <4>3. p - (l - 1) = j + 1
        BY <1>2, <1>3
      <4> QED BY <4>1, <4>2, <4>3
    <3>3. \A i \in 1 .. l - 1 : task'.left[i] = task.pane[j + 1 + i]
      <4> SUFFICES ASSUME NEW i \in 1 .. l - 1 PROVE task'.left[i] = task.pane[j + 1 + i]
        OBVIOUS
      <4>1. i + 1 \in 1 .. l /\ j + (i + 1) = j + 1 + i
        <5>1. j \in Nat /\ l \in Nat
          BY <1>2, <1>4
        <5> HIDE DEF j, l, p
        <5> QED BY ONLY <5>1, i \in 1 .. l - 1
      <4>2. task.left[i + 1] = task.pane[j + (i + 1)]
        BY <1>3, <4>1
      <4> QED BY <3>1, <4>1, <4>2
    <3>4. l - 1 <= p /\ (task.recovered => l - 1 <= 1)
      <4> HIDE DEF p, l
      <4> QED BY <1>2, <1>3
    <3>5. c[j + 1] = task.pane[j + 1]
      <4>1. j + 1 \in 1 .. j + 1
        BY <1>4
      <4> QED BY <1>5, <4>1
    <3> HIDE DEF j
    <3>7. /\ cursor'.identity = Identity' /\ Len(task'.left) <= Len(task'.pane)
          /\ \A i \in 1 .. Len(task'.left) : task'.left[i] = task'.pane[Behind' + i]
          /\ task'.recovered => Len(task'.left) <= 1
          /\ Len(cursor'.baseline) = Behind'
          /\ cursor'.baseline[Behind'] = task'.pane[Behind']
      BY <1>3, <1>5, <1>8, <1>9, <2>2, <3>1, <3>2, <3>3, <3>4, <3>5
    <3> QED BY <1>9, <2>2, <3>7 DEF PollFits, Signature
  <2> QED BY <2>1, <2>2
<1>13. PICK k \in 1 .. Len(handed) :
         /\ handed[k].identity = cursor.identity /\ handed[k].sequence = cursor.next
         /\ handed[k].at = task.left[1] /\ handed[k].recovered = task.recovered
  BY <1>3
<1>14. Session' = Session /\ k \in Session
  <2>1. DOMAIN handed = 1 .. Len(handed)
    BY <1>0 DEF SourceTyped
  <2> QED BY <1>8, <1>13, <2>1 DEF Session
<1>15. DeliveredBeforeCounted'
  <2>1. cursor.next \in Nat \ {0}
    BY <1>2 DEF CursorTypes
  <2>2. \A n \in 1 .. cursor'.next - 1 : n \in 1 .. cursor.next - 1 \/ n = cursor.next
    BY <1>8, <2>1
  <2>3. \A n \in 1 .. cursor'.next - 1 : \E i \in Session' : handed'[i].sequence = n
    BY <1>0, <1>13, <1>14, <2>2 DEF DeliveredBeforeCounted
  <2>4. handed'[k].sequence = cursor'.next - 1
    BY <1>8, <1>13, <2>1
  <2>5. Signature(handed[k].at)' = Signature(Edge(cursor.baseline))'
    <3>1. handed'[k].at = Edge(cursor'.baseline)
      BY <1>6, <1>8, <1>13 DEF Edge, Last
    <3> QED BY <3>1 DEF Signature, Edge, Last
  <2> QED BY <1>14, <2>3, <2>4, <2>5 DEF DeliveredBeforeCounted
<1>16. NothingSlipsPast'
  <2> SUFFICES ASSUME Distinct, since > 0, NEW m \in since + 1 .. Edge(c)
               PROVE  \E i \in Session : handed[i].at = m \/ (handed[i].recovered /\ handed[i].at > m)
    <3>1. Distinct' = Distinct /\ Edge(cursor.baseline)' = Edge(c)
      BY <1>8 DEF Distinct, Positions, Signature, Edge, Last
    <3> QED BY <1>14, <3>1 DEF NothingSlipsPast
  <2>1. handed[k].at = Edge(c) /\ Edge(c) \in Nat /\ m \in Nat /\ m <= Edge(c) /\ since \in Nat
    <3>1. Edge(c) \in Nat
      <4>1. c[j + 1] \in Nat
        BY <1>5, <1>6
      <4> QED BY <1>6, <4>1
    <3>2. since \in Nat
      BY <1>0 DEF SourceTyped
    <3> QED BY <1>6, <1>13, <3>1, <3>2
  <2>2. CASE task.recovered
    <3>1. handed[k].at = m \/ handed[k].at > m
      BY <2>1
    <3> QED BY <1>13, <1>14, <2>2, <3>1
  <2>3. CASE ~task.recovered
    <3>1. Len(cursor.baseline) = j /\ j > 0
      BY <1>0, <1>1, <1>2, <2>3 DEF PollFits, PanesFit
    <3>2. cursor.baseline[j] = task.pane[j]
      BY <1>0, <1>1, <1>2, <2>3, <3>1 DEF PollFits
    <3>3. Edge(cursor.baseline) = task.pane[j]
      <4>1. cursor.baseline # <<>>
        BY <1>2, <3>1
      <4> QED BY <3>1, <3>2, <4>1 DEF Edge, Last
    <3>4. task.pane[j + 1] = task.pane[j] + 1
      <4>1. j \in 1 .. p - 1
        BY <1>2, <1>4, <3>1
      <4> QED BY <1>2, <4>1
    <3>5. Edge(c) = Edge(cursor.baseline) + 1 /\ Edge(cursor.baseline) \in Nat
      <4>1. Edge(c) = task.pane[j + 1]
        BY <1>3, <1>4, <1>6
      <4>2. j \in 1 .. p
        BY <1>2, <1>4, <3>1
      <4>3. task.pane[j] \in Nat
        <5> HIDE DEF j, c, l
        <5>1. task.pane \in Seq(Nat) /\ j \in 1 .. Len(task.pane)
          BY ONLY <1>2, <4>2
        <5> QED BY ONLY <5>1
      <4> QED BY <3>3, <3>4, <4>1, <4>3
    <3>6. m \in since + 1 .. Edge(cursor.baseline) \/ m = Edge(c)
      BY <2>1, <3>5
    <3> QED BY <1>0, <1>14, <2>1, <3>6 DEF NothingSlipsPast
  <2> QED BY <2>2, <2>3
<1> QED BY <1>10, <1>11, <1>12, <1>15, <1>16 DEF SourceInv, CursorIsTrue

\* The cursor stands where the pane ends
LEMMA RefreshKeeps ==
  ASSUME SourceInv, RefreshBaseline, UNCHANGED <<said, handed, since>>,
         {lastWindow', contactRevision', epoch', sourceRevision'} \subseteq Nat,
         \/ task' = Idle
         \/ task' = task /\ UNCHANGED <<epoch, sourceRevision>>
  PROVE  SourceInv'
<1>0. SourceTyped /\ PanesFit /\ PollFits /\ DeliveredBeforeCounted /\ NothingSlipsPast
  BY DEF SourceInv, CursorIsTrue
<1>1. /\ task.pc = "deliver" /\ task.left = <<>> /\ task.proof # NoProof
      /\ cursor' = [cursor EXCEPT !.baseline = task.pane,
                                  !.consumed = cursor.consumed \union {task.proof}]
  BY DEF RefreshBaseline, AtAwait
<1>2. /\ task # Idle /\ task \in CallTypes /\ cursor \in CursorTypes
      /\ task.pane \in Seq(Nat) /\ cursor.baseline \in Seq(Nat)
      /\ Len(task.pane) \in Nat /\ Len(task.left) \in Nat /\ InChat(task.pane)
  BY <1>0, <1>1, PollHas DEF CallPlaces
<1>3. Len(task.left) = 0
  BY <1>1, EmptySeq
<1>4. Len(task.pane) > 0 /\ Behind = Len(task.pane)
  BY <1>0, <1>1, <1>2, <1>3 DEF PanesFit, Behind
<1> DEFINE p == Len(task.pane)
<1>5. /\ cursor.identity = Identity /\ Len(cursor.baseline) = p
      /\ Signature(cursor.baseline[p]) = Signature(task.pane[p])
      /\ Distinct => cursor.baseline[p] = task.pane[p]
  BY <1>0, <1>1, <1>2, <1>3, <1>4 DEF PollFits
<1>6. Edge(cursor.baseline) = cursor.baseline[p] /\ Edge(task.pane) = task.pane[p]
  <2>1. cursor.baseline # <<>> /\ task.pane # <<>>
    BY <1>2, <1>4, <1>5, EmptySeq
  <2> QED BY <1>5, <2>1 DEF Edge, Last
<1>7. cursor' = [identity |-> cursor.identity, baseline |-> task.pane,
                 consumed |-> cursor.consumed \union {task.proof}, next |-> cursor.next]
  BY <1>1, <1>2 DEF CursorTypes
<1>8. /\ cursor' \in CursorTypes /\ cursor'.baseline = task.pane /\ cursor'.next = cursor.next
      /\ cursor'.identity = cursor.identity
  BY <1>2, <1>7 DEF CursorTypes, CallTypes
<1> HIDE DEF p
<1>9. SourceTyped'
  BY <1>0, <1>8 DEF SourceTyped
<1>10. PanesFit'
  <2>1. Positions' = Positions
    BY DEF Positions
  <2> QED BY <1>0, <1>2, <1>4, <1>8, <2>1 DEF PanesFit, InChat
<1>11. PollFits'
  <2>1. CASE task' = Idle
    BY <2>1 DEF PollFits
  <2>2. CASE task' = task /\ UNCHANGED <<epoch, sourceRevision>>
    <3>1. Behind' = Behind /\ Identity' = Identity
      BY <2>2 DEF Behind, Identity
    <3>2. Len(task.left) <= Len(task.pane) /\ ~(1 <= Len(task.left))
      BY <1>2, <1>3
    <3>3. \A i \in 1 .. Len(task.left) : FALSE
      BY <1>3
    <3>4. /\ cursor'.identity = Identity' /\ Len(cursor'.baseline) = Behind'
          /\ cursor'.baseline[Behind'] = task'.pane[Behind']
      BY <1>4, <1>5, <1>8, <2>2, <3>1
    <3>5. task'.recovered => Len(task'.left) <= 1
      BY <1>3, <2>2
    <3> QED BY <1>1, <2>2, <3>2, <3>3, <3>4, <3>5 DEF PollFits, Signature
  <2> QED BY <2>1, <2>2
<1>12. Session' = Session /\ Edge(cursor.baseline)' = Edge(task.pane)
  BY <1>8 DEF Session, Edge, Last
<1>13. DeliveredBeforeCounted'
  <2>1. Signature(Edge(cursor.baseline))' = Signature(Edge(cursor.baseline))
    BY <1>5, <1>6, <1>12 DEF Signature
  <2>2. \A i \in Session : Signature(handed[i].at)' = Signature(handed[i].at)
    BY DEF Signature
  <2> QED BY <1>0, <1>8, <1>12, <2>1, <2>2 DEF DeliveredBeforeCounted
<1>14. NothingSlipsPast'
  <2>1. Distinct' = Distinct
    BY DEF Distinct, Positions, Signature
  <2>2. Distinct => Edge(cursor.baseline)' = Edge(cursor.baseline)
    BY <1>5, <1>6, <1>12
  <2> QED BY <1>0, <1>12, <2>1, <2>2 DEF NothingSlipsPast
<1> QED BY <1>9, <1>10, <1>11, <1>13, <1>14 DEF SourceInv, CursorIsTrue

\* What reads alike reads alike one by one
LEMMA PrefixReadsAlike ==
  ASSUME NEW s \in Seq(Nat), NEW t \in Seq(Nat), IsPrefix(Hashes(s), Hashes(t))
  PROVE  Len(s) <= Len(t) /\ \A i \in 1 .. Len(s) : Signature(s[i]) = Signature(t[i])
<1> DEFINE Readings == {Signature(m) : m \in Nat}
<1>1. \A q \in Seq(Nat) : Hashes(q) \in Seq(Readings) /\ Len(Hashes(q)) = Len(q)
                         /\ \A i \in 1 .. Len(q) : Hashes(q)[i] = Signature(q[i])
  <2> SUFFICES ASSUME NEW q \in Seq(Nat)
               PROVE  Hashes(q) \in Seq(Readings) /\ Len(Hashes(q)) = Len(q)
                      /\ \A i \in 1 .. Len(q) : Hashes(q)[i] = Signature(q[i])
    OBVIOUS
  <2>1. DOMAIN q = 1 .. Len(q) /\ Len(q) \in Nat /\ \A i \in 1 .. Len(q) : q[i] \in Nat
    BY ElementOfSeq, LenProperties
  <2>2. Hashes(q) = [i \in 1 .. Len(q) |-> Signature(q[i])]
    BY <2>1 DEF Hashes
  <2>3. \A i \in 1 .. Len(q) : Signature(q[i]) \in Readings
    BY <2>1
  <2> HIDE DEF Readings
  <2>4. Hashes(q) \in Seq(Readings)
    BY <2>1, <2>2, <2>3, IsASeq
  <2> QED BY <2>1, <2>2, <2>4, LenProperties
<1> HIDE DEF Readings
<1>2. Len(s) \in Nat /\ Len(t) \in Nat /\ Len(s) <= Len(t)
  BY <1>1 DEF IsPrefix
<1>3. \A q \in Seq(Readings) : Len(q) >= Len(s) =>
        \A i \in 1 .. Len(s) : SubSeq(q, 1, Len(s))[i] = q[i]
  BY <1>2
<1>4. SubSeq(Hashes(s), 1, Len(s)) = SubSeq(Hashes(t), 1, Len(s))
  BY <1>1 DEF IsPrefix
<1>5. \A i \in 1 .. Len(s) : Hashes(s)[i] = Hashes(t)[i]
  BY <1>1, <1>2, <1>3, <1>4
<1>6. \A i \in 1 .. Len(s) : i \in 1 .. Len(t)
  BY <1>2
<1> QED BY <1>1, <1>2, <1>5, <1>6

\* What a pane ends with
LEMMA LastOnes ==
  ASSUME NEW s \in Seq(Nat), NEW n \in Nat, n <= Len(s)
  PROVE  LET b == SubSeq(s, n + 1, Len(s))
         IN  b \in Seq(Nat) /\ Len(b) = Len(s) - n /\ \A i \in 1 .. Len(s) - n : b[i] = s[n + i]
<1>1. Len(s) \in Nat /\ n + 1 \in Int /\ \A i \in n + 1 .. Len(s) : s[i] \in Nat
  OBVIOUS
<1> DEFINE b == SubSeq(s, n + 1, Len(s))
           l == Len(s)
<1>2. /\ b \in Seq(Nat) /\ Len(b) = IF n + 1 <= l THEN l - (n + 1) + 1 ELSE 0
      /\ \A i \in 1 .. l - (n + 1) + 1 : b[i] = s[(n + 1) + i - 1]
  BY <1>1, SubSeqProperties
<1>3. l - (n + 1) + 1 = l - n /\ (~(n + 1 <= l) => l - n = 0)
      /\ \A i \in 1 .. l - n : (n + 1) + i - 1 = n + i
  BY <1>1
<1> HIDE DEF b, l
<1>4. Len(b) = l - n
  BY <1>2, <1>3
<1>5. \A i \in 1 .. l - n : b[i] = s[n + i]
  BY <1>2, <1>3
<1> QED BY <1>2, <1>4, <1>5 DEF b, l

\* The pane is held against the cursor
LEMMA ComparesKeeps ==
  ASSUME SourceInv, Compares
  PROVE  SourceInv'
<1>0. SourceTyped /\ PanesFit /\ PollFits /\ DeliveredBeforeCounted /\ NothingSlipsPast
  BY DEF SourceInv, CursorIsTrue
<1> DEFINE found == IF GoesOn THEN NewIn(cursor.baseline, task.pane)
                      ELSE RecoverFreshLatestIncoming
<1>1. /\ task.pc = "compare" /\ cursor.identity = Identity
      /\ task' = [task EXCEPT !.pc = "deliver", !.recovered = ~GoesOn, !.left = found]
      /\ GoesOn \/ RecoverFreshLatestIncoming # <<>>
      /\ UNCHANGED <<said, lastWindow, contactRevision, epoch, cursor, sourceRevision, handed, since>>
  BY DEF Compares, AtAwait, SameIdentity
<1>2. /\ task # Idle /\ task \in CallTypes /\ cursor \in CursorTypes
      /\ task.pane \in Seq(Nat) /\ cursor.baseline \in Seq(Nat)
      /\ Len(task.pane) \in Nat /\ Len(cursor.baseline) \in Nat
      /\ InChat(task.pane) /\ InChat(cursor.baseline)
  BY <1>0, <1>1, PollHas DEF CallPlaces
<1> DEFINE p == Len(task.pane)
           n == Len(cursor.baseline)
<1>3. ASSUME GoesOn
      PROVE  /\ n <= p /\ found \in Seq(Nat) /\ Len(found) = p - n
             /\ \A i \in 1 .. p - n : found[i] = task.pane[n + i]
             /\ \A i \in 1 .. n : Signature(cursor.baseline[i]) = Signature(task.pane[i])
  <2>1. n <= p /\ \A i \in 1 .. n : Signature(cursor.baseline[i]) = Signature(task.pane[i])
    BY <1>2, <1>3, PrefixReadsAlike DEF GoesOn
  <2>2. found = SubSeq(task.pane, n + 1, p)
    BY <1>3 DEF NewIn
  <2> HIDE DEF found
  <2> QED BY <1>2, <2>1, <2>2, LastOnes
<1>4. ASSUME ~GoesOn
      PROVE  p > 0 /\ found \in Seq(Nat) /\ Len(found) = 1 /\ found[1] = task.pane[p]
  <2>1. task.proof # NoProof /\ found = <<Last(task.pane)>>
    BY <1>1, <1>4 DEF RecoverFreshLatestIncoming
  <2>2. p > 0
    BY <1>0, <1>2, <2>1 DEF PanesFit
  <2>3. Last(task.pane) = task.pane[p] /\ task.pane[p] \in Nat
    <3>1. p \in 1 .. p
      BY <1>2, <2>2
    <3> QED BY <1>2, <3>1 DEF Last
  <2> HIDE DEF found, p
  <2> QED BY <2>1, <2>2, <2>3
<1> HIDE DEF found
<1>5. /\ task' \in CallTypes /\ task'.pc = "deliver" /\ task'.pane = task.pane
      /\ task'.proof = task.proof /\ task'.left = found /\ task'.recovered = ~GoesOn
  <2>1. found \in Seq(Nat) /\ (~GoesOn) \in BOOLEAN
    BY <1>3, <1>4
  <2>2. task' = [pc |-> "deliver", pane |-> task.pane, proof |-> task.proof,
                 left |-> found, recovered |-> ~GoesOn]
    BY <1>1, <1>2 DEF CallTypes
  <2> QED BY <1>2, <2>1, <2>2 DEF CallTypes, CallPlaces
<1>6. SourceTyped'
  BY <1>0, <1>1, <1>5 DEF SourceTyped
<1>7. PanesFit'
  <2>1. Positions' = Positions
    BY <1>1 DEF Positions
  <2> QED BY <1>0, <1>1, <1>2, <1>5, <2>1 DEF PanesFit, InChat
<1>8. Identity' = Identity /\ Behind' = p - Len(found)
  BY <1>1, <1>5 DEF Identity, Behind
<1>9. PollFits'
  <2>1. CASE GoesOn
    <3>1. p - (p - n) = n /\ p - n <= p
      <4>1. p \in Nat /\ n \in Nat
        BY <1>2
      <4> HIDE DEF p, n
      <4> QED BY <4>1
    <3>2. Behind' = n /\ Len(found) = p - n
      BY <1>3, <1>8, <2>1, <3>1
    <3>3. ASSUME n > 0
          PROVE  /\ cursor.baseline[n] \in Positions /\ task.pane[n] \in Positions
                 /\ Signature(cursor.baseline[n]) = Signature(task.pane[n])
      <4>1. n \in 1 .. n /\ n \in 1 .. p
        BY <1>2, <1>3, <2>1, <3>3
      <4> QED BY <1>2, <1>3, <2>1, <4>1 DEF InChat
    <3>4. n > 0 /\ Distinct' => cursor.baseline[n] = task.pane[n]
      <4>1. Distinct' = Distinct
        BY <1>1 DEF Distinct, Positions, Signature
      <4> QED BY <3>3, <4>1 DEF Distinct
    <3> HIDE DEF p, n
    <3>5. /\ cursor'.identity = Identity' /\ Len(task'.left) <= Len(task'.pane)
          /\ \A i \in 1 .. Len(task'.left) : task'.left[i] = task'.pane[Behind' + i]
          /\ ~task'.recovered /\ Len(cursor'.baseline) = Behind'
      BY <1>1, <1>3, <1>5, <1>8, <2>1, <3>1, <3>2 DEF p, n
    <3>6. ASSUME Behind' > 0
          PROVE  /\ Signature(cursor.baseline[Behind])' = Signature(task.pane[Behind])'
                 /\ Distinct' => cursor'.baseline[Behind'] = task'.pane[Behind']
      <4>1. n > 0 /\ cursor'.baseline[Behind'] = cursor.baseline[n]
            /\ task'.pane[Behind'] = task.pane[n]
        BY <1>1, <1>5, <3>2, <3>6
      <4>2. Signature(cursor.baseline[Behind])' = Signature(cursor.baseline[n])
        BY <1>1, <4>1 DEF Signature
      <4>3. Signature(task.pane[Behind])' = Signature(task.pane[n])
        BY <1>1, <4>1 DEF Signature
      <4> QED BY <3>3, <3>4, <4>1, <4>2, <4>3
    <3> QED BY <1>5, <3>5, <3>6 DEF PollFits
  <2>2. CASE ~GoesOn
    <3>1. /\ Len(task'.left) = 1 /\ task'.left[1] = task.pane[p] /\ task'.recovered
          /\ Behind' = p - 1 /\ p > 0 /\ p \in Nat
      BY <1>2, <1>4, <1>5, <1>8, <2>2
    <3> HIDE DEF p
    <3>2. Behind' + 1 = p /\ 1 <= p
      BY <3>1
    <3>3. \A i \in 1 .. 1 : task'.left[i] = task'.pane[Behind' + i]
      BY <1>5, <3>1, <3>2
    <3>4. Len(task'.pane) = p
      BY <1>5 DEF p
    <3>5. cursor'.identity = Identity'
      BY <1>1, <1>8
    <3> QED BY <1>5, <3>1, <3>2, <3>3, <3>4, <3>5 DEF PollFits
  <2> QED BY <2>1, <2>2
<1>10. DeliveredBeforeCounted'
  BY <1>0, <1>1 DEF DeliveredBeforeCounted, Session, Signature, Edge, Last
<1>11. NothingSlipsPast'
  BY <1>0, <1>1 DEF NothingSlipsPast, Distinct, Positions, Session, Signature, Edge, Last
<1> QED BY <1>6, <1>7, <1>9, <1>10, <1>11 DEF SourceInv, CursorIsTrue

\* A pane is read
LEMMA EndOfChatIs ==
  ASSUME SourceTyped, NEW size \in Sizes
  PROVE  LET pane == EndOfChat(size)
         IN  /\ pane \in Seq(Nat) /\ InChat(pane)
             /\ \A i \in 1 .. Len(pane) - 1 : pane[i + 1] = pane[i] + 1
             /\ said # <<>> => Len(pane) > 0
<1> DEFINE n == Len(said)
           k == IF n < size THEN n ELSE size
           pane == EndOfChat(size)
<1>1. n \in Nat /\ size \in Nat \ {0}
  BY SizesAssumption, LenProperties DEF SourceTyped
<1>2. pane = [i \in 1 .. k |-> n - k + i]
  BY DEF EndOfChat
<1>3. Positions = 1 .. n
  BY DEF Positions
<1>4. said # <<>> => n > 0
  BY <1>1, EmptySeq DEF SourceTyped
<1> HIDE DEF n, pane
<1>5. k \in Nat /\ k <= n /\ (n > 0 => k > 0)
  BY <1>1
<1> HIDE DEF k
<1>6. \A i \in 1 .. k : n - k + i \in 1 .. n
  BY <1>1, <1>5
<1>7. \A i \in 1 .. k : n - k + i \in Nat
  BY <1>1, <1>5
<1>8. pane \in Seq(Nat)
  BY <1>2, <1>5, <1>7, IsASeq
<1>9. Len(pane) = k
  BY <1>2, <1>5, <1>8, LenProperties
<1>10. InChat(pane)
  BY <1>2, <1>3, <1>6, <1>9 DEF InChat
<1>11. \A i \in 1 .. k - 1 : i \in 1 .. k /\ i + 1 \in 1 .. k /\ n - k + (i + 1) = (n - k + i) + 1
  BY <1>1, <1>5
<1>12. \A i \in 1 .. k - 1 : pane[i + 1] = pane[i] + 1
  BY <1>2, <1>11
<1> QED BY <1>4, <1>5, <1>8, <1>9, <1>10, <1>12 DEF pane

\* A read keeps what the cursor says
LEMMA ReadSnapshotKeeps ==
  ASSUME SourceInv, ReadSnapshot, lastWindow' \in Nat
  PROVE  SourceInv'
<1>0. SourceTyped /\ PanesFit
  BY DEF SourceInv
<1>1. PICK size \in Sizes, shows \in Evidence(lastWindow') :
        task' = [task EXCEPT !.pc = IF @ = "start read" THEN "start again" ELSE "poll again",
                             !.pane = EndOfChat(size), !.proof = shows]
  BY DEF ReadSnapshot
<1>2. /\ task.pc \in {"start read", "poll read"}
      /\ UNCHANGED <<said, cursor, handed, since, contactRevision, epoch, sourceRevision>>
  BY DEF ReadSnapshot, AtAwait
<1>3. task # Idle /\ task \in CallTypes
  BY <1>0, <1>2, PollHas DEF CallPlaces
<1> DEFINE pane == EndOfChat(size)
<1>4. /\ pane \in Seq(Nat) /\ InChat(pane) /\ (said # <<>> => Len(pane) > 0)
      /\ \A i \in 1 .. Len(pane) - 1 : pane[i + 1] = pane[i] + 1
  BY <1>0, EndOfChatIs
<1> HIDE DEF pane
<1>5. shows \in Proofs /\ (shows # NoProof => said # <<>>)
  <2>1. CASE shows = NoProof
    BY <2>1 DEF Proofs
  <2>2. CASE shows # NoProof
    <3>1. /\ said # <<>>
          /\ shows = [text |-> Last(said).text, minute |-> Last(said).minute, window |-> lastWindow']
      BY <1>1, <2>2 DEF Evidence
    <3>2. Last(said) \in Contents
      <4>1. said \in Seq(Contents)
        BY <1>0 DEF SourceTyped
      <4>2. Len(said) \in 1 .. Len(said)
        BY <3>1, <4>1
      <4> QED BY <4>1, <4>2, ElementOfSeq DEF Last
    <3>3. Last(said).text \in Sayings /\ Last(said).minute \in Nat
      BY <3>2 DEF Contents
    <3> QED BY <3>1, <3>3 DEF Proofs
  <2> QED BY <2>1, <2>2
<1>6. /\ task' \in CallTypes /\ task'.pc \in {"start again", "poll again"}
      /\ task'.pane = pane /\ task'.proof = shows
  <2>1. task' = [pc |-> IF task.pc = "start read" THEN "start again" ELSE "poll again",
                 pane |-> pane, proof |-> shows, left |-> task.left, recovered |-> task.recovered]
    BY <1>1, <1>3 DEF CallTypes, pane
  <2> QED BY <1>3, <1>4, <1>5, <2>1 DEF CallTypes, CallPlaces
<1>7. {lastWindow', contactRevision', epoch', sourceRevision'} \subseteq Nat
  BY <1>0, <1>2 DEF SourceTyped
<1> QED BY <1>2, <1>4, <1>5, <1>6, <1>7, CallGoesOn

\* A call that begins has no pane yet
LEMMA CallBegins ==
  ASSUME NEW pc \in CallPlaces \ {"deliver", "commit"}
  PROVE  /\ Call(pc) \in CallTypes /\ Call(pc).pc \notin {"deliver", "commit"}
         /\ InChat(Call(pc).pane) /\ Call(pc).proof = NoProof
         /\ \A i \in 1 .. Len(Call(pc).pane) - 1 : Call(pc).pane[i + 1] = Call(pc).pane[i] + 1
<1>1. Call(pc).pane = <<>> /\ Len(<<>>) = 0
  BY EmptySeq DEF Call
<1>2. Call(pc) \in CallTypes
  <2>1. pc \in CallPlaces /\ NoProof \in Proofs /\ <<>> \in Seq(Nat) /\ FALSE \in BOOLEAN
    BY EmptySeq DEF Proofs
  <2> QED BY <2>1 DEF Call, CallTypes
<1>3. Call(pc).pc = pc /\ Call(pc).proof = NoProof
  BY DEF Call
<1>4. \A i \in 1 .. Len(Call(pc).pane) : FALSE
  BY <1>1
<1>5. \A i \in 1 .. Len(Call(pc).pane) - 1 : FALSE
  BY <1>1
<1> QED BY <1>2, <1>3, <1>4, <1>5 DEF InChat

\* A step of the source, or around it
LEMMA SourceKeeps == SourceInv /\ [SourceNext]_inboundVars => SourceInv'
<1> SUFFICES ASSUME SourceInv, [SourceNext]_inboundVars PROVE SourceInv'
  OBVIOUS
<1>0. SourceTyped /\ PanesFit
  BY DEF SourceInv
<1>1. /\ {lastWindow, contactRevision, epoch, sourceRevision} \subseteq Nat
      /\ task = Idle \/ task \in CallTypes
  BY <1>0 DEF SourceTyped
<1>2. CASE AroundSource
  <2>1. CASE SomebodyWrites
    <3>1. Minute \in Nat
      <4>1. said \in Seq(Contents)
        BY <1>0 DEF SourceTyped
      <4>2. CASE said # <<>>
        <5>1. Len(said) \in 1 .. Len(said)
          BY <4>1, <4>2
        <5>2. Last(said) \in Contents
          BY <4>1, <5>1, ElementOfSeq DEF Last
        <5> QED BY <4>2, <5>2 DEF Minute, Contents
      <4> QED BY <4>2 DEF Minute
    <3>2. PICK from \in {"contact", "owner"}, w \in Sayings, later \in {0, 1} :
            said' = Append(said, [from |-> from, text |-> w, minute |-> Minute + later])
      BY <2>1 DEF SomebodyWrites
    <3>3. [from |-> from, text |-> w, minute |-> Minute + later] \in Contents
      BY <3>1 DEF Contents
    <3>4. UNCHANGED <<lastWindow, contactRevision, epoch, sourceRevision, cursor, task, handed, since>>
      BY <2>1 DEF SomebodyWrites
    <3> QED BY <3>2, <3>3, <3>4, SaidGrows
  <2>2. CASE ContactReenrolled
    BY <1>1, <2>2, CallGoesOn DEF ContactReenrolled
  <2>3. CASE OwnerCloses
    BY <1>1, <2>3, CallGoesOn DEF OwnerCloses
  <2>4. CASE Restarts
    BY <1>1, <2>4, CallGoesOn DEF Restarts
  <2> QED BY <1>2, <2>1, <2>2, <2>3, <2>4 DEF AroundSource
<1>3. CASE Service
  <2>1. CASE StartSource
    BY <1>1, <2>1, CallGoesOn, CallBegins DEF StartSource, CallPlaces
  <2>2. CASE CloseSource
    <3>1. /\ UNCHANGED <<said, cursor, handed, since, task, epoch>>
          /\ {lastWindow', contactRevision', epoch', sourceRevision'} \subseteq Nat
          /\ UNCHANGED sourceRevision \/ task' = Idle
      BY <1>1, <2>2 DEF CloseSource
    <3> QED BY <3>1, CallGoesOn
  <2>3. CASE Poll
    BY <1>1, <2>3, CallGoesOn, CallBegins DEF Poll, CallPlaces
  <2> QED BY <1>3, <2>1, <2>2, <2>3 DEF Service
<1>4. CASE RequireCurrentTarget
  <2>1. PICK pc \in {"start read", "baseline", "poll read", "compare"} :
          task' = [task EXCEPT !.pc = pc] /\ task.pc \in CallPlaces
    BY <1>4 DEF RequireCurrentTarget, AtAwait, ResumeAt, CallPlaces
  <2>2. task # Idle /\ task \in CallTypes
    BY <1>0, <2>1, PollHas
  <2>3. /\ task' \in CallTypes /\ task'.pc = pc /\ task'.pane = task.pane /\ task'.proof = task.proof
    BY <2>1, <2>2 DEF CallTypes, CallPlaces
  <2>4. /\ UNCHANGED <<said, cursor, handed, since>>
        /\ {lastWindow', contactRevision', epoch', sourceRevision'} \subseteq Nat
    BY <1>1, <1>4 DEF RequireCurrentTarget
  <2> QED BY <1>0, <2>2, <2>3, <2>4, CallGoesOn DEF PanesFit
<1>5. CASE ReadSnapshot
  <2>1. lastWindow' \in Nat
    <3>1. lastWindow \in Nat /\ MaxWindow \in Nat /\ lastWindow' \in lastWindow .. MaxWindow
      BY <1>1, <1>5, InboundBounds DEF ReadSnapshot
    <3> QED BY ONLY <3>1
  <2> QED BY <1>5, <2>1, ReadSnapshotKeeps
<1>6. CASE Started
  BY <1>1, <1>6, EstablishKeeps DEF Started, SetStatus
<1>7. CASE SourceStartFails
  <2>1. /\ task' = Idle /\ UNCHANGED <<said, handed>>
        /\ {lastWindow', contactRevision', epoch', sourceRevision'} \subseteq Nat
        /\ UNCHANGED <<cursor, since>> \/ EstablishBaseline
    BY <1>1, <1>7 DEF SourceStartFails, SetStatus
  <2> QED BY <2>1, CallGoesOn, EstablishKeeps
<1>8. CASE LifecycleChanged
  <2>1. /\ task' = Idle /\ UNCHANGED <<said, handed>>
        /\ {lastWindow', contactRevision', epoch', sourceRevision'} \subseteq Nat
        /\ UNCHANGED <<cursor, since>> \/ EstablishBaseline
    BY <1>1, <1>8 DEF LifecycleChanged
  <2> QED BY <2>1, CallGoesOn, EstablishKeeps
<1>9. CASE Compares
  BY <1>9, ComparesKeeps
<1>10. CASE Discontinuity \/ Delivered \/ IdentityInvalid \/ AuthorizationChanged
  <2>1. /\ task' = Idle /\ UNCHANGED <<said, cursor, handed, since>>
        /\ {lastWindow', contactRevision', epoch', sourceRevision'} \subseteq Nat
    BY <1>1, <1>10 DEF Discontinuity, Delivered, IdentityInvalid, AuthorizationChanged, SetStatus
  <2> QED BY <2>1, CallGoesOn
<1>11. CASE Refreshes
  BY <1>1, <1>11, RefreshKeeps DEF Refreshes
<1>12. CASE HandsOver
  BY <1>12, HandsOverKeeps
<1>13. CASE Commits
  <2>1. /\ CommitDelivered /\ UNCHANGED <<said, handed, since, epoch, sourceRevision>>
        /\ {lastWindow', contactRevision', epoch', sourceRevision'} \subseteq Nat
        /\ task' = [task EXCEPT !.pc = "deliver", !.left = Tail(task.left)]
    BY <1>1, <1>13 DEF Commits
  <2> QED BY <2>1, CommitKeeps
<1>14. CASE PollFails \/ Fenced
  <2>1. /\ task' = Idle /\ UNCHANGED <<said, handed, since>>
        /\ {lastWindow', contactRevision', epoch', sourceRevision'} \subseteq Nat
        /\ UNCHANGED cursor \/ CommitDelivered \/ RefreshBaseline
    BY <1>1, <1>14 DEF PollFails, Fenced, SetStatus
  <2> QED BY <2>1, CallGoesOn, CommitKeeps, RefreshKeeps
<1>15. CASE UNCHANGED inboundVars
  BY <1>1, <1>15, CallGoesOn DEF inboundVars
<1> QED BY <1>2, <1>3, <1>4, <1>5, <1>6, <1>7, <1>8, <1>9, <1>10, <1>11, <1>12, <1>13, <1>14, <1>15
     DEF SourceNext, Source

(* The cursor never passes a message the handler did not take, except before  *)
(* a proved one, for every chat, size of the pane and way of failing         *)
(* (recoverFreshLatestIncoming, commitDelivered of the inbound source).      *)
THEOREM CursorIsAlwaysTrue == SourceSpec => []CursorIsTrue
<1>1. SourceInv => CursorIsTrue
  BY DEF SourceInv
<1> QED BY <1>1, SourceBegins, SourceKeeps, PTL DEF SourceSpec

(***************************************************************************)
(* The dispatcher's safety, for any number of callers on any lanes.          *)
(***************************************************************************)

(* What the ownership of the reservation rests on: an attempt that can still  *)
(* be taken over or cancelled is not confirmed, and an owner that came late    *)
(* has lost the reservation for good.                                       *)
PendingIsUnconfirmed ==
  \A c \in Callers :
    pending.caller = c /\ step[c] \in Confirmed => pending.phase = "owner-acquired"

LateHasLost == \A c \in Callers : At(c, "late") => reservation # c

Ownership ==
  /\ OwnerKeepsReservation
  /\ PendingIsUnconfirmed
  /\ LateHasLost
  /\ NoForgottenReservation

AdmissionInv == TypeOK /\ Ownership

(* Every step leaves the attempts of other callers where they are, except a   *)
(* cancellation, which turns a repeated query into a rejection.              *)
LEMMA GotoEffect ==
  ASSUME TypeOK, NEW c \in Callers, NEW s \in Steps, Goto(c, s)
  PROVE  /\ step' \in [Callers -> Steps]
         /\ step'[c] = s
         /\ \A d \in Callers \ {c} : step'[d] = step[d]
  BY DEF TypeOK, Goto

LEMMA InitInv == Init => AdmissionInv
<1> SUFFICES ASSUME Init PROVE AdmissionInv
  OBVIOUS
<1>1. 0 \in 0 .. MaxAnnounced
  BY MaxAnnouncedAssumption
<1>2. TypeOK
  BY <1>1 DEF Init, TypeOK, Steps, Answers
<1>3. \A c \in Callers : step[c] = "idle" /\ reservation # c
  BY NoCallerAssumption DEF Init
<1> QED
  BY <1>2, <1>3 DEF AdmissionInv, Ownership, OwnerKeepsReservation, PendingIsUnconfirmed, LateHasLost,
                    NoForgottenReservation, Confirmed, At

LEMMA TypeStep == TypeOK /\ [Next]_vars => TypeOK'
<1> SUFFICES ASSUME TypeOK, [Next]_vars PROVE TypeOK'
  OBVIOUS
<1> USE LaneAssumption, NoCallerAssumption, ResultsAssumption, MaxAnnouncedAssumption
<1>1. ASSUME NEW c \in Callers, Admit(c) PROVE TypeOK'
  BY <1>1 DEF TypeOK, Admit, Goto, environment, Steps
<1>2. ASSUME NEW c \in Callers, Answer(c) PROVE TypeOK'
  BY <1>2 DEF TypeOK, Answer, Goto, environment, Steps, Answers
<1>3. ASSUME NEW c \in Callers, Proceed(c) PROVE TypeOK'
  BY <1>3 DEF TypeOK, Proceed, Goto, environment, Steps, ReleaseReservation, Withdrawn
<1>4. ASSUME NEW c \in Callers, Acquire(c) PROVE TypeOK'
  BY <1>4 DEF TypeOK, Acquire, Goto, environment, Steps, ReleaseReservation, Withdrawn
<1>5. ASSUME NEW c \in Callers, Confirm(c) PROVE TypeOK'
  <2>1. step' \in [Callers -> Steps]
    BY <1>5 DEF TypeOK, Confirm, Goto, Steps
  <2>2. pending' \in [caller : Callers, phase : {"pre-owner", "owner-acquired"}]
                        \cup {NoPending}
    BY <1>5 DEF TypeOK, Confirm, Withdrawn, NoPending
  <2> QED
    BY <1>5, <2>1, <2>2 DEF TypeOK, Confirm, environment
<1>6. ASSUME NEW c \in Callers, CloseLate(c) PROVE TypeOK'
  BY <1>6 DEF TypeOK, CloseLate, Goto, Steps, Gone, Kept
<1>7. ASSUME NEW c \in Callers, ProceedAgain(c) PROVE TypeOK'
  BY <1>7 DEF TypeOK, ProceedAgain, Goto, environment, Steps, Withdrawn
<1>8. ASSUME NEW c \in Callers, CloseRejected(c) PROVE TypeOK'
  BY <1>8 DEF TypeOK, CloseRejected, Goto, Steps, Gone, Kept, ReleaseReservation, Withdrawn
<1>9. ASSUME NEW c \in Callers, Close(c) PROVE TypeOK'
  BY <1>9 DEF TypeOK, Close, Goto, Steps, Gone, Kept
<1>10. ASSUME CancelPendingAcquisition PROVE TypeOK'
  BY <1>10 DEF TypeOK, CancelPendingAcquisition, Goto, environment, Steps, NoPending
<1>11. ASSUME Quarantine PROVE TypeOK'
  BY <1>11 DEF TypeOK, Quarantine
<1>12. ASSUME AnnouncePending PROVE TypeOK'
  BY <1>12 DEF TypeOK, AnnouncePending
<1>13. ASSUME ReleasePending PROVE TypeOK'
  BY <1>13 DEF TypeOK, ReleasePending
<1>14. ASSUME WorkArrives \/ WorkSettles PROVE TypeOK'
  BY <1>14 DEF TypeOK, WorkArrives, WorkSettles
<1>15. ASSUME UNCHANGED vars PROVE TypeOK'
  BY <1>15 DEF TypeOK, vars
<1> QED
  BY <1>1, <1>2, <1>3, <1>4, <1>5, <1>6, <1>7, <1>8, <1>9, <1>10, <1>11, <1>12, <1>13,
     <1>14, <1>15
     DEF Next, Continue

LEMMA OwnershipStep == AdmissionInv /\ [Next]_vars => Ownership'
<1> SUFFICES ASSUME TypeOK, Ownership, [Next]_vars PROVE Ownership'
  BY DEF AdmissionInv
<1> USE NoCallerAssumption
    DEF Ownership, OwnerKeepsReservation, PendingIsUnconfirmed, LateHasLost,
        NoForgottenReservation, Confirmed, At, Goto, TypeOK
<1>1. ASSUME NEW c \in Callers, Admit(c) PROVE Ownership'
  BY <1>1 DEF Admit, Preempts, environment
<1>2. ASSUME NEW c \in Callers, Answer(c) PROVE Ownership'
  BY <1>2 DEF Answer, environment
<1>3. ASSUME NEW c \in Callers, Proceed(c) PROVE Ownership'
  BY <1>3 DEF Proceed, environment, ReleaseReservation, Withdrawn, NoPending
<1>4. ASSUME NEW c \in Callers, Acquire(c) PROVE Ownership'
  BY <1>4 DEF Acquire, environment, ReleaseReservation, Withdrawn, NoPending
<1>5. ASSUME NEW c \in Callers, Confirm(c) PROVE Ownership'
  BY <1>5 DEF Confirm, environment, Withdrawn, NoPending
<1>6. ASSUME NEW c \in Callers, CloseLate(c) PROVE Ownership'
  BY <1>6 DEF CloseLate
<1>7. ASSUME NEW c \in Callers, ProceedAgain(c) PROVE Ownership'
  BY <1>7 DEF ProceedAgain, environment, IncomingPending, Withdrawn, NoPending
<1>8. ASSUME NEW c \in Callers, CloseRejected(c) PROVE Ownership'
  BY <1>8 DEF CloseRejected, ReleaseReservation, Withdrawn, NoPending
<1>9. ASSUME NEW c \in Callers, Close(c) PROVE Ownership'
  BY <1>9 DEF Close
<1>10. ASSUME CancelPendingAcquisition PROVE Ownership'
  BY <1>10 DEF CancelPendingAcquisition, environment, NoPending
<1>11. ASSUME UNCHANGED <<reservation, pending, step>>, quarantined => quarantined'
       PROVE  Ownership'
  BY <1>11
<1> QED
  BY <1>1, <1>2, <1>3, <1>4, <1>5, <1>6, <1>7, <1>8, <1>9, <1>10, <1>11
     DEF Next, Continue, Quarantine, AnnouncePending, ReleasePending, WorkArrives,
         WorkSettles, vars

LEMMA Invariance == Spec => []AdmissionInv
<1>1. AdmissionInv /\ [Next]_vars => AdmissionInv'
  BY TypeStep, OwnershipStep DEF AdmissionInv
<1> QED
  BY InitInv, <1>1, PTL DEF Spec

(* The state of the dispatcher stays within its types.                      *)
THEOREM DispatcherTyped == Spec => []TypeOK
  BY Invariance, PTL DEF AdmissionInv

(* A caller whose owner is confirmed holds the dispatcher until it gives it    *)
(* back itself: no takeover and no cancellation reaches it.                  *)
THEOREM OwnerKeepsIt == Spec => []OwnerKeepsReservation
  BY Invariance, PTL DEF AdmissionInv, Ownership

(* Two sessions are never open at once, on any lanes.                        *)
THEOREM OnlyOneSession == Spec => []OneSession
<1>1. AdmissionInv => OneSession
  BY DEF AdmissionInv, Ownership, OwnerKeepsReservation, OneSession, Confirmed, At
<1> QED
  BY Invariance, <1>1, PTL

(* The dispatcher is never left busy by an attempt that is over, unless it is *)
(* quarantined.                                                            *)
THEOREM NoReservationForgotten == Spec => []NoForgottenReservation
  BY Invariance, PTL DEF AdmissionInv, Ownership

(* The dispatcher (SingleDispatcherAdmission) is held by one session at most, *)
(* and by nobody whose attempt is over.                                      *)
THEOREM AdmissionHolds == Spec => []AdmissionIsExact
  BY OnlyOneSession, NoReservationForgotten, PTL DEF AdmissionIsExact

-----------------------------------------------------------------------------
(* Owners that were not proven released.                                    *)

OwnersAccounted ==
  \A c \in owners : step[c] \in {"acquired", "late"} \cup Confirmed \/ quarantined

(* When the close of a late owner does not throw, every owner is held by an   *)
(* attempt or a session, proven released, or the dispatcher is quarantined.   *)
THEOREM UnprovenQuarantines ==
  ASSUME "throws" \notin LateCloseResults
  PROVE  Spec => []UnprovenIsQuarantined
<1>1. Init => OwnersAccounted
  BY DEF Init, OwnersAccounted
<1>2. AdmissionInv /\ OwnersAccounted /\ [Next]_vars => OwnersAccounted'
  <2> SUFFICES ASSUME TypeOK, OwnersAccounted, [Next]_vars PROVE OwnersAccounted'
    BY DEF AdmissionInv
  <2> USE DEF OwnersAccounted, Confirmed, At, Goto, TypeOK
  <2>1. ASSUME NEW c \in Callers, Admit(c) \/ Answer(c) PROVE OwnersAccounted'
    BY <2>1 DEF Admit, Answer, environment
  <2>2. ASSUME NEW c \in Callers, Proceed(c) PROVE OwnersAccounted'
    BY <2>2 DEF Proceed, environment
  <2>3. ASSUME NEW c \in Callers, Acquire(c) PROVE OwnersAccounted'
    BY <2>3 DEF Acquire, environment
  <2>4. ASSUME NEW c \in Callers, Confirm(c) \/ ProceedAgain(c) PROVE OwnersAccounted'
    BY <2>4 DEF Confirm, ProceedAgain, environment
  <2>5. ASSUME NEW c \in Callers, CloseLate(c) PROVE OwnersAccounted'
    BY <2>5, ResultsAssumption DEF CloseLate, Gone, Kept, Results
  <2>6. ASSUME NEW c \in Callers, CloseRejected(c) PROVE OwnersAccounted'
    BY <2>6 DEF CloseRejected, Gone, Kept
  <2>7. ASSUME NEW c \in Callers, Close(c) PROVE OwnersAccounted'
    BY <2>7 DEF Close, Gone, Kept
  <2>8. ASSUME CancelPendingAcquisition PROVE OwnersAccounted'
    BY <2>8 DEF CancelPendingAcquisition, environment
  <2>9. ASSUME UNCHANGED <<owners, step>>, quarantined => quarantined'
        PROVE  OwnersAccounted'
    BY <2>9
  <2> QED
    BY <2>1, <2>2, <2>3, <2>4, <2>5, <2>6, <2>7, <2>8, <2>9
       DEF Next, Continue, Quarantine, AnnouncePending, ReleasePending, WorkArrives,
           WorkSettles, vars
<1>3. OwnersAccounted => UnprovenIsQuarantined
  BY DEF OwnersAccounted, UnprovenIsQuarantined, Confirmed, At
<1> QED
  BY <1>1, <1>2, <1>3, Invariance, PTL DEF Spec

-----------------------------------------------------------------------------
(* p0 yields.                                                              *)

(* Work that has been in the ledger since before an owner was acquired is     *)
(* still there, and a second query that came back clear saw that it is not.    *)
OverdueIsKnown ==
  /\ overdue # {} => durable
  /\ \A c \in Callers : At(c, "answeredAgain") /\ answer[c] = "clear" => c \notin overdue

LEMMA OverdueStep == TypeOK /\ OverdueIsKnown /\ [Next]_vars => OverdueIsKnown'
<1> SUFFICES ASSUME TypeOK, OverdueIsKnown, [Next]_vars PROVE OverdueIsKnown'
  OBVIOUS
<1> USE DEF OverdueIsKnown, At, Goto, TypeOK
<1>1. ASSUME NEW c \in Callers, Admit(c) PROVE OverdueIsKnown'
  BY <1>1 DEF Admit, environment
<1>2. ASSUME NEW c \in Callers, Answer(c) PROVE OverdueIsKnown'
  BY <1>2 DEF Answer, environment
<1>3. ASSUME NEW c \in Callers, Proceed(c) \/ Confirm(c) \/ ProceedAgain(c)
      PROVE  OverdueIsKnown'
  BY <1>3 DEF Proceed, Confirm, ProceedAgain, environment
<1>4. ASSUME NEW c \in Callers, Acquire(c) PROVE OverdueIsKnown'
  BY <1>4 DEF Acquire, environment
<1>5. ASSUME NEW c \in Callers, CloseLate(c) \/ CloseRejected(c) \/ Close(c)
      PROVE  OverdueIsKnown'
  BY <1>5 DEF CloseLate, CloseRejected, Close, Gone, Kept
<1>6. ASSUME CancelPendingAcquisition PROVE OverdueIsKnown'
  BY <1>6 DEF CancelPendingAcquisition, environment
<1>7. ASSUME WorkSettles PROVE OverdueIsKnown'
  BY <1>7 DEF WorkSettles
<1>8. ASSUME UNCHANGED <<overdue, step, answer>>, durable => durable'
      PROVE  OverdueIsKnown'
  BY <1>8
<1> QED
  BY <1>1, <1>2, <1>3, <1>4, <1>5, <1>6, <1>7, <1>8
     DEF Next, Continue, Quarantine, AnnouncePending, ReleasePending, WorkArrives, vars

LEMMA OpenYields ==
  ASSUME TypeOK, OverdueIsKnown, Next, NEW c \in Callers, Lane[c] = "p0",
         ~At(c, "open"), At(c, "open")'
  PROVE  announced = 0 /\ c \notin overdue
<1>1. ProceedAgain(c) /\ ~IncomingPending(c)
  <2> USE DEF At, Goto, TypeOK
  <2>1. ASSUME NEW d \in Callers, Admit(d) \/ Answer(d) \/ Proceed(d) \/ Acquire(d)
                                     \/ CloseLate(d) \/ CloseRejected(d) \/ Close(d)
        PROVE  FALSE
    BY <2>1 DEF Admit, Answer, Proceed, Acquire, CloseLate, CloseRejected, Close
  <2>2. ASSUME NEW d \in Callers, Confirm(d) PROVE FALSE
    BY <2>2 DEF Confirm
  <2>3. ASSUME NEW d \in Callers, ProceedAgain(d) PROVE ProceedAgain(c) /\ ~IncomingPending(c)
    BY <2>3 DEF ProceedAgain
  <2>4. ASSUME CancelPendingAcquisition PROVE FALSE
    BY <2>4 DEF CancelPendingAcquisition
  <2> QED
    BY <2>1, <2>2, <2>3, <2>4
       DEF Next, Continue, Quarantine, AnnouncePending, ReleasePending, WorkArrives,
           WorkSettles
<1>2. announced = 0 /\ answer[c] = "clear"
  BY <1>1 DEF IncomingPending, TypeOK
<1> QED
  BY <1>1, <1>2 DEF OverdueIsKnown, ProceedAgain

(* A scheduled cycle never starts over a reply that is announced, or that the *)
(* ledger has held since before the cycle had its owner.                     *)
THEOREM P0Yields == Spec => P0YieldsToReplies
<1>1. Init => OverdueIsKnown
  BY DEF Init, OverdueIsKnown, At
<1>2. TypeOK /\ OverdueIsKnown /\ [Next]_vars =>
        [\A c \in Callers :
           Lane[c] = "p0" /\ ~At(c, "open") /\ At(c, "open")' =>
             announced = 0 /\ c \notin overdue]_vars
  BY OpenYields
<1> QED
  BY <1>1, <1>2, OverdueStep, DispatcherTyped, PTL DEF Spec, P0YieldsToReplies

=============================================================================
