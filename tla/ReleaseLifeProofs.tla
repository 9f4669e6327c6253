--------------------------- MODULE ReleaseLifeProofs ---------------------------
(***************************************************************************)
(* What holds of the life of a release for any number of commands,         *)
(* acceptors, releases, failures and messages in a chat: the acceptance    *)
(* of the installed one and the consent it earns; and the transactions     *)
(* that install it, roll it back and recover, which implement              *)
(* ReleaseSwitch.                                                          *)
(***************************************************************************)
EXTENDS ReleaseTransaction, SupervisedAcceptance, RuntimeInstall, FiniteSetTheorems, TLAPS

-----------------------------------------------------------------------------
(* The acceptance.  Its types first.                                         *)
Statuses ==
  {"invocation-started", "submit-started", "submitted-uncertain", "verified", "failed"}
Texts == Bindings \union {Foreign}

Baselines == [count : Nat, text : Texts \union {NoBinding}, nth : Nat]

Receipts ==
  [status : {NoBinding}] \union
  [status : Statuses, invocations : Nat, submits : {0, 1}, baseline : Baselines,
   seen : BOOLEAN, released : BOOLEAN]

StagesUnderWay ==
  [at : Position, command : Acceptors, stage : Stages, binding : Bindings,
   mode : {"execute", "recover"}, invocations : Nat, submits : {0, 1},
   baseline : Baselines, written : BOOLEAN, failed : BOOLEAN, seen : BOOLEAN,
   released : BOOLEAN]

Requests ==
  {NoRun} \union [at : {"begin"}, stage : Stages, binding : Bindings]
          \union [at : {"consent"}, binding : Bindings]

AcceptanceTyped ==
  /\ file \in [binding : Bindings \union {NoBinding}, stages : [Stages -> Receipts]]
  /\ asked \in [Acceptors -> Requests]
  /\ run \in {NoRun} \union StagesUnderWay
  /\ chat \in [Sending -> Seq(Texts)]
  /\ composer \in [Sending -> Bindings \union {NoBinding}]
  /\ orphans \in SUBSET [stage : Stages, binding : Bindings]
  /\ consent \in Bindings \union {NoBinding} /\ installed \in Bindings
  /\ failures \in 0 .. MaxFailures /\ switches \in 0 .. MaxSwitches
  /\ landed \in [Sending -> Nat]

LEMMA InitTyped == AcceptanceInit => AcceptanceTyped
BY AcceptanceAssumption
   DEF AcceptanceInit, AcceptanceTyped, NoFile, NoRun, Receipts, Requests, Sending, Texts

LEMMA UnderWay ==
  ASSUME AcceptanceTyped, run # NoRun
  PROVE  run \in StagesUnderWay
BY DEF AcceptanceTyped

LEMMA PositionOfNoRun == NoRun.at = "over"
BY DEF NoRun

LEMMA VisibleTyped ==
  ASSUME AcceptanceTyped, NEW s \in Stages
  PROVE  /\ chat[Chat(s)] \in Seq(Texts)
         /\ Visible(s) \in Seq(Texts)
         /\ Chat(s) \in Sending
<1>1. Chat(s) \in Sending
  BY DEF Chat, Sending, Stages
<1>2. chat[Chat(s)] \in Seq(Texts)
  BY <1>1 DEF AcceptanceTyped
<1>3. Visible(s) \in Seq(Texts)
  <2> DEFINE c == chat[Chat(s)]
             lo == IF Len(c) > Window THEN Len(c) - Window + 1 ELSE 1
  <2>1. Len(c) \in Nat /\ lo \in 1 .. Len(c) + 1
    BY <1>2, AcceptanceAssumption
  <2>2. SubSeq(c, lo, Len(c)) \in Seq(Texts)
    BY <1>2, <2>1
  <2> QED BY <2>2 DEF Visible
<1> QED BY <1>1, <1>2, <1>3

LEMMA OccurrencesTyped ==
  ASSUME NEW messages \in Seq(Texts), NEW text
  PROVE  Occurrences(messages, text) \in Nat
<1> DEFINE I == {i \in DOMAIN messages : messages[i] = text}
<1>1. IsFiniteSet(DOMAIN messages)
  BY FS_Interval
<1>2. IsFiniteSet(I)
  BY <1>1, FS_Subset
<1> QED BY <1>2, FS_CardinalityType DEF Occurrences

LEMMA BaselineTyped ==
  ASSUME AcceptanceTyped, NEW s \in Stages, NEW b
  PROVE  Baseline(s, b) \in Baselines /\ Baseline(s, b).count = Occurrences(Visible(s), b)
<1> DEFINE seen == Visible(s)
<1>1. seen \in Seq(Texts)
  BY VisibleTyped
<1>2. CASE seen = <<>>
  <2>1. Baseline(s, b) = NoBaseline
    BY <1>2 DEF Baseline
  <2>2. {i \in DOMAIN seen : seen[i] = b} = {}
    BY <1>2
  <2>3. Occurrences(seen, b) = 0
    BY <2>2, FS_EmptySet DEF Occurrences
  <2> QED BY <2>1, <2>3 DEF NoBaseline, Baselines
<1>3. CASE seen # <<>>
  <2>1. Baseline(s, b) = [count |-> Occurrences(seen, b), text |-> Last(seen),
                          nth |-> Occurrences(seen, Last(seen))]
    BY <1>3 DEF Baseline
  <2>2. Last(seen) \in Texts
    BY <1>1, <1>3 DEF Last
  <2>3. Occurrences(seen, b) \in Nat /\ Occurrences(seen, Last(seen)) \in Nat
    BY <1>1, OccurrencesTyped
  <2> QED BY <2>1, <2>2, <2>3 DEF Baselines
<1> QED BY <1>2, <1>3

\* What a step may make of the stage under way.
LEMMA GivesUpTyped ==
  ASSUME run \in StagesUnderWay, GivesUp
  PROVE  /\ run' \in StagesUnderWay
         /\ run' = [run EXCEPT !.at = CleansUp, !.failed = TRUE]
         /\ CleansUp \in {"clear", "close"}
BY DEF StagesUnderWay, GivesUp, CleansUp, Position

LEMMA PressesTyped ==
  ASSUME AcceptanceTyped, NEW s \in Stages, NEW b \in Bindings, Presses(s, b)
  PROVE  /\ chat' \in [Sending -> Seq(Texts)]
         /\ composer' \in [Sending -> Bindings \union {NoBinding}]
         /\ landed' \in [Sending -> Nat]
<1>1. Chat(s) \in Sending
  BY VisibleTyped
<1>2. chat[Chat(s)] \in Seq(Texts)
  BY VisibleTyped
<1>3. Append(chat[Chat(s)], b) \in Seq(Texts)
  BY <1>2 DEF Texts
<1>4. chat' \in [Sending -> Seq(Texts)]
  BY <1>3 DEF Presses, AcceptanceTyped
<1>5. composer' \in [Sending -> Bindings \union {NoBinding}]
  BY DEF Presses, AcceptanceTyped
<1>6. landed' \in [Sending -> Nat]
  <2>1. landed' = landed \/ landed' = [landed EXCEPT ![s] = @ + 1]
    BY DEF Presses
  <2>2. landed \in [Sending -> Nat]
    BY DEF AcceptanceTyped
  <2>3. CASE s \in Sending
    <3>1. landed[s] + 1 \in Nat
      BY <2>2, <2>3
    <3> QED BY <2>1, <2>2, <3>1
  <2>4. CASE s \notin Sending
    <3>1. [landed EXCEPT ![s] = @ + 1] = landed
      BY <2>2, <2>4
    <3> QED BY <2>1, <2>2, <3>1
  <2> QED BY <2>3, <2>4
<1> QED BY <1>4, <1>5, <1>6

LEMMA ReceiptTyped ==
  ASSUME AcceptanceTyped, NEW s \in Stages
  PROVE  /\ Receipt(s) \in Receipts
         /\ Receipt(s).status # NoBinding =>
              Receipt(s) \in [status : Statuses, invocations : Nat, submits : {0, 1},
                              baseline : Baselines, seen : BOOLEAN, released : BOOLEAN]
         /\ Invocations(s) \in Nat
         /\ Receipt(s).status \in Statuses \union {NoBinding}
<1>1. Receipt(s) \in Receipts
  BY DEF AcceptanceTyped, Receipt
<1>2. Receipt(s).status # NoBinding =>
        Receipt(s) \in [status : Statuses, invocations : Nat, submits : {0, 1},
                        baseline : Baselines, seen : BOOLEAN, released : BOOLEAN]
  BY <1>1 DEF Receipts
<1> QED BY <1>1, <1>2 DEF Invocations, Receipts

LEMMA PutTyped ==
  ASSUME AcceptanceTyped, NEW s \in Stages, NEW receipt \in Receipts, Put(s, receipt)
  PROVE  /\ file' \in [binding : Bindings \union {NoBinding}, stages : [Stages -> Receipts]]
         /\ file'.binding = file.binding
         /\ file'.stages[s] = receipt
         /\ \A t \in Stages : t # s => file'.stages[t] = file.stages[t]
BY DEF AcceptanceTyped, Put

LEMMA StartedTyped == ASSUME NEW n \in Nat PROVE Started(n) \in Receipts
BY DEF Started, Receipts, Statuses, NoBaseline, Baselines

LEMMA FenceTyped ==
  ASSUME AcceptanceTyped, run \in StagesUnderWay, Fence
  PROVE  /\ file' \in [binding : Bindings \union {NoBinding}, stages : [Stages -> Receipts]]
         /\ file'.binding = file.binding
         /\ file'.stages[ThisStage].status = "submit-started"
         /\ file'.stages[ThisStage].baseline = run.baseline
         /\ \A t \in Stages : t # ThisStage => file'.stages[t] = file.stages[t]
<1> DEFINE receipt == [Started(run.invocations) EXCEPT !.status = "submit-started",
                                                       !.baseline = run.baseline]
<1>1. run.invocations \in Nat /\ run.baseline \in Baselines /\ ThisStage \in Stages
  BY DEF StagesUnderWay, ThisStage
<1>2. /\ receipt \in Receipts
      /\ receipt.status = "submit-started" /\ receipt.baseline = run.baseline
  BY <1>1 DEF Started, Receipts, Statuses
<1>3. Put(ThisStage, receipt)
  BY DEF Fence
<1> QED BY <1>1, <1>2, <1>3, PutTyped

LEMMA RunsTyped ==
  ASSUME AcceptanceTyped, NEW p \in Acceptors, NEW s \in Stages, NEW b \in Bindings,
         NEW mode \in {"execute", "recover"}, NEW n \in Nat, NEW submits \in {0, 1},
         NEW base \in Baselines, Runs(p, s, b, mode, n, submits, base)
  PROVE  /\ run' \in StagesUnderWay
         /\ asked' \in [Acceptors -> Requests]
<1>1. run' \in StagesUnderWay
  BY DEF Runs, StagesUnderWay, Position
<1>2. asked' \in [Acceptors -> Requests]
  BY DEF Runs, AcceptanceTyped, Requests
<1> QED BY <1>1, <1>2

LEMMA BeginsTyped ==
  ASSUME AcceptanceTyped, NEW p \in Acceptors, NEW s \in Stages, NEW b \in Bindings,
         BeginsAfresh(p, b) \/ BeginsAgain(p, s, b) \/ BeginsReadback(p, s, b)
  PROVE  AcceptanceTyped'
<1>1. NoBaseline \in Baselines
  BY DEF NoBaseline, Baselines
<1>2. CASE BeginsAfresh(p, b)
  <2>1. Started(1) \in Receipts
    BY StartedTyped
  <2>2. file' \in [binding : Bindings \union {NoBinding}, stages : [Stages -> Receipts]]
    BY <1>2, <2>1 DEF BeginsAfresh, NoFile, Receipts
  <2>3. landed' \in [Sending -> Nat]
    BY <1>2 DEF BeginsAfresh
  <2>4. "A" \in Stages
    BY DEF Stages, Sending
  <2>5. run' \in StagesUnderWay /\ asked' \in [Acceptors -> Requests]
    BY <1>1, <1>2, <2>4, RunsTyped DEF BeginsAfresh
  <2> QED BY <1>2, <2>2, <2>3, <2>5 DEF BeginsAfresh, Runs, AcceptanceTyped
<1>3. CASE BeginsAgain(p, s, b)
  <2>1. Invocations(s) + 1 \in Nat
    BY ReceiptTyped
  <2>2. Started(Invocations(s) + 1) \in Receipts
    BY <2>1, StartedTyped
  <2>3. file' \in [binding : Bindings \union {NoBinding}, stages : [Stages -> Receipts]]
    BY <1>3, <2>2, PutTyped DEF BeginsAgain
  <2>5. run' \in StagesUnderWay /\ asked' \in [Acceptors -> Requests]
    BY <1>1, <1>3, <2>1, RunsTyped DEF BeginsAgain
  <2> QED BY <1>3, <2>3, <2>5 DEF BeginsAgain, Runs, AcceptanceTyped
<1>4. CASE BeginsReadback(p, s, b)
  <2>1. Receipt(s).status # NoBinding
    BY <1>4 DEF BeginsReadback, NeedsReadback, NoBinding
  <2>2. Receipt(s) \in [status : Statuses, invocations : Nat, submits : {0, 1},
                        baseline : Baselines, seen : BOOLEAN, released : BOOLEAN]
    BY <2>1, ReceiptTyped
  <2>3. [Receipt(s) EXCEPT !.invocations = @ + 1] \in Receipts
    BY <2>2 DEF Receipts
  <2>4. file' \in [binding : Bindings \union {NoBinding}, stages : [Stages -> Receipts]]
    BY <1>4, <2>3, PutTyped DEF BeginsReadback
  <2>5. Invocations(s) + 1 \in Nat
    BY ReceiptTyped
  <2>6. run' \in StagesUnderWay /\ asked' \in [Acceptors -> Requests]
    BY <1>4, <2>2, <2>5, RunsTyped DEF BeginsReadback
  <2> QED BY <1>4, <2>4, <2>6 DEF BeginsReadback, Runs, AcceptanceTyped
<1> QED BY <1>2, <1>3, <1>4

LEMMA OutcomeTyped == Outcome \in Statuses
BY DEF Outcome, Statuses

LEMMA DraftTyped ==
  ASSUME AcceptanceTyped, run \in StagesUnderWay,
         NEW draft \in Bindings \union {NoBinding},
         composer' = [composer EXCEPT ![Chat(ThisStage)] = draft]
  PROVE  composer' \in [Sending -> Bindings \union {NoBinding}]
BY DEF AcceptanceTyped

LEMMA StageStepTyped ==
  ASSUME AcceptanceAssumption, AcceptanceTyped, StageStep
  PROVE  AcceptanceTyped'
<1> SUFFICES ASSUME run \in StagesUnderWay
             PROVE  AcceptanceTyped'
  <2>1. run # NoRun
    <3>1. run.at # "over" \/ run # NoRun
      BY DEF StageStep, Admits, Looks, Aborts, Writes, TakesBaseline, Fences, Submits,
             ReadsBack, ClearsDraft, Closes, Saves, Leaves, AdmitFails, CallFails,
             FenceFails, WriteFails, SubmitFails, ClearFails, CloseFails, SaveFails,
             AcceptorKilled, RunAt
    <3> QED BY <3>1, PositionOfNoRun
  <2> QED BY <2>1, UnderWay
<1> USE DEF RunAt
<1>run. ASSUME NEW r \in StagesUnderWay
        PROVE  /\ \A w \in Position : [r EXCEPT !.at = w] \in StagesUnderWay
               /\ \A w \in Position : [r EXCEPT !.at = w, !.failed = TRUE] \in StagesUnderWay
               /\ \A w \in Position, v \in BOOLEAN :
                    [r EXCEPT !.at = w, !.written = v] \in StagesUnderWay
               /\ \A w \in Position : [r EXCEPT !.at = w, !.released = TRUE] \in StagesUnderWay
  BY DEF StagesUnderWay
<1>mishap. Mishap => failures' \in 0 .. MaxFailures
  BY AcceptanceAssumption DEF Mishap, AcceptanceTyped
<1>stage. ThisStage \in Stages /\ run.binding \in Bindings
  BY DEF StagesUnderWay, ThisStage
<1>1. CASE Admits \/ Leaves
  <2>1. run' \in {NoRun} \union StagesUnderWay
    BY <1>1, <1>run DEF Admits, Leaves, Goes, Position
  <2> QED BY <1>1, <2>1 DEF Admits, Leaves, Driven, AcceptanceTyped
<1>2. CASE Looks \/ Aborts
  <2>1. run' \in StagesUnderWay
    BY <1>2, <1>run, GivesUpTyped DEF Looks, Aborts, Goes, Position
  <2> QED BY <1>2, <2>1 DEF Looks, Aborts, Driven, AcceptanceTyped
<1>3. CASE Writes
  <2>1. run' \in StagesUnderWay
    BY <1>3, <1>run DEF Writes, Position
  <2>2. composer' \in [Sending -> Bindings \union {NoBinding}]
    BY <1>3, <1>stage, DraftTyped DEF Writes
  <2> QED BY <1>3, <2>1, <2>2 DEF Writes, Driven, AcceptanceTyped
<1>4. CASE TakesBaseline
  <2>1. Baseline(ThisStage, run.binding) \in Baselines
    BY <1>stage, BaselineTyped
  <2>2. run' \in StagesUnderWay
    BY <1>4, <2>1 DEF TakesBaseline, StagesUnderWay, Position
  <2> QED BY <1>4, <2>2 DEF TakesBaseline, Driven, AcceptanceTyped
<1>5. CASE Fences
  <2>1. run' \in StagesUnderWay
    BY <1>5 DEF Fences, StagesUnderWay, Position
  <2>2. file' \in [binding : Bindings \union {NoBinding}, stages : [Stages -> Receipts]]
    BY <1>5, FenceTyped DEF Fences
  <2> QED BY <1>5, <2>1, <2>2 DEF Fences, Driven, AcceptanceTyped
<1>6. CASE Submits
  <2>1. run' \in StagesUnderWay
    BY <1>6, <1>run, GivesUpTyped DEF Submits, Position
  <2>2. /\ chat' \in [Sending -> Seq(Texts)]
        /\ composer' \in [Sending -> Bindings \union {NoBinding}]
        /\ landed' \in [Sending -> Nat]
    BY <1>6, <1>stage, PressesTyped DEF Submits, AcceptanceTyped
  <2> QED BY <1>6, <2>1, <2>2 DEF Submits, Driven, AcceptanceTyped
<1>7. CASE ReadsBack
  <2> DEFINE seen == ReadsAfter(ThisStage, run.binding, run.baseline)
  <2>1. seen \in BOOLEAN
    BY DEF ReadsAfter
  <2>2. run' = [run EXCEPT !.at = "close", !.seen = seen,
                           !.failed = @ \/ (run.mode = "execute" /\ ~seen)]
    BY <1>7 DEF ReadsBack
  <2>3. run' \in StagesUnderWay
    <3> HIDE DEF seen
    <3> QED BY <2>1, <2>2 DEF StagesUnderWay, Position
  <2> QED BY <1>7, <2>3 DEF ReadsBack, Driven, AcceptanceTyped
<1>8. CASE ClearsDraft \/ Closes
  <2>1. run' \in StagesUnderWay
    BY <1>8, <1>run DEF ClearsDraft, Closes, Position
  <2>2. composer' \in [Sending -> Bindings \union {NoBinding}]
    BY <1>8, DraftTyped DEF ClearsDraft, Closes, AcceptanceTyped
  <2> QED BY <1>8, <2>1, <2>2 DEF ClearsDraft, Closes, Driven, AcceptanceTyped
<1>9. CASE Saves
  <2>1. [status |-> Outcome, invocations |-> run.invocations, submits |-> run.submits,
         baseline |-> run.baseline, seen |-> run.seen, released |-> run.released] \in Receipts
    <3> HIDE DEF Outcome
    <3> QED BY OutcomeTyped DEF Receipts, StagesUnderWay
  <2>2. file' \in [binding : Bindings \union {NoBinding}, stages : [Stages -> Receipts]]
    BY <1>9, <1>stage, <2>1, PutTyped DEF Saves
  <2> QED BY <1>9, <2>2 DEF Saves, Driven, AcceptanceTyped
<1>10. CASE AdmitFails
  <2>1. run' \in StagesUnderWay
    BY <1>10, <1>run DEF AdmitFails, Position
  <2> QED BY <1>10, <1>mishap, <2>1 DEF AdmitFails, Driven, AcceptanceTyped
<1>11. CASE CallFails
  <2>1. run' \in StagesUnderWay
    BY <1>11, GivesUpTyped DEF CallFails
  <2> QED BY <1>11, <1>mishap, <2>1 DEF CallFails, Driven, AcceptanceTyped
<1>12. CASE FenceFails
  <2>1. run' \in StagesUnderWay
    BY <1>12, GivesUpTyped DEF FenceFails
  <2>2. file' \in [binding : Bindings \union {NoBinding}, stages : [Stages -> Receipts]]
    BY <1>12, FenceTyped DEF FenceFails, AcceptanceTyped
  <2> QED BY <1>12, <1>mishap, <2>1, <2>2 DEF FenceFails, Driven, AcceptanceTyped
<1>13. CASE WriteFails
  <2>1. run' \in StagesUnderWay
    BY <1>13, GivesUpTyped DEF WriteFails
  <2>2. composer' \in [Sending -> Bindings \union {NoBinding}]
    BY <1>13, <1>stage, DraftTyped DEF WriteFails
  <2> QED BY <1>13, <1>mishap, <2>1, <2>2 DEF WriteFails, Driven, AcceptanceTyped
<1>14. CASE SubmitFails
  <2>1. run' \in StagesUnderWay
    BY <1>14, GivesUpTyped DEF SubmitFails
  <2>2. /\ chat' \in [Sending -> Seq(Texts)]
        /\ composer' \in [Sending -> Bindings \union {NoBinding}]
        /\ landed' \in [Sending -> Nat]
    BY <1>14, <1>stage, PressesTyped DEF SubmitFails, AcceptanceTyped
  <2> QED BY <1>14, <1>mishap, <2>1, <2>2 DEF SubmitFails, Driven, AcceptanceTyped
<1>15. CASE ClearFails \/ CloseFails
  <2>1. run' \in StagesUnderWay
    BY <1>15, <1>run DEF ClearFails, CloseFails, Goes, Position
  <2>2. composer' \in [Sending -> Bindings \union {NoBinding}]
    BY <1>15, DraftTyped DEF ClearFails, CloseFails, AcceptanceTyped
  <2>3. Mishap
    BY <1>15 DEF ClearFails, CloseFails
  <2>4. /\ UNCHANGED <<file, chat, landed>>
        /\ Driven
    BY <1>15 DEF ClearFails, CloseFails
  <2> QED BY <1>mishap, <2>1, <2>2, <2>3, <2>4 DEF Driven, AcceptanceTyped
<1>16. CASE SaveFails
  BY <1>16, <1>mishap DEF SaveFails, Driven, AcceptanceTyped
<1>17. CASE AcceptorKilled
  <2>1. orphans' \in SUBSET [stage : Stages, binding : Bindings]
    BY <1>17, <1>stage DEF AcceptorKilled, AcceptanceTyped
  <2> QED BY <1>17, <1>mishap, <2>1 DEF AcceptorKilled, AcceptanceTyped
<1> QED
  BY <1>1, <1>2, <1>3, <1>4, <1>5, <1>6, <1>7, <1>8, <1>9, <1>10, <1>11, <1>12, <1>13,
     <1>14, <1>15, <1>16, <1>17 DEF StageStep

LEMMA AcceptanceTypedStep ==
  ASSUME AcceptanceTyped, [AcceptanceNext]_acceptanceVars
  PROVE  AcceptanceTyped'
<1>1. CASE UNCHANGED acceptanceVars
  BY <1>1 DEF acceptanceVars, AcceptanceTyped
<1>2. ASSUME NEW p \in Acceptors, NEW s \in Stages, Asks(p, s)
      PROVE  AcceptanceTyped'
  <2>1. asked' \in [Acceptors -> Requests]
    BY <1>2 DEF Asks, AcceptanceTyped, Requests
  <2> QED BY <1>2, <2>1 DEF Asks, AcceptanceTyped
<1>3. ASSUME NEW p \in Acceptors, NEW s \in Stages, NEW b \in Bindings,
             BeginsAfresh(p, b) \/ BeginsAgain(p, s, b) \/ BeginsReadback(p, s, b)
      PROVE  AcceptanceTyped'
  BY <1>3, BeginsTyped
<1>4. ASSUME NEW p \in Acceptors, NEW s \in Stages, NEW b \in Bindings, TurnedAway(p, s, b)
      PROVE  AcceptanceTyped'
  <2>1. asked' \in [Acceptors -> Requests]
    BY <1>4 DEF TurnedAway, AcceptanceTyped, Requests
  <2> QED BY <1>4, <2>1 DEF TurnedAway, AcceptanceTyped
<1>5. ASSUME NEW p \in Acceptors, Finalizes(p)
      PROVE  AcceptanceTyped'
  <2>1. asked' \in [Acceptors -> Requests]
    BY <1>5 DEF Finalizes, AcceptanceTyped, Requests
  <2> QED BY <1>5, <2>1 DEF Finalizes, AcceptanceTyped
<1>6. ASSUME NEW p \in Acceptors, WritesConsent(p)
      PROVE  AcceptanceTyped'
  <2>1. asked[p].binding \in Bindings
    BY <1>6 DEF WritesConsent, AcceptanceTyped, Requests, NoRun
  <2>2. asked' \in [Acceptors -> Requests]
    BY <1>6 DEF WritesConsent, AcceptanceTyped, Requests
  <2> QED BY <1>6, <2>1, <2>2 DEF WritesConsent, AcceptanceTyped
<1>7. CASE StageStep
  BY <1>7, AcceptanceAssumption, StageStepTyped
<1>8. CASE OrphanEnds
  <2>1. PICK o \in orphans :
          /\ orphans' = orphans \ {o}
          /\ \/ UNCHANGED <<chat, composer, landed>>
             \/ composer[Chat(o.stage)] = o.binding /\ Presses(o.stage, o.binding)
          /\ UNCHANGED <<file, asked, run, consent, installed, failures, switches>>
    BY <1>8 DEF OrphanEnds
  <2>2. o.stage \in Stages /\ o.binding \in Bindings
    BY DEF AcceptanceTyped
  <2>3. /\ chat' \in [Sending -> Seq(Texts)]
        /\ composer' \in [Sending -> Bindings \union {NoBinding}]
        /\ landed' \in [Sending -> Nat]
    BY <2>1, <2>2, PressesTyped DEF AcceptanceTyped
  <2> QED BY <2>1, <2>3 DEF AcceptanceTyped
<1>9. ASSUME NEW c \in Sending, MessageArrives(c)
      PROVE  AcceptanceTyped'
  <2>1. Append(chat[c], Foreign) \in Seq(Texts)
    BY DEF AcceptanceTyped, Texts
  <2>2. chat' \in [Sending -> Seq(Texts)]
    BY <1>9, <2>1 DEF MessageArrives, AcceptanceTyped
  <2> QED BY <1>9, <2>2 DEF MessageArrives, AcceptanceTyped
<1>10. ASSUME NEW b \in Bindings, Switches(b)
       PROVE  AcceptanceTyped'
  BY <1>10, AcceptanceAssumption DEF Switches, AcceptanceTyped
<1>11. "A" \in Stages
  BY DEF Stages, Sending
<1> QED
  BY <1>1, <1>2, <1>3, <1>4, <1>5, <1>6, <1>7, <1>8, <1>9, <1>10, <1>11 DEF AcceptanceNext

-----------------------------------------------------------------------------
(* Why no message is sent twice.  A press is the only way to send, and only   *)
(* the one stage under way, or a native submit that outlived its command, is *)
(* about to press.  Once the fence is durable the receipt says so for ever,  *)
(* and no later command of the same release gets to its own press.           *)
Uncertain == {"submit-started", "submitted-uncertain"}

Outlived(s) == \E o \in orphans : o.stage = s
Unsent(s) == landed[s] = 0 /\ ~Outlived(s)

\* No message of ours is visible that was not there for the baseline.
NothingNew(s, base) == Occurrences(Visible(s), file.binding) <= base.count

ReceiptTells(s) ==
  /\ landed[s] <= 1
  /\ landed[s] > 0 => Receipt(s).status \in Uncertain \union {"verified"}
  /\ Outlived(s) => Receipt(s).status \in Uncertain /\ landed[s] = 0
  /\ Verified(s) => landed[s] > 0
  /\ Receipt(s).status \in Uncertain /\ landed[s] = 0 => NothingNew(s, Receipt(s).baseline)

BeforeFence == {"admit", "look", "write", "baseline", "fence", "clear", "close", "save"}

\* A stage that has not begun its submit: what it writes and clears is a draft.
Preparing ==
  /\ run.at \in BeforeFence
  /\ Receipt(ThisStage).status \in {"invocation-started", "submit-started"}
  /\ ThisStage \in Sending => Unsent(ThisStage)
  /\ ThisStage \in Sending /\ run.at \in {"clear", "close", "save"} => run.failed
  /\ run.at \in {"write", "baseline", "fence"} => ThisStage \in Sending

Submitting ==
  /\ run.at \in {"press", "readback", "close", "save"}
  /\ ThisStage \in Sending
  /\ Receipt(ThisStage).status = "submit-started"
  /\ RunAt("press") => Unsent(ThisStage)

Recovering ==
  /\ run.at \in {"admit", "readback", "close", "save", "unsaved"}
  /\ ThisStage \in Sending
  /\ Receipt(ThisStage).status \in Uncertain
  /\ ~run.written

RunFits ==
  /\ run.binding = file.binding
  /\ run.mode = "recover" => Recovering
  /\ run.mode = "execute" /\ run.submits = 0 => Preparing
  /\ run.mode = "execute" /\ run.submits = 1 => Submitting
  /\ run.mode = "recover" \/ run.submits = 1 \/ RunAt("fence") =>
       (landed[ThisStage] = 0 => NothingNew(ThisStage, run.baseline))
  /\ run.seen => ThisStage \in Sending /\ landed[ThisStage] > 0

AcceptanceInv ==
  /\ \A s \in Sending : ReceiptTells(s)
  /\ Receipt("B0").status \notin Uncertain
  /\ \A o \in orphans : o.stage \in Sending /\ o.binding = file.binding
  /\ run # NoRun => RunFits

-----------------------------------------------------------------------------
(* Why consent is earned: a message that was sent stays in the chat.          *)
Holds(s, b) == \E i \in DOMAIN chat[s] : chat[s][i] = b

ConsentInv ==
  /\ \A s \in Sending : landed[s] > 0 => Holds(s, file.binding)
  /\ consent \in Bindings => \A s \in Sending : Holds(s, consent)
  /\ \A p \in Acceptors : asked[p].at = "consent" =>
       \A s \in Sending : Holds(s, asked[p].binding)
-----------------------------------------------------------------------------
\* The window slides over the chat: a message of somebody else can only push
\* ours out of it.
LastOf(c) == SubSeq(c, IF Len(c) > Window THEN Len(c) - Window + 1 ELSE 1, Len(c))

LEMMA LastOfTyped ==
  ASSUME AcceptanceAssumption, NEW c \in Seq(Texts)
  PROVE  \E lo \in 1 .. Len(c) + 1 :
           /\ lo = IF Len(c) > Window THEN Len(c) - Window + 1 ELSE 1
           /\ LastOf(c) \in Seq(Texts)
           /\ Len(LastOf(c)) = Len(c) - lo + 1
           /\ \A i \in 1 .. Len(c) - lo + 1 : LastOf(c)[i] = c[lo + i - 1]
<1> DEFINE lo == IF Len(c) > Window THEN Len(c) - Window + 1 ELSE 1
<1>1. Len(c) \in Nat /\ lo \in 1 .. Len(c) + 1
  BY AcceptanceAssumption DEF AcceptanceAssumption
<1>2. LastOf(c) = SubSeq(c, lo, Len(c))
  BY DEF LastOf
<1> HIDE DEF lo
<1>3. /\ SubSeq(c, lo, Len(c)) \in Seq(Texts)
      /\ Len(SubSeq(c, lo, Len(c))) = Len(c) - lo + 1
      /\ \A i \in 1 .. Len(c) - lo + 1 : SubSeq(c, lo, Len(c))[i] = c[lo + i - 1]
  BY <1>1
<1>4. lo = IF Len(c) > Window THEN Len(c) - Window + 1 ELSE 1
  BY DEF lo
<1> QED BY <1>1, <1>2, <1>3, <1>4

LEMMA DomainOfSeq == \A c \in Seq(Texts) : DOMAIN c = 1 .. Len(c) /\ Len(c) \in Nat
OBVIOUS

LEMMA WindowSlides ==
  ASSUME AcceptanceAssumption, NEW c \in Seq(Texts), NEW t \in Texts, NEW b, b # t
  PROVE  Occurrences(LastOf(Append(c, t)), b) <= Occurrences(LastOf(c), b)
<1> DEFINE d == Append(c, t)
           old == LastOf(c)
           new == LastOf(d)
           inOld == {i \in DOMAIN old : old[i] = b}
           inNew == {i \in DOMAIN new : new[i] = b}
<1>1. d \in Seq(Texts) /\ Len(d) = Len(c) + 1 /\ d[Len(c) + 1] = t
      /\ \A i \in 1 .. Len(c) : d[i] = c[i]
  OBVIOUS
<1>2. PICK lo \in 1 .. Len(c) + 1 :
        /\ lo = IF Len(c) > Window THEN Len(c) - Window + 1 ELSE 1
        /\ old \in Seq(Texts)
        /\ Len(old) = Len(c) - lo + 1
        /\ \A i \in 1 .. Len(c) - lo + 1 : old[i] = c[lo + i - 1]
  BY AcceptanceAssumption, LastOfTyped
<1>3. PICK hi \in 1 .. Len(d) + 1 :
        /\ hi = IF Len(d) > Window THEN Len(d) - Window + 1 ELSE 1
        /\ new \in Seq(Texts)
        /\ Len(new) = Len(d) - hi + 1
        /\ \A i \in 1 .. Len(d) - hi + 1 : new[i] = d[hi + i - 1]
  BY <1>1, AcceptanceAssumption, LastOfTyped
<1> HIDE DEF d, old, new
<1>4. Len(c) \in Nat /\ lo \in Nat /\ hi \in Nat /\ lo <= hi /\ Window \in Nat \ {0}
  BY <1>1, <1>2, <1>3, AcceptanceAssumption DEF AcceptanceAssumption
<1>5. DOMAIN old = 1 .. Len(c) - lo + 1 /\ DOMAIN new = 1 .. Len(c) + 1 - hi + 1
  <2>1. DOMAIN old = 1 .. Len(old)
    BY <1>2, DomainOfSeq
  <2>2. DOMAIN new = 1 .. Len(new)
    BY <1>3, DomainOfSeq
  <2>3. Len(new) = Len(c) + 1 - hi + 1
    BY <1>1, <1>3
  <2> QED BY <1>2, <2>1, <2>2, <2>3
<1>6. \A i \in inNew : i + (hi - lo) \in inOld
  <2> SUFFICES ASSUME NEW i \in inNew PROVE i + (hi - lo) \in inOld
    OBVIOUS
  <2>1. i \in 1 .. Len(c) + 1 - hi + 1 /\ d[hi + i - 1] = b
    <3>1. i \in DOMAIN new /\ new[i] = b
      OBVIOUS
    <3>2. i \in 1 .. Len(c) + 1 - hi + 1
      BY <1>5, <3>1
    <3>3. i \in 1 .. Len(d) - hi + 1
      BY <1>1, <3>2
    <3> QED BY <1>3, <3>1, <3>2, <3>3
  <2>2. hi + i - 1 # Len(c) + 1
    BY <1>1, <2>1
  <2>3. hi + i - 1 \in 1 .. Len(c)
    BY <1>4, <2>1, <2>2
  <2>4. c[hi + i - 1] = b
    BY <1>1, <2>1, <2>3
  <2>5. i + (hi - lo) \in 1 .. Len(c) - lo + 1 /\ lo + (i + (hi - lo)) - 1 = hi + i - 1
    BY <1>4, <2>1, <2>3
  <2>6. old[i + (hi - lo)] = b
    BY <1>2, <2>4, <2>5
  <2> QED BY <1>5, <2>5, <2>6
<1>7. IsFiniteSet(inOld)
  <2>1. IsFiniteSet(DOMAIN old)
    BY <1>4, <1>5, FS_Interval
  <2> QED BY <2>1, FS_Subset
<1>8. [i \in inNew |-> i + (hi - lo)] \in Injection(inNew, inOld)
  <2>1. inNew \subseteq Int
    BY <1>5
  <2> QED BY <1>4, <1>6, <2>1 DEF Injection, IsInjective
<1>9. Cardinality(inNew) <= Cardinality(inOld)
  BY <1>7, <1>8, FS_Injection
<1> QED BY <1>9 DEF Occurrences, d, old, new

LEMMA VisibleIsLast == \A s \in Stages : Visible(s) = LastOf(chat[Chat(s)])
BY DEF Visible, LastOf

LEMMA VisibleIsLastNext ==
  \A s \in Stages : Visible(s)' = LastOf(chat'[Chat(s)])
BY DEF Visible, LastOf, Chat

-----------------------------------------------------------------------------
\* A step that sends nothing and saves nothing.
Quiet == UNCHANGED <<file, chat, orphans, landed>>

LEMMA QuietKeeps ==
  ASSUME Quiet
  PROVE  /\ \A s : /\ Receipt(s)' = Receipt(s)
                   /\ Outlived(s)' = Outlived(s)
                   /\ Unsent(s)' = Unsent(s)
                   /\ Verified(s)' = Verified(s)
                   /\ ReceiptTells(s)' = ReceiptTells(s)
         /\ \A s, base : NothingNew(s, base)' = NothingNew(s, base)
<1>1. \A s : Visible(s)' = Visible(s)
  BY DEF Quiet, Visible, Chat
<1>2. \A s, base : NothingNew(s, base)' = NothingNew(s, base)
  BY <1>1 DEF Quiet, NothingNew, Occurrences
<1>3. \A s : Receipt(s)' = Receipt(s)
  BY DEF Quiet, Receipt
<1>4. \A s : Outlived(s)' = Outlived(s)
  BY DEF Quiet, Outlived
<1>5. \A s : Verified(s)' = Verified(s)
  BY <1>3 DEF Verified
<1>6. \A s : Unsent(s)' = Unsent(s)
  BY <1>4 DEF Quiet, Unsent
<1>7. \A s : ReceiptTells(s)' = ReceiptTells(s)
  BY <1>2, <1>3, <1>4, <1>5 DEF Quiet, ReceiptTells
<1> QED BY <1>2, <1>3, <1>4, <1>5, <1>6, <1>7

LEMMA QuietFits ==
  ASSUME AcceptanceInv, Quiet, run' # NoRun => RunFits'
  PROVE  AcceptanceInv'
<1>1. \A s \in Sending : ReceiptTells(s)'
  BY QuietKeeps DEF AcceptanceInv
<1>2. Receipt("B0")'.status \notin Uncertain
  BY QuietKeeps DEF AcceptanceInv
<1>3. \A o \in orphans' : o.stage \in Sending /\ o.binding = file'.binding
  BY DEF Quiet, AcceptanceInv
<1> QED BY <1>1, <1>2, <1>3 DEF AcceptanceInv

\* Where the stage under way gets to without a send or a save.
QuietStep ==
  \/ Admits \/ Looks \/ Aborts \/ Writes \/ TakesBaseline \/ ReadsBack \/ ClearsDraft
  \/ Closes \/ Leaves \/ AdmitFails \/ CallFails \/ WriteFails \/ ClearFails \/ CloseFails
  \/ SaveFails

LEMMA QuietStepKeeps ==
  ASSUME AcceptanceAssumption, AcceptanceTyped, AcceptanceInv, run \in StagesUnderWay, QuietStep
  PROVE  AcceptanceInv'
<1>1. Quiet
  BY DEF Quiet, QuietStep, Admits, Looks, Aborts, Writes, TakesBaseline, ReadsBack, ClearsDraft,
         Closes, Leaves, AdmitFails, CallFails, WriteFails, ClearFails, CloseFails, SaveFails,
         Driven
<1>2. RunFits
  BY PositionOfNoRun DEF AcceptanceInv, StagesUnderWay, Position
<1>3. ThisStage \in Stages /\ run.submits \in {0, 1} /\ run.mode \in {"execute", "recover"}
      /\ run.written \in BOOLEAN /\ run.failed \in BOOLEAN /\ run.seen \in BOOLEAN
  BY DEF StagesUnderWay, ThisStage
<1>4. /\ Receipt(ThisStage)' = file.stages[ThisStage']
      /\ \A s, base : NothingNew(s, base)' = NothingNew(s, base)
      /\ \A s : Unsent(s)' = Unsent(s)
      /\ file' = file /\ landed' = landed
  BY <1>1, QuietKeeps DEF Quiet, Receipt
<1>fits. ASSUME run' \in StagesUnderWay, run'.stage = run.stage, run'.binding = run.binding,
                run'.mode = run.mode, run'.submits = run.submits,
                run'.baseline = run.baseline, run'.seen = run.seen,
                run.mode = "recover" => run'.at \in {"readback", "close", "save", "unsaved"}
                                        /\ ~run'.written,
                run.mode = "execute" /\ run.submits = 0 =>
                  /\ run'.at \in BeforeFence \ {"fence"}
                  /\ ThisStage \in Sending /\ run'.at \in {"clear", "close", "save"} => run'.failed
                  /\ run'.at \in {"write", "baseline"} => ThisStage \in Sending,
                run.mode = "execute" /\ run.submits = 1 =>
                  run'.at \in {"readback", "close", "save"}
         PROVE  RunFits'
  BY <1>fits, <1>2, <1>3, <1>4
     DEF RunFits, Preparing, Submitting, Recovering, ThisStage, Receipt, RunAt, BeforeFence
<1>5. StageStep
  BY DEF QuietStep, StageStep
<1>6. AcceptanceTyped'
  BY <1>5, StageStepTyped
<1>7. run' # NoRun => run' \in StagesUnderWay
  BY <1>6 DEF AcceptanceTyped
<1>8. SUFFICES ASSUME run' \in StagesUnderWay PROVE RunFits'
  BY <1>1, <1>7, QuietFits
<1>at. /\ \A w : [run EXCEPT !.at = w].at = w
       /\ \A w : [run EXCEPT !.at = w, !.failed = TRUE].at = w
       /\ \A w : [run EXCEPT !.at = w, !.failed = TRUE].failed
  BY DEF StagesUnderWay
<1>gives. ASSUME GivesUp, RunAt("look") \/ RunAt("write") \/ RunAt("baseline") \/ RunAt("readback")
          PROVE  RunFits'
  <2>1. run' = [run EXCEPT !.at = CleansUp, !.failed = TRUE]
    BY <1>gives DEF GivesUp
  <2>2. run.mode = "recover" => run'.at = "close"
    BY <1>2, <1>at, <2>1 DEF RunFits, Recovering, CleansUp
  <2>3. run.submits = 1 => run'.at = "close"
    BY <1>at, <2>1 DEF CleansUp
  <2>4. run'.at \in {"clear", "close"} /\ run'.failed
    BY <1>at, <2>1 DEF CleansUp
  <2>5. /\ run'.stage = run.stage /\ run'.binding = run.binding /\ run'.mode = run.mode
        /\ run'.submits = run.submits /\ run'.baseline = run.baseline
        /\ run'.seen = run.seen /\ run'.written = run.written
    BY <2>1 DEF StagesUnderWay
  <2>6. run.mode = "recover" => ~run'.written
    BY <1>2, <2>5 DEF RunFits, Recovering
  <2> QED BY <1>8, <1>fits, <2>2, <2>3, <2>4, <2>5, <2>6 DEF BeforeFence
<1>11. CASE Admits
  BY <1>11, <1>2, <1>8, <1>fits
     DEF Admits, Goes, RunAt, StagesUnderWay, RunFits, Preparing, Submitting, Recovering, BeforeFence
<1>12. CASE Looks /\ Draft = NoBinding
  BY <1>12, <1>2, <1>3, <1>8, <1>fits
     DEF Looks, Goes, RunAt, StagesUnderWay, RunFits, Preparing, Submitting, Recovering, BeforeFence,
         Stages, Sending
<1>13. CASE Writes
  BY <1>13, <1>2, <1>8, <1>fits
     DEF Writes, RunAt, StagesUnderWay, RunFits, Preparing, Submitting, Recovering, BeforeFence
<1>14. CASE ClearsDraft \/ Closes \/ ClearFails \/ CloseFails
  <2>0. \/ RunAt("clear") /\ run' = [run EXCEPT !.at = "close", !.written = FALSE]
        \/ RunAt("clear") /\ run' = [run EXCEPT !.at = "close"]
        \/ RunAt("close") /\ run' = [run EXCEPT !.at = "save", !.released = TRUE]
        \/ RunAt("close") /\ run' = [run EXCEPT !.at = "save", !.failed = TRUE]
    BY <1>14 DEF ClearsDraft, Closes, ClearFails, CloseFails, Goes
  <2>1. /\ (RunAt("clear") /\ run'.at = "close") \/ (RunAt("close") /\ run'.at = "save")
        /\ run'.failed = run.failed \/ run'.failed
        /\ run'.written = run.written \/ run'.written = FALSE
    BY <2>0 DEF StagesUnderWay
  <2>2. /\ run'.stage = run.stage /\ run'.binding = run.binding /\ run'.mode = run.mode
        /\ run'.submits = run.submits /\ run'.baseline = run.baseline
        /\ run'.seen = run.seen
    BY <2>0 DEF StagesUnderWay
  <2>3. /\ run.mode = "recover" => Recovering
        /\ run.mode = "execute" /\ run.submits = 0 => Preparing
        /\ run.mode = "execute" /\ run.submits = 1 => Submitting
    BY <1>2 DEF RunFits
  <2>4. run.mode = "recover" => run'.at \in {"readback", "close", "save", "unsaved"} /\ ~run'.written
    BY <2>1, <2>3 DEF Recovering, RunAt
  <2>5. run.mode = "execute" /\ run.submits = 0 =>
          (ThisStage \in Sending => run'.failed)
    BY <2>1, <2>3 DEF Preparing, RunAt
  <2>6. run'.at \in {"close", "save"}
    BY <2>1
  <2> QED BY <1>8, <1>fits, <2>2, <2>4, <2>5, <2>6 DEF BeforeFence
<1>15. CASE AdmitFails
  BY <1>15, <1>2, <1>8, <1>fits
     DEF AdmitFails, RunAt, StagesUnderWay, RunFits, Preparing, Submitting, Recovering, BeforeFence
<1>16. CASE (Looks /\ Draft # NoBinding) \/ Aborts \/ CallFails \/ WriteFails
  BY <1>16, <1>gives DEF Looks, Aborts, CallFails, WriteFails, RunAt
<1>17. CASE Leaves \/ SaveFails
  BY <1>17, <1>8, PositionOfNoRun DEF Leaves, SaveFails, StagesUnderWay, Position
<1>18. CASE TakesBaseline
  <2>1. run' = [run EXCEPT !.at = "fence", !.baseline = Baseline(ThisStage, run.binding)]
    BY <1>18 DEF TakesBaseline
  <2>2. Baseline(ThisStage, run.binding).count = Occurrences(Visible(ThisStage), run.binding)
    BY <1>3, BaselineTyped
  <2>3. Occurrences(Visible(ThisStage), run.binding) \in Nat
    BY <1>3, VisibleTyped, OccurrencesTyped
  <2>4. NothingNew(ThisStage, Baseline(ThisStage, run.binding))
    BY <1>2, <2>2, <2>3 DEF NothingNew, RunFits
  <2>5. /\ run'.at = "fence" /\ run'.baseline = Baseline(ThisStage, run.binding)
        /\ run'.stage = run.stage /\ run'.binding = run.binding /\ run'.mode = run.mode
        /\ run'.submits = run.submits /\ run'.seen = run.seen
    BY <2>1 DEF StagesUnderWay
  <2>6. run.mode = "execute" /\ run.submits = 0 /\ Preparing /\ RunAt("baseline")
    BY <1>2, <1>3, <1>18 DEF TakesBaseline, RunFits, RunAt, Submitting, Recovering
  <2>7. PICK s, b : s = run.stage /\ b = run'.baseline
    OBVIOUS
  <2>8. NothingNew(s, b)'
    BY <1>4, <2>4, <2>5, <2>7 DEF ThisStage
  <2>9. NothingNew(ThisStage, run.baseline)'
    BY <2>5, <2>7, <2>8 DEF ThisStage
  <2>10. Preparing'
    BY <1>4, <2>5, <2>6 DEF Preparing, ThisStage, Receipt, RunAt, BeforeFence
  <2> QED BY <1>2, <1>4, <2>5, <2>6, <2>9, <2>10 DEF RunFits, ThisStage
<1>19. CASE ReadsBack
  <2> DEFINE seen == ReadsAfter(ThisStage, run.binding, run.baseline)
  <2>1. run' = [run EXCEPT !.at = "close", !.seen = seen,
                           !.failed = @ \/ (run.mode = "execute" /\ ~seen)]
    BY <1>19 DEF ReadsBack
  <2>2. RunAt("readback") /\ ~Preparing
    BY <1>19 DEF ReadsBack, RunAt, Preparing, BeforeFence
  <2>3. (run.mode = "recover" /\ Recovering) \/ (run.mode = "execute" /\ run.submits = 1 /\ Submitting)
    BY <1>2, <1>3, <2>2 DEF RunFits
  <2>4. ThisStage \in Sending
    BY <2>3 DEF Recovering, Submitting
  <2>5. landed[ThisStage] = 0 => NothingNew(ThisStage, run.baseline)
    BY <1>2, <2>3 DEF RunFits
  <2>6. seen => landed[ThisStage] > 0
    <3>1. seen => Occurrences(Visible(ThisStage), run.binding) > run.baseline.count
      BY DEF ReadsAfter
    <3>2. NothingNew(ThisStage, run.baseline) =>
            Occurrences(Visible(ThisStage), run.binding) <= run.baseline.count
      BY <1>2 DEF NothingNew, RunFits
    <3>3. Occurrences(Visible(ThisStage), run.binding) \in Nat /\ run.baseline.count \in Nat
      BY <1>3, VisibleTyped, OccurrencesTyped DEF StagesUnderWay, Baselines
    <3>4. landed[ThisStage] \in Nat
      BY <2>4 DEF AcceptanceTyped
    <3> QED BY <2>5, <3>1, <3>2, <3>3, <3>4
  <2> HIDE DEF seen
  <2>7. /\ run'.at = "close" /\ run'.baseline = run.baseline
        /\ run'.stage = run.stage /\ run'.binding = run.binding /\ run'.mode = run.mode
        /\ run'.submits = run.submits /\ run'.seen = seen /\ run'.written = run.written
    BY <2>1 DEF StagesUnderWay
  <2>8. PICK s, b : s = run.stage /\ b = run.baseline
    OBVIOUS
  <2>9. landed[s] = 0 => NothingNew(s, b)'
    BY <1>4, <2>5, <2>8 DEF ThisStage
  <2>10. landed'[ThisStage'] = 0 => NothingNew(ThisStage, run.baseline)'
    BY <1>4, <2>7, <2>8, <2>9 DEF ThisStage
  <2>11. run.mode = "recover" => Recovering'
    BY <1>4, <2>3, <2>7 DEF Recovering, ThisStage, Receipt
  <2>12. run.mode = "execute" => run.submits = 1 /\ Submitting'
    BY <1>4, <2>3, <2>7 DEF Submitting, ThisStage, Receipt, RunAt
  <2> QED BY <1>2, <1>4, <2>4, <2>6, <2>7, <2>10, <2>11, <2>12 DEF RunFits, ThisStage
<1> QED
  BY <1>11, <1>12, <1>13, <1>14, <1>15, <1>16, <1>17, <1>18, <1>19 DEF QuietStep

-----------------------------------------------------------------------------
\* Steps of the stage under way that write to the file.
LEMMA SameScreen ==
  ASSUME UNCHANGED chat, file'.binding = file.binding
  PROVE  \A s, base : NothingNew(s, base)' = NothingNew(s, base)
<1>1. \A s : Visible(s)' = Visible(s)
  BY DEF Visible, Chat
<1> QED BY <1>1 DEF NothingNew, Occurrences

\* Nothing but the receipt of one stage changes: what it then says is true.
LEMMA ReceiptWritten ==
  ASSUME AcceptanceTyped, AcceptanceInv, NEW s \in Stages,
         UNCHANGED <<chat, orphans, landed>>,
         file'.binding = file.binding,
         \A t \in Stages : t # s => file'.stages[t] = file.stages[t],
         s \in Sending =>
           /\ file'.stages[s].status \in Uncertain \union {"verified"} \/ Unsent(s)
           /\ Outlived(s) => file'.stages[s].status \in Uncertain
           /\ file'.stages[s].status = "verified" => landed[s] > 0
           /\ file'.stages[s].status \in Uncertain /\ landed[s] = 0 =>
                NothingNew(s, file'.stages[s].baseline),
         s = "B0" => file'.stages[s].status \notin Uncertain
  PROVE  /\ \A t \in Sending : ReceiptTells(t)'
         /\ Receipt("B0")'.status \notin Uncertain
         /\ \A o \in orphans' : o.stage \in Sending /\ o.binding = file'.binding
<1>1. \A t, base : NothingNew(t, base)' = NothingNew(t, base)
  BY SameScreen
<1>2. \A t : Outlived(t)' = Outlived(t)
  BY DEF Outlived
<1>3. \A t : Receipt(t)' = file'.stages[t] /\ Receipt(t) = file.stages[t]
  BY DEF Receipt
<1>4. ASSUME NEW t \in Sending PROVE ReceiptTells(t)'
  <2>1. ReceiptTells(t) /\ t \in Stages /\ landed[t] \in Nat
    BY DEF AcceptanceInv, AcceptanceTyped, Stages
  <2>2. CASE t # s
    <3>1. Receipt(t)' = Receipt(t)
      BY <1>3, <2>1, <2>2
    <3> QED BY <1>1, <1>2, <2>1, <3>1 DEF ReceiptTells, Verified
  <2>3. CASE t = s
    <3>2. PICK base : base = file'.stages[s].baseline
      OBVIOUS
    <3>3. file'.stages[s].status \in Uncertain /\ landed[s] = 0 => NothingNew(s, base)'
      BY <1>1, <2>3, <3>2
    <3>4. Receipt(t)'.status \in Uncertain /\ landed'[t] = 0 => NothingNew(t, Receipt(t).baseline)'
      BY <1>3, <2>3, <3>2, <3>3
    <3>5. landed'[t] <= 1 /\ landed[t] > 0 => ~Unsent(t)
      BY <2>1 DEF ReceiptTells, Unsent
    <3>6. landed[t] > 0 => Receipt(t)'.status \in Uncertain \union {"verified"}
      BY <1>3, <2>3, <3>5, <2>1 DEF ReceiptTells, Unsent
    <3>7. Outlived(t)' => Receipt(t)'.status \in Uncertain /\ landed'[t] = 0
      BY <1>2, <1>3, <2>1, <2>3 DEF ReceiptTells
    <3>8. Verified(t)' => landed'[t] > 0
      BY <1>3, <2>3 DEF Verified
    <3> QED BY <2>1, <3>4, <3>6, <3>7, <3>8 DEF ReceiptTells
  <2> QED BY <2>2, <2>3
<1>5. Receipt("B0")'.status \notin Uncertain
  <2>1. "B0" \in Stages
    BY DEF Stages
  <2> QED BY <1>3, <2>1 DEF AcceptanceInv
<1>6. \A o \in orphans' : o.stage \in Sending /\ o.binding = file'.binding
  BY DEF AcceptanceInv
<1> QED BY <1>4, <1>5, <1>6

LEMMA FencesKeeps ==
  ASSUME AcceptanceTyped, AcceptanceInv, run \in StagesUnderWay, Fences \/ FenceFails
  PROVE  AcceptanceInv'
<1>1. RunFits /\ RunAt("fence")
  BY PositionOfNoRun DEF AcceptanceInv, StagesUnderWay, Position, Fences, FenceFails
<1>2. ThisStage \in Stages /\ run.submits \in {0, 1} /\ run.mode \in {"execute", "recover"}
      /\ run.written \in BOOLEAN /\ run.failed \in BOOLEAN /\ run.seen \in BOOLEAN
  BY DEF StagesUnderWay, ThisStage
<1>3. run.mode = "execute" /\ run.submits = 0 /\ Preparing
  BY <1>1, <1>2 DEF RunFits, RunAt, Submitting, Recovering
<1>4. ThisStage \in Sending /\ Unsent(ThisStage) /\ ThisStage # "B0"
  BY <1>1, <1>3 DEF Preparing, RunAt, Sending
<1>5. NothingNew(ThisStage, run.baseline)
  BY <1>1, <1>4 DEF RunFits, Unsent
<1>6. UNCHANGED <<chat, orphans, landed>>
  BY DEF Fences, FenceFails, Driven
<1>7. Fence \/ UNCHANGED file
  BY DEF Fences, FenceFails
<1>8. /\ file'.binding = file.binding
      /\ \A t \in Stages : t # ThisStage => file'.stages[t] = file.stages[t]
      /\ file'.stages[ThisStage].status \in {"invocation-started", "submit-started"}
      /\ Fence => file'.stages[ThisStage].status = "submit-started"
      /\ file'.stages[ThisStage].status = "submit-started" =>
           NothingNew(ThisStage, file'.stages[ThisStage].baseline)
  <2>1. CASE Fence
    BY <1>5, <2>1, FenceTyped
  <2>2. CASE UNCHANGED file /\ ~Fence
    <3>1. ReceiptTells(ThisStage)
      BY <1>4 DEF AcceptanceInv
    <3> QED BY <1>3, <1>4, <2>2, <3>1 DEF Preparing, Receipt, ReceiptTells, Uncertain, Unsent
  <2> QED BY <1>7, <2>1, <2>2
<1>9. /\ \A t \in Sending : ReceiptTells(t)'
      /\ Receipt("B0")'.status \notin Uncertain
      /\ \A o \in orphans' : o.stage \in Sending /\ o.binding = file'.binding
  BY <1>2, <1>4, <1>6, <1>8, ReceiptWritten DEF Unsent, Uncertain
<1>10. /\ run'.stage = run.stage /\ run'.binding = run.binding /\ run'.mode = run.mode
       /\ run'.baseline = run.baseline /\ run'.seen = run.seen
       /\ \/ Fence /\ run'.at = "press" /\ run'.submits = 1
          \/ run'.at \in {"clear", "close"} /\ run'.submits = 0 /\ run'.failed
  <2>1. CASE Fences
    BY <2>1 DEF Fences, StagesUnderWay
  <2>2. CASE FenceFails
    BY <1>3, <2>2, GivesUpTyped DEF FenceFails, StagesUnderWay
  <2> QED BY <2>1, <2>2
<1>11. PICK s, base : s = run.stage /\ base = run.baseline
  OBVIOUS
<1>12. NothingNew(s, base)'
  BY <1>5, <1>6, <1>8, <1>11, SameScreen DEF ThisStage
<1>13. NothingNew(ThisStage, run.baseline)'
  BY <1>10, <1>11, <1>12 DEF ThisStage
<1>14. Unsent(s)'
  BY <1>4, <1>6, <1>11 DEF Unsent, Outlived, ThisStage
<1>15. Unsent(ThisStage)'
  BY <1>10, <1>11, <1>14 DEF ThisStage
<1>16. Receipt(ThisStage)' = file'.stages[run.stage]
  BY <1>10 DEF Receipt, ThisStage
<1>17. RunFits'
  <2>1. CASE run'.submits = 1
    <3>1. Submitting'
      BY <1>4, <1>8, <1>10, <1>15, <1>16, <2>1 DEF Submitting, RunAt, ThisStage
    <3> QED BY <1>1, <1>3, <1>6, <1>8, <1>10, <1>13, <2>1, <3>1 DEF RunFits, ThisStage
  <2>2. CASE run'.submits = 0
    <3>1. Preparing'
      BY <1>4, <1>8, <1>10, <1>15, <1>16, <2>2 DEF Preparing, RunAt, ThisStage, BeforeFence
    <3> QED BY <1>1, <1>3, <1>6, <1>8, <1>10, <1>13, <2>2, <3>1 DEF RunFits, ThisStage
  <2> QED BY <1>10, <2>1, <2>2
<1> QED BY <1>9, <1>17 DEF AcceptanceInv

LEMMA SavesKeeps ==
  ASSUME AcceptanceTyped, AcceptanceInv, run \in StagesUnderWay, Saves
  PROVE  AcceptanceInv'
<1> DEFINE receipt ==
      [status |-> Outcome, invocations |-> run.invocations, submits |-> run.submits,
       baseline |-> run.baseline, seen |-> run.seen, released |-> run.released]
<1>1. RunFits /\ RunAt("save")
  BY PositionOfNoRun DEF AcceptanceInv, StagesUnderWay, Position, Saves
<1>2. ThisStage \in Stages /\ run.submits \in {0, 1} /\ run.mode \in {"execute", "recover"}
      /\ run.written \in BOOLEAN /\ run.failed \in BOOLEAN /\ run.seen \in BOOLEAN
      /\ run.released \in BOOLEAN
  BY DEF StagesUnderWay, ThisStage
<1>3. UNCHANGED <<chat, orphans, landed>> /\ run' = NoRun /\ Put(ThisStage, receipt)
  BY DEF Saves, Driven
<1>4. /\ file'.binding = file.binding
      /\ \A t \in Stages : t # ThisStage => file'.stages[t] = file.stages[t]
      /\ file'.stages[ThisStage].status = Outcome
      /\ file'.stages[ThisStage].baseline = run.baseline
  <2>1. receipt \in Receipts
    <3> HIDE DEF Outcome
    <3> QED BY OutcomeTyped DEF Receipts, StagesUnderWay
  <2>2. receipt.status = Outcome /\ receipt.baseline = run.baseline
    OBVIOUS
  <2> HIDE DEF receipt
  <2> QED BY <1>2, <1>3, <2>1, <2>2, PutTyped
<1>5. CASE run.mode = "recover" \/ run.submits = 1
  <2>1. ThisStage \in Sending /\ ThisStage # "B0"
    BY <1>1, <1>2, <1>5 DEF RunFits, Recovering, Submitting, Sending
  <2>2. Outcome \in {"verified", "submitted-uncertain"}
    BY <1>2, <1>5 DEF Outcome
  <2>3. Outcome = "verified" => run.seen
    BY <1>2, <1>5 DEF Outcome
  <2>4. Receipt(ThisStage).status \in Uncertain
    BY <1>1, <1>2, <1>5 DEF RunFits, Recovering, Submitting, Uncertain
  <2>5. Outlived(ThisStage) => landed[ThisStage] = 0
    BY <2>1 DEF AcceptanceInv, ReceiptTells
  <2>6. Outcome = "verified" => landed[ThisStage] > 0 /\ landed[ThisStage] # 0
    BY <1>1, <2>1, <2>3 DEF RunFits, AcceptanceTyped
  <2>7. landed[ThisStage] = 0 => NothingNew(ThisStage, run.baseline)
    BY <1>1, <1>5 DEF RunFits
  <2>8. /\ \A t \in Sending : ReceiptTells(t)'
        /\ Receipt("B0")'.status \notin Uncertain
        /\ \A o \in orphans' : o.stage \in Sending /\ o.binding = file'.binding
    <3> HIDE DEF receipt, Outcome
    <3> QED
      BY <1>2, <1>3, <1>4, <2>1, <2>2, <2>5, <2>6, <2>7, ReceiptWritten DEF Uncertain
  <2> QED BY <1>3, <2>8 DEF AcceptanceInv
<1>6. CASE run.mode = "execute" /\ run.submits = 0
  <2>1. Preparing
    BY <1>1, <1>6 DEF RunFits
  <2>2. Outcome \in {"verified", "failed"} /\ (run.failed => Outcome = "failed")
    BY <1>2, <1>6 DEF Outcome
  <2>3. ThisStage \in Sending => Outcome = "failed" /\ Unsent(ThisStage)
    BY <1>1, <2>1, <2>2 DEF Preparing, RunAt
  <2>4. /\ \A t \in Sending : ReceiptTells(t)'
        /\ Receipt("B0")'.status \notin Uncertain
        /\ \A o \in orphans' : o.stage \in Sending /\ o.binding = file'.binding
    <3> HIDE DEF receipt, Outcome
    <3> QED
      BY <1>2, <1>3, <1>4, <2>2, <2>3, ReceiptWritten DEF Uncertain, Unsent
  <2> QED BY <1>3, <2>4 DEF AcceptanceInv
<1> QED BY <1>2, <1>5, <1>6

-----------------------------------------------------------------------------
\* A press: the one message of a stage whose receipt says it may be sent.
LEMMA PressLands ==
  ASSUME AcceptanceTyped, AcceptanceInv, NEW s \in Sending, NEW b, b = file.binding,
         UNCHANGED file, Presses(s, b)
  PROVE  /\ landed' = [landed EXCEPT ![s] = @ + 1]
         /\ \A t \in Sending : \A base : t # s => NothingNew(t, base)' = NothingNew(t, base)
<1>1. landed' = [landed EXCEPT ![s] = @ + 1]
  BY DEF Presses, Mine
<1>2. \A t \in Sending : Chat(t) = t
  BY DEF Chat, Sending
<1>3. \A t \in Sending : t # s => chat'[t] = chat[t]
  BY <1>2 DEF Presses, AcceptanceTyped
<1>4. \A t \in Sending : t # s => Visible(t)' = Visible(t)
  BY <1>2, <1>3 DEF Visible
<1> QED BY <1>1, <1>4 DEF NothingNew, Occurrences

LEMMA PressTells ==
  ASSUME AcceptanceTyped, AcceptanceInv, NEW s \in Sending, NEW b, b = file.binding,
         UNCHANGED file, Presses(s, b),
         landed[s] = 0, Receipt(s).status \in Uncertain,
         ~Outlived(s)', orphans' \subseteq orphans
  PROVE  /\ \A t \in Sending : ReceiptTells(t)'
         /\ Receipt("B0")'.status \notin Uncertain
         /\ \A o \in orphans' : o.stage \in Sending /\ o.binding = file'.binding
<1>1. \A t : Receipt(t)' = Receipt(t)
  BY DEF Receipt
<1>2. landed' = [landed EXCEPT ![s] = @ + 1] /\ landed'[s] = 1
      /\ \A t \in Sending : t # s => landed'[t] = landed[t]
  BY PressLands DEF AcceptanceTyped
<1>3. ReceiptTells(s)'
  BY <1>1, <1>2 DEF ReceiptTells
<1>4. ASSUME NEW t \in Sending, t # s PROVE ReceiptTells(t)'
  <2>1. ReceiptTells(t)
    BY DEF AcceptanceInv
  <2>2. Outlived(t)' => Outlived(t)
    BY DEF Outlived
  <2>3. \A base : NothingNew(t, base)' = NothingNew(t, base)
    BY <1>4, PressLands
  <2>4. NothingNew(t, Receipt(t).baseline)' = NothingNew(t, Receipt(t).baseline)
    BY <1>1, <2>3
  <2> QED BY <1>1, <1>2, <1>4, <2>1, <2>2, <2>4 DEF ReceiptTells, Verified
<1>5. Receipt("B0")'.status \notin Uncertain
  BY <1>1 DEF AcceptanceInv
<1>6. \A o \in orphans' : o.stage \in Sending /\ o.binding = file'.binding
  BY DEF AcceptanceInv
<1> QED BY <1>3, <1>4, <1>5, <1>6

LEMMA SubmitsKeeps ==
  ASSUME AcceptanceTyped, AcceptanceInv, run \in StagesUnderWay, Submits \/ SubmitFails
  PROVE  AcceptanceInv'
<1>1. RunFits /\ RunAt("press")
  BY PositionOfNoRun DEF AcceptanceInv, StagesUnderWay, Position, Submits, SubmitFails
<1>2. ThisStage \in Stages /\ run.submits \in {0, 1} /\ run.mode \in {"execute", "recover"}
      /\ run.written \in BOOLEAN /\ run.failed \in BOOLEAN /\ run.seen \in BOOLEAN
  BY DEF StagesUnderWay, ThisStage
<1>3. run.mode = "execute" /\ run.submits = 1 /\ Submitting
  BY <1>1, <1>2 DEF RunFits, RunAt, Preparing, BeforeFence, Recovering
<1>4. /\ ThisStage \in Sending /\ Unsent(ThisStage)
      /\ Receipt(ThisStage).status = "submit-started"
  BY <1>1, <1>3 DEF Submitting
<1>5. UNCHANGED <<file, orphans>>
  BY DEF Submits, SubmitFails, Driven
<1>6. /\ run'.stage = run.stage /\ run'.binding = run.binding /\ run'.mode = run.mode
      /\ run'.baseline = run.baseline /\ run'.seen = run.seen /\ run'.submits = run.submits
      /\ run'.at \in {"readback", "close"}
  <2>1. CASE GivesUp
    <3>1. CleansUp = "close"
      BY <1>3 DEF CleansUp
    <3> QED BY <2>1, <3>1 DEF GivesUp, StagesUnderWay
  <2>2. CASE run' = [run EXCEPT !.at = "readback", !.written = FALSE]
    BY <2>2 DEF StagesUnderWay
  <2> QED BY <2>1, <2>2 DEF Submits, SubmitFails
<1>7. ASSUME UNCHANGED <<chat, landed>>
      PROVE  AcceptanceInv'
  <2>1. Quiet
    BY <1>5, <1>7 DEF Quiet
  <2>2. PICK s, base : s = run.stage /\ base = run.baseline
    OBVIOUS
  <2>3. NothingNew(s, base)' = NothingNew(s, base)
    BY <2>1, QuietKeeps
  <2>4. landed[run.stage] = 0 => NothingNew(ThisStage, run.baseline)'
    BY <1>1, <1>3, <1>6, <2>2, <2>3 DEF RunFits, ThisStage
  <2>5. Submitting'
    BY <1>3, <1>5, <1>6 DEF Submitting, ThisStage, Receipt, RunAt
  <2>6. RunFits'
    BY <1>1, <1>3, <1>5, <1>6, <1>7, <2>4, <2>5 DEF RunFits, ThisStage
  <2> QED BY <2>1, <2>6, QuietFits
<1>8. ASSUME Presses(ThisStage, run.binding)
      PROVE  AcceptanceInv'
  <2>1. run.binding = file.binding
    BY <1>1 DEF RunFits
  <2>2. ~Outlived(ThisStage) /\ landed[ThisStage] = 0
    BY <1>4 DEF Unsent
  <2>3. PICK s \in Sending : s = ThisStage
    BY <1>4
  <2>4. ~Outlived(s)'
    BY <1>5, <2>2, <2>3 DEF Outlived
  <2>5. Presses(s, run.binding) /\ landed[s] = 0 /\ Receipt(s).status \in Uncertain
    BY <1>4, <1>8, <2>2, <2>3 DEF Uncertain
  <2>6. /\ \A t \in Sending : ReceiptTells(t)'
        /\ Receipt("B0")'.status \notin Uncertain
        /\ \A o \in orphans' : o.stage \in Sending /\ o.binding = file'.binding
    BY <1>5, <2>1, <2>4, <2>5, PressTells
  <2>7. landed'[s] = 1
    BY <1>5, <2>1, <2>5, PressLands DEF AcceptanceTyped
  <2>8. Submitting'
    BY <1>3, <1>5, <1>6 DEF Submitting, ThisStage, Receipt, RunAt
  <2>9. RunFits'
    BY <1>1, <1>3, <1>5, <1>6, <2>3, <2>7, <2>8 DEF RunFits, ThisStage
  <2> QED BY <2>6, <2>9 DEF AcceptanceInv
<1>9. UNCHANGED <<chat, landed>> \/ Presses(ThisStage, run.binding)
  BY DEF Submits, SubmitFails
<1> QED BY <1>7, <1>8, <1>9

LEMMA KilledKeeps ==
  ASSUME AcceptanceTyped, AcceptanceInv, run \in StagesUnderWay, AcceptorKilled
  PROVE  AcceptanceInv'
<1>1. RunFits
  BY PositionOfNoRun DEF AcceptanceInv, StagesUnderWay, Position
<1>2. UNCHANGED <<file, chat, landed>> /\ run' = NoRun
  BY DEF AcceptorKilled
<1>3. ThisStage \in Stages /\ run.submits \in {0, 1} /\ run.mode \in {"execute", "recover"}
  BY DEF StagesUnderWay, ThisStage
<1>4. CASE ~RunAt("press")
  <2>1. orphans' = orphans
    BY <1>4 DEF AcceptorKilled
  <2> QED BY <1>2, <2>1, QuietFits DEF Quiet
<1>5. CASE RunAt("press")
  <2>1. orphans' = orphans \union {[stage |-> ThisStage, binding |-> run.binding]}
    BY <1>5 DEF AcceptorKilled
  <2>2. Submitting /\ run.binding = file.binding
    BY <1>1, <1>3, <1>5 DEF RunFits, RunAt, Preparing, BeforeFence, Recovering
  <2>3. /\ ThisStage \in Sending /\ landed[ThisStage] = 0
        /\ Receipt(ThisStage).status \in Uncertain
    BY <1>5, <2>2 DEF Submitting, Unsent, Uncertain
  <2>4. \A o \in orphans' : o.stage \in Sending /\ o.binding = file'.binding
    BY <1>2, <2>1, <2>2, <2>3 DEF AcceptanceInv
  <2>5. \A t : Receipt(t)' = Receipt(t)
    BY <1>2 DEF Receipt
  <2>6. \A t, base : NothingNew(t, base)' = NothingNew(t, base)
    BY <1>2, SameScreen
  <2>7. ASSUME NEW t \in Sending PROVE ReceiptTells(t)'
    <3>1. ReceiptTells(t)
      BY DEF AcceptanceInv
    <3>2. Outlived(t)' => Outlived(t) \/ t = ThisStage
      BY <2>1 DEF Outlived
    <3>3. NothingNew(t, Receipt(t).baseline)' = NothingNew(t, Receipt(t).baseline)
      BY <2>5, <2>6
    <3> QED BY <1>2, <2>3, <2>5, <3>1, <3>2, <3>3 DEF ReceiptTells, Verified
  <2> QED BY <1>2, <2>4, <2>5, <2>7 DEF AcceptanceInv
<1> QED BY <1>4, <1>5

\* A native submit that outlived its command is as good as the command's own press.
LEMMA OrphanKeeps ==
  ASSUME AcceptanceTyped, AcceptanceInv, OrphanEnds
  PROVE  AcceptanceInv'
<1>1. PICK o \in orphans :
        /\ orphans' = orphans \ {o}
        /\ \/ UNCHANGED <<chat, composer, landed>>
           \/ composer[Chat(o.stage)] = o.binding /\ Presses(o.stage, o.binding)
        /\ UNCHANGED <<file, asked, run, consent, installed, failures, switches>>
  BY DEF OrphanEnds
<1>2. o.stage \in Sending /\ o.binding = file.binding
  BY DEF AcceptanceInv
<1>3. Outlived(o.stage)
  BY DEF Outlived
<1>4. Receipt(o.stage).status \in Uncertain /\ landed[o.stage] = 0
  BY <1>2, <1>3 DEF AcceptanceInv, ReceiptTells
<1>5. \A t : Receipt(t)' = Receipt(t)
  BY <1>1 DEF Receipt
<1>6. run # NoRun => RunFits
  BY DEF AcceptanceInv
<1>7. \A t : Outlived(t)' => Outlived(t)
  BY <1>1 DEF Outlived
<1>8. CASE UNCHANGED <<chat, landed>>
  <2>1. \A t, base : NothingNew(t, base)' = NothingNew(t, base)
    BY <1>1, <1>8, SameScreen
  <2>2. ASSUME NEW t \in Sending PROVE ReceiptTells(t)'
    <3>1. ReceiptTells(t)
      BY DEF AcceptanceInv
    <3>2. NothingNew(t, Receipt(t).baseline)' = NothingNew(t, Receipt(t).baseline)
      BY <1>5, <2>1
    <3> QED BY <1>5, <1>7, <1>8, <3>1, <3>2 DEF ReceiptTells, Verified
  <2>3. ASSUME run # NoRun PROVE RunFits'
    <3>1. RunFits /\ run' = run
      BY <1>1, <1>6, <2>3
    <3>2. PICK s, base : s = run.stage /\ base = run.baseline
      OBVIOUS
    <3>3. NothingNew(s, base)' = NothingNew(s, base)
      BY <2>1
    <3>4. NothingNew(ThisStage, run.baseline)' = NothingNew(ThisStage, run.baseline)
      BY <3>1, <3>2, <3>3 DEF ThisStage
    <3>5. Unsent(s) => Unsent(s)'
      BY <1>7, <1>8 DEF Unsent
    <3>6. Unsent(ThisStage) => Unsent(ThisStage)'
      BY <3>1, <3>2, <3>5 DEF ThisStage
    <3>7. (Preparing => Preparing') /\ (Submitting => Submitting') /\ (Recovering => Recovering')
      BY <1>1, <3>1, <3>6 DEF Preparing, Submitting, Recovering, ThisStage, Receipt, RunAt
    <3> QED BY <1>1, <1>8, <3>1, <3>4, <3>7 DEF RunFits, ThisStage, RunAt
  <2>4. \A q \in orphans' : q.stage \in Sending /\ q.binding = file'.binding
    BY <1>1 DEF AcceptanceInv
  <2> QED BY <1>1, <1>5, <2>2, <2>3, <2>4 DEF AcceptanceInv
<1>9. CASE Presses(o.stage, o.binding)
  <2>1. PICK s \in Sending : s = o.stage
    BY <1>2
  <2>2. \A q \in orphans : q.stage = s => q = o
    <3>1. \A q \in orphans : q.binding = file.binding /\ q \in [stage : Stages, binding : Bindings]
      BY DEF AcceptanceInv, AcceptanceTyped
    <3> QED BY <2>1, <3>1
  <2>3. ~Outlived(s)'
    BY <1>1, <2>2 DEF Outlived
  <2>4. Presses(s, o.binding) /\ landed[s] = 0 /\ Receipt(s).status \in Uncertain
    BY <1>4, <1>9, <2>1
  <2>5. /\ \A t \in Sending : ReceiptTells(t)'
        /\ Receipt("B0")'.status \notin Uncertain
        /\ \A q \in orphans' : q.stage \in Sending /\ q.binding = file'.binding
    BY <1>1, <1>2, <2>3, <2>4, PressTells
  <2>6. /\ landed'[s] = 1 /\ \A t \in Sending : t # s => landed'[t] = landed[t]
        /\ \A t \in Sending : \A base : t # s => NothingNew(t, base)' = NothingNew(t, base)
    BY <1>1, <1>2, <2>4, PressLands DEF AcceptanceTyped
  <2>7. ASSUME run # NoRun PROVE RunFits'
    <3>1. RunFits /\ run' = run
      BY <1>1, <1>6, <2>7
    <3>2. PICK r, base : r = run.stage /\ base = run.baseline
      OBVIOUS
    <3>3. r \in Sending /\ r # s => NothingNew(r, base)' = NothingNew(r, base)
      BY <2>6
    <3>4. r \in Sending /\ r # s => (Unsent(r) => Unsent(r)')
      BY <1>7, <2>6 DEF Unsent
    <3>5. CASE r = s
      <4>1. ~Unsent(ThisStage)
        BY <1>3, <2>1, <3>2, <3>5 DEF Unsent, ThisStage
      <4>2. run.stage \in Sending /\ landed'[run.stage] = 1
        BY <2>6, <3>2, <3>5
      <4>3. ~Preparing
        BY <4>1, <4>2 DEF Preparing, ThisStage
      <4>4. (Submitting => Submitting') /\ (Recovering => Recovering')
        BY <1>1, <3>1, <4>1 DEF Submitting, Recovering, ThisStage, Receipt, RunAt
      <4> QED BY <1>1, <3>1, <4>2, <4>3, <4>4 DEF RunFits, ThisStage, RunAt
    <3>6. CASE r # s /\ r \in Sending
      <4>1. NothingNew(ThisStage, run.baseline)' = NothingNew(ThisStage, run.baseline)
        BY <3>1, <3>2, <3>3, <3>6 DEF ThisStage
      <4>2. Unsent(ThisStage) => Unsent(ThisStage)'
        BY <3>1, <3>2, <3>4, <3>6 DEF ThisStage
      <4>3. landed'[run.stage] = landed[run.stage]
        BY <2>6, <3>2, <3>6
      <4>4. (Preparing => Preparing') /\ (Submitting => Submitting') /\ (Recovering => Recovering')
        BY <1>1, <3>1, <4>2 DEF Preparing, Submitting, Recovering, ThisStage, Receipt, RunAt
      <4> QED BY <1>1, <3>1, <4>1, <4>3, <4>4 DEF RunFits, ThisStage, RunAt
    <3>7. CASE r \notin Sending
      <4>1. run.stage \notin Sending
        BY <3>2, <3>7
      <4>2. run \in StagesUnderWay
        BY <2>7, UnderWay
      <4>3. run.mode = "execute" /\ run.submits = 0 /\ Preparing /\ ~run.seen /\ ~RunAt("fence")
        BY <3>1, <4>1, <4>2
           DEF StagesUnderWay, RunFits, Preparing, Submitting, Recovering, ThisStage, RunAt
      <4>4. Preparing'
        BY <1>1, <3>1, <4>1, <4>3 DEF Preparing, ThisStage, Receipt
      <4> QED BY <1>1, <3>1, <4>3, <4>4 DEF RunFits, RunAt
    <3> QED BY <3>5, <3>6, <3>7
  <2> QED BY <1>1, <1>5, <2>5, <2>7 DEF AcceptanceInv
<1> QED BY <1>1, <1>8, <1>9

-----------------------------------------------------------------------------
\* What begins a stage, and what goes on beside it.
LEMMA RunsFields ==
  ASSUME NEW p, NEW s, NEW b, NEW mode, NEW n, NEW submits, NEW base,
         Runs(p, s, b, mode, n, submits, base)
  PROVE  /\ run'.at = "admit" /\ run'.stage = s /\ run'.binding = b /\ run'.mode = mode
         /\ run'.submits = submits /\ run'.baseline = base /\ ~run'.written /\ ~run'.seen
         /\ UNCHANGED <<chat, orphans>>
BY DEF Runs

LEMMA BeginsKeeps ==
  ASSUME AcceptanceTyped, AcceptanceInv,
         NEW p \in Acceptors, NEW s \in Stages, NEW b \in Bindings,
         BeginsAfresh(p, b) \/ BeginsAgain(p, s, b) \/ BeginsReadback(p, s, b)
  PROVE  AcceptanceInv'
<1>1. CASE BeginsAfresh(p, b)
  <2>1. /\ run'.at = "admit" /\ run'.stage = "A" /\ run'.binding = b /\ run'.mode = "execute"
        /\ run'.submits = 0 /\ ~run'.seen /\ UNCHANGED <<chat, orphans>>
    BY <1>1, RunsFields DEF BeginsAfresh
  <2>2. /\ file' = [NoFile EXCEPT !.binding = b, !.stages["A"] = Started(1)]
        /\ landed' = [t \in Sending |-> 0] /\ orphans' = {}
    BY <1>1, <2>1 DEF BeginsAfresh
  <2>3. /\ file'.binding = b
        /\ file'.stages["A"].status = "invocation-started"
        /\ \A t \in Stages : file'.stages[t].status \in {NoBinding, "invocation-started"}
    BY <2>2 DEF NoFile, Started, Stages, Sending
  <2>4. \A t \in Sending : landed'[t] = 0 /\ ~Outlived(t)'
    BY <2>2 DEF Outlived
  <2>5. ASSUME NEW t \in Sending PROVE ReceiptTells(t)'
    BY <2>3, <2>4 DEF ReceiptTells, Receipt, Verified, Uncertain, NoBinding, Stages
  <2>6. Receipt("B0")'.status \notin Uncertain
    BY <2>3 DEF Receipt, Uncertain, NoBinding, Stages
  <2>7. "A" \in Sending /\ Unsent("A")'
    BY <2>4 DEF Sending, Unsent
  <2>8. Preparing'
    BY <2>1, <2>3, <2>7 DEF Preparing, ThisStage, Receipt, BeforeFence
  <2>9. RunFits'
    BY <2>1, <2>3, <2>8 DEF RunFits, RunAt
  <2> QED BY <2>2, <2>5, <2>6, <2>9 DEF AcceptanceInv
<1>2. CASE BeginsAgain(p, s, b)
  <2> DEFINE n == Invocations(s) + 1
  <2>1. /\ run'.at = "admit" /\ run'.stage = s /\ run'.binding = b /\ run'.mode = "execute"
        /\ run'.submits = 0 /\ ~run'.seen /\ UNCHANGED <<chat, orphans, landed>>
    BY <1>2, RunsFields DEF BeginsAgain
  <2>2. Put(s, Started(n)) /\ b = file.binding /\ ~Verified(s) /\ ~NeedsReadback(s)
    BY <1>2 DEF BeginsAgain, Mine
  <2>3. n \in Nat
    BY ReceiptTyped
  <2>4. Started(n) \in Receipts /\ Started(n).status = "invocation-started"
    BY <2>3, StartedTyped DEF Started
  <2> HIDE DEF n
  <2>5. /\ file'.binding = file.binding
        /\ file'.stages[s].status = "invocation-started"
        /\ \A t \in Stages : t # s => file'.stages[t] = file.stages[t]
    BY <2>2, <2>4, PutTyped
  <2>6. s \in Sending => Unsent(s)
    <3> SUFFICES ASSUME s \in Sending PROVE Unsent(s)
      OBVIOUS
    <3>1. ReceiptTells(s) /\ landed[s] \in Nat
      BY DEF AcceptanceInv, AcceptanceTyped
    <3> QED BY <2>2, <3>1 DEF ReceiptTells, Unsent, Uncertain, NeedsReadback, Verified
  <2>7. /\ \A t \in Sending : ReceiptTells(t)'
        /\ Receipt("B0")'.status \notin Uncertain
        /\ \A o \in orphans' : o.stage \in Sending /\ o.binding = file'.binding
    BY <2>1, <2>5, <2>6, ReceiptWritten DEF Uncertain, Unsent
  <2>8. s \in Sending => Unsent(s)'
    BY <2>1, <2>6 DEF Unsent, Outlived
  <2>9. Preparing'
    BY <2>1, <2>5, <2>8 DEF Preparing, ThisStage, Receipt, BeforeFence
  <2>10. RunFits'
    BY <2>1, <2>2, <2>5, <2>9 DEF RunFits, RunAt
  <2> QED BY <2>7, <2>10 DEF AcceptanceInv
<1>3. CASE BeginsReadback(p, s, b)
  <2>1. /\ run'.at = "admit" /\ run'.stage = s /\ run'.binding = b /\ run'.mode = "recover"
        /\ run'.baseline = Receipt(s).baseline /\ ~run'.written /\ ~run'.seen
        /\ UNCHANGED <<chat, orphans, landed>>
    BY <1>3, RunsFields DEF BeginsReadback
  <2>2. /\ Put(s, [Receipt(s) EXCEPT !.invocations = @ + 1])
        /\ b = file.binding /\ NeedsReadback(s)
    BY <1>3 DEF BeginsReadback, Mine
  <2>3. Receipt(s) \in [status : Statuses, invocations : Nat, submits : {0, 1},
                        baseline : Baselines, seen : BOOLEAN, released : BOOLEAN]
    BY <2>2, ReceiptTyped DEF NeedsReadback, NoBinding
  <2>4. /\ [Receipt(s) EXCEPT !.invocations = @ + 1] \in Receipts
        /\ [Receipt(s) EXCEPT !.invocations = @ + 1].status = Receipt(s).status
        /\ [Receipt(s) EXCEPT !.invocations = @ + 1].baseline = Receipt(s).baseline
    BY <2>3 DEF Receipts
  <2>5. /\ file'.binding = file.binding
        /\ file'.stages[s].status = Receipt(s).status
        /\ file'.stages[s].baseline = Receipt(s).baseline
        /\ \A t \in Stages : t # s => file'.stages[t] = file.stages[t]
    BY <2>2, <2>4, PutTyped
  <2>6. Receipt(s).status \in Uncertain
    BY <2>2 DEF NeedsReadback, Uncertain
  <2>7. s \in Sending
    BY <2>6 DEF AcceptanceInv, Stages
  <2>8. landed[s] = 0 => NothingNew(s, Receipt(s).baseline)
    BY <2>6, <2>7 DEF AcceptanceInv, ReceiptTells
  <2>9. s # "B0"
    BY <2>7 DEF Sending
  <2>10. file'.stages[s].status # "verified"
    BY <2>5, <2>6 DEF Uncertain
  <2>11. /\ \A t \in Sending : ReceiptTells(t)'
         /\ Receipt("B0")'.status \notin Uncertain
         /\ \A o \in orphans' : o.stage \in Sending /\ o.binding = file'.binding
    BY <2>1, <2>5, <2>6, <2>8, <2>9, <2>10, ReceiptWritten
  <2>12. PICK base : base = Receipt(s).baseline
    OBVIOUS
  <2>13. landed[s] = 0 => NothingNew(s, base)'
    BY <2>1, <2>5, <2>8, <2>12, SameScreen
  <2>14. landed'[run'.stage] = 0 => NothingNew(ThisStage, run.baseline)'
    BY <2>1, <2>12, <2>13 DEF ThisStage
  <2>15. Recovering'
    BY <2>1, <2>5, <2>6, <2>7 DEF Recovering, ThisStage, Receipt
  <2>16. RunFits'
    BY <2>1, <2>2, <2>5, <2>14, <2>15 DEF RunFits, RunAt, ThisStage
  <2> QED BY <2>11, <2>16 DEF AcceptanceInv
<1> QED BY <1>1, <1>2, <1>3

\* A message of somebody else is no message of ours.
LEMMA MessageKeeps ==
  ASSUME AcceptanceTyped, AcceptanceInv, NEW c \in Sending, MessageArrives(c)
  PROVE  AcceptanceInv'
<1>1. chat' = [chat EXCEPT ![c] = Append(@, Foreign)]
      /\ UNCHANGED <<file, run, orphans, landed>>
  BY DEF MessageArrives
<1>2. file.binding # Foreign
  BY AcceptanceAssumption DEF AcceptanceAssumption, AcceptanceTyped, NoBinding, Foreign
<1>3. ASSUME NEW s \in Stages, NEW base \in Baselines, NothingNew(s, base)
      PROVE  NothingNew(s, base)'
  <2>1. Chat(s) \in Sending /\ chat[Chat(s)] \in Seq(Texts) /\ Visible(s) \in Seq(Texts)
    BY VisibleTyped
  <2>2. CASE Chat(s) # c
    <3>1. chat'[Chat(s)] = chat[Chat(s)]
      BY <1>1, <2>1, <2>2 DEF AcceptanceTyped
    <3>2. Visible(s)' = Visible(s)
      BY <3>1, VisibleIsLast, VisibleIsLastNext
    <3> QED BY <1>1, <1>3, <3>2 DEF NothingNew, Occurrences
  <2>3. CASE Chat(s) = c
    <3>1. chat'[Chat(s)] = Append(chat[Chat(s)], Foreign)
      BY <1>1, <2>1, <2>3 DEF AcceptanceTyped
    <3>2. Foreign \in Texts
      BY DEF Texts
    <3>3. Occurrences(LastOf(Append(chat[Chat(s)], Foreign)), file.binding)
            <= Occurrences(LastOf(chat[Chat(s)]), file.binding)
      BY <1>2, <2>1, <3>2, AcceptanceAssumption, WindowSlides
    <3>4. Visible(s) = LastOf(chat[Chat(s)]) /\ Visible(s)' = LastOf(chat'[Chat(s)])
      BY VisibleIsLast, VisibleIsLastNext
    <3>5. Append(chat[Chat(s)], Foreign) \in Seq(Texts)
      BY <2>1, <3>2
    <3>6. LastOf(Append(chat[Chat(s)], Foreign)) \in Seq(Texts)
      BY <3>5, AcceptanceAssumption, LastOfTyped
    <3>7. /\ Occurrences(LastOf(Append(chat[Chat(s)], Foreign)), file.binding) \in Nat
          /\ Occurrences(LastOf(chat[Chat(s)]), file.binding) \in Nat
      BY <2>1, <3>4, <3>6, OccurrencesTyped
    <3>8. base.count \in Nat
      BY DEF Baselines
    <3>9. Occurrences(LastOf(chat'[Chat(s)]), file.binding) <= base.count
      BY <1>3, <3>1, <3>3, <3>4, <3>7, <3>8 DEF NothingNew
    <3>10. Occurrences(Visible(s)', file.binding) <= base.count
      BY <3>4, <3>9
    <3> QED BY <1>1, <3>10 DEF NothingNew, Occurrences
  <2> QED BY <2>2, <2>3
<1>4. \A t : Receipt(t)' = Receipt(t) /\ Outlived(t)' = Outlived(t) /\ Verified(t)' = Verified(t)
             /\ Unsent(t)' = Unsent(t)
  BY <1>1 DEF Receipt, Outlived, Verified, Unsent
<1>5. ASSUME NEW t \in Sending PROVE ReceiptTells(t)'
  <2>1. ReceiptTells(t) /\ t \in Stages
    BY DEF AcceptanceInv, Stages
  <2>2. Receipt(t).status \in Uncertain => Receipt(t).baseline \in Baselines
    BY <2>1, ReceiptTyped DEF Uncertain, NoBinding
  <2>3. PICK base : base = Receipt(t).baseline
    OBVIOUS
  <2>4. Receipt(t).status \in Uncertain /\ landed[t] = 0 => NothingNew(t, base)'
    BY <1>3, <2>1, <2>2, <2>3 DEF ReceiptTells
  <2>5. Receipt(t).status \in Uncertain /\ landed[t] = 0 => NothingNew(t, Receipt(t).baseline)'
    BY <1>4, <2>3, <2>4
  <2> QED BY <1>1, <1>4, <2>1, <2>5 DEF ReceiptTells
<1>6. ASSUME run # NoRun PROVE RunFits'
  <2>1. RunFits /\ run' = run /\ run \in StagesUnderWay
    BY <1>1, <1>6, UnderWay DEF AcceptanceInv
  <2>2. PICK s, base : s = run.stage /\ base = run.baseline
    OBVIOUS
  <2>3. s \in Stages /\ base \in Baselines
    BY <2>1, <2>2 DEF StagesUnderWay
  <2>4. NothingNew(s, base) => NothingNew(s, base)'
    BY <1>3, <2>3
  <2>5. NothingNew(ThisStage, run.baseline) => NothingNew(ThisStage, run.baseline)'
    BY <2>1, <2>2, <2>4 DEF ThisStage
  <2>6. Unsent(ThisStage)' = Unsent(ThisStage)
    BY <1>1 DEF Unsent, Outlived, ThisStage
  <2>7. (Preparing => Preparing') /\ (Submitting => Submitting') /\ (Recovering => Recovering')
    BY <1>1, <2>1, <2>6 DEF Preparing, Submitting, Recovering, ThisStage, Receipt, RunAt
  <2> QED BY <1>1, <2>1, <2>5, <2>7 DEF RunFits, ThisStage, RunAt
<1>7. \A o \in orphans' : o.stage \in Sending /\ o.binding = file'.binding
  BY <1>1 DEF AcceptanceInv
<1> QED BY <1>1, <1>4, <1>5, <1>6, <1>7 DEF AcceptanceInv

LEMMA AcceptanceBegins == AcceptanceInit => AcceptanceInv
<1> SUFFICES ASSUME AcceptanceInit PROVE AcceptanceInv
  OBVIOUS
<1>1. /\ \A s \in Stages : Receipt(s).status = NoBinding
      /\ \A s \in Sending : landed[s] = 0 /\ ~Outlived(s)
      /\ run = NoRun /\ orphans = {}
  BY DEF AcceptanceInit, NoFile, Receipt, Outlived
<1>2. NoBinding \notin Uncertain \union {"verified"} /\ "B0" \in Stages /\ Sending \subseteq Stages
  BY DEF NoBinding, Uncertain, Stages
<1> QED BY <1>1, <1>2 DEF AcceptanceInv, ReceiptTells, Verified

LEMMA AcceptanceInvStep ==
  ASSUME AcceptanceTyped, AcceptanceInv, [AcceptanceNext]_acceptanceVars
  PROVE  AcceptanceInv'
<1>1. ASSUME UNCHANGED <<file, run, chat, orphans, landed>>
      PROVE  AcceptanceInv'
  <2>1. Quiet
    BY <1>1 DEF Quiet
  <2>2. ASSUME run # NoRun PROVE RunFits'
    <3>1. RunFits /\ run' = run
      BY <1>1, <2>2 DEF AcceptanceInv
    <3>2. PICK s, base : s = run.stage /\ base = run.baseline
      OBVIOUS
    <3>3. NothingNew(s, base)' = NothingNew(s, base)
      BY <2>1, QuietKeeps
    <3>4. NothingNew(ThisStage, run.baseline)' = NothingNew(ThisStage, run.baseline)
      BY <3>1, <3>2, <3>3 DEF ThisStage
    <3>5. Unsent(ThisStage)' = Unsent(ThisStage)
      BY <1>1 DEF Unsent, Outlived, ThisStage
    <3>6. (Preparing => Preparing') /\ (Submitting => Submitting') /\ (Recovering => Recovering')
      BY <1>1, <3>5 DEF Preparing, Submitting, Recovering, ThisStage, Receipt, RunAt
    <3> QED BY <1>1, <3>1, <3>4, <3>6 DEF RunFits, ThisStage, RunAt
  <2> QED BY <1>1, <2>1, <2>2, QuietFits
<1>2. CASE UNCHANGED acceptanceVars
  BY <1>1, <1>2 DEF acceptanceVars
<1>3. ASSUME NEW p \in Acceptors, NEW s \in Stages, NEW b \in Bindings,
             Asks(p, s) \/ TurnedAway(p, s, b) \/ Finalizes(p) \/ WritesConsent(p) \/ Switches(b)
      PROVE  AcceptanceInv'
  BY <1>1, <1>3 DEF Asks, TurnedAway, Finalizes, WritesConsent, Switches
<1>4. ASSUME NEW p \in Acceptors, NEW s \in Stages, NEW b \in Bindings,
             BeginsAfresh(p, b) \/ BeginsAgain(p, s, b) \/ BeginsReadback(p, s, b)
      PROVE  AcceptanceInv'
  BY <1>4, BeginsKeeps
<1>5. CASE StageStep
  <2>1. run \in StagesUnderWay
    <3>1. run.at # "over" \/ run # NoRun
      BY <1>5 DEF StageStep, Admits, Looks, Aborts, Writes, TakesBaseline, Fences, Submits,
         ReadsBack, ClearsDraft, Closes, Saves, Leaves, AdmitFails, CallFails,
         FenceFails, WriteFails, SubmitFails, ClearFails, CloseFails, SaveFails,
         AcceptorKilled, RunAt
    <3> QED BY <3>1, PositionOfNoRun, UnderWay
  <2>2. QuietStep \/ Fences \/ FenceFails \/ Submits \/ SubmitFails \/ Saves \/ AcceptorKilled
    BY <1>5 DEF StageStep, QuietStep
  <2> QED
    BY <2>1, <2>2, AcceptanceAssumption, QuietStepKeeps, FencesKeeps, SubmitsKeeps, SavesKeeps,
       KilledKeeps
<1>6. CASE OrphanEnds
  BY <1>6, OrphanKeeps
<1>7. ASSUME NEW c \in Sending, MessageArrives(c) PROVE AcceptanceInv'
  BY <1>7, MessageKeeps
<1>8. ASSUME NEW b \in Bindings, Switches(b) PROVE AcceptanceInv'
  BY <1>1, <1>8 DEF Switches
<1>9. ASSUME NEW p \in Acceptors, Finalizes(p) \/ WritesConsent(p) PROVE AcceptanceInv'
  BY <1>1, <1>9 DEF Finalizes, WritesConsent
<1>10. ASSUME NEW p \in Acceptors, NEW s \in Stages, Asks(p, s) PROVE AcceptanceInv'
  BY <1>1, <1>10 DEF Asks
<1>11. "A" \in Stages
  BY DEF Stages, Sending
<1> QED
  BY <1>2, <1>3, <1>4, <1>5, <1>6, <1>7, <1>8, <1>9, <1>10, <1>11 DEF AcceptanceNext

(* No stage of an acceptance sends its message twice (begin, beforeSubmit,    *)
(* recoverSubmitted), for any number of acceptors, failures, kills and        *)
(* retries: the fence is on file before the press, and whoever finds it there *)
(* only reads back.                                                        *)
THEOREM AcceptanceSendsOnce == AcceptanceSpec => []SentOnce
<1>1. AcceptanceInit => AcceptanceTyped /\ AcceptanceInv
  BY InitTyped, AcceptanceBegins
<1>2. AcceptanceTyped /\ AcceptanceInv /\ [AcceptanceNext]_acceptanceVars
        => (AcceptanceTyped /\ AcceptanceInv)'
  BY AcceptanceTypedStep, AcceptanceInvStep
<1>3. AcceptanceInv => SentOnce
  BY DEF AcceptanceInv, ReceiptTells, SentOnce
<1> QED BY <1>1, <1>2, <1>3, PTL DEF AcceptanceSpec

(* What the readback takes for the stage's message was sent by that stage     *)
(* (readOutgoingFixedMessageAfterBaseline), for a window of any size and      *)
(* however far it has moved on since the baseline was taken.                 *)
THEOREM AcceptanceVerifiesTheSent == AcceptanceSpec => []VerifiedWasSent
<1>1. AcceptanceInit => AcceptanceTyped /\ AcceptanceInv
  BY InitTyped, AcceptanceBegins
<1>2. AcceptanceTyped /\ AcceptanceInv /\ [AcceptanceNext]_acceptanceVars
        => (AcceptanceTyped /\ AcceptanceInv)'
  BY AcceptanceTypedStep, AcceptanceInvStep
<1>3. AcceptanceInv => VerifiedWasSent
  BY DEF AcceptanceInv, ReceiptTells, VerifiedWasSent
<1> QED BY <1>1, <1>2, <1>3, PTL DEF AcceptanceSpec

(* The receipt and the chat of every stage agree (begin, beforeSubmit,        *)
(* recoverSubmitted): sent at most once, and sent when it is verified.        *)
THEOREM AcceptanceReceiptIsTrue == AcceptanceSpec => []ReceiptIsTrue
  BY AcceptanceSendsOnce, AcceptanceVerifiesTheSent, PTL DEF ReceiptIsTrue

-----------------------------------------------------------------------------
\* What a step does to the chats, and to the count of what was sent.
Sends(s) ==
  /\ chat' = [chat EXCEPT ![s] = Append(@, file.binding)]
  /\ landed' = [landed EXCEPT ![s] = @ + 1]
  /\ file'.binding = file.binding

LEMMA PressIsSend ==
  ASSUME AcceptanceTyped, AcceptanceInv, NEW s \in Sending, Presses(s, file.binding), UNCHANGED file
  PROVE  Sends(s)
<1>1. Chat(s) = s
  BY DEF Chat, Sending
<1>2. landed' = [landed EXCEPT ![s] = @ + 1]
  BY PressLands
<1> QED BY <1>1, <1>2 DEF Sends, Presses

LEMMA ScreenChanges ==
  ASSUME AcceptanceTyped, AcceptanceInv, [AcceptanceNext]_acceptanceVars
  PROVE  \/ UNCHANGED <<chat, landed>> /\ file'.binding = file.binding
         \/ \E s \in Sending : Sends(s)
         \/ /\ \E s \in Sending : chat' = [chat EXCEPT ![s] = Append(@, Foreign)]
            /\ UNCHANGED landed /\ file'.binding = file.binding
         \/ UNCHANGED chat /\ landed' = [s \in Sending |-> 0]
<1> DEFINE Conclusion ==
      \/ UNCHANGED <<chat, landed>> /\ file'.binding = file.binding
      \/ \E s \in Sending : Sends(s)
      \/ /\ \E s \in Sending : chat' = [chat EXCEPT ![s] = Append(@, Foreign)]
         /\ UNCHANGED landed /\ file'.binding = file.binding
      \/ UNCHANGED chat /\ landed' = [s \in Sending |-> 0]
<1>1. ASSUME UNCHANGED <<file, chat, landed>> PROVE Conclusion
  BY <1>1
<1>2. ASSUME UNCHANGED <<chat, landed>>, NEW s, NEW receipt, Put(s, receipt) PROVE Conclusion
  <2>1. file'.binding = file.binding
    BY <1>2 DEF Put, AcceptanceTyped
  <2> QED BY <1>2, <2>1
<1>3. CASE UNCHANGED acceptanceVars
  BY <1>1, <1>3 DEF acceptanceVars
<1>4. ASSUME NEW p \in Acceptors, Finalizes(p) \/ WritesConsent(p) PROVE Conclusion
  BY <1>1, <1>4 DEF Finalizes, WritesConsent
<1>5. ASSUME NEW p \in Acceptors, NEW s \in Stages, Asks(p, s) PROVE Conclusion
  BY <1>1, <1>5 DEF Asks
<1>6. ASSUME NEW b \in Bindings, Switches(b) PROVE Conclusion
  BY <1>1, <1>6 DEF Switches
<1>7. ASSUME NEW p \in Acceptors, NEW s \in Stages, NEW b \in Bindings, TurnedAway(p, s, b)
      PROVE  Conclusion
  BY <1>1, <1>7 DEF TurnedAway
<1>8. ASSUME NEW p \in Acceptors, NEW s \in Stages, NEW b \in Bindings,
             BeginsAgain(p, s, b) \/ BeginsReadback(p, s, b)
      PROVE  Conclusion
  BY <1>2, <1>8 DEF BeginsAgain, BeginsReadback, Runs
<1>9. ASSUME NEW p \in Acceptors, NEW b \in Bindings, BeginsAfresh(p, b)
      PROVE  Conclusion
  BY <1>9 DEF BeginsAfresh, Runs
<1>10. ASSUME NEW c \in Sending, MessageArrives(c) PROVE Conclusion
  BY <1>10 DEF MessageArrives
<1>11. CASE OrphanEnds
  <2>1. PICK o \in orphans :
          /\ UNCHANGED <<chat, landed>> \/ Presses(o.stage, o.binding)
          /\ UNCHANGED file
    BY <1>11 DEF OrphanEnds
  <2>2. PICK s \in Sending : s = o.stage
    BY DEF AcceptanceInv
  <2>3. o.binding = file.binding
    BY DEF AcceptanceInv
  <2> QED BY <1>1, <2>1, <2>2, <2>3, PressIsSend
<1>12. CASE StageStep
  <2>1. run.at # "over" \/ run # NoRun
    BY <1>12 DEF StageStep, Admits, Looks, Aborts, Writes, TakesBaseline, Fences, Submits,
       ReadsBack, ClearsDraft, Closes, Saves, Leaves, AdmitFails, CallFails,
       FenceFails, WriteFails, SubmitFails, ClearFails, CloseFails, SaveFails,
       AcceptorKilled, RunAt
  <2>2. run \in StagesUnderWay /\ RunFits
    BY <2>1, PositionOfNoRun, UnderWay DEF AcceptanceInv
  <2>3. CASE QuietStep \/ AcceptorKilled
    BY <1>1, <2>3 DEF QuietStep, Admits, Looks, Aborts, Writes, TakesBaseline, ReadsBack,
       ClearsDraft, Closes, Leaves, AdmitFails, CallFails, WriteFails, ClearFails, CloseFails,
       SaveFails, AcceptorKilled
  <2>4. CASE Fences \/ FenceFails \/ Saves
    BY <1>1, <1>2, <2>4 DEF Fences, FenceFails, Saves, Fence
  <2>5. CASE Submits \/ SubmitFails
    <3>1. RunAt("press") /\ run.submits \in {0, 1} /\ run.mode \in {"execute", "recover"}
      BY <2>2, <2>5 DEF Submits, SubmitFails, StagesUnderWay
    <3>2. ThisStage \in Sending /\ run.binding = file.binding
      BY <2>2, <3>1 DEF RunFits, RunAt, Preparing, BeforeFence, Recovering, Submitting
    <3>3. PICK s \in Sending : s = ThisStage
      BY <3>2
    <3>4. UNCHANGED file /\ (UNCHANGED <<chat, landed>> \/ Presses(ThisStage, run.binding))
      BY <2>5 DEF Submits, SubmitFails
    <3> QED BY <1>1, <3>2, <3>3, <3>4, PressIsSend
  <2> QED BY <1>12, <2>3, <2>4, <2>5 DEF StageStep, QuietStep
<1> QED
  BY <1>3, <1>4, <1>5, <1>6, <1>7, <1>8, <1>9, <1>10, <1>11, <1>12 DEF AcceptanceNext

\* A message in a chat stays there.
LEMMA ChatGrows ==
  ASSUME AcceptanceTyped, NEW c \in Sending, NEW t,
         chat' = [chat EXCEPT ![c] = Append(@, t)]
  PROVE  /\ \A s \in Sending : \A b : Holds(s, b) => Holds(s, b)'
         /\ Holds(c, t)'
<1>1. chat[c] \in Seq(Texts) /\ chat'[c] = Append(chat[c], t)
      /\ \A s \in Sending : s # c => chat'[s] = chat[s]
  BY DEF AcceptanceTyped
<1>2. /\ DOMAIN chat'[c] = 1 .. Len(chat[c]) + 1
      /\ DOMAIN chat[c] = 1 .. Len(chat[c]) /\ Len(chat[c]) \in Nat
      /\ \A i \in 1 .. Len(chat[c]) : chat'[c][i] = chat[c][i]
      /\ chat'[c][Len(chat[c]) + 1] = t
  BY <1>1, DomainOfSeq
<1>3. Holds(c, t)'
  BY <1>2 DEF Holds
<1>4. \A b : Holds(c, b) => Holds(c, b)'
  BY <1>2 DEF Holds
<1>5. \A s \in Sending : \A b : s # c => Holds(s, b)' = Holds(s, b)
  BY <1>1 DEF Holds
<1> QED BY <1>3, <1>4, <1>5

LEMMA ConsentInvStep ==
  ASSUME AcceptanceTyped, AcceptanceInv, ConsentInv, [AcceptanceNext]_acceptanceVars
  PROVE  ConsentInv'
<1>1. \A s \in Sending : \A b : Holds(s, b) => Holds(s, b)'
  <2>1. CASE UNCHANGED chat
    BY <2>1 DEF Holds
  <2>2. ASSUME NEW c \in Sending, NEW t, chat' = [chat EXCEPT ![c] = Append(@, t)]
        PROVE  \A s \in Sending : \A b : Holds(s, b) => Holds(s, b)'
    BY <2>2, ChatGrows
  <2> QED BY <2>1, <2>2, ScreenChanges DEF Sends
<1>2. ASSUME NEW s \in Sending, NEW b, b = file'.binding, landed'[s] > 0
      PROVE  Holds(s, b)'
  <2>1. CASE landed'[s] = landed[s] /\ file'.binding = file.binding
    <3>1. Holds(s, b)
      BY <1>2, <2>1 DEF ConsentInv
    <3> QED BY <1>1, <3>1
  <2>2. CASE Sends(s)
    BY <1>2, <2>2, ChatGrows DEF Sends
  <2>3. ASSUME NEW c \in Sending, c # s, Sends(c)
        PROVE  landed'[s] = landed[s] /\ file'.binding = file.binding
    BY <2>3 DEF Sends, AcceptanceTyped
  <2>4. landed' # [t \in Sending |-> 0]
    BY <1>2
  <2> QED BY <2>1, <2>2, <2>3, <2>4, ScreenChanges
<1>3. \/ UNCHANGED <<consent, asked>>
      \/ \E p \in Acceptors, s \in Stages, b \in Bindings :
           asked' = [asked EXCEPT ![p] = [at |-> "begin", stage |-> s, binding |-> b]]
           /\ UNCHANGED consent
      \/ \E p \in Acceptors : asked' = [asked EXCEPT ![p] = NoRun] /\ UNCHANGED consent
      \/ \E p \in Acceptors : Finalizes(p) \/ WritesConsent(p)
  <2>1. CASE StageStep
    BY <2>1 DEF StageStep, Admits, Looks, Aborts, Writes, TakesBaseline, Fences, Submits,
       ReadsBack, ClearsDraft, Closes, Saves, Leaves, AdmitFails, CallFails,
       FenceFails, WriteFails, SubmitFails, ClearFails, CloseFails, SaveFails,
       AcceptorKilled, Driven
  <2>2. CASE UNCHANGED acceptanceVars
    BY <2>2 DEF acceptanceVars
  <2>3. ASSUME NEW p \in Acceptors, NEW s \in Stages, Asks(p, s)
        PROVE  /\ asked' = [asked EXCEPT ![p] = [at |-> "begin", stage |-> s, binding |-> installed]]
               /\ UNCHANGED consent /\ installed \in Bindings
    BY <2>3 DEF Asks, AcceptanceTyped
  <2>4. ASSUME NEW p \in Acceptors, NEW s \in Stages, NEW b \in Bindings,
               BeginsAfresh(p, b) \/ BeginsAgain(p, s, b) \/ BeginsReadback(p, s, b)
                 \/ TurnedAway(p, s, b)
        PROVE  asked' = [asked EXCEPT ![p] = NoRun] /\ UNCHANGED consent
    BY <2>4 DEF BeginsAfresh, BeginsAgain, BeginsReadback, TurnedAway, Runs
  <2>5. ASSUME OrphanEnds \/ (\E c \in Sending : MessageArrives(c))
                 \/ (\E b \in Bindings : Switches(b))
        PROVE  UNCHANGED <<consent, asked>>
    BY <2>5 DEF OrphanEnds, MessageArrives, Switches
  <2>6. "A" \in Stages
    BY DEF Stages, Sending
  <2> QED BY <2>1, <2>2, <2>3, <2>4, <2>5, <2>6 DEF AcceptanceNext
<1>4. ASSUME NEW b, \A s \in Sending : Holds(s, b)
      PROVE  \A s \in Sending : Holds(s, b)'
  BY <1>1, <1>4
<1>5. ASSUME NEW p \in Acceptors, Finalizes(p)
      PROVE  /\ asked' = [asked EXCEPT ![p] = [at |-> "consent", binding |-> installed]]
             /\ UNCHANGED consent
             /\ \A s \in Sending : Holds(s, installed)
  <2>1. file.binding = installed /\ \A s \in Stages : Verified(s)
    BY <1>5 DEF Finalizes, Evidence, Mine, Accepted
  <2>2. \A s \in Sending : landed[s] > 0
    BY <2>1 DEF AcceptanceInv, ReceiptTells, Stages
  <2> QED BY <1>5, <2>1, <2>2 DEF ConsentInv, Finalizes
<1>6. ASSUME NEW p \in Acceptors, WritesConsent(p)
      PROVE  /\ asked' = [asked EXCEPT ![p] = NoRun]
             /\ consent' = asked[p].binding
             /\ \A s \in Sending : Holds(s, asked[p].binding)
  BY <1>6 DEF WritesConsent, ConsentInv
<1>7. ASSUME NEW b, b = consent', b \in Bindings PROVE \A s \in Sending : Holds(s, b)'
  <2>1. b = consent \/ \E p \in Acceptors : WritesConsent(p) /\ b = asked[p].binding
    BY <1>3, <1>5, <1>6, <1>7
  <2>2. \A s \in Sending : Holds(s, b)
    BY <1>6, <1>7, <2>1 DEF ConsentInv
  <2> QED BY <1>4, <2>2
<1>8. ASSUME NEW q \in Acceptors, NEW b, asked'[q].at = "consent", b = asked'[q].binding
      PROVE  \A s \in Sending : Holds(s, b)'
  <2>1. asked'[q] = asked[q] \/ Finalizes(q)
    <3> USE DEF AcceptanceTyped
    <3>1. ASSUME NEW p \in Acceptors, NEW s \in Stages, NEW c \in Bindings,
                 asked' = [asked EXCEPT ![p] = [at |-> "begin", stage |-> s, binding |-> c]]
          PROVE  asked'[q] = asked[q]
      BY <1>8, <3>1
    <3>2. ASSUME NEW p \in Acceptors, asked' = [asked EXCEPT ![p] = NoRun]
          PROVE  asked'[q] = asked[q]
      BY <1>8, <3>2, PositionOfNoRun
    <3>3. ASSUME NEW p \in Acceptors, Finalizes(p) PROVE asked'[q] = asked[q] \/ p = q
      BY <1>5, <3>3
    <3> QED BY <1>3, <1>6, <3>1, <3>2, <3>3
  <2>2. CASE asked'[q] = asked[q]
    BY <1>4, <1>8, <2>2 DEF ConsentInv
  <2>3. CASE Finalizes(q)
    <3>1. asked'[q] = [at |-> "consent", binding |-> installed]
      BY <1>5, <2>3 DEF AcceptanceTyped
    <3>2. \A s \in Sending : Holds(s, b)
      BY <1>5, <1>8, <2>3, <3>1
    <3> QED BY <1>4, <3>2
  <2> QED BY <2>1, <2>2, <2>3
<1>9. consent' \in Bindings => \A s \in Sending : Holds(s, consent)'
  BY <1>7 DEF Holds
<1>10. \A p \in Acceptors : asked'[p].at = "consent" =>
         \A s \in Sending : Holds(s, asked[p].binding)'
  BY <1>8 DEF Holds
<1>11. \A s \in Sending : landed'[s] > 0 => Holds(s, file.binding)'
  BY <1>2 DEF Holds
<1> QED BY <1>9, <1>10, <1>11 DEF ConsentInv

LEMMA HeldOccurs ==
  ASSUME AcceptanceTyped, NEW s \in Sending, NEW b, Holds(s, b)
  PROVE  Occurrences(chat[s], b) > 0
<1> DEFINE I == {i \in DOMAIN chat[s] : chat[s][i] = b}
<1>1. chat[s] \in Seq(Texts)
  BY DEF AcceptanceTyped
<1>2. IsFiniteSet(DOMAIN chat[s])
  BY <1>1, DomainOfSeq, FS_Interval
<1>3. IsFiniteSet(I)
  BY <1>2, FS_Subset
<1>4. I # {}
  BY DEF Holds
<1>5. Cardinality(I) \in Nat /\ Cardinality(I) # 0
  BY <1>3, <1>4, FS_CardinalityType, FS_EmptySet
<1> QED BY <1>5 DEF Occurrences

(* Consent on disk is bound to a release whose own two messages stand in the  *)
(* two chats (finalize), though finalize reads its evidence under no lease    *)
(* and any number of switches and acceptances go on before it writes.        *)
THEOREM ConsentEarned == AcceptanceSpec => []ConsentIsEarned
<1>1. AcceptanceInit => AcceptanceTyped /\ AcceptanceInv /\ ConsentInv
  <2> SUFFICES ASSUME AcceptanceInit PROVE AcceptanceTyped /\ AcceptanceInv /\ ConsentInv
    OBVIOUS
  <2>1. AcceptanceTyped /\ AcceptanceInv
    BY InitTyped, AcceptanceBegins
  <2>2. consent \notin Bindings
    BY AcceptanceAssumption DEF AcceptanceAssumption, AcceptanceInit
  <2>3. /\ \A s \in Sending : ~(landed[s] > 0)
        /\ \A p \in Acceptors : asked[p].at = "over"
    BY PositionOfNoRun DEF AcceptanceInit
  <2> QED BY <2>1, <2>2, <2>3 DEF ConsentInv
<1>2. /\ AcceptanceTyped /\ AcceptanceInv /\ ConsentInv /\ [AcceptanceNext]_acceptanceVars
        => (AcceptanceTyped /\ AcceptanceInv /\ ConsentInv)'
  BY AcceptanceTypedStep, AcceptanceInvStep, ConsentInvStep
<1>3. AcceptanceTyped /\ ConsentInv => ConsentIsEarned
  <2> SUFFICES ASSUME AcceptanceTyped, ConsentInv, NEW b \in Bindings, consent = b,
                      NEW s \in Sending
               PROVE  Occurrences(chat[s], b) > 0
    BY DEF ConsentIsEarned
  <2>1. Holds(s, b)
    BY DEF ConsentInv
  <2> QED BY <2>1, HeldOccurs
<1> QED BY <1>1, <1>2, <1>3, PTL DEF AcceptanceSpec

-----------------------------------------------------------------------------
(* The transactions of the release manager.  Only the command that has the   *)
(* live-operation lease is past the staging, and what it remembers is what    *)
(* the journal says; each place of a command goes with a phase and with what  *)
(* the pointers are.                                                       *)
Phases ==
  {"none", "maintenance-staged", "awaiting-commit", "terminal-abort", "candidate-moving",
   "prepared", "legacy-migrating", "legacy-migrated", "previous-prepared", "current-switched"}

\* The phases in which the installation is still what it was.
Midway ==
  {"awaiting-commit", "candidate-moving", "prepared", "legacy-migrating", "legacy-migrated",
   "previous-prepared"}

Resting == {"idle", "lease", "stage", "release", "release-live"}

Places ==
  Resting \union
  {"create", "list-locks", "move-locks", "record-lock", "inspect", "commit-decision", "write",
   "candidate-moving", "rename-candidate", "seal-candidate", "legacy-migrating",
   "previous-prepared", "current-switched", "recovery-decision", "stabilize", "adopt",
   "forward-previous", "forward-current", "restore-current", "restore-previous", "archive"}

Pairs == [current : Pointers \union {None}, previous : Pointers \union {None}]

Journals ==
  [txid : Nat, operation : {"none", "install", "rollback"}, phase : Phases,
   candidate : Releases \union {None}, before : Pairs, desired : Pairs, claim : Nat]

CommandStates ==
  [pc : Places, operation : {"none", "install", "rollback", "recover"},
   candidate : Releases \union {None}, memory : Journals]

ReleaseTyped ==
  /\ bin \in Pointers /\ binPrevious \in Releases \union {Absent}
  /\ store \in SUBSET Releases /\ staging = Releases \ store
  /\ migration.artifacts \subseteq locks \union movedLocks
  /\ transactions \in Nat
  /\ archive \in SUBSET (1 .. transactions)
  /\ journal \in Journals /\ journal.txid <= transactions
  /\ cmd \in [Commands -> CommandStates]
  /\ live \in Commands \union {None, "runtime"}
  /\ runtime \in Pointers \union {None}

-----------------------------------------------------------------------------
Working(p) == cmd[p].pc \notin Resting

\* A transaction that is not yet in the journal.
Fresh(p) == cmd[p].pc \in {"lease", "stage", "create"} /\ cmd[p].operation # "recover"

FreshJournal(m) ==
  /\ m.operation \in {"install", "rollback"} /\ m.phase = "maintenance-staged"
  /\ m.operation = "install" => m.candidate \in Releases
  /\ Parses(m)
  /\ m.txid \in 1 .. transactions /\ m.txid \notin archive

\* What a record says, whoever wrote it.
RecordFits(m) ==
  /\ m.operation \in {"install", "rollback"} /\ m.phase # "none" /\ m.txid # 0
  /\ m.operation = "install" => m.candidate \in Releases
  /\ m.phase \in Midway =>
       /\ m.before.current \in Pointers /\ m.before.previous \in Releases \union {Absent}
       /\ m.operation = "install" =>
            m.desired = Pair(m.candidate, IF Validated(m.before.current) THEN m.before.current
                                          ELSE Absent)
       /\ m.operation = "rollback" =>
            /\ Validated(m.before.current) /\ Validated(m.before.previous)
            /\ m.desired = Pair(m.before.previous, m.before.current)
  /\ m.phase \in Midway \ {"awaiting-commit"} => ~SameRelease(m)
  /\ m.phase \in {"legacy-migrating", "legacy-migrated"} => m.before.current = Legacy
  /\ m.phase = "candidate-moving" => m.operation = "install"
  /\ m.phase = "maintenance-staged" => Parses(m)
  /\ m.phase = "current-switched" => (m.desired.current = Legacy => m.before.current = Legacy)

\* The phase on disk explains the pointers, but for three moments of a legacy bin.
PointersFit(m) ==
  m.phase \in Midway \union {"current-switched"}
    => Legal(m, bin, binPrevious) \/ LegacyIsUnclear(m, bin)

PlaceFits(place, operation, m) ==
  /\ place \in {"list-locks", "move-locks", "record-lock"} /\ operation # "recover" =>
       m.phase = "maintenance-staged"
  /\ place = "inspect" => m.phase = "maintenance-staged"
  /\ place = "commit-decision" => m.phase = "awaiting-commit" /\ Observed = m.before
  /\ place = "write" =>
       /\ m.phase \in Midway
       /\ m.phase = "awaiting-commit" => Observed = m.before
       /\ m.phase = "previous-prepared" => binPrevious = m.desired.previous
  /\ place \in {"candidate-moving", "rename-candidate", "seal-candidate"} =>
       m.phase = "candidate-moving"
  /\ place \in {"legacy-migrating", "previous-prepared", "current-switched"} => m.phase = place
  /\ place \in {"forward-previous", "forward-current"} => m.phase = "current-switched"
  /\ place \in {"current-switched", "forward-current"} => binPrevious = m.desired.previous
  /\ place \in {"restore-current", "restore-previous"} => m.phase \in Midway
  /\ place = "restore-previous" => bin = m.before.current
  /\ place = "archive" =>
       /\ m.phase \in Midway \union {"current-switched", "terminal-abort"}
       /\ Observed = IF m.phase = "current-switched" THEN m.desired ELSE m.before

CommandFits(p) ==
  Working(p) =>
    /\ live = p
    /\ cmd[p].pc = "create" => journal = NoJournal /\ cmd[p].operation # "recover"
    /\ cmd[p].pc # "create" =>
         /\ journal = cmd[p].memory /\ journal # NoJournal
         /\ PlaceFits(cmd[p].pc, cmd[p].operation, journal)

ReleaseInv ==
  /\ runtime # None <=> live = "runtime"
  /\ journal # NoJournal => RecordFits(journal) /\ PointersFit(journal)
  /\ journal.txid \notin archive
  /\ \A p \in Commands : CommandFits(p)
  /\ \A p \in Commands : /\ cmd[p].operation = "recover" => cmd[p].memory # NoJournal
                         /\ cmd[p].candidate = cmd[p].memory.candidate
  /\ \A p \in Commands : Fresh(p) =>
       /\ FreshJournal(cmd[p].memory) /\ cmd[p].memory.txid # journal.txid
       /\ \A q \in Commands : Fresh(q) /\ q # p => cmd[q].memory.txid # cmd[p].memory.txid

-----------------------------------------------------------------------------
LEMMA NoJournalTyped ==
  /\ NoJournal \in Journals /\ NoJournal.txid = 0 /\ NoJournal.phase = "none"
  /\ Idle \in CommandStates /\ Idle.pc = "idle" /\ Idle.operation = "none"
  /\ Idle.memory = NoJournal /\ Idle.candidate = NoJournal.candidate
BY DEF NoJournal, Idle, Journals, CommandStates, Pairs, Pair, Unknown, Phases, Places, Resting

LEMMA ReleaseInitTyped == Init => ReleaseTyped
<1> SUFFICES ASSUME Init PROVE ReleaseTyped
  OBVIOUS
<1>1. PICK start \in Starts : bin = start.current /\ binPrevious = start.previous
  BY DEF Init
<1>2. bin \in Pointers /\ binPrevious \in Releases \union {Absent}
  BY <1>1, ReleaseAssumption DEF ReleaseAssumption, Pointers
<1>3. journal \in Journals /\ journal.txid = 0 /\ cmd \in [Commands -> CommandStates]
  BY NoJournalTyped DEF Init
<1>4. migration.artifacts = {}
  BY DEF Init, NoMigration
<1> QED BY <1>2, <1>3, <1>4 DEF Init, ReleaseTyped

LEMMA CommandTyped ==
  ASSUME ReleaseTyped, NEW p \in Commands
  PROVE  /\ cmd[p] \in CommandStates /\ cmd[p].memory \in Journals
         /\ cmd[p].candidate \in Releases \union {None}
         /\ cmd[p].memory.before \in Pairs /\ cmd[p].memory.desired \in Pairs
BY DEF ReleaseTyped, CommandStates, Journals

LEMMA GotoTyped ==
  ASSUME ReleaseTyped, NEW p \in Commands, NEW place \in Places, Goto(p, place)
  PROVE  /\ cmd' \in [Commands -> CommandStates]
         /\ cmd'[p].pc = place /\ cmd'[p].operation = cmd[p].operation
         /\ cmd'[p].memory = cmd[p].memory /\ cmd'[p].candidate = cmd[p].candidate
         /\ \A q \in Commands : q # p => cmd'[q] = cmd[q]
<1>1. cmd[p] \in CommandStates
  BY CommandTyped
<1>2. [cmd[p] EXCEPT !.pc = place] \in CommandStates
  BY <1>1 DEF CommandStates
<1>3. cmd' = [cmd EXCEPT ![p] = [cmd[p] EXCEPT !.pc = place]]
  BY DEF Goto, ReleaseTyped
<1> QED BY <1>1, <1>2, <1>3 DEF ReleaseTyped, CommandStates

LEMMA RememberTyped ==
  ASSUME ReleaseTyped, NEW p \in Commands, NEW place \in Places, NEW record \in Journals,
         Remember(p, place, record)
  PROVE  /\ cmd' \in [Commands -> CommandStates]
         /\ cmd'[p].pc = place /\ cmd'[p].operation = cmd[p].operation
         /\ cmd'[p].memory = record /\ cmd'[p].candidate = cmd[p].candidate
         /\ \A q \in Commands : q # p => cmd'[q] = cmd[q]
<1>1. cmd[p] \in CommandStates
  BY CommandTyped
<1>2. [cmd[p] EXCEPT !.pc = place, !.memory = record] \in CommandStates
  BY <1>1 DEF CommandStates
<1>3. cmd' = [cmd EXCEPT ![p] = [cmd[p] EXCEPT !.pc = place, !.memory = record]]
  BY DEF Remember, ReleaseTyped
<1> QED BY <1>1, <1>2, <1>3 DEF ReleaseTyped, CommandStates

LEMMA IdleTyped ==
  ASSUME ReleaseTyped, NEW p \in Commands, cmd' = [cmd EXCEPT ![p] = Idle]
  PROVE  /\ cmd' \in [Commands -> CommandStates]
         /\ cmd'[p] = Idle
         /\ \A q \in Commands : q # p => cmd'[q] = cmd[q]
BY NoJournalTyped DEF ReleaseTyped

-----------------------------------------------------------------------------
\* A command that holds the live-operation lease goes on.
LEMMA Advances ==
  ASSUME ReleaseTyped, ReleaseInv, NEW p \in Commands, Working(p),
         NEW m \in Journals, NEW place \in Places \ {"idle", "lease", "stage", "create"},
         UNCHANGED <<archive, live, runtime, transactions>>,
         cmd' \in [Commands -> CommandStates],
         \A q \in Commands : q # p => cmd'[q] = cmd[q],
         cmd'[p].pc = place, cmd'[p].operation = cmd[p].operation, cmd'[p].memory = m,
         cmd'[p].candidate = m.candidate, journal' = m, m # NoJournal,
         m.txid = journal.txid \/ (cmd[p].pc = "create" /\ m.txid = cmd[p].memory.txid),
         RecordFits(m), PointersFit(m)',
         place \notin Resting => PlaceFits(place, cmd[p].operation, m)'
  PROVE  ReleaseInv'
<1>1. live = p
  BY DEF ReleaseInv, CommandFits
<1>2. \A q \in Commands : q # p => ~Working(q) /\ ~Working(q)'
  BY <1>1 DEF ReleaseInv, CommandFits, Working
<1>3. \A q \in Commands : q # p => CommandFits(q)'
  BY <1>2 DEF CommandFits
<1>4. CommandFits(p)'
  <2>1. PICK w, o : w = cmd'[p].pc /\ o = cmd'[p].operation
    OBVIOUS
  <2>2. w \notin Resting => PlaceFits(w, o, m)'
    BY <2>1
  <2>3. w \notin Resting => PlaceFits(cmd[p].pc, cmd[p].operation, journal)'
    BY <2>1, <2>2
  <2> QED BY <1>1, <2>1, <2>3 DEF CommandFits, Working
<1>5. journal' # NoJournal => RecordFits(journal)' /\ PointersFit(journal)'
  BY DEF RecordFits
<1>6. journal'.txid \notin archive'
  <2>1. CASE m.txid = journal.txid
    BY <2>1 DEF ReleaseInv
  <2>2. CASE cmd[p].pc = "create" /\ m.txid = cmd[p].memory.txid
    <3>1. Fresh(p)
      BY <2>2 DEF ReleaseInv, CommandFits, Working, Fresh
    <3> QED BY <2>2, <3>1 DEF ReleaseInv, FreshJournal
  <2> QED BY <2>1, <2>2
<1>7. \A q \in Commands : /\ cmd'[q].operation = "recover" => cmd'[q].memory # NoJournal
                        /\ cmd'[q].candidate = cmd'[q].memory.candidate
  BY DEF ReleaseInv
<1>8. ~Fresh(p)' /\ \A q \in Commands : q # p => Fresh(q)' = Fresh(q)
  BY DEF Fresh
<1>9. ASSUME NEW q \in Commands, Fresh(q)'
      PROVE  /\ FreshJournal(cmd[q].memory)' /\ cmd'[q].memory.txid # journal'.txid
             /\ \A r \in Commands : Fresh(r)' /\ r # q => cmd'[r].memory.txid # cmd'[q].memory.txid
  <2>1. q # p /\ Fresh(q) /\ cmd'[q] = cmd[q]
    BY <1>8, <1>9
  <2>2. FreshJournal(cmd[q].memory) /\ cmd[q].memory.txid # journal.txid
    BY <2>1 DEF ReleaseInv
  <2>3. \A r \in Commands : Fresh(r)' /\ r # q => cmd'[r].memory.txid # cmd'[q].memory.txid
    BY <1>8, <2>1 DEF ReleaseInv
  <2>4. FreshJournal(cmd[q].memory)'
    BY <2>1, <2>2 DEF FreshJournal
  <2>5. cmd[p].pc = "create" => Fresh(p)
    BY DEF ReleaseInv, CommandFits, Working, Fresh
  <2>6. cmd'[q].memory.txid # journal'.txid
    BY <2>1, <2>2, <2>5 DEF ReleaseInv
  <2> QED BY <2>3, <2>4, <2>6
<1>10. runtime' # None <=> live' = "runtime"
  BY DEF ReleaseInv
<1> QED BY <1>3, <1>4, <1>5, <1>6, <1>7, <1>9, <1>10 DEF ReleaseInv

\* It only goes to another place, and the pointers may move.
LEMMA Strides ==
  ASSUME ReleaseTyped, ReleaseInv, NEW p \in Commands, Working(p), cmd[p].pc # "create",
         NEW place \in Places \ {"idle", "lease", "stage", "create"},
         UNCHANGED <<journal, archive, live, runtime, transactions>>,
         Goto(p, place), PointersFit(journal)',
         \A m : m = journal => (place \notin Resting => PlaceFits(place, cmd[p].operation, m)')
  PROVE  ReleaseInv'
<1>1. journal = cmd[p].memory /\ journal # NoJournal
  BY DEF ReleaseInv, CommandFits
<1>2. PICK m \in Journals : m = journal
  BY DEF ReleaseTyped
<1>3. PointersFit(m)'
  BY <1>2 DEF PointersFit, Legal, LegacyIsUnclear, Observed
<1>4. /\ cmd' \in [Commands -> CommandStates]
      /\ cmd'[p].pc = place /\ cmd'[p].operation = cmd[p].operation
      /\ cmd'[p].memory = cmd[p].memory /\ cmd'[p].candidate = cmd[p].candidate
      /\ \A q \in Commands : q # p => cmd'[q] = cmd[q]
  BY GotoTyped
<1>5. RecordFits(m)
  BY <1>1, <1>2 DEF ReleaseInv
<1>6. place \notin Resting => PlaceFits(place, cmd[p].operation, m)'
  BY <1>2
<1>7. cmd'[p].candidate = m.candidate
  BY <1>1, <1>2, <1>4 DEF ReleaseInv
<1> QED BY <1>1, <1>2, <1>3, <1>4, <1>5, <1>6, <1>7, Advances

\* A command that rests, or ends, gives at most its own lease back.
LEMMA Rests ==
  ASSUME ReleaseTyped, ReleaseInv, NEW p \in Commands,
         UNCHANGED <<bin, binPrevious, journal, archive, runtime, transactions>>,
         live' = live \/ (live = p /\ live' = None),
         cmd' \in [Commands -> CommandStates],
         \A q \in Commands : q # p => cmd'[q] = cmd[q],
         \/ cmd'[p] = Idle
         \/ /\ cmd'[p].operation = cmd[p].operation /\ cmd'[p].memory = cmd[p].memory
            /\ cmd'[p].candidate = cmd[p].candidate
            /\ \/ cmd'[p].pc \in {"release", "release-live"}
               \/ cmd'[p].pc = "stage" /\ cmd[p].pc = "lease"
  PROVE  ReleaseInv'
<1>1. ~Working(p)'
  BY NoJournalTyped DEF Working, Resting
<1>2. p # "runtime" /\ p # None /\ None # "runtime"
  BY ReleaseAssumption DEF ReleaseAssumption
<1>3. ASSUME NEW q \in Commands PROVE CommandFits(q)'
  <2>1. CASE q = p
    BY <1>1, <2>1 DEF CommandFits
  <2>2. CASE q # p /\ ~Working(q)
    BY <2>2 DEF CommandFits, Working
  <2>3. CASE q # p /\ Working(q)
    <3>1. live' = live /\ cmd'[q] = cmd[q] /\ CommandFits(q)
      BY <2>3 DEF ReleaseInv, CommandFits
    <3>2. PICK m, w, o : m = journal /\ w = cmd[q].pc /\ o = cmd[q].operation
      OBVIOUS
    <3>3. PlaceFits(w, o, m) => PlaceFits(w, o, m)'
      BY DEF PlaceFits, Observed
    <3>4. PlaceFits(cmd[q].pc, cmd[q].operation, journal)
            => PlaceFits(cmd[q].pc, cmd[q].operation, journal)'
      BY <3>1, <3>2, <3>3
    <3> QED BY <3>1, <3>4 DEF CommandFits, Working
  <2> QED BY <2>1, <2>2, <2>3
<1>4. Fresh(p)' => Fresh(p) /\ cmd'[p].memory = cmd[p].memory
  BY NoJournalTyped DEF Fresh
<1>5. \A q \in Commands : Fresh(q)' => Fresh(q) /\ cmd'[q].memory = cmd[q].memory
  BY <1>4 DEF Fresh
<1>6. ASSUME NEW q \in Commands, Fresh(q)'
      PROVE  /\ FreshJournal(cmd[q].memory)' /\ cmd'[q].memory.txid # journal'.txid
             /\ \A r \in Commands : Fresh(r)' /\ r # q => cmd'[r].memory.txid # cmd'[q].memory.txid
  BY <1>5, <1>6 DEF ReleaseInv, FreshJournal
<1>7. \A q \in Commands : /\ cmd'[q].operation = "recover" => cmd'[q].memory # NoJournal
                        /\ cmd'[q].candidate = cmd'[q].memory.candidate
  BY NoJournalTyped DEF ReleaseInv
<1>8. journal' # NoJournal => RecordFits(journal)' /\ PointersFit(journal)'
  BY DEF ReleaseInv, RecordFits, PointersFit, Legal, LegacyIsUnclear
<1>9. runtime' # None <=> live' = "runtime"
  BY <1>2 DEF ReleaseInv
<1> QED BY <1>3, <1>6, <1>7, <1>8, <1>9 DEF ReleaseInv

-----------------------------------------------------------------------------
\* The steps of a command that write neither the journal nor a pointer.
StrideStep(p) ==
  \/ ListLocks(p) \/ MoveLock(p) \/ RecordLock(p) \/ LocksAmbiguous(p) \/ LocksMigrated(p)
  \/ NothingToRollBack(p) \/ CommitAccepted(p) \/ CommitRefused(p)
  \/ ThawCandidate(p) \/ RenameCandidate(p) \/ SealCandidate(p)
  \/ RecoveryRefused(p) \/ RecoveryAccepted(p) \/ Stabilize(p) \/ PointersAmbiguous(p)

LEMMA WorkingFits ==
  ASSUME ReleaseInv, NEW p \in Commands, cmd[p].pc \notin Resting, cmd[p].pc # "create"
  PROVE  /\ Working(p) /\ live = p
         /\ journal = cmd[p].memory /\ journal # NoJournal /\ RecordFits(journal)
         /\ PointersFit(journal)
         /\ PlaceFits(cmd[p].pc, cmd[p].operation, journal)
         /\ cmd[p].candidate = journal.candidate
BY DEF ReleaseInv, CommandFits, Working

LEMMA SamePlace ==
  ASSUME UNCHANGED <<bin, binPrevious>>
  PROVE  /\ \A m : PointersFit(m)' = PointersFit(m)
         /\ \A w, o, m : PlaceFits(w, o, m)' = PlaceFits(w, o, m)
BY DEF PointersFit, Legal, LegacyIsUnclear, PlaceFits, Observed

LEMMA StridesQuietly ==
  ASSUME ReleaseTyped, ReleaseInv, NEW p \in Commands, cmd[p].pc \notin Resting,
         cmd[p].pc # "create",
         NEW place \in Places \ {"idle", "lease", "stage", "create"},
         UNCHANGED <<bin, binPrevious, journal, archive, live, runtime, transactions>>,
         Goto(p, place),
         place \notin Resting => PlaceFits(place, cmd[p].operation, journal)
  PROVE  ReleaseInv' /\ cmd' \in [Commands -> CommandStates]
<1>1. PointersFit(journal) /\ Working(p)
  BY WorkingFits
<1>2. PICK m, o : m = journal /\ o = cmd[p].operation
  OBVIOUS
<1>3. PointersFit(m)'
  BY <1>1, <1>2, SamePlace
<1>4. PointersFit(journal)'
  BY <1>2, <1>3 DEF PointersFit, Legal, LegacyIsUnclear
<1>5. place \notin Resting => PlaceFits(place, o, m)'
  BY <1>2, SamePlace
<1>6. cmd'[p].operation = o /\ cmd' \in [Commands -> CommandStates]
  BY <1>2, GotoTyped
<1>7. place \notin Resting => PlaceFits(place, cmd[p].operation, m)'
  BY <1>5, <1>6
<1> QED BY <1>1, <1>2, <1>4, <1>6, <1>7, Strides

LEMMA StrideStepKeeps ==
  ASSUME ReleaseTyped, ReleaseInv, NEW p \in Commands, StrideStep(p)
  PROVE  ReleaseTyped' /\ ReleaseInv'
<1>1. UNCHANGED <<bin, binPrevious, journal, archive, live, runtime, transactions>>
  BY DEF StrideStep, ListLocks, MoveLock, RecordLock, LocksAmbiguous, LocksMigrated,
         NothingToRollBack, CommitAccepted, CommitRefused, ThawCandidate, RenameCandidate,
         SealCandidate, RecoveryRefused, RecoveryAccepted, Stabilize, PointersAmbiguous, Fails,
         disk, leases, counters
<1> USE DEF At
<1>2. ASSUME NEW place \in Places \ {"idle", "lease", "stage", "create"}, Goto(p, place),
             cmd[p].pc \notin Resting, cmd[p].pc # "create",
             place \notin Resting => PlaceFits(place, cmd[p].operation, journal),
             store' \in SUBSET Releases, staging' = Releases \ store',
             migration'.artifacts \subseteq locks' \union movedLocks'
      PROVE  ReleaseTyped' /\ ReleaseInv'
  <2>1. ReleaseInv' /\ cmd' \in [Commands -> CommandStates]
    BY <1>1, <1>2, StridesQuietly
  <2> QED BY <1>1, <1>2, <2>1 DEF ReleaseTyped
<1>3. /\ store \in SUBSET Releases /\ staging = Releases \ store
      /\ migration.artifacts \subseteq locks \union movedLocks
  BY DEF ReleaseTyped
<1>4. CASE LocksAmbiguous(p) \/ NothingToRollBack(p) \/ CommitRefused(p) \/ RecoveryRefused(p)
             \/ PointersAmbiguous(p)
  BY <1>2, <1>3, <1>4 DEF LocksAmbiguous, NothingToRollBack, CommitRefused, RecoveryRefused,
         PointersAmbiguous, Fails, disk, lockFiles, Resting, Places
<1>5. CASE ListLocks(p)
  <2>1. cmd[p].operation # "recover" => journal.phase = "maintenance-staged"
    BY <1>5, WorkingFits DEF ListLocks, Resting, PlaceFits
  <2>2. PlaceFits("move-locks", cmd[p].operation, journal)
    BY <2>1 DEF PlaceFits
  <2>3. migration'.artifacts \subseteq locks' \union movedLocks'
    BY <1>3, <1>5 DEF ListLocks
  <2> QED BY <1>2, <1>3, <1>5, <2>2, <2>3 DEF ListLocks, disk, Resting, Places
<1>6. CASE MoveLock(p)
  <2>1. cmd[p].operation # "recover" => journal.phase = "maintenance-staged"
    BY <1>6, WorkingFits DEF MoveLock, Resting, PlaceFits
  <2>2. PlaceFits("record-lock", cmd[p].operation, journal)
    BY <2>1 DEF PlaceFits
  <2>3. migration'.artifacts \subseteq locks' \union movedLocks'
    BY <1>3, <1>6 DEF MoveLock
  <2> QED BY <1>2, <1>3, <1>6, <2>2, <2>3 DEF MoveLock, disk, Resting, Places
<1>7. CASE RecordLock(p)
  <2>1. cmd[p].operation # "recover" => journal.phase = "maintenance-staged"
    BY <1>7, WorkingFits DEF RecordLock, Resting, PlaceFits
  <2>2. PlaceFits("move-locks", cmd[p].operation, journal)
    BY <2>1 DEF PlaceFits
  <2>3. migration'.artifacts = migration.artifacts \/ migration'.artifacts \subseteq {}
    <3>1. migration' = [migration EXCEPT !.archived = @ \union (Pending \intersect movedLocks)]
      BY <1>7 DEF RecordLock
    <3> QED BY <3>1
  <2>4. migration'.artifacts \subseteq locks' \union movedLocks'
    BY <1>3, <1>7, <2>3 DEF RecordLock
  <2> QED BY <1>2, <1>3, <1>7, <2>2, <2>4 DEF RecordLock, disk, Resting, Places
<1>8. CASE LocksMigrated(p)
  <2>1. cmd[p].operation # "recover" => journal.phase = "maintenance-staged"
    BY <1>8, WorkingFits DEF LocksMigrated, Resting, PlaceFits
  <2>2. CASE cmd[p].operation = "recover"
    <3>1. PlaceFits("recovery-decision", cmd[p].operation, journal)
      BY DEF PlaceFits
    <3> QED
      BY <1>2, <1>3, <1>8, <2>2, <3>1 DEF LocksMigrated, disk, lockFiles, Resting, Places
  <2>3. CASE cmd[p].operation # "recover"
    <3>1. PlaceFits("inspect", cmd[p].operation, journal)
      BY <2>1, <2>3 DEF PlaceFits
    <3> QED
      BY <1>2, <1>3, <1>8, <2>3, <3>1 DEF LocksMigrated, disk, lockFiles, Resting, Places
  <2> QED BY <2>2, <2>3
<1>9. CASE CommitAccepted(p)
  <2>1. journal.phase = "awaiting-commit" /\ Observed = journal.before
    BY <1>9, WorkingFits DEF CommitAccepted, Resting, PlaceFits
  <2>2. PlaceFits("write", cmd[p].operation, journal)
    BY <2>1 DEF PlaceFits, Midway
  <2> QED BY <1>2, <1>3, <1>9, <2>2 DEF CommitAccepted, disk, lockFiles, Resting, Places
<1>10. CASE ThawCandidate(p)
  <2>1. PlaceFits("rename-candidate", cmd[p].operation, journal)
    BY <1>10, WorkingFits DEF ThawCandidate, Resting, PlaceFits
  <2> QED BY <1>2, <1>3, <1>10, <2>1 DEF ThawCandidate, lockFiles, Resting, Places
<1>11. CASE RenameCandidate(p)
  <2>1. PlaceFits("seal-candidate", cmd[p].operation, journal)
    BY <1>11, WorkingFits DEF RenameCandidate, Resting, PlaceFits
  <2>2. cmd[p].candidate \in Releases
    <3>1. journal.phase = "candidate-moving"
      BY <1>11, WorkingFits DEF RenameCandidate, Resting, PlaceFits
    <3> QED BY <1>11, <3>1, WorkingFits DEF RenameCandidate, Resting, RecordFits
  <2>3. store' \in SUBSET Releases /\ staging' = Releases \ store'
    BY <1>3, <1>11, <2>2 DEF RenameCandidate
  <2>4. migration'.artifacts \subseteq locks' \union movedLocks'
    BY <1>3, <1>11 DEF RenameCandidate, lockFiles
  <2>5. Goto(p, "seal-candidate") /\ cmd[p].pc = "rename-candidate"
    BY <1>11 DEF RenameCandidate
  <2> QED BY <1>2, <2>1, <2>3, <2>4, <2>5 DEF Resting, Places
<1>12. CASE SealCandidate(p)
  <2>1. journal.phase = "candidate-moving"
    BY <1>12, WorkingFits DEF SealCandidate, Resting, PlaceFits
  <2>2. PlaceFits("write", cmd[p].operation, journal)
    BY <2>1 DEF PlaceFits, Midway
  <2> QED BY <1>2, <1>3, <1>12, <2>2 DEF SealCandidate, lockFiles, Resting, Places
<1>13. CASE RecoveryAccepted(p)
  <2>1. PlaceFits("stabilize", cmd[p].operation, journal) /\ PlaceFits("adopt", cmd[p].operation, journal)
    BY DEF PlaceFits
  <2> QED BY <1>2, <1>3, <1>13, <2>1 DEF RecoveryAccepted, disk, lockFiles, Resting, Places
<1>14. CASE Stabilize(p)
  <2>1. PlaceFits("adopt", cmd[p].operation, journal)
    BY DEF PlaceFits
  <2> QED BY <1>2, <1>3, <1>14, <2>1 DEF Stabilize, lockFiles, Resting, Places
<1> QED
  BY <1>4, <1>5, <1>6, <1>7, <1>8, <1>9, <1>10, <1>11, <1>12, <1>13, <1>14 DEF StrideStep

-----------------------------------------------------------------------------
\* updateTransactionJournal: what is written is what the command remembers.
LEMMA WriteKeeps ==
  ASSUME ReleaseTyped, ReleaseInv, NEW p \in Commands, cmd[p].pc \notin Resting,
         cmd[p].pc # "create", NEW record \in Journals,
         record.txid = journal.txid, record.candidate = journal.candidate,
         NEW place \in Places \ {"idle", "lease", "stage", "create"}, Write(p, record, place),
         RecordFits(record), PointersFit(record), PlaceFits(place, cmd[p].operation, record)
  PROVE  ReleaseTyped' /\ ReleaseInv'
<1>1. /\ cmd' \in [Commands -> CommandStates]
      /\ cmd'[p].pc = place /\ cmd'[p].operation = cmd[p].operation
      /\ cmd'[p].memory = record /\ cmd'[p].candidate = cmd[p].candidate
      /\ \A q \in Commands : q # p => cmd'[q] = cmd[q]
  BY RememberTyped DEF Write
<1>2. /\ UNCHANGED <<bin, binPrevious, store, staging, migration, locks, movedLocks, archive, live,
                     runtime, transactions>>
      /\ journal' = record
  BY DEF Write, disk, lockFiles, leases, counters
<1>3. ReleaseTyped'
  BY <1>1, <1>2 DEF ReleaseTyped
<1>4. Working(p) /\ cmd[p].candidate = journal.candidate
  BY WorkingFits
<1>5. record # NoJournal
  BY NoJournalTyped DEF RecordFits
<1>6. PICK o : o = cmd[p].operation
  OBVIOUS
<1>7. PointersFit(record)' /\ PlaceFits(place, o, record)'
  BY <1>2, <1>6, SamePlace
<1>8. PlaceFits(place, cmd[p].operation, record)'
  BY <1>1, <1>6, <1>7
<1> QED BY <1>1, <1>2, <1>3, <1>4, <1>5, <1>7, <1>8, Advances

\* applyPointerState and the moves of a legacy bin.
LEMMA PointKeeps ==
  ASSUME ReleaseTyped, ReleaseInv, NEW p \in Commands, cmd[p].pc \notin Resting,
         cmd[p].pc # "create",
         NEW place \in Places \ {"idle", "lease", "stage", "create"}, Goto(p, place),
         UNCHANGED <<store, staging, lockFiles, journal, archive, leases, counters>>,
         bin' \in Pointers, binPrevious' \in Releases \union {Absent},
         \A m : m = journal => PointersFit(m)' /\ PlaceFits(place, cmd[p].operation, m)'
  PROVE  ReleaseTyped' /\ ReleaseInv'
<1>1. UNCHANGED <<store, staging, migration, locks, movedLocks, journal, archive, live,
                  runtime, transactions>>
  BY DEF lockFiles, leases, counters
<1>2. cmd' \in [Commands -> CommandStates]
  BY GotoTyped
<1>3. ReleaseTyped'
  BY <1>1, <1>2 DEF ReleaseTyped
<1>4. PICK m : m = journal
  OBVIOUS
<1>5. PointersFit(m)'
  BY <1>4
<1>6. PointersFit(journal)'
  BY <1>1, <1>4, <1>5 DEF PointersFit, Legal, LegacyIsUnclear
<1>7. Working(p)
  BY WorkingFits
<1>8. \A n : n = journal => (place \notin Resting => PlaceFits(place, cmd[p].operation, n)')
  OBVIOUS
<1> QED BY <1>1, <1>3, <1>6, <1>7, <1>8, Strides

LEMMA ObservedTyped ==
  ASSUME ReleaseTyped
  PROVE  /\ Observed \in Pairs /\ Observed.current = bin /\ Observed.previous = binPrevious
         /\ bin \in Pointers /\ binPrevious \in Releases \union {Absent}
BY DEF ReleaseTyped, Observed, Pair, Pairs, Pointers

LEMMA InspectKeeps ==
  ASSUME ReleaseTyped, ReleaseInv, NEW p \in Commands, Inspect(p)
  PROVE  ReleaseTyped' /\ ReleaseInv'
<1>1. cmd[p].pc = "inspect"
  BY DEF Inspect, At
<1>2. PICK m \in Journals : m = cmd[p].memory
  BY CommandTyped
<1>3. m = journal /\ RecordFits(m) /\ m.phase = "maintenance-staged"
  BY <1>1, <1>2, WorkingFits DEF Resting, PlaceFits
<1>4. PICK d : d = IF m.operation = "rollback" THEN Pair(binPrevious, bin)
                   ELSE Pair(m.candidate, IF Validated(bin) THEN bin ELSE Absent)
  OBVIOUS
<1>5. m.operation \in {"install", "rollback"} /\ (m.operation = "install" => m.candidate \in Releases)
  BY <1>3 DEF RecordFits
<1>6. m.operation = "rollback" => Validated(bin) /\ Validated(binPrevious)
  BY <1>2 DEF Inspect
<1>7. d \in Pairs
  <2>1. CASE m.operation = "rollback"
    BY <1>4, <2>1, ObservedTyped DEF Pair, Pairs, Pointers
  <2>2. CASE m.operation = "install"
    BY <1>4, <1>5, <2>2, ObservedTyped DEF Pair, Pairs, Pointers, Validated
  <2> QED BY <1>5, <2>1, <2>2
<1>8. PICK record : record = [m EXCEPT !.phase = "awaiting-commit", !.before = Observed, !.desired = d]
  OBVIOUS
<1>9. /\ record \in Journals /\ record.txid = m.txid /\ record.candidate = m.candidate
      /\ record.operation = m.operation /\ record.phase = "awaiting-commit"
      /\ record.before = Observed /\ record.desired = d
  BY <1>7, <1>8, ObservedTyped DEF Journals, Phases
<1>10. Write(p, record, "commit-decision")
  BY <1>2, <1>4, <1>8 DEF Inspect
<1>11. RecordFits(record)
  <2>1. /\ record.operation = "install" =>
             record.desired = Pair(record.candidate, IF Validated(record.before.current)
                                                       THEN record.before.current ELSE Absent)
        /\ record.operation = "rollback" =>
             /\ Validated(record.before.current) /\ Validated(record.before.previous)
             /\ record.desired = Pair(record.before.previous, record.before.current)
    BY <1>4, <1>6, <1>9, ObservedTyped
  <2>2. record.txid # 0 /\ record.before.current \in Pointers
        /\ record.before.previous \in Releases \union {Absent}
    BY <1>3, <1>9, ObservedTyped DEF RecordFits
  <2> QED BY <1>5, <1>9, <2>1, <2>2 DEF RecordFits
<1>12. PointersFit(record)
  BY <1>9, ObservedTyped DEF PointersFit, Legal, LegacyIsUnclear
<1>13. PlaceFits("commit-decision", cmd[p].operation, record)
  BY <1>9 DEF PlaceFits
<1> QED
  BY <1>1, <1>3, <1>9, <1>10, <1>11, <1>12, <1>13, WriteKeeps DEF Resting, Places

LEMMA CommitTimesOutKeeps ==
  ASSUME ReleaseTyped, ReleaseInv, NEW p \in Commands, CommitTimesOut(p)
  PROVE  ReleaseTyped' /\ ReleaseInv'
<1>1. cmd[p].pc = "commit-decision"
  BY DEF CommitTimesOut, At
<1>2. PICK m \in Journals : m = cmd[p].memory
  BY CommandTyped
<1>3. m = journal /\ RecordFits(m) /\ Observed = m.before
  BY <1>1, <1>2, WorkingFits DEF Resting, PlaceFits
<1>4. PICK record : record = [m EXCEPT !.phase = "terminal-abort"]
  OBVIOUS
<1>5. /\ record \in Journals /\ record.txid = m.txid /\ record.candidate = m.candidate
      /\ record.operation = m.operation /\ record.phase = "terminal-abort"
      /\ record.before = m.before
  BY <1>4 DEF Journals, Phases
<1>6. Write(p, record, "archive")
  BY <1>2, <1>4 DEF CommitTimesOut
<1>7. RecordFits(record)
  BY <1>3, <1>5 DEF RecordFits, Midway
<1>8. PointersFit(record) /\ PlaceFits("archive", cmd[p].operation, record)
  BY <1>3, <1>5 DEF PointersFit, PlaceFits, Midway
<1> QED BY <1>1, <1>3, <1>5, <1>6, <1>7, <1>8, WriteKeeps DEF Resting, Places

LEMMA AdoptKeeps ==
  ASSUME ReleaseTyped, ReleaseInv, NEW p \in Commands, Adopt(p)
  PROVE  ReleaseTyped' /\ ReleaseInv'
<1>1. cmd[p].pc = "adopt"
  BY DEF Adopt, At
<1>2. PICK m \in Journals : m = cmd[p].memory
  BY CommandTyped
<1>3. m = journal /\ RecordFits(m)
  BY <1>1, <1>2, WorkingFits DEF Resting, PlaceFits
<1>4. PICK n : n = Adopted(m)
  OBVIOUS
<1>5. /\ n \in Journals /\ n.txid = m.txid /\ n.candidate = m.candidate
      /\ n.operation = m.operation
      /\ m.phase # "maintenance-staged" => n = m
      /\ m.phase = "maintenance-staged" =>
           n.phase = "current-switched" /\ n.before = Observed /\ n.desired = Observed
  BY <1>4, ObservedTyped DEF Adopted, Journals, Phases
<1>6. PICK record : record = [n EXCEPT !.claim = @ + 1]
  OBVIOUS
<1>7. /\ record \in Journals /\ record.txid = n.txid /\ record.candidate = n.candidate
      /\ record.operation = n.operation /\ record.phase = n.phase
      /\ record.before = n.before /\ record.desired = n.desired
  BY <1>5, <1>6 DEF Journals
<1>8. Legal(n, bin, binPrevious)
  BY <1>2, <1>4 DEF Adopt
<1>9. n.phase \in Midway \union {"current-switched"}
  BY <1>5, <1>8 DEF Legal, Midway
<1>10. RecordFits(n)
  <2>1. CASE m.phase = "maintenance-staged"
    BY <1>3, <1>5, <2>1 DEF RecordFits, Midway
  <2>2. CASE m.phase # "maintenance-staged"
    BY <1>3, <1>5, <2>2
  <2> QED BY <2>1, <2>2
<1>11. RecordFits(record)
  BY <1>7, <1>10 DEF RecordFits, SameRelease, Parses
<1>12. PointersFit(record)
  BY <1>7, <1>8 DEF PointersFit, Legal, LegacyIsUnclear
<1>13. CASE n.phase = "current-switched"
  <2>1. Write(p, record, "forward-previous")
    BY <1>2, <1>4, <1>6, <1>13 DEF Adopt
  <2>2. PlaceFits("forward-previous", cmd[p].operation, record)
    BY <1>7, <1>13 DEF PlaceFits
  <2> QED
    BY <1>1, <1>3, <1>5, <1>7, <1>11, <1>12, <2>1, <2>2, WriteKeeps DEF Resting, Places
<1>14. CASE n.phase # "current-switched"
  <2>1. Write(p, record, "restore-current")
    BY <1>2, <1>4, <1>6, <1>14 DEF Adopt
  <2>2. PlaceFits("restore-current", cmd[p].operation, record)
    BY <1>7, <1>9, <1>14 DEF PlaceFits
  <2> QED
    BY <1>1, <1>3, <1>5, <1>7, <1>11, <1>12, <2>1, <2>2, WriteKeeps DEF Resting, Places
<1> QED BY <1>13, <1>14

\* A record that goes on to its next phase says what it said.
LEMMA NextPhaseFits ==
  ASSUME ReleaseTyped, NEW m \in Journals, RecordFits(m), PointersFit(m), m.phase \in Midway,
         ~SameRelease(m), m.phase = "awaiting-commit" => Observed = m.before,
         m.phase = "previous-prepared" => binPrevious = m.desired.previous,
         NEW record \in Journals, record.phase = NextPhase(m), record.operation = m.operation,
         record.candidate = m.candidate, record.before = m.before, record.desired = m.desired,
         record.txid = m.txid
  PROVE  /\ NextPhase(m) \in {"candidate-moving", "prepared", "legacy-migrating",
                              "legacy-migrated", "previous-prepared", "current-switched"}
         /\ NextPhase(m) = "current-switched" => m.phase = "previous-prepared"
         /\ RecordFits(record) /\ PointersFit(record)
<1>1. m.phase \in {"awaiting-commit", "candidate-moving", "prepared", "legacy-migrating",
                   "legacy-migrated", "previous-prepared"}
  BY DEF Midway
<1>2. /\ NextPhase(m) \in {"candidate-moving", "prepared", "legacy-migrating",
                           "legacy-migrated", "previous-prepared", "current-switched"}
      /\ NextPhase(m) = "current-switched" => m.phase = "previous-prepared"
      /\ NextPhase(m) = "candidate-moving" =>
           m.phase = "awaiting-commit" /\ m.operation # "rollback"
      /\ NextPhase(m) = "prepared" => m.phase = "candidate-moving"
      /\ NextPhase(m) = "legacy-migrating" => m.phase = "prepared" /\ m.before.current = Legacy
      /\ NextPhase(m) = "legacy-migrated" => m.phase = "legacy-migrating"
      /\ NextPhase(m) = "previous-prepared" =>
           m.phase \in {"awaiting-commit", "prepared", "legacy-migrated"}
  BY <1>1 DEF NextPhase
<1>3. ~SameRelease(record)
  BY DEF SameRelease
<1>4. /\ m.operation \in {"install", "rollback"}
      /\ m.operation = "install" => m.candidate \in Releases
      /\ m.before.current \in Pointers /\ m.before.previous \in Releases \union {Absent}
      /\ m.operation = "install" =>
           m.desired = Pair(m.candidate, IF Validated(m.before.current) THEN m.before.current
                                         ELSE Absent)
      /\ m.operation = "rollback" =>
           /\ Validated(m.before.current) /\ Validated(m.before.previous)
           /\ m.desired = Pair(m.before.previous, m.before.current)
      /\ m.phase \in {"legacy-migrating", "legacy-migrated"} => m.before.current = Legacy
      /\ m.txid # 0
  BY DEF RecordFits
<1>5. m.desired.current \in Releases /\ m.desired.current # Legacy
  BY <1>4, ReleaseAssumption DEF Pair, Validated, ReleaseAssumption
<1>6. RecordFits(record)
  BY <1>2, <1>3, <1>4, <1>5 DEF RecordFits, Parses
<1>7. PointersFit(record)
  <2> USE DEF LegacyIsUnclear
  <2>1. SUFFICES Legal(record, bin, binPrevious) \/ LegacyIsUnclear(record, bin)
    BY DEF PointersFit
  <2>2. Legal(m, bin, binPrevious) \/ LegacyIsUnclear(m, bin)
    BY DEF PointersFit
  <2>3. CASE record.phase \in {"candidate-moving", "prepared", "legacy-migrating"}
    <3>1. m.phase \in {"awaiting-commit", "candidate-moving", "prepared"}
      BY <1>2, <2>3
    <3> QED BY <2>2, <2>3, <3>1 DEF Legal
  <2>4. CASE record.phase = "legacy-migrated"
    <3>1. m.phase = "legacy-migrating" /\ m.before.current = Legacy
      BY <1>2, <1>4, <2>4
    <3> QED BY <2>2, <2>4, <3>1 DEF Legal
  <2>5. CASE record.phase = "previous-prepared"
    <3>1. m.phase \in {"awaiting-commit", "prepared", "legacy-migrated"}
      BY <1>2, <2>5
    <3>2. CASE m.before.current = Legacy
      BY <2>2, <2>5, <3>1, <3>2 DEF Legal
    <3>3. CASE m.before.current # Legacy
      <4>1. bin = m.before.current /\ binPrevious = m.before.previous
        BY <1>4, <2>2, <3>1, <3>3 DEF Legal
      <4> QED BY <2>5, <3>3, <4>1 DEF Legal
    <3> QED BY <3>2, <3>3
  <2>6. CASE record.phase = "current-switched"
    <3>1. m.phase = "previous-prepared" /\ binPrevious = m.desired.previous
      BY <1>2, <2>6
    <3>2. bin = m.before.current \/ (m.before.current = Legacy /\ bin = Absent)
      BY <2>2, <3>1 DEF Legal
    <3> QED BY <2>6, <3>1, <3>2 DEF Legal
  <2> QED BY <1>2, <2>3, <2>4, <2>5, <2>6
<1> QED BY <1>2, <1>6, <1>7

LEMMA WritePhaseKeeps ==
  ASSUME ReleaseTyped, ReleaseInv, NEW p \in Commands, WritePhase(p)
  PROVE  ReleaseTyped' /\ ReleaseInv'
<1>1. cmd[p].pc = "write"
  BY DEF WritePhase, At
<1>2. PICK m \in Journals : m = cmd[p].memory
  BY CommandTyped
<1>3. /\ m = journal /\ RecordFits(m) /\ PointersFit(m) /\ m.phase \in Midway
      /\ m.phase = "awaiting-commit" => Observed = m.before
      /\ m.phase = "previous-prepared" => binPrevious = m.desired.previous
  BY <1>1, <1>2, WorkingFits DEF Resting, PlaceFits
<1>4. PICK next : next = NextPhase(m)
  OBVIOUS
<1>5. PICK record : record = [m EXCEPT !.phase = next,
                                       !.desired = IF SameRelease(m) THEN m.before ELSE @]
  OBVIOUS
<1>6. Write(p, record, CASE next \in {"prepared", "legacy-migrated"} -> "write"
                         [] SameRelease(m) -> "archive"
                         [] OTHER -> next)
  BY <1>2, <1>4, <1>5 DEF WritePhase
<1>7. CASE SameRelease(m)
  <2>1. m.phase = "awaiting-commit" /\ next = "current-switched"
    BY <1>3, <1>4, <1>7 DEF RecordFits, NextPhase
  <2>2. /\ record \in Journals /\ record.phase = "current-switched"
        /\ record.operation = m.operation /\ record.candidate = m.candidate
        /\ record.txid = m.txid /\ record.before = m.before /\ record.desired = m.before
    BY <1>5, <1>7, <2>1 DEF Journals, Phases
  <2>3. RecordFits(record)
    BY <1>3, <2>2 DEF RecordFits, Midway
  <2>4. Observed = m.before /\ bin = m.before.current /\ binPrevious = m.before.previous
    BY <1>3, <2>1, ObservedTyped
  <2>5. PointersFit(record)
    BY <2>2, <2>4 DEF PointersFit, Legal, LegacyIsUnclear
  <2>6. PlaceFits("archive", cmd[p].operation, record)
    BY <2>2, <2>4 DEF PlaceFits
  <2>7. Write(p, record, "archive")
    BY <1>6, <1>7, <2>1
  <2> QED
    BY <1>1, <1>3, <2>2, <2>3, <2>5, <2>6, <2>7, WriteKeeps DEF Resting, Places
<1>8. CASE ~SameRelease(m)
  <2>1. next \in {"candidate-moving", "prepared", "legacy-migrating",
                  "legacy-migrated", "previous-prepared", "current-switched"}
    BY <1>3, <1>4, <1>8 DEF NextPhase, Midway
  <2>2. /\ record \in Journals /\ record.phase = next
        /\ record.operation = m.operation /\ record.candidate = m.candidate
        /\ record.txid = m.txid /\ record.before = m.before /\ record.desired = m.desired
    BY <1>5, <1>8, <2>1 DEF Journals, Phases
  <2>3. /\ next = "current-switched" => m.phase = "previous-prepared"
        /\ RecordFits(record) /\ PointersFit(record)
    BY <1>3, <1>4, <1>8, <2>2, NextPhaseFits
  <2>4. CASE next \in {"prepared", "legacy-migrated"}
    <3>1. Write(p, record, "write")
      BY <1>6, <1>8, <2>4
    <3>2. PlaceFits("write", cmd[p].operation, record)
      BY <2>2, <2>4 DEF PlaceFits, Midway
    <3> QED BY <1>1, <1>3, <2>2, <2>3, <3>1, <3>2, WriteKeeps DEF Resting, Places
  <2>5. CASE next \notin {"prepared", "legacy-migrated"}
    <3>1. Write(p, record, next)
      BY <1>6, <1>8, <2>5
    <3>2. PlaceFits(next, cmd[p].operation, record)
      BY <1>3, <2>1, <2>2, <2>3, <2>5 DEF PlaceFits
    <3>3. next \in Places \ {"idle", "lease", "stage", "create"}
      BY <2>1, <2>5 DEF Places
    <3> QED BY <1>1, <1>3, <2>2, <2>3, <3>1, <3>2, <3>3, WriteKeeps DEF Resting
  <2> QED BY <2>4, <2>5
<1> QED BY <1>7, <1>8

-----------------------------------------------------------------------------
\* A state of the pointers that is applied.
LEMMA AppliedTyped ==
  ASSUME ReleaseTyped, NEW pointer, Applies(pointer)
  PROVE  pointer \in Releases \union {Absent} /\ pointer \in Pointers
BY DEF ReleaseTyped, Applies, Pointers

PointerStep(p) ==
  \/ MoveLegacy(p) \/ PreparePrevious(p) \/ SwitchCurrent(p) \/ ForwardPrevious(p)
  \/ RestoreCurrent(p) \/ RestoreLegacy(p) \/ RestorePrevious(p)
  \/ ForwardCurrent(p) /\ Applies(cmd[p].memory.desired.current)

LEMMA PointerStepKeeps ==
  ASSUME ReleaseTyped, ReleaseInv, NEW p \in Commands, PointerStep(p)
  PROVE  ReleaseTyped' /\ ReleaseInv'
<1> USE DEF At
<1>1. /\ UNCHANGED <<store, staging, lockFiles, journal, archive, leases, counters>>
      /\ cmd[p].pc \notin Resting /\ cmd[p].pc # "create"
  BY DEF PointerStep, MoveLegacy, PreparePrevious, SwitchCurrent, ForwardPrevious, ForwardCurrent,
         RestoreCurrent, RestoreLegacy, RestorePrevious, SetPrevious, SetCurrent, Resting
<1>2. PICK m \in Journals : m = cmd[p].memory
  BY CommandTyped
<1>3. /\ m = journal /\ RecordFits(m) /\ PointersFit(m)
      /\ \A w : w = cmd[p].pc => PlaceFits(w, cmd[p].operation, m)
  BY <1>1, <1>2, WorkingFits
<1>4. ASSUME NEW place \in Places \ {"idle", "lease", "stage", "create"}, Goto(p, place),
             bin' \in Pointers, binPrevious' \in Releases \union {Absent},
             PointersFit(m)', \A o : PlaceFits(place, o, m)'
      PROVE  ReleaseTyped' /\ ReleaseInv'
  <2>1. \A n : n = journal => n = m
    BY <1>3
  <2>2. \A n : n = journal => PointersFit(n)' /\ PlaceFits(place, cmd[p].operation, n)'
    <3> SUFFICES ASSUME NEW n, n = journal
                 PROVE  PointersFit(n)' /\ PlaceFits(place, cmd[p].operation, n)'
      OBVIOUS
    <3>1. n = m
      BY <2>1
    <3> QED BY <1>4, <3>1
  <2> QED BY <1>1, <1>4, <2>2, PointKeeps
<1>5. /\ bin \in Pointers /\ binPrevious \in Releases \union {Absent}
      /\ Observed.current = bin /\ Observed.previous = binPrevious
  BY ObservedTyped
<1>6. /\ m.before \in Pairs /\ m.desired \in Pairs
      /\ \A pair \in Pairs : pair = Pair(pair.current, pair.previous)
  BY DEF Journals, Pairs, Pair
<1>7. Legacy \notin Releases \union {Absent}
  BY ReleaseAssumption DEF ReleaseAssumption
<1>8. m.phase \in Midway \union {"current-switched"}
        => Legal(m, bin, binPrevious) \/ LegacyIsUnclear(m, bin)
  BY <1>3 DEF PointersFit
<1>9. CASE MoveLegacy(p)
  <2>1. m.phase = "legacy-migrating" /\ m.before.current = Legacy
    BY <1>3, <1>9 DEF MoveLegacy, PlaceFits, RecordFits
  <2>2. PointersFit(m)'
    BY <1>8, <1>9, <2>1 DEF MoveLegacy, PointersFit, Legal, LegacyIsUnclear, Midway
  <2>3. \A o : PlaceFits("write", o, m)'
    BY <2>1 DEF PlaceFits, Midway
  <2> QED BY <1>4, <1>5, <1>9, <2>2, <2>3 DEF MoveLegacy, Pointers, Places
<1>10. CASE PreparePrevious(p)
  <2>1. m.phase = "previous-prepared"
    BY <1>3, <1>10 DEF PreparePrevious, PlaceFits
  <2>2. bin' = bin /\ binPrevious' = m.desired.previous /\ binPrevious' \in Releases \union {Absent}
    BY <1>2, <1>10, AppliedTyped DEF PreparePrevious, SetPrevious
  <2>3. PointersFit(m)'
    BY <1>8, <2>1, <2>2 DEF PointersFit, Legal, LegacyIsUnclear, Midway
  <2>4. \A o : PlaceFits("write", o, m)'
    BY <2>1, <2>2 DEF PlaceFits, Midway
  <2>5. Goto(p, "write")
    BY <1>10 DEF PreparePrevious, SetPrevious
  <2> QED BY <1>4, <1>5, <2>2, <2>3, <2>4, <2>5 DEF Places
<1>11. ASSUME m.phase = "current-switched", binPrevious = m.desired.previous,
              Applies(m.desired.current), SetCurrent(p, m.desired.current, "archive")
       PROVE  ReleaseTyped' /\ ReleaseInv'
  <2>1. /\ binPrevious' = m.desired.previous /\ bin' = m.desired.current
        /\ bin' \in Pointers /\ Goto(p, "archive")
    BY <1>11, AppliedTyped DEF SetCurrent
  <2>2. PointersFit(m)'
    BY <1>11, <2>1 DEF PointersFit, Legal, LegacyIsUnclear
  <2>3. Observed' = m.desired
    BY <1>6, <2>1 DEF Observed
  <2>4. \A o : PlaceFits("archive", o, m)'
    BY <1>11, <2>3 DEF PlaceFits
  <2> QED BY <1>4, <1>5, <1>11, <2>1, <2>2, <2>4 DEF Places
<1>12. CASE SwitchCurrent(p)
  <2>1. m.phase = "current-switched" /\ binPrevious = m.desired.previous
    BY <1>3, <1>12 DEF SwitchCurrent, PlaceFits
  <2> QED BY <1>2, <1>11, <1>12, <2>1 DEF SwitchCurrent
<1>13. CASE ForwardCurrent(p) /\ Applies(cmd[p].memory.desired.current)
  <2>1. m.phase = "current-switched" /\ binPrevious = m.desired.previous
    BY <1>3, <1>13 DEF ForwardCurrent, PlaceFits
  <2> QED BY <1>2, <1>11, <1>13, <2>1 DEF ForwardCurrent
<1>14. CASE ForwardPrevious(p)
  <2>1. m.phase = "current-switched"
    BY <1>3, <1>14 DEF ForwardPrevious, PlaceFits
  <2>2. bin' = bin /\ binPrevious' = m.desired.previous /\ binPrevious' \in Releases \union {Absent}
    BY <1>2, <1>14, AppliedTyped DEF ForwardPrevious, SetPrevious
  <2>3. PointersFit(m)'
    BY <1>8, <2>1, <2>2 DEF PointersFit, Legal, LegacyIsUnclear
  <2>4. \A o : PlaceFits("forward-current", o, m)'
    BY <2>1, <2>2 DEF PlaceFits
  <2>5. Goto(p, "forward-current")
    BY <1>14 DEF ForwardPrevious, SetPrevious
  <2> QED BY <1>4, <1>5, <2>2, <2>3, <2>4, <2>5 DEF Places
<1>15. CASE RestoreCurrent(p)
  <2>1. m.phase \in Midway /\ m.before.current # Legacy
    BY <1>2, <1>3, <1>15 DEF RestoreCurrent, PlaceFits
  <2>2. /\ bin' = m.before.current /\ bin' \in Pointers /\ binPrevious' = binPrevious
        /\ Goto(p, "restore-previous")
    BY <1>2, <1>15, AppliedTyped DEF RestoreCurrent, SetCurrent
  <2>3. m.phase \notin {"legacy-migrating", "legacy-migrated"}
    BY <1>3, <2>1 DEF RecordFits
  <2>4. bin = m.before.current
    BY <1>8, <2>1, <2>3 DEF Legal, LegacyIsUnclear, Midway
  <2>5. PointersFit(m)'
    BY <1>8, <2>1, <2>2, <2>4 DEF PointersFit, Legal, LegacyIsUnclear
  <2>6. \A o : PlaceFits("restore-previous", o, m)'
    BY <2>1, <2>2 DEF PlaceFits
  <2> QED BY <1>4, <1>5, <2>2, <2>5, <2>6 DEF Places
<1>16. CASE RestoreLegacy(p)
  <2>1. m.phase \in Midway /\ m.before.current = Legacy
    BY <1>2, <1>3, <1>16 DEF RestoreLegacy, PlaceFits
  <2>2. PointersFit(m)'
    BY <1>8, <1>16, <2>1 DEF RestoreLegacy, PointersFit, Legal, LegacyIsUnclear, Midway
  <2>3. \A o : PlaceFits("restore-previous", o, m)'
    BY <1>16, <2>1 DEF RestoreLegacy, PlaceFits
  <2> QED BY <1>4, <1>5, <1>16, <2>2, <2>3 DEF RestoreLegacy, Pointers, Places
<1>17. CASE RestorePrevious(p)
  <2>1. m.phase \in Midway /\ bin = m.before.current
    BY <1>3, <1>17 DEF RestorePrevious, PlaceFits
  <2>2. /\ bin' = bin /\ binPrevious' = m.before.previous
        /\ binPrevious' \in Releases \union {Absent} /\ Goto(p, "archive")
    BY <1>2, <1>17, AppliedTyped DEF RestorePrevious, SetPrevious
  <2>3. PointersFit(m)'
    <3>1. m.phase \in {"legacy-migrating", "legacy-migrated"} => m.before.current = Legacy
      BY <1>3 DEF RecordFits
    <3> QED BY <2>1, <2>2, <3>1 DEF PointersFit, Legal, LegacyIsUnclear, Midway
  <2>4. Observed' = m.before /\ m.phase # "current-switched"
    BY <1>6, <2>1, <2>2 DEF Observed, Midway
  <2>5. \A o : PlaceFits("archive", o, m)'
    BY <2>1, <2>4 DEF PlaceFits
  <2> QED BY <1>4, <1>5, <2>2, <2>3, <2>5 DEF Places
<1> QED
  BY <1>9, <1>10, <1>12, <1>13, <1>14, <1>15, <1>16, <1>17 DEF PointerStep

-----------------------------------------------------------------------------
\* The steps that take or give a lease, and the ends of a command.
RestStep(p) ==
  \/ TakeInstaller(p) \/ PrecheckRefused(p)
  \/ Stage(p) /\ ~(live = None /\ SameJournal(p))
  \/ ForwardCurrent(p) /\ ~Applies(cmd[p].memory.desired.current)
  \/ ReleaseInstaller(p) \/ ReleaseLive(p) \/ Killed(p) \/ StepFails(p)

LEMMA RestStepKeeps ==
  ASSUME ReleaseTyped, ReleaseInv, NEW p \in Commands, RestStep(p)
  PROVE  ReleaseTyped' /\ ReleaseInv'
<1> USE DEF At
<1>1. UNCHANGED <<bin, binPrevious, store, staging, locks, movedLocks, migration, journal, archive,
                  runtime, transactions>>
  BY DEF RestStep, TakeInstaller, PrecheckRefused, Stage, ForwardCurrent, ReleaseInstaller,
         ReleaseLive, Killed, StepFails, Fails, disk, lockFiles, leases, counters
<1>2. live' = live \/ (live = p /\ live' = None)
  BY DEF RestStep, TakeInstaller, PrecheckRefused, Stage, ForwardCurrent, ReleaseInstaller,
         ReleaseLive, Killed, StepFails, Fails, leases
<1>3. ASSUME cmd' \in [Commands -> CommandStates],
             \A q \in Commands : q # p => cmd'[q] = cmd[q],
             \/ cmd'[p] = Idle
             \/ /\ cmd'[p].operation = cmd[p].operation /\ cmd'[p].memory = cmd[p].memory
                /\ cmd'[p].candidate = cmd[p].candidate
                /\ \/ cmd'[p].pc \in {"release", "release-live"}
                   \/ cmd'[p].pc = "stage" /\ cmd[p].pc = "lease"
      PROVE  ReleaseTyped' /\ ReleaseInv'
  <2>1. ReleaseInv'
    BY <1>1, <1>2, <1>3, Rests
  <2>2. ReleaseTyped'
    BY <1>1, <1>2, <1>3 DEF ReleaseTyped
  <2> QED BY <2>1, <2>2
<1>4. ASSUME NEW place \in {"stage", "release", "release-live"}, Goto(p, place),
             place = "stage" => cmd[p].pc = "lease"
      PROVE  ReleaseTyped' /\ ReleaseInv'
  <2>1. place \in Places
    BY DEF Places, Resting
  <2> QED BY <1>3, <1>4, <2>1, GotoTyped
<1>5. CASE TakeInstaller(p)
  BY <1>4, <1>5 DEF TakeInstaller, Fails
<1>6. CASE \/ PrecheckRefused(p)
           \/ Stage(p) /\ ~(live = None /\ SameJournal(p))
           \/ ForwardCurrent(p) /\ ~Applies(cmd[p].memory.desired.current)
           \/ StepFails(p)
  BY <1>4, <1>6 DEF PrecheckRefused, Stage, ForwardCurrent, StepFails, Fails
<1>7. CASE ReleaseInstaller(p)
  BY <1>4, <1>7 DEF ReleaseInstaller
<1>8. CASE ReleaseLive(p) \/ Killed(p)
  <2>1. cmd' = [cmd EXCEPT ![p] = Idle]
    BY <1>8 DEF ReleaseLive, Killed
  <2> QED BY <1>3, <2>1, IdleTyped
<1> QED BY <1>5, <1>6, <1>7, <1>8 DEF RestStep

\* acquireReleaseMaintenanceKernelLease: the lease was nobody's.
LEMMA StageKeeps ==
  ASSUME ReleaseTyped, ReleaseInv, NEW p \in Commands, Stage(p), live = None, SameJournal(p)
  PROVE  ReleaseTyped' /\ ReleaseInv'
<1>1. /\ UNCHANGED <<bin, binPrevious, store, staging, locks, movedLocks, migration, journal, archive,
                     runtime, transactions>>
      /\ live' = p /\ cmd[p].pc = "stage"
      /\ Goto(p, IF cmd[p].operation = "recover" THEN "list-locks" ELSE "create")
  BY DEF Stage, At, disk, lockFiles, counters
<1>2. PICK place \in {"list-locks", "create"} :
        /\ place = (IF cmd[p].operation = "recover" THEN "list-locks" ELSE "create")
        /\ Goto(p, place)
  BY <1>1
<1>3. /\ cmd' \in [Commands -> CommandStates]
      /\ cmd'[p].pc = place /\ cmd'[p].operation = cmd[p].operation
      /\ cmd'[p].memory = cmd[p].memory /\ cmd'[p].candidate = cmd[p].candidate
      /\ \A q \in Commands : q # p => cmd'[q] = cmd[q]
  BY <1>2, GotoTyped DEF Places
<1>4. p # "runtime" /\ p # None /\ None # "runtime" /\ \A q \in Commands : q # None
  BY ReleaseAssumption DEF ReleaseAssumption
<1>5. ReleaseTyped'
  BY <1>1, <1>3 DEF ReleaseTyped
<1>6. \A q \in Commands : ~Working(q)
  BY <1>4 DEF ReleaseInv, CommandFits
<1>7. \A q \in Commands : q # p => CommandFits(q)'
  BY <1>3, <1>6 DEF CommandFits, Working
<1>8. CommandFits(p)'
  <2>1. CASE cmd[p].operation = "recover"
    <3>1. cmd[p].memory # NoJournal /\ journal = cmd[p].memory
      BY <2>1 DEF ReleaseInv, SameJournal
    <3>2. PICK w, o, m : w = cmd'[p].pc /\ o = cmd'[p].operation /\ m = journal'
      OBVIOUS
    <3>3. w = "list-locks" /\ o = "recover"
      BY <1>2, <1>3, <2>1, <3>2
    <3>4. PlaceFits(w, o, m)'
      BY <3>3 DEF PlaceFits
    <3>5. PlaceFits(cmd[p].pc, cmd[p].operation, journal)'
      BY <3>2, <3>4
    <3> QED BY <1>1, <1>2, <1>3, <2>1, <3>1, <3>5 DEF CommandFits
  <2>2. CASE cmd[p].operation # "recover"
    BY <1>1, <1>2, <1>3, <2>2 DEF CommandFits, SameJournal
  <2> QED BY <2>1, <2>2
<1>9. \A q \in Commands : Fresh(q)' => Fresh(q) /\ cmd'[q].memory = cmd[q].memory
  <2>1. Fresh(p)' => Fresh(p)
    BY <1>1, <1>3 DEF Fresh
  <2> QED BY <1>3, <2>1 DEF Fresh
<1>10. ASSUME NEW q \in Commands, Fresh(q)'
       PROVE  /\ FreshJournal(cmd[q].memory)' /\ cmd'[q].memory.txid # journal'.txid
              /\ \A r \in Commands : Fresh(r)' /\ r # q => cmd'[r].memory.txid # cmd'[q].memory.txid
  BY <1>1, <1>9, <1>10 DEF ReleaseInv, FreshJournal, Parses
<1>11. \A q \in Commands : /\ cmd'[q].operation = "recover" => cmd'[q].memory # NoJournal
                           /\ cmd'[q].candidate = cmd'[q].memory.candidate
  BY <1>3 DEF ReleaseInv
<1>12. journal' # NoJournal => RecordFits(journal)' /\ PointersFit(journal)'
  BY <1>1 DEF ReleaseInv, RecordFits, PointersFit, Legal, LegacyIsUnclear, Parses
<1>13. (runtime' # None <=> live' = "runtime") /\ journal'.txid \notin archive'
  BY <1>1, <1>4 DEF ReleaseInv
<1> QED BY <1>5, <1>7, <1>8, <1>10, <1>11, <1>12, <1>13 DEF ReleaseInv

\* createTransactionJournal: an identifier no transaction has had.
LEMMA CreateJournalKeeps ==
  ASSUME ReleaseTyped, ReleaseInv, NEW p \in Commands, CreateJournal(p)
  PROVE  ReleaseTyped' /\ ReleaseInv'
<1>1. /\ UNCHANGED <<bin, binPrevious, store, staging, locks, movedLocks, migration, archive, live,
                     runtime, transactions>>
      /\ cmd[p].pc = "create" /\ journal' = cmd[p].memory /\ Goto(p, "list-locks")
  BY DEF CreateJournal, At, disk, lockFiles, leases, counters
<1>2. PICK m \in Journals : m = cmd[p].memory
  BY CommandTyped
<1>3. Working(p) /\ cmd[p].operation # "recover" /\ Fresh(p)
  BY <1>1 DEF Working, Resting, ReleaseInv, CommandFits, Fresh
<1>4. FreshJournal(m) /\ cmd[p].candidate = m.candidate
  BY <1>2, <1>3 DEF ReleaseInv
<1>5. RecordFits(m) /\ m # NoJournal /\ m.txid <= transactions
  BY <1>4, NoJournalTyped DEF RecordFits, FreshJournal, Midway, Parses
<1>6. /\ cmd' \in [Commands -> CommandStates]
      /\ cmd'[p].pc = "list-locks" /\ cmd'[p].operation = cmd[p].operation
      /\ cmd'[p].memory = cmd[p].memory /\ cmd'[p].candidate = cmd[p].candidate
      /\ \A q \in Commands : q # p => cmd'[q] = cmd[q]
  BY <1>1, GotoTyped DEF Places
<1>7. ReleaseTyped'
  BY <1>1, <1>2, <1>5, <1>6 DEF ReleaseTyped
<1>8. PointersFit(m)' /\ PlaceFits("list-locks", cmd[p].operation, m)'
  BY <1>3, <1>4 DEF PointersFit, PlaceFits, FreshJournal, Midway
<1> QED
  BY <1>1, <1>2, <1>3, <1>4, <1>5, <1>6, <1>7, <1>8, Advances DEF Places, Resting

\* archiveTransactionJournal.
LEMMA ArchiveKeeps ==
  ASSUME ReleaseTyped, ReleaseInv, NEW p \in Commands, Archive(p)
  PROVE  ReleaseTyped' /\ ReleaseInv'
<1>1. /\ UNCHANGED <<bin, binPrevious, store, staging, locks, movedLocks, migration, live,
                     runtime, transactions>>
      /\ cmd[p].pc = "archive" /\ journal' = NoJournal /\ Goto(p, "release")
      /\ archive' = archive \union {journal.txid}
  BY DEF Archive, At, disk, lockFiles, leases, counters
<1>2. live = p /\ RecordFits(journal)
  BY <1>1, WorkingFits DEF Resting
<1>3. journal.txid \in 1 .. transactions
  BY <1>2 DEF ReleaseTyped, RecordFits, Journals
<1>4. /\ cmd' \in [Commands -> CommandStates]
      /\ cmd'[p].pc = "release" /\ cmd'[p].operation = cmd[p].operation
      /\ cmd'[p].memory = cmd[p].memory /\ cmd'[p].candidate = cmd[p].candidate
      /\ \A q \in Commands : q # p => cmd'[q] = cmd[q]
  BY <1>1, GotoTyped DEF Places, Resting
<1>5. ReleaseTyped'
  <2>1. journal' \in Journals /\ journal'.txid <= transactions'
    BY <1>1, NoJournalTyped DEF ReleaseTyped
  <2>2. archive' \in SUBSET (1 .. transactions')
    BY <1>1, <1>3 DEF ReleaseTyped
  <2> QED BY <1>1, <1>4, <2>1, <2>2 DEF ReleaseTyped
<1>6. \A q \in Commands : ~Working(q)'
  <2>1. ~Working(p)'
    BY <1>4 DEF Working, Resting
  <2> QED BY <1>2, <1>4, <2>1 DEF ReleaseInv, CommandFits, Working
<1>7. \A q \in Commands : CommandFits(q)'
  BY <1>6 DEF CommandFits
<1>8. \A q \in Commands : Fresh(q)' => Fresh(q) /\ cmd'[q].memory = cmd[q].memory
  BY <1>4 DEF Fresh
<1>9. ASSUME NEW q \in Commands, Fresh(q)'
      PROVE  /\ FreshJournal(cmd[q].memory)' /\ cmd'[q].memory.txid # journal'.txid
             /\ \A r \in Commands : Fresh(r)' /\ r # q => cmd'[r].memory.txid # cmd'[q].memory.txid
  <2>1. FreshJournal(cmd[q].memory) /\ cmd[q].memory.txid # journal.txid
    BY <1>8, <1>9 DEF ReleaseInv
  <2>2. cmd[q].memory.txid # 0
    BY <2>1 DEF FreshJournal
  <2> QED
    BY <1>1, <1>8, <1>9, <2>1, <2>2, NoJournalTyped DEF ReleaseInv, FreshJournal, Parses
<1>10. \A q \in Commands : /\ cmd'[q].operation = "recover" => cmd'[q].memory # NoJournal
                           /\ cmd'[q].candidate = cmd'[q].memory.candidate
  BY <1>4 DEF ReleaseInv
<1>11. journal'.txid \notin archive'
  BY <1>1, <1>3, NoJournalTyped DEF ReleaseTyped
<1>12. runtime' # None <=> live' = "runtime"
  BY <1>1 DEF ReleaseInv
<1> QED BY <1>1, <1>5, <1>7, <1>9, <1>10, <1>11, <1>12 DEF ReleaseInv

\* The runtime takes the lease when it is nobody's, and gives it back.
LEMMA RuntimeKeeps ==
  ASSUME ReleaseTyped, ReleaseInv, StartRuntime \/ StopRuntime
  PROVE  ReleaseTyped' /\ ReleaseInv'
<1>1. /\ UNCHANGED <<bin, binPrevious, store, staging, locks, movedLocks, migration, journal, archive,
                     cmd, transactions>>
      /\ live \in {None, "runtime"}
      /\ runtime' # None <=> live' = "runtime"
      /\ live' \in {None, "runtime"} /\ runtime' \in Pointers \union {None}
  <2>1. bin \in Pointers /\ None \notin Pointers /\ None # "runtime"
    BY ReleaseAssumption, ObservedTyped DEF ReleaseAssumption, Pointers
  <2>2. CASE StartRuntime
    BY <2>1, <2>2 DEF StartRuntime, disk, lockFiles, counters
  <2>3. CASE StopRuntime
    BY <2>1, <2>3 DEF StopRuntime, disk, lockFiles, counters, ReleaseInv
  <2> QED BY <2>2, <2>3
<1>2. \A q \in Commands : q # "runtime" /\ q # None
  BY ReleaseAssumption DEF ReleaseAssumption
<1>3. \A q \in Commands : ~Working(q)
  BY <1>1, <1>2 DEF ReleaseInv, CommandFits
<1>4. \A q \in Commands : CommandFits(q)'
  BY <1>1, <1>3 DEF CommandFits, Working
<1>5. journal' # NoJournal => RecordFits(journal)' /\ PointersFit(journal)'
  BY <1>1 DEF ReleaseInv, RecordFits, PointersFit, Legal, LegacyIsUnclear, Parses
<1>6. \A q \in Commands : Fresh(q)' =>
        /\ FreshJournal(cmd[q].memory)' /\ cmd'[q].memory.txid # journal'.txid
        /\ \A r \in Commands : Fresh(r)' /\ r # q => cmd'[r].memory.txid # cmd'[q].memory.txid
  BY <1>1 DEF ReleaseInv, Fresh, FreshJournal, Parses
<1>7. ReleaseTyped'
  BY <1>1 DEF ReleaseTyped
<1> QED BY <1>1, <1>4, <1>5, <1>6, <1>7 DEF ReleaseInv

\* A command that begins has a transaction of its own, or the one on disk.
LEMMA BeginKeeps ==
  ASSUME ReleaseTyped, ReleaseInv, NEW p \in Commands,
         BeginInstall(p) \/ BeginRollback(p) \/ BeginRecovery(p)
  PROVE  ReleaseTyped' /\ ReleaseInv'
<1>1. /\ UNCHANGED <<bin, binPrevious, store, staging, locks, movedLocks, migration, journal, archive,
                     live, runtime>>
      /\ transactions' \in {transactions, transactions + 1}
  <2>1. ASSUME NEW operation, NEW target, Begin(p, operation, target)
        PROVE  /\ UNCHANGED <<disk, lockFiles, journal, archive, leases>>
               /\ transactions' = transactions + 1
    BY <2>1 DEF Begin
  <2>2. BeginRecovery(p) => UNCHANGED <<disk, lockFiles, journal, archive, leases, transactions>>
    BY DEF BeginRecovery, counters
  <2>3. /\ UNCHANGED <<disk, lockFiles, journal, archive, leases>>
        /\ transactions' \in {transactions, transactions + 1}
    BY <2>1, <2>2 DEF BeginInstall, BeginRollback
  <2> QED BY <2>3 DEF disk, lockFiles, leases
<1>2. transactions' \in Nat /\ transactions <= transactions'
  BY <1>1 DEF ReleaseTyped
<1>3. PICK begun \in CommandStates :
        /\ cmd' = [cmd EXCEPT ![p] = begun]
        /\ begun.pc = "lease" /\ begun.candidate = begun.memory.candidate
        /\ \/ begun.operation = "recover" /\ begun.memory = journal /\ journal # NoJournal
           \/ /\ begun.operation # "recover" /\ FreshJournal(begun.memory)'
              /\ begun.memory.txid = transactions + 1 /\ transactions' = transactions + 1
  <2>1. ASSUME NEW operation \in {"install", "rollback"}, NEW target \in Releases \union {None},
               Begin(p, operation, target), operation = "install" => target \in Releases
        PROVE  \E begun \in CommandStates :
                 /\ cmd' = [cmd EXCEPT ![p] = begun]
                 /\ begun.pc = "lease" /\ begun.candidate = begun.memory.candidate
                 /\ begun.operation # "recover" /\ FreshJournal(begun.memory)'
                 /\ begun.memory.txid = transactions + 1 /\ transactions' = transactions + 1
    <3>1. PICK m : m = [NoJournal EXCEPT !.txid = transactions + 1, !.operation = operation,
                                         !.phase = "maintenance-staged", !.candidate = target]
      OBVIOUS
    <3>2. /\ m \in Journals /\ m.txid = transactions + 1 /\ m.operation = operation
          /\ m.phase = "maintenance-staged" /\ m.candidate = target
          /\ m.desired = Unknown
      <4>1. transactions + 1 \in Nat
        BY DEF ReleaseTyped
      <4>2. m = [NoJournal EXCEPT !.txid = transactions + 1, !.operation = operation,
                                  !.phase = "maintenance-staged", !.candidate = target]
        BY <3>1
      <4>3. /\ m.txid = transactions + 1 /\ m.operation = operation
            /\ m.phase = "maintenance-staged" /\ m.candidate = target /\ m.desired = Unknown
        BY <4>2 DEF NoJournal
      <4>4. m \in Journals
        BY <4>1, <4>2, NoJournalTyped DEF Journals, Phases
      <4> QED BY <4>3, <4>4
    <3>3. PICK begun : begun = [pc |-> "lease", operation |-> operation, candidate |-> target,
                                memory |-> m]
      OBVIOUS
    <3>4. begun \in CommandStates
      BY <3>2, <3>3 DEF CommandStates, Places, Resting
    <3>5. cmd' = [cmd EXCEPT ![p] = begun] /\ transactions' = transactions + 1
      BY <2>1, <3>1, <3>3 DEF Begin
    <3>6. Parses(m)
      BY <3>2, ReleaseAssumption DEF Parses, Unknown, Pair, ReleaseAssumption
    <3>7. transactions + 1 \notin archive' /\ transactions + 1 \in 1 .. transactions'
      BY <1>1, <3>5 DEF ReleaseTyped
    <3>8. FreshJournal(m)'
      BY <2>1, <3>2, <3>6, <3>7 DEF FreshJournal, Parses
    <3>9. begun.memory = m
      BY <3>3
    <3>10. FreshJournal(begun.memory)'
      BY <3>8, <3>9
    <3> QED BY <3>2, <3>3, <3>4, <3>5, <3>10
  <2>2. CASE BeginInstall(p)
    <3>1. PICK r \in staging \ thawed : Begin(p, "install", r)
      BY <2>2 DEF BeginInstall
    <3>2. r \in Releases
      BY <3>1 DEF ReleaseTyped
    <3> QED BY <2>1, <3>1, <3>2
  <2>3. CASE BeginRollback(p)
    BY <2>1, <2>3 DEF BeginRollback
  <2>4. CASE BeginRecovery(p)
    <3>1. PICK begun : begun = [pc |-> "lease", operation |-> "recover",
                                candidate |-> journal.candidate, memory |-> journal]
      OBVIOUS
    <3>2. begun \in CommandStates
      BY <3>1 DEF ReleaseTyped, CommandStates, Journals, Places, Resting
    <3> QED BY <2>4, <3>1, <3>2 DEF BeginRecovery
  <2> QED BY <2>2, <2>3, <2>4
<1>4. /\ cmd' \in [Commands -> CommandStates] /\ cmd'[p] = begun
      /\ \A q \in Commands : q # p => cmd'[q] = cmd[q]
  BY <1>3 DEF ReleaseTyped
<1>5. ReleaseTyped'
  <2>1. journal'.txid <= transactions'
    BY <1>1, <1>2 DEF ReleaseTyped, Journals
  <2>2. archive' \in SUBSET (1 .. transactions')
    BY <1>1, <1>2 DEF ReleaseTyped
  <2> QED BY <1>1, <1>2, <1>4, <2>1, <2>2 DEF ReleaseTyped
<1>6. ASSUME NEW q \in Commands PROVE CommandFits(q)'
  <2>1. CASE q = p
    BY <1>3, <1>4, <2>1 DEF CommandFits, Working, Resting
  <2>2. CASE q # p
    <3>1. PICK m, w, o : m = journal /\ w = cmd[q].pc /\ o = cmd[q].operation
      OBVIOUS
    <3>2. PlaceFits(w, o, m)' = PlaceFits(w, o, m)
      BY <1>1, SamePlace
    <3>3. PlaceFits(cmd[q].pc, cmd[q].operation, journal)
            => PlaceFits(cmd[q].pc, cmd[q].operation, journal)'
      BY <1>1, <1>4, <2>2, <3>1, <3>2
    <3>4. CommandFits(q)
      BY DEF ReleaseInv
    <3> QED BY <1>1, <1>4, <2>2, <3>3, <3>4 DEF CommandFits, Working
  <2> QED BY <2>1, <2>2
<1>7. \A q \in Commands : q # p => Fresh(q)' = Fresh(q)
  BY <1>4 DEF Fresh
<1>8. \A q \in Commands : Fresh(q) =>
        /\ cmd[q].memory.txid \in 1 .. transactions
        /\ cmd[q].memory.txid # transactions + 1
  BY DEF ReleaseInv, FreshJournal, ReleaseTyped
<1>9. ASSUME NEW q \in Commands, Fresh(q)'
      PROVE  /\ FreshJournal(cmd[q].memory)' /\ cmd'[q].memory.txid # journal'.txid
             /\ \A r \in Commands : Fresh(r)' /\ r # q => cmd'[r].memory.txid # cmd'[q].memory.txid
  <2>1. CASE q = p
    <3>1. FreshJournal(begun.memory)' /\ begun.memory.txid = transactions + 1
      BY <1>3, <1>4, <1>9, <2>1 DEF Fresh
    <3>2. FreshJournal(cmd[q].memory)'
      BY <1>4, <2>1, <3>1
    <3>3. begun.memory.txid # journal'.txid
      BY <1>1, <3>1 DEF ReleaseTyped, Journals
    <3> QED BY <1>4, <1>7, <1>8, <2>1, <3>1, <3>2, <3>3
  <2>2. CASE q # p
    <3>1. Fresh(q) /\ cmd'[q] = cmd[q]
      BY <1>4, <1>7, <1>9, <2>2
    <3>2. FreshJournal(cmd[q].memory) /\ cmd[q].memory.txid # journal.txid
      BY <3>1 DEF ReleaseInv
    <3>3. FreshJournal(cmd[q].memory)'
      BY <1>1, <1>2, <3>1, <3>2 DEF FreshJournal, Parses, ReleaseTyped
    <3>4. Fresh(p)' => cmd'[p].memory.txid # cmd'[q].memory.txid
      BY <1>3, <1>4, <1>8, <3>1 DEF Fresh
    <3>5. \A r \in Commands : Fresh(r) /\ r # q => cmd[r].memory.txid # cmd[q].memory.txid
      BY <3>1 DEF ReleaseInv
    <3>6. \A r \in Commands : Fresh(r)' /\ r # q => cmd'[r].memory.txid # cmd'[q].memory.txid
      BY <1>4, <1>7, <3>1, <3>4, <3>5
    <3> QED BY <1>1, <3>1, <3>2, <3>3, <3>6
  <2> QED BY <2>1, <2>2
<1>10. \A q \in Commands : /\ cmd'[q].operation = "recover" => cmd'[q].memory # NoJournal
                           /\ cmd'[q].candidate = cmd'[q].memory.candidate
  BY <1>3, <1>4 DEF ReleaseInv
<1>11. journal' # NoJournal => RecordFits(journal)' /\ PointersFit(journal)'
  BY <1>1 DEF ReleaseInv, RecordFits, PointersFit, Legal, LegacyIsUnclear, Parses
<1>12. (runtime' # None <=> live' = "runtime") /\ journal'.txid \notin archive'
  BY <1>1 DEF ReleaseInv
<1> QED BY <1>5, <1>6, <1>9, <1>10, <1>11, <1>12 DEF ReleaseInv

-----------------------------------------------------------------------------
LEMMA ReleaseBegins == Init => ReleaseInv
<1> SUFFICES ASSUME Init PROVE ReleaseInv
  OBVIOUS
<1>1. \A p \in Commands : cmd[p] = Idle
  BY DEF Init
<1>2. \A p \in Commands : CommandFits(p) /\ ~Fresh(p)
  BY <1>1, NoJournalTyped DEF CommandFits, Working, Resting, Fresh
<1>3. None # "runtime"
  BY ReleaseAssumption DEF ReleaseAssumption
<1>4. journal = NoJournal /\ archive = {} /\ runtime = None /\ live = None
  BY DEF Init
<1> QED BY <1>1, <1>2, <1>3, <1>4, NoJournalTyped DEF ReleaseInv

LEMMA ReleaseRests ==
  ASSUME ReleaseTyped, ReleaseInv, UNCHANGED vars
  PROVE  ReleaseTyped' /\ ReleaseInv'
<1>1. UNCHANGED <<bin, binPrevious, store, staging, locks, movedLocks, migration, journal, archive,
                  live, runtime, cmd, transactions>>
  BY DEF vars, disk, lockFiles, leases, counters
<1>2. ReleaseTyped'
  BY <1>1 DEF ReleaseTyped
<1>3. ASSUME NEW p \in Commands PROVE CommandFits(p)'
  <2>1. PICK m, w, o : m = journal /\ w = cmd[p].pc /\ o = cmd[p].operation
    OBVIOUS
  <2>2. PlaceFits(w, o, m)' = PlaceFits(w, o, m)
    BY <1>1, SamePlace
  <2>3. PlaceFits(cmd[p].pc, cmd[p].operation, journal)
          => PlaceFits(cmd[p].pc, cmd[p].operation, journal)'
    BY <1>1, <2>1, <2>2
  <2> QED BY <1>1, <2>3 DEF ReleaseInv, CommandFits, Working
<1>4. journal' # NoJournal => RecordFits(journal)' /\ PointersFit(journal)'
  BY <1>1 DEF ReleaseInv, RecordFits, PointersFit, Legal, LegacyIsUnclear, Parses
<1>5. \A p \in Commands : Fresh(p)' =>
        /\ FreshJournal(cmd[p].memory)' /\ cmd'[p].memory.txid # journal'.txid
        /\ \A q \in Commands : Fresh(q)' /\ q # p => cmd'[q].memory.txid # cmd'[p].memory.txid
  BY <1>1 DEF ReleaseInv, Fresh, FreshJournal, Parses
<1>6. /\ (runtime' # None <=> live' = "runtime") /\ journal'.txid \notin archive'
      /\ \A p \in Commands : /\ cmd'[p].operation = "recover" => cmd'[p].memory # NoJournal
                             /\ cmd'[p].candidate = cmd'[p].memory.candidate
  BY <1>1 DEF ReleaseInv
<1> QED BY <1>2, <1>3, <1>4, <1>5, <1>6 DEF ReleaseInv

\* The steps of a command, by what they write.
CommandStep(p) ==
  \/ StrideStep(p) \/ PointerStep(p) \/ RestStep(p)
  \/ BeginInstall(p) \/ BeginRollback(p) \/ BeginRecovery(p)
  \/ Stage(p) /\ live = None /\ SameJournal(p)
  \/ CreateJournal(p) \/ Inspect(p) \/ CommitTimesOut(p) \/ WritePhase(p) \/ Adopt(p)
  \/ Archive(p)

LEMMA NextIsCommandStep ==
  Next => StartRuntime \/ StopRuntime \/ \E p \in Commands : CommandStep(p)
BY DEF Next, CommandStep, StrideStep, PointerStep, RestStep

LEMMA ReleaseStep ==
  ReleaseTyped /\ ReleaseInv /\ [Next]_vars => ReleaseTyped' /\ ReleaseInv'
<1> SUFFICES ASSUME ReleaseTyped, ReleaseInv, [Next]_vars PROVE ReleaseTyped' /\ ReleaseInv'
  OBVIOUS
<1>1. CASE UNCHANGED vars
  BY <1>1, ReleaseRests
<1>2. CASE StartRuntime \/ StopRuntime
  BY <1>2, RuntimeKeeps
<1>3. ASSUME NEW p \in Commands, CommandStep(p) PROVE ReleaseTyped' /\ ReleaseInv'
  <2>1. CASE StrideStep(p)
    BY <2>1, StrideStepKeeps
  <2>2. CASE PointerStep(p)
    BY <2>2, PointerStepKeeps
  <2>3. CASE RestStep(p)
    BY <2>3, RestStepKeeps
  <2>4. CASE BeginInstall(p) \/ BeginRollback(p) \/ BeginRecovery(p)
    BY <2>4, BeginKeeps
  <2>5. CASE Stage(p) /\ live = None /\ SameJournal(p)
    BY <2>5, StageKeeps
  <2>6. CASE CreateJournal(p)
    BY <2>6, CreateJournalKeeps
  <2>7. CASE Inspect(p)
    BY <2>7, InspectKeeps
  <2>8. CASE CommitTimesOut(p)
    BY <2>8, CommitTimesOutKeeps
  <2>9. CASE WritePhase(p)
    BY <2>9, WritePhaseKeeps
  <2>10. CASE Adopt(p)
    BY <2>10, AdoptKeeps
  <2>11. CASE Archive(p)
    BY <2>11, ArchiveKeeps
  <2> QED
    BY <1>3, <2>1, <2>2, <2>3, <2>4, <2>5, <2>6, <2>7, <2>8, <2>9, <2>10, <2>11 DEF CommandStep
<1> QED BY <1>1, <1>2, <1>3, NextIsCommandStep

(* A transaction that is archived is over (createTransactionJournal,          *)
(* recoverReleaseTransaction, archiveTransactionJournal): for any commands    *)
(* over any releases, whatever is killed or fails, no journal on disk is of   *)
(* a transaction in the archive.                                              *)
THEOREM ReleaseArchivedIsOver == Spec => []ArchivedIsOver
<1>1. Init => ReleaseTyped /\ ReleaseInv
  BY ReleaseInitTyped, ReleaseBegins
<1>2. ReleaseTyped /\ ReleaseInv /\ [Next]_vars => (ReleaseTyped /\ ReleaseInv)'
  BY ReleaseStep
<1>3. ReleaseInv => ArchivedIsOver
  BY DEF ReleaseInv, ArchivedIsOver
<1> QED BY <1>1, <1>2, <1>3, PTL DEF Spec

\* The phase of a record explains the pointers, and its candidate is in one place.
LEMMA ReleaseRecovers == ReleaseTyped /\ ReleaseInv => CrashIsRecoverable
<1> SUFFICES ASSUME ReleaseTyped, ReleaseInv, journal # NoJournal, ~AbortIsStuck,
                    ~LockIsHalfMoved, ~LegacyIsUnclear(journal, bin)
             PROVE  Recoverable
  BY DEF CrashIsRecoverable
<1>1. /\ RecordFits(journal) /\ PointersFit(journal) /\ journal \in Journals
      /\ staging = Releases \ store
  BY DEF ReleaseInv, ReleaseTyped
<1>2. journal.phase \in {"maintenance-staged", "current-switched"} \union Midway
  BY <1>1 DEF RecordFits, Journals, Phases, Midway, AbortIsStuck
<1>3. Parses(journal)
  <2>1. CASE journal.phase \in Midway
    <3>1. /\ journal.operation = "install" =>
               journal.candidate \in Releases /\ journal.desired.current = journal.candidate
          /\ journal.operation = "rollback" =>
               /\ Validated(journal.before.previous)
               /\ journal.desired.current = journal.before.previous
          /\ journal.operation \in {"install", "rollback"}
      BY <1>1, <2>1 DEF RecordFits, Pair
    <3> QED BY <3>1, ReleaseAssumption DEF ReleaseAssumption, Validated, Parses
  <2>2. CASE journal.phase \notin Midway
    BY <1>1, <1>2, <2>2 DEF RecordFits, Parses, LegacyIsUnclear
  <2> QED BY <2>1, <2>2
<1>4. migration.txid = journal.txid => Pending \subseteq locks
  BY DEF LockIsHalfMoved
<1>5. Legal(Adopted(journal), bin, binPrevious)
  <2>1. CASE journal.phase = "maintenance-staged"
    <3>1. PICK n : n = Adopted(journal)
      OBVIOUS
    <3>2. n = [journal EXCEPT !.phase = "current-switched", !.before = Observed,
                              !.desired = Observed]
      BY <2>1, <3>1 DEF Adopted
    <3>3. n.phase = "current-switched" /\ n.before = Observed /\ n.desired = Observed
      BY <1>1, <3>2 DEF Journals
    <3>4. Legal(n, bin, binPrevious)
      BY <3>3, ObservedTyped DEF Legal
    <3> QED BY <3>1, <3>4
  <2>2. CASE journal.phase # "maintenance-staged"
    BY <1>1, <1>2, <2>2 DEF Adopted, PointersFit
  <2> QED BY <2>1, <2>2
<1>6. journal.phase = "candidate-moving" =>
        (journal.candidate \in staging) # (journal.candidate \in store)
  BY <1>1 DEF RecordFits
<1> QED BY <1>3, <1>4, <1>5, <1>6 DEF Recoverable

(* Whatever a killed or failed command leaves behind, the next recovery      *)
(* accepts it (recoverReleaseTransaction, parseTransactionJournal,            *)
(* assertPointerPhaseLegal, stabilizeCandidateMoveState), for any releases    *)
(* and any commands, in every state but three kinds, in which the code is     *)
(* known to refuse: an abort that could not be archived, a lock file whose    *)
(* move is not recorded, and three moments of the move of a legacy bin.       *)
THEOREM ReleaseCrashIsRecoverable == Spec => []CrashIsRecoverable
<1>1. Init => ReleaseTyped /\ ReleaseInv
  BY ReleaseInitTyped, ReleaseBegins
<1>2. ReleaseTyped /\ ReleaseInv /\ [Next]_vars => (ReleaseTyped /\ ReleaseInv)'
  BY ReleaseStep
<1> QED BY <1>1, <1>2, ReleaseRecovers, PTL DEF Spec

(* The journal, to any later command (recoverPendingTransaction): no record   *)
(* of a transaction that is over, whatever happened; and none that recovery   *)
(* refuses, except in the three kinds of states that CrashIsRecoverable names, *)
(* an abort, a half-moved lock file, three moments of a legacy bin.           *)
THEOREM ReleaseJournalIsSound == Spec => []JournalIsSound
  BY ReleaseArchivedIsOver, ReleaseCrashIsRecoverable, PTL DEF JournalIsSound

-----------------------------------------------------------------------------
\* The installation is what the journal says, until it is archived.
Installation(m, observed) ==
  CASE m.phase = "current-switched" -> m.desired
    [] m.phase \in {"none", "maintenance-staged"} -> observed
    [] OTHER -> m.before

LEMMA InstallationIs ==
  /\ InstalledPair = Installation(journal, Observed)
  /\ InstalledPair' = Installation(journal', Observed')
BY DEF InstalledPair, Installation

LEMMA SwitchBegins == Init => Switch!Init
<1> SUFFICES ASSUME Init PROVE Switch!Init
  OBVIOUS
<1>1. ReleaseTyped /\ journal = NoJournal /\ runtime = None
  BY ReleaseInitTyped DEF Init
<1>2. InstalledPair = Pair(bin, binPrevious)
  BY <1>1, NoJournalTyped DEF InstalledPair, Observed
<1> QED BY <1>1, <1>2 DEF Switch!Init, Switch!Installed, Pair, ReleaseTyped, Pointers

LEMMA SwitchRests ==
  ASSUME UNCHANGED <<bin, binPrevious, journal, runtime>>
  PROVE  UNCHANGED Switch!switchVars
BY DEF Switch!switchVars, InstalledPair, Observed

\* The step that decides: from here recovery goes forward.
LEMMA WritePhaseSwitches ==
  ASSUME ReleaseTyped, ReleaseInv, NEW p \in Commands, WritePhase(p)
  PROVE  [Switch!Next]_Switch!switchVars
<1>1. cmd[p].pc = "write"
  BY DEF WritePhase, At
<1>2. PICK m \in Journals : m = cmd[p].memory
  BY CommandTyped
<1>3. /\ m = journal /\ RecordFits(m) /\ m.phase \in Midway
      /\ live = p
  BY <1>1, <1>2, WorkingFits DEF Resting, PlaceFits
<1>4. PICK record : record = [m EXCEPT !.phase = NextPhase(m),
                                       !.desired = IF SameRelease(m) THEN m.before ELSE @]
  OBVIOUS
<1>5. /\ record.phase = NextPhase(m) /\ record.before = m.before
      /\ record.desired = IF SameRelease(m) THEN m.before ELSE m.desired
  BY <1>4 DEF Journals
<1>6. journal' = record /\ runtime' = runtime
  BY <1>2, <1>4 DEF WritePhase, Write, leases
<1>7. runtime = None
  BY <1>3, ReleaseAssumption DEF ReleaseInv, ReleaseAssumption
<1>8. InstalledPair = m.before
  BY <1>3, InstallationIs DEF Installation, Midway
<1>9. NextPhase(m) \in {"candidate-moving", "prepared", "legacy-migrating",
                        "legacy-migrated", "previous-prepared", "current-switched"}
  BY <1>3 DEF NextPhase, Midway
<1>10. CASE NextPhase(m) # "current-switched" \/ SameRelease(m)
  <2>1. InstalledPair' = m.before
    BY <1>5, <1>6, <1>9, <1>10, InstallationIs DEF Installation
  <2> QED BY <1>6, <1>8, <2>1 DEF Switch!switchVars
<1>11. CASE NextPhase(m) = "current-switched" /\ ~SameRelease(m)
  <2>1. InstalledPair' = m.desired
    BY <1>5, <1>6, <1>11, InstallationIs DEF Installation
  <2>2. CASE m.operation = "install"
    <3>1. /\ m.candidate \in Releases
          /\ m.desired = Pair(m.candidate, IF Validated(m.before.current) THEN m.before.current
                                           ELSE Absent)
      BY <1>3, <2>2 DEF RecordFits
    <3>2. Switch!Install(m.candidate)
      BY <1>6, <1>7, <1>8, <2>1, <3>1 DEF Switch!Install, Switch!Installed, Pair, Validated
    <3> QED BY <3>1, <3>2 DEF Switch!Next
  <2>3. CASE m.operation = "rollback"
    <3>1. /\ Validated(m.before.current) /\ Validated(m.before.previous)
          /\ m.desired = Pair(m.before.previous, m.before.current)
      BY <1>3, <2>3 DEF RecordFits
    <3>2. Switch!Rollback
      BY <1>6, <1>7, <1>8, <2>1, <3>1 DEF Switch!Rollback, Switch!Installed, Pair, Validated
    <3> QED BY <3>2 DEF Switch!Next
  <2> QED BY <1>3, <2>2, <2>3 DEF RecordFits
<1> QED BY <1>10, <1>11

LEMMA RuntimeSwitches ==
  ASSUME ReleaseTyped, ReleaseInv, StartRuntime \/ StopRuntime
  PROVE  [Switch!Next]_Switch!switchVars
<1>1. UNCHANGED <<bin, binPrevious, journal>>
  BY DEF StartRuntime, StopRuntime, disk
<1>2. InstalledPair' = InstalledPair
  BY <1>1 DEF InstalledPair, Observed
<1>3. CASE StartRuntime
  <2>1. InstalledPair.current = bin
    BY <1>3, NoJournalTyped, ObservedTyped DEF StartRuntime, InstalledPair
  <2>2. runtime = None
    BY <1>3, ReleaseAssumption DEF StartRuntime, ReleaseInv, ReleaseAssumption
  <2>3. Switch!Start
    BY <1>2, <1>3, <2>1, <2>2 DEF StartRuntime, Switch!Start
  <2> QED BY <2>3 DEF Switch!Next
<1>4. CASE StopRuntime
  <2>1. Switch!Stop
    BY <1>2, <1>4 DEF StopRuntime, Switch!Stop
  <2> QED BY <2>1 DEF Switch!Next
<1> QED BY <1>3, <1>4

LEMMA SwitchStep ==
  ReleaseTyped /\ ReleaseInv /\ [Next]_vars => [Switch!Next]_Switch!switchVars
<1> SUFFICES ASSUME ReleaseTyped, ReleaseInv, [Next]_vars
             PROVE  [Switch!Next]_Switch!switchVars
  OBVIOUS
<1>1. CASE UNCHANGED vars
  BY <1>1, SwitchRests DEF vars, disk, leases
<1>2. CASE StartRuntime \/ StopRuntime
  BY <1>2, RuntimeSwitches
<1>3. ASSUME NEW p \in Commands, CommandStep(p) PROVE [Switch!Next]_Switch!switchVars
  <2>1. CASE WritePhase(p)
    BY <2>1, WritePhaseSwitches
  <2>2. ASSUME InstalledPair' = InstalledPair, runtime' = runtime
        PROVE  [Switch!Next]_Switch!switchVars
    BY <2>2 DEF Switch!switchVars
  <2>3. CASE StrideStep(p)
    <3>1. UNCHANGED <<bin, binPrevious, journal, runtime>>
      BY <2>3 DEF StrideStep, ListLocks, MoveLock, RecordLock, LocksAmbiguous, LocksMigrated,
         NothingToRollBack, CommitAccepted, CommitRefused, ThawCandidate, RenameCandidate,
         SealCandidate, RecoveryRefused, RecoveryAccepted, Stabilize, PointersAmbiguous, Fails,
         disk, leases
    <3> QED BY <3>1, SwitchRests
  <2>4. CASE RestStep(p) \/ (Stage(p) /\ live = None /\ SameJournal(p))
    <3>1. UNCHANGED <<bin, binPrevious, journal, runtime>>
      BY <2>4 DEF RestStep, TakeInstaller, PrecheckRefused, Stage, ForwardCurrent,
         ReleaseInstaller, ReleaseLive, Killed, StepFails, Fails, disk, leases
    <3> QED BY <3>1, SwitchRests
  <2>5. CASE BeginInstall(p) \/ BeginRollback(p) \/ BeginRecovery(p)
    <3>1. UNCHANGED <<bin, binPrevious, journal, runtime>>
      <4>1. ASSUME NEW operation, NEW target, Begin(p, operation, target)
            PROVE  UNCHANGED <<disk, journal, leases>>
        BY <4>1 DEF Begin
      <4>2. UNCHANGED <<disk, journal, leases>>
        BY <2>5, <4>1 DEF BeginInstall, BeginRollback, BeginRecovery
      <4> QED BY <4>2 DEF disk, leases
    <3> QED BY <3>1, SwitchRests
  <2>6. CASE PointerStep(p)
    <3>1. journal' = journal /\ runtime' = runtime /\ cmd[p].pc \notin Resting /\ cmd[p].pc # "create"
      BY <2>6 DEF PointerStep, MoveLegacy, PreparePrevious, SwitchCurrent, ForwardPrevious,
         ForwardCurrent, RestoreCurrent, RestoreLegacy, RestorePrevious, SetPrevious, SetCurrent,
         leases, At, Resting
    <3>2. PlaceFits(cmd[p].pc, cmd[p].operation, journal)
      BY <3>1, WorkingFits
    <3>3. cmd[p].pc \in {"legacy-migrating", "previous-prepared", "current-switched",
                         "forward-previous", "forward-current", "restore-current",
                         "restore-previous"}
      BY <2>6 DEF PointerStep, MoveLegacy, PreparePrevious, SwitchCurrent, ForwardPrevious,
         ForwardCurrent, RestoreCurrent, RestoreLegacy, RestorePrevious, At
    <3>4. journal.phase \notin {"none", "maintenance-staged"}
      BY <3>2, <3>3 DEF PlaceFits, Midway
    <3>5. InstalledPair' = InstalledPair
      BY <3>1, <3>4, InstallationIs DEF Installation
    <3> QED BY <2>2, <3>1, <3>5
  <2>7. CASE CreateJournal(p)
    <3>1. cmd[p].pc = "create" /\ journal' = cmd[p].memory /\ Observed' = Observed /\ runtime' = runtime
      BY <2>7 DEF CreateJournal, At, disk, leases, Observed
    <3>2. journal = NoJournal /\ Fresh(p)
      BY <3>1 DEF ReleaseInv, CommandFits, Working, Resting, Fresh
    <3>3. journal.phase = "none" /\ journal'.phase = "maintenance-staged"
      BY <3>1, <3>2, NoJournalTyped DEF ReleaseInv, FreshJournal
    <3>4. InstalledPair' = InstalledPair
      BY <3>1, <3>3, InstallationIs DEF Installation
    <3> QED BY <2>2, <3>1, <3>4
  <2>8. CASE Inspect(p)
    <3>1. PICK m \in Journals : m = cmd[p].memory
      BY CommandTyped
    <3>2. cmd[p].pc = "inspect"
      BY <2>8 DEF Inspect, At
    <3>3. journal.phase = "maintenance-staged"
      BY <3>2, WorkingFits DEF Resting, PlaceFits
    <3>4. runtime' = runtime /\ journal'.phase = "awaiting-commit" /\ journal'.before = Observed
      <4>0. PICK d : d = IF m.operation = "rollback" THEN Pair(binPrevious, bin)
                         ELSE Pair(m.candidate, IF Validated(bin) THEN bin ELSE Absent)
        OBVIOUS
      <4>1. journal' = [m EXCEPT !.phase = "awaiting-commit", !.before = Observed, !.desired = d]
        BY <2>8, <3>1, <4>0 DEF Inspect, Write
      <4>2. journal'.phase = "awaiting-commit" /\ journal'.before = Observed
        BY <4>1 DEF Journals
      <4>3. runtime' = runtime
        BY <2>8 DEF Inspect, Write, leases
      <4> QED BY <4>2, <4>3
    <3>5. InstalledPair' = InstalledPair
      BY <3>3, <3>4, InstallationIs DEF Installation
    <3> QED BY <2>2, <3>4, <3>5
  <2>9. CASE CommitTimesOut(p)
    <3>1. PICK m \in Journals : m = cmd[p].memory
      BY CommandTyped
    <3>2. cmd[p].pc = "commit-decision"
      BY <2>9 DEF CommitTimesOut, At
    <3>3. journal.phase = "awaiting-commit" /\ journal = m
      BY <3>1, <3>2, WorkingFits DEF Resting, PlaceFits
    <3>4. runtime' = runtime /\ journal'.phase = "terminal-abort" /\ journal'.before = m.before
      <4>1. journal' = [m EXCEPT !.phase = "terminal-abort"]
        BY <2>9, <3>1 DEF CommitTimesOut, Write
      <4> QED BY <2>9, <4>1 DEF Journals, CommitTimesOut, Write, leases
    <3>5. InstalledPair' = InstalledPair
      BY <3>3, <3>4, InstallationIs DEF Installation
    <3> QED BY <2>2, <3>4, <3>5
  <2>10. CASE Adopt(p)
    <3>1. PICK m \in Journals : m = cmd[p].memory
      BY CommandTyped
    <3>2. cmd[p].pc = "adopt"
      BY <2>10 DEF Adopt, At
    <3>3. journal = m /\ RecordFits(m)
      BY <3>1, <3>2, WorkingFits DEF Resting
    <3>4. PICK n : n = Adopted(m)
      OBVIOUS
    <3>5. journal' = [n EXCEPT !.claim = @ + 1] /\ runtime' = runtime
      BY <2>10, <3>1, <3>4 DEF Adopt, Write, leases
    <3>6. CASE m.phase = "maintenance-staged"
      <4>1. n = [m EXCEPT !.phase = "current-switched", !.before = Observed, !.desired = Observed]
        BY <3>4, <3>6 DEF Adopted
      <4>2. journal'.phase = "current-switched" /\ journal'.desired = Observed
        BY <3>5, <4>1 DEF Journals
      <4>3. InstalledPair' = InstalledPair
        BY <3>3, <3>6, <4>2, InstallationIs DEF Installation
      <4> QED BY <2>2, <3>5, <4>3
    <3>7. CASE m.phase # "maintenance-staged"
      <4>1. n = m /\ m.phase # "none"
        BY <3>3, <3>4, <3>7 DEF Adopted, RecordFits
      <4>2. /\ journal'.phase = m.phase /\ journal'.desired = m.desired
            /\ journal'.before = m.before
        BY <3>5, <4>1 DEF Journals
      <4>3. InstalledPair' = InstalledPair
        BY <3>3, <3>7, <4>1, <4>2, InstallationIs DEF Installation
      <4> QED BY <2>2, <3>5, <4>3
    <3> QED BY <3>6, <3>7
  <2>11. CASE Archive(p)
    <3>1. cmd[p].pc = "archive" /\ journal' = NoJournal /\ Observed' = Observed /\ runtime' = runtime
      BY <2>11 DEF Archive, At, disk, leases, Observed
    <3>2. PlaceFits("archive", cmd[p].operation, journal)
      BY <3>1, WorkingFits DEF Resting
    <3>3. InstalledPair = Observed
      BY <3>2, InstallationIs DEF PlaceFits, Midway, Installation
    <3>4. InstalledPair' = Observed
      BY <3>1, NoJournalTyped, InstallationIs DEF Installation
    <3> QED BY <2>2, <3>1, <3>3, <3>4
  <2> QED
    BY <1>3, <2>1, <2>3, <2>4, <2>5, <2>6, <2>7, <2>8, <2>9, <2>10, <2>11 DEF CommandStep
<1> QED BY <1>1, <1>2, <1>3, NextIsCommandStep

(* The pointers of any installation change at once, by an install or a        *)
(* rollback, and never under a running runtime (installValidatedCandidate,    *)
(* rollbackValidatedRelease, recoverReleaseTransaction, applyPointerState):    *)
(* whatever is killed, fails or recovers, the transactions of any commands     *)
(* over any releases implement ReleaseSwitch.                               *)
THEOREM ReleaseSwitchesAtOnce == Spec => SwitchesAtOnce
<1>1. Init => ReleaseTyped /\ ReleaseInv
  BY ReleaseInitTyped, ReleaseBegins
<1>2. ReleaseTyped /\ ReleaseInv /\ [Next]_vars => (ReleaseTyped /\ ReleaseInv)'
  BY ReleaseStep
<1> QED BY <1>1, <1>2, SwitchBegins, SwitchStep, PTL DEF Spec, SwitchesAtOnce, Switch!Spec


-----------------------------------------------------------------------------
(* The install and the upgrades of a root.  A process is at a place of its     *)
(* program, before it, or out of it.                                         *)
Program(p)  == {StepsOf(p)[i] : i \in DOMAIN StepsOf(p)}
Outside     == 99
PlaceOf(p, s) ==
  IF s \in Program(p) THEN Place(p, s) ELSE IF s = "idle" THEN 0 ELSE Outside

InstallTyped ==
  /\ candidate \in 1 .. MaxVersion
  /\ current \in Processes \cup {Nobody}
  /\ DOMAIN gate = Purposes
  /\ DOMAIN release = Processes
  /\ \A p \in Processes : DOMAIN release[p] = {"made", "data", "sealed"} /\ release[p].sealed \in BOOLEAN
  /\ found \in [Processes -> [version : 0 .. MaxVersion, previous : Processes \cup {Nobody}]]
  /\ DOMAIN archived = Upgraders
  /\ DOMAIN step = Processes
  /\ \A p \in Installers : step[p] \in Program(p) \cup Over \cup {"error"}
  /\ \A p \in Upgraders : step[p] \in Program(p) \cup Over \cup Undoing

HoldsLive(p) == gate["live-operation"] = p

InstallerKeeps(p) ==
  /\ PlaceOf(p, step[p]) <= 23 => ~release[p].sealed
  /\ PlaceOf(p, step[p]) \in 7 .. 23 => found[p].version \in 1 .. MaxVersion
  /\ PlaceOf(p, step[p]) \in 24 .. 27 => p \in Sealed

UpgraderKeeps(p) ==
  /\ PlaceOf(p, step[p]) <= 8 => ~release[p].sealed
  /\ PlaceOf(p, step[p]) \in 2 .. 8 => found[p].version \in 1 .. MaxVersion
  /\ PlaceOf(p, step[p]) \in 9 .. 12 => p \in Sealed
  /\ found[p].previous # p
  /\ PlaceOf(p, step[p]) \in 2 .. 17 \/ step[p] \in Undoing => found[p].previous \in Processes
  /\ PlaceOf(p, step[p]) \in 4 .. 17 \/ step[p] \in Undoing => HoldsLive(p)
  /\ PlaceOf(p, step[p]) \in 13 .. 17 => current = p
  /\ step[p] \in {"rolled-back", "archive-undone"} => current = found[p].previous

InstallInv ==
  /\ InstallTyped
  /\ \A p \in Installers : InstallerKeeps(p)
  /\ \A p \in Upgraders : UpgraderKeeps(p)
  /\ HoldsLive("runtime") => current # Nobody
-----------------------------------------------------------------------------
(* The two programs.  No step stands at two places of its program.            *)
LEMMA CleanPlaces ==
  /\ DOMAIN CleanSteps = 1 .. 30
  /\ \A i, j \in 1 .. 30 : CleanSteps[i] = CleanSteps[j] => i = j
BY DEF CleanSteps

LEMMA UpgradePlaces ==
  /\ DOMAIN UpgradeSteps = 1 .. 18
  /\ \A i, j \in 1 .. 18 : UpgradeSteps[i] = UpgradeSteps[j] => i = j
BY DEF UpgradeSteps

LEMMA PlaceOfStep ==
  ASSUME NEW p \in Processes, NEW i \in DOMAIN StepsOf(p)
  PROVE  Place(p, StepsOf(p)[i]) = i
<1>1. \A j \in DOMAIN StepsOf(p) : StepsOf(p)[j] = StepsOf(p)[i] => j = i
  BY CleanPlaces, UpgradePlaces DEF StepsOf
<1> QED BY <1>1 DEF Place

LEMMA ProgramLengths ==
  ASSUME NEW p \in Processes
  PROVE  /\ p \in Installers => DOMAIN StepsOf(p) = 1 .. 30
         /\ p \notin Installers => DOMAIN StepsOf(p) = 1 .. 18
BY CleanPlaces, UpgradePlaces DEF StepsOf

LEMMA StandsAt ==
  ASSUME NEW p \in Processes, NEW i \in DOMAIN StepsOf(p), NEW s
  PROVE  /\ s = StepsOf(p)[i] <=> PlaceOf(p, s) = i
         /\ s = StepsOf(p)[i] => s \in Program(p)
<1>1. DOMAIN StepsOf(p) = 1 .. 30 \/ DOMAIN StepsOf(p) = 1 .. 18
  BY ProgramLengths
<1>2. s = StepsOf(p)[i] => s \in Program(p)
  BY DEF Program
<1>3. s = StepsOf(p)[i] => PlaceOf(p, s) = i
  BY <1>2, PlaceOfStep DEF PlaceOf
<1>4. ASSUME PlaceOf(p, s) = i
      PROVE  s = StepsOf(p)[i]
  <2>1. s \in Program(p)
    BY <1>1, <1>4 DEF PlaceOf, Outside
  <2>2. PICK j \in DOMAIN StepsOf(p) : s = StepsOf(p)[j]
    BY <2>1 DEF Program
  <2>3. j = i
    BY <1>4, <2>1, <2>2, PlaceOfStep DEF PlaceOf
  <2> QED BY <2>2, <2>3
<1> QED BY <1>2, <1>3, <1>4

LEMMA ProgramPlaces ==
  ASSUME NEW p \in Processes, NEW s
  PROVE  /\ s \in Program(p) => PlaceOf(p, s) \in DOMAIN StepsOf(p) /\ s = StepsOf(p)[PlaceOf(p, s)]
         /\ s \notin Program(p) => PlaceOf(p, s) \in {0, Outside}
<1>1. s \notin Program(p) => PlaceOf(p, s) \in {0, Outside}
  BY DEF PlaceOf
<1>2. ASSUME s \in Program(p)
      PROVE  PlaceOf(p, s) \in DOMAIN StepsOf(p) /\ s = StepsOf(p)[PlaceOf(p, s)]
  <2>1. PICK j \in DOMAIN StepsOf(p) : s = StepsOf(p)[j]
    BY <1>2 DEF Program
  <2> QED BY <2>1, StandsAt
<1> QED BY <1>1, <1>2

LEMMA InstallerPlaces ==
  ASSUME NEW p \in Installers, NEW s
  PROVE  /\ PlaceOf(p, s) \in 0 .. 30 \cup {Outside}
         /\ s = "scan" <=> PlaceOf(p, s) = 6
         /\ s = "create-release" <=> PlaceOf(p, s) = 20
         /\ s = "materialize" <=> PlaceOf(p, s) = 21
         /\ s = "seal" <=> PlaceOf(p, s) = 23
         /\ s = "link" <=> PlaceOf(p, s) = 27
         /\ s = "close" => PlaceOf(p, s) = 30
         /\ s \in {"error", "ended", "killed"} => PlaceOf(p, s) = Outside
         /\ s = "idle" <=> PlaceOf(p, s) = 0
<1>1. StepsOf(p) = CleanSteps /\ p \in Processes
  BY DEF StepsOf, Processes
<1>2. PlaceOf(p, s) \in 0 .. 30 \cup {Outside}
  BY <1>1, ProgramPlaces, CleanPlaces
<1>3. /\ CleanSteps[6] = "scan" /\ CleanSteps[20] = "create-release"
      /\ CleanSteps[21] = "materialize" /\ CleanSteps[23] = "seal" /\ CleanSteps[27] = "link"
      /\ CleanSteps[30] = "close"
  BY DEF CleanSteps
<1>4. \A i \in 1 .. 30 : s = CleanSteps[i] <=> PlaceOf(p, s) = i
  BY <1>1, StandsAt, CleanPlaces
<1>5. \A i \in 1 .. 30 : CleanSteps[i] \notin {"error", "ended", "killed", "idle"}
  BY DEF CleanSteps
<1>6. s \in {"error", "ended", "killed", "idle"} => s \notin Program(p)
  BY <1>1, <1>5, CleanPlaces DEF Program
<1>7. s \in {"error", "ended", "killed"} => PlaceOf(p, s) = Outside
  BY <1>6 DEF PlaceOf
<1>8. s = "idle" <=> PlaceOf(p, s) = 0
  BY <1>1, <1>6, ProgramPlaces, CleanPlaces DEF PlaceOf, Outside
<1> QED BY <1>2, <1>3, <1>4, <1>7, <1>8

LEMMA UpgraderPlaces ==
  ASSUME NEW p \in Upgraders, NEW s
  PROVE  /\ PlaceOf(p, s) \in 0 .. 18 \cup {Outside}
         /\ s = "validate" <=> PlaceOf(p, s) = 1
         /\ s = "live-operation" <=> PlaceOf(p, s) = 3
         /\ s = "drift" <=> PlaceOf(p, s) = 4
         /\ s = "create-wal" <=> PlaceOf(p, s) = 5
         /\ s = "create-release" <=> PlaceOf(p, s) = 6
         /\ s = "copy" <=> PlaceOf(p, s) = 7
         /\ s = "seal" <=> PlaceOf(p, s) = 8
         /\ s = "next-pointer" <=> PlaceOf(p, s) = 10
         /\ s = "switch" <=> PlaceOf(p, s) = 12
         /\ s = "installed-validated" <=> PlaceOf(p, s) = 14
         /\ s = "archive" <=> PlaceOf(p, s) = 17
         /\ s = "close" <=> PlaceOf(p, s) = 18
         /\ s \in Undoing \cup {"ended", "killed"} => PlaceOf(p, s) = Outside
         /\ s = "idle" <=> PlaceOf(p, s) = 0
<1>1. StepsOf(p) = UpgradeSteps /\ p \in Processes
  BY InstallAssumption DEF StepsOf, Processes
<1>2. PlaceOf(p, s) \in 0 .. 18 \cup {Outside}
  BY <1>1, ProgramPlaces, UpgradePlaces
<1>3. /\ UpgradeSteps[1] = "validate" /\ UpgradeSteps[3] = "live-operation"
      /\ UpgradeSteps[4] = "drift" /\ UpgradeSteps[5] = "create-wal" /\ UpgradeSteps[6] = "create-release"
      /\ UpgradeSteps[7] = "copy" /\ UpgradeSteps[8] = "seal" /\ UpgradeSteps[12] = "switch"
      /\ UpgradeSteps[10] = "next-pointer" /\ UpgradeSteps[14] = "installed-validated"
      /\ UpgradeSteps[17] = "archive" /\ UpgradeSteps[18] = "close"
  BY DEF UpgradeSteps
<1>4. \A i \in 1 .. 18 : s = UpgradeSteps[i] <=> PlaceOf(p, s) = i
  BY <1>1, StandsAt, UpgradePlaces
<1>5. \A i \in 1 .. 18 : UpgradeSteps[i] \notin Undoing \cup {"ended", "killed", "idle"}
  BY DEF UpgradeSteps, Undoing
<1>6. s \in Undoing \cup {"ended", "killed", "idle"} => s \notin Program(p)
  BY <1>1, <1>5, UpgradePlaces DEF Program
<1>7. s \in Undoing \cup {"ended", "killed"} => PlaceOf(p, s) = Outside
  BY <1>6 DEF PlaceOf, Undoing
<1>8. s = "idle" <=> PlaceOf(p, s) = 0
  BY <1>1, <1>6, ProgramPlaces, UpgradePlaces DEF PlaceOf, Outside
<1> QED BY <1>2, <1>3, <1>4, <1>7, <1>8
-----------------------------------------------------------------------------
(* What the steps of one process leave of what the others keep.               *)
SpareTheRest(p) ==
  \A q \in Processes \ {p} :
    /\ step'[q] = step[q] /\ release'[q] = release[q] /\ found'[q] = found[q]
    /\ HoldsLive(q) => HoldsLive(q)'
    /\ HoldsLive(q) /\ current # Nobody => current' = current

LEMMA OthersKeep ==
  ASSUME InstallInv, NEW p, SpareTheRest(p)
  PROVE  /\ \A q \in Installers \ {p} : InstallerKeeps(q)'
         /\ \A q \in Upgraders \ {p} : UpgraderKeeps(q)'
<1>1. ASSUME NEW q \in Installers \ {p}
      PROVE  InstallerKeeps(q)'
  <2>1. /\ step'[q] = step[q] /\ release'[q] = release[q] /\ found'[q] = found[q]
        /\ InstallerKeeps(q) /\ q \in Processes
    BY <1>1 DEF SpareTheRest, InstallInv, Processes
  <2>2. PlaceOf(q, step'[q]) = PlaceOf(q, step[q])
    BY <2>1
  <2>3. q \in Sealed => (q \in Sealed)'
    BY <2>1 DEF Sealed
  <2> QED BY <2>1, <2>2, <2>3 DEF InstallerKeeps
<1>2. ASSUME NEW q \in Upgraders \ {p}
      PROVE  UpgraderKeeps(q)'
  <2>1. /\ step'[q] = step[q] /\ release'[q] = release[q] /\ found'[q] = found[q]
        /\ HoldsLive(q) => HoldsLive(q)'
        /\ HoldsLive(q) /\ current # Nobody => current' = current
        /\ UpgraderKeeps(q) /\ q \in Processes
    BY <1>2 DEF SpareTheRest, InstallInv, Processes
  <2>2. PlaceOf(q, step'[q]) = PlaceOf(q, step[q])
    BY <2>1
  <2>3. q \in Sealed => (q \in Sealed)'
    BY <2>1 DEF Sealed
  <2>4. Nobody \notin Processes
    BY InstallAssumption
  <2>5. PlaceOf(q, step[q]) \in 13 .. 17 => current' = q
    <3>1. PlaceOf(q, step[q]) \in 13 .. 17 => PlaceOf(q, step[q]) \in 4 .. 17
      OBVIOUS
    <3> QED BY <2>1, <2>4, <3>1 DEF UpgraderKeeps
  <2>6. step[q] \in {"rolled-back", "archive-undone"} => current' = found[q].previous
    BY <2>1, <2>4 DEF UpgraderKeeps, Undoing
  <2> QED BY <2>1, <2>2, <2>3, <2>5, <2>6 DEF UpgraderKeeps
<1> QED BY <1>1, <1>2

\* Where a step may go without another change.
MayGo(p, s) ==
  LET i == PlaceOf(p, step[p]) IN
  \/ s \in {"close", "ended", "killed"}
  \/ /\ p \in Installers
     /\ \/ s = "error"
        \/ i \notin {6, 23} /\ i < 30 /\ s = StepsOf(p)[i + 1]
  \/ /\ p \in Upgraders
     /\ \/ i \notin {1, 3, 8, 12} /\ i < 18 /\ s = StepsOf(p)[i + 1]
        \/ i \in 4 .. 17 /\ s \in {"abort", "restore"}
        \/ /\ i \in 4 .. 17 \/ step[p] \in Undoing
           /\ s = "archive-undone" /\ current = found[p].previous

\* The gates change hands without taking one from a process that goes on.
GateKept(p, s) ==
  /\ DOMAIN gate' = Purposes
  /\ \A q \in Processes :
       HoldsLive(q) => \/ HoldsLive(q)'
                       \/ q = p /\ s \in {"close", "ended", "killed"}
  /\ HoldsLive("runtime")' => current # Nobody

LEMMA MereStep ==
  ASSUME InstallInv, NEW p \in Processes, NEW s, Ends(p, s), MayGo(p, s), GateKept(p, s),
         UNCHANGED <<release, current, found>>, DOMAIN archived' = Upgraders,
         candidate' \in 1 .. MaxVersion
  PROVE  InstallInv'
<1>1. /\ step' = [step EXCEPT ![p] = s] /\ DOMAIN step = Processes
      /\ \A q \in Processes : step'[q] = IF q = p THEN s ELSE step[q]
  BY DEF Ends, InstallInv, InstallTyped
<1>2. SpareTheRest(p)
  BY <1>1 DEF SpareTheRest, GateKept
<1>3. CASE p \in Installers
  <2>1. /\ InstallerKeeps(p) /\ step'[p] = s /\ p \notin Upgraders /\ p \in Processes
        /\ DOMAIN StepsOf(p) = 1 .. 30 /\ step[p] \in Program(p) \cup Over \cup {"error"}
    BY <1>1, <1>3, InstallAssumption, ProgramLengths DEF InstallInv, InstallTyped
  <2>2. PlaceOf(p, step[p]) \in 0 .. 30 \cup {Outside}
    BY <1>3, InstallerPlaces
  <2>3. \/ s \in {"close", "ended", "killed", "error"} /\ PlaceOf(p, s) \in {30, Outside}
        \/ /\ PlaceOf(p, step[p]) \notin {6, 23} /\ PlaceOf(p, step[p]) < 30
           /\ PlaceOf(p, s) = PlaceOf(p, step[p]) + 1 /\ s \in Program(p)
    <3>1. CASE s \in {"close", "ended", "killed", "error"}
      BY <1>3, <3>1, InstallerPlaces
    <3>2. CASE ~(s \in {"close", "ended", "killed", "error"})
      <4>1. /\ PlaceOf(p, step[p]) \notin {6, 23} /\ PlaceOf(p, step[p]) < 30
            /\ s = StepsOf(p)[PlaceOf(p, step[p]) + 1]
        BY <2>1, <3>2 DEF MayGo
      <4>2. PlaceOf(p, step[p]) + 1 \in DOMAIN StepsOf(p)
        BY <2>1, <2>2, <4>1 DEF Outside
      <4> QED BY <4>1, <4>2, StandsAt
    <3> QED BY <3>1, <3>2
  <2>4. InstallerKeeps(p)'
    BY <2>1, <2>2, <2>3 DEF InstallerKeeps, Sealed, Outside
  <2>5. s \in Program(p) \cup Over \cup {"error"}
    <3>1. CleanSteps[30] = "close" /\ StepsOf(p) = CleanSteps
      BY <1>3 DEF CleanSteps, StepsOf
    <3> QED BY <2>1, <2>3, <3>1 DEF Over, Program
  <2>6. InstallTyped'
    BY <1>1, <2>1, <2>5 DEF InstallInv, InstallTyped, GateKept, Program
  <2> QED BY <1>2, <2>1, <2>4, <2>6, OthersKeep DEF InstallInv, GateKept
<1>4. CASE p \in Upgraders
  <2>1. /\ UpgraderKeeps(p) /\ step'[p] = s /\ p \notin Installers /\ p \in Processes
        /\ DOMAIN StepsOf(p) = 1 .. 18 /\ step[p] \in Program(p) \cup Over \cup Undoing
    BY <1>1, <1>4, InstallAssumption, ProgramLengths DEF InstallInv, InstallTyped
  <2>2. PlaceOf(p, step[p]) \in 0 .. 18 \cup {Outside}
    BY <1>4, UpgraderPlaces
  <2>3. \/ s \in {"close", "ended", "killed"} /\ PlaceOf(p, s) \in {18, Outside} /\ s \notin Undoing
        \/ /\ PlaceOf(p, step[p]) \notin {1, 3, 8, 12} /\ PlaceOf(p, step[p]) < 18
           /\ PlaceOf(p, s) = PlaceOf(p, step[p]) + 1 /\ s \in Program(p) /\ s \notin Undoing
        \/ /\ PlaceOf(p, s) = Outside /\ s \in Undoing /\ s # "rolled-back"
           /\ PlaceOf(p, step[p]) \in 4 .. 17 \/ step[p] \in Undoing
           /\ s = "archive-undone" => current = found[p].previous
    <3>1. CASE s \in {"close", "ended", "killed"}
      BY <1>4, <3>1, UpgraderPlaces DEF Undoing
    <3>2. CASE s \in {"abort", "restore", "archive-undone"}
      <4>1. PlaceOf(p, s) = Outside /\ s \in Undoing /\ s # "rolled-back"
        BY <1>4, <3>2, UpgraderPlaces DEF Undoing
      <4>2. ~(PlaceOf(p, step[p]) < 18 /\ s = StepsOf(p)[PlaceOf(p, step[p]) + 1])
        BY <2>1, <2>2, <4>1, StandsAt DEF Outside
      <4> QED BY <2>1, <3>2, <4>1, <4>2 DEF MayGo
    <3>3. CASE ~(s \in {"close", "ended", "killed", "abort", "restore", "archive-undone"})
      <4>1. /\ PlaceOf(p, step[p]) \notin {1, 3, 8, 12} /\ PlaceOf(p, step[p]) < 18
            /\ s = StepsOf(p)[PlaceOf(p, step[p]) + 1]
        BY <2>1, <3>3 DEF MayGo
      <4>2. PlaceOf(p, step[p]) + 1 \in DOMAIN StepsOf(p)
        BY <2>1, <2>2, <4>1 DEF Outside
      <4>3. PlaceOf(p, s) = PlaceOf(p, step[p]) + 1 /\ s \in Program(p)
        BY <4>1, <4>2, StandsAt
      <4>4. s \notin Undoing
        BY <1>4, <2>1, <4>2, <4>3, UpgraderPlaces DEF Outside
      <4> QED BY <4>1, <4>3, <4>4
    <3> QED BY <3>1, <3>2, <3>3
  <2>7. PlaceOf(p, s) \in 4 .. 17 \/ s \in Undoing => s \notin {"close", "ended", "killed"}
    BY <1>4, UpgraderPlaces DEF Undoing, Outside
  <2>8. PlaceOf(p, s) \in 4 .. 17 \/ s \in Undoing => HoldsLive(p)'
    <3>1. ASSUME PlaceOf(p, s) \in 4 .. 17 \/ s \in Undoing
          PROVE  PlaceOf(p, step[p]) \in 4 .. 17 \/ step[p] \in Undoing
      BY <2>2, <2>3, <3>1 DEF Outside
    <3>2. PlaceOf(p, step[p]) \in 4 .. 17 \/ step[p] \in Undoing => HoldsLive(p)
      BY <2>1 DEF UpgraderKeeps
    <3> QED BY <2>1, <2>7, <3>1, <3>2 DEF GateKept
  <2>4. UpgraderKeeps(p)'
    BY <2>1, <2>2, <2>3, <2>8 DEF UpgraderKeeps, Sealed, Outside, Undoing
  <2>5. s \in Program(p) \cup Over \cup Undoing
    <3>1. UpgradeSteps[18] = "close" /\ StepsOf(p) = UpgradeSteps
      BY <2>1 DEF UpgradeSteps, StepsOf
    <3> QED BY <2>1, <2>3, <3>1 DEF Over, Program
  <2>6. InstallTyped'
    BY <1>1, <2>1, <2>5 DEF InstallInv, InstallTyped, GateKept, Program
  <2> QED BY <1>2, <2>1, <2>4, <2>6, OthersKeep DEF InstallInv, GateKept
<1> QED BY <1>3, <1>4 DEF Processes

LEMMA GoesOn ==
  ASSUME InstallInv, NEW p \in Processes, Proceeds(p), step[p] \notin Over,
         p \in Installers => step[p] \notin {"scan", "seal", "close", "error"},
         p \in Upgraders =>
           step[p] \notin Undoing \cup {"validate", "live-operation", "seal", "switch", "close"}
  PROVE  \E s : Ends(p, s) /\ MayGo(p, s)
<1> DEFINE i == PlaceOf(p, step[p])
<1>1. step[p] \in Program(p)
  BY DEF InstallInv, InstallTyped, Processes
<1>2. Place(p, step[p]) = i
  BY <1>1 DEF PlaceOf
<1>3. Ends(p, StepsOf(p)[i + 1])
  BY <1>2 DEF Proceeds
<1>4. i \in DOMAIN StepsOf(p) /\ step[p] = StepsOf(p)[i]
  BY <1>1, ProgramPlaces
<1>5. CASE p \in Installers
  <2>1. i \in 1 .. 30 /\ i \notin {6, 23}
    BY <1>4, <1>5, ProgramLengths, InstallerPlaces
  <2>2. CleanSteps[30] = "close" /\ StepsOf(p) = CleanSteps
    BY <1>5 DEF CleanSteps, StepsOf
  <2>3. i < 30
    BY <1>4, <1>5, <2>1, <2>2
  <2> QED BY <1>3, <1>5, <2>1, <2>3 DEF MayGo
<1>6. CASE p \in Upgraders
  <2>1. i \in 1 .. 18 /\ i \notin {1, 3, 8, 12, 18}
    BY <1>4, <1>6, InstallAssumption, ProgramLengths, UpgraderPlaces
  <2> QED BY <1>3, <1>6, <2>1 DEF MayGo
<1> QED BY <1>5, <1>6 DEF Processes

LEMMA InstallRests ==
  ASSUME InstallInv, NEW p \in Processes, NEW s, Ends(p, s), MayGo(p, s),
         UNCHANGED <<candidate, release, current, found, archived, gate>>
  PROVE  InstallInv'
<1>1. candidate' \in 1 .. MaxVersion /\ DOMAIN archived' = Upgraders
  BY DEF InstallInv, InstallTyped
<1>2. GateKept(p, s)
  BY DEF InstallInv, InstallTyped, GateKept, HoldsLive
<1> QED BY <1>1, <1>2, MereStep

LEMMA Steady ==
  ASSUME InstallInv, UNCHANGED <<step, release, current, found, archived>>,
         candidate' \in 1 .. MaxVersion, DOMAIN gate' = Purposes,
         \A q \in Processes : HoldsLive(q) => HoldsLive(q)',
         HoldsLive("runtime")' => current # Nobody
  PROVE  InstallInv'
<1>1. InstallTyped'
  BY DEF InstallInv, InstallTyped, Program
<1>2. \A q : SpareTheRest(q)
  BY DEF SpareTheRest
<1>3. Nobody \notin Processes
  BY InstallAssumption
<1>4. /\ \A q \in Installers : InstallerKeeps(q)'
      /\ \A q \in Upgraders : UpgraderKeeps(q)'
  BY <1>2, <1>3, OthersKeep DEF Processes
<1> QED BY <1>1, <1>4 DEF InstallInv

LEMMA MereInstall ==
  ASSUME InstallInv, NEW p \in Installers,
         CreatesJournal(p) \/ Records(p) \/ CreatesContainer(p) \/ Fills(p) \/ Lays(p) \/ RecordsError(p)
  PROVE  InstallInv'
<1>1. p \in Processes /\ p \notin Upgraders
  BY InstallAssumption DEF Processes
<1>2. UNCHANGED <<candidate, release, current, found, archived, gate>>
  BY DEF CreatesJournal, Records, CreatesContainer, Fills, Lays, RecordsError
<1>3. CASE CreatesJournal(p)
  <2>1. \E s : Ends(p, s) /\ MayGo(p, s)
    BY <1>1, <1>3, GoesOn DEF CreatesJournal, AtStep, MayGo, Over
  <2> QED BY <1>1, <1>2, <2>1, InstallRests
<1>4. CASE Records(p)
  <2>1. \E s : Ends(p, s) /\ MayGo(p, s)
    BY <1>1, <1>4, GoesOn DEF Records, InstallPhases, Over
  <2> QED BY <1>1, <1>2, <2>1, InstallRests
<1>5. CASE CreatesContainer(p)
  <2>1. \E s : Ends(p, s) /\ MayGo(p, s)
    BY <1>1, <1>5, GoesOn DEF CreatesContainer, AtStep, Over
  <2> QED BY <1>1, <1>2, <2>1, InstallRests
<1>6. CASE Fills(p)
  <2>1. \/ step' = step
        \/ Ends(p, "error")
        \/ Proceeds(p)
    BY <1>6 DEF Fills
  <2>2. \/ step' = step
        \/ \E s : Ends(p, s) /\ MayGo(p, s)
    BY <1>1, <1>6, <2>1, GoesOn DEF Fills, AtStep, MayGo, Over
  <2>3. CASE step' = step
    BY <1>2, <2>3, Steady DEF InstallInv, InstallTyped, HoldsLive
  <2> QED BY <1>1, <1>2, <2>2, <2>3, InstallRests
<1>7. CASE Lays(p)
  <2>1. \E s : Ends(p, s) /\ MayGo(p, s)
    BY <1>1, <1>7, GoesOn DEF Lays, Layout, MayGo, Over
  <2> QED BY <1>1, <1>2, <2>1, InstallRests
<1>8. CASE RecordsError(p)
  BY <1>1, <1>2, <1>8, InstallRests DEF RecordsError, MayGo
<1> QED BY <1>3, <1>4, <1>5, <1>6, <1>7, <1>8

LEMMA MereUpgrade ==
  ASSUME InstallInv, NEW p \in Upgraders,
         \/ ChecksDrift(p) \/ CreatesWal(p) \/ PreparesPointer(p) \/ WritesPhase(p)
         \/ Archives(p) \/ AbortsUpgrade(p) \/ RollsBack(p)
  PROVE  InstallInv'
<1>1. p \in Processes /\ p \notin Installers
  BY InstallAssumption DEF Processes
<1>11. UNCHANGED <<candidate, release, current, found, gate>>
  BY DEF ChecksDrift, CreatesWal, PreparesPointer, WritesPhase, Archives, AbortsUpgrade, RollsBack,
         diskVars
<1>12. ~Archives(p) => UNCHANGED archived
  BY DEF ChecksDrift, CreatesWal, PreparesPointer, WritesPhase, AbortsUpgrade, RollsBack, diskVars
<1>13. Archives(p) => DOMAIN archived' = DOMAIN archived
  BY DEF Archives
<1>2. /\ UNCHANGED <<candidate, release, current, found, gate>>
      /\ DOMAIN archived' = Upgraders /\ candidate' \in 1 .. MaxVersion
  BY <1>11, <1>12, <1>13 DEF InstallInv, InstallTyped
<1>3. \A s : GateKept(p, s)
  BY <1>2 DEF InstallInv, InstallTyped, GateKept, HoldsLive
<1>4. CASE ChecksDrift(p)
  <2>1. \E s : Ends(p, s) /\ MayGo(p, s)
    BY <1>1, <1>4, GoesOn DEF ChecksDrift, AtStep, MayGo, Over, Undoing
  <2> QED BY <1>1, <1>2, <1>3, <2>1, MereStep
<1>5. CASE CreatesWal(p)
  <2>1. \E s : Ends(p, s) /\ MayGo(p, s)
    BY <1>1, <1>5, GoesOn DEF CreatesWal, AtStep, MayGo, Over, Undoing
  <2> QED BY <1>1, <1>2, <1>3, <2>1, MereStep
<1>6. CASE PreparesPointer(p)
  <2>1. step[p] = "next-pointer" /\ PlaceOf(p, step[p]) = 10
    BY <1>6, UpgraderPlaces DEF PreparesPointer, AtStep
  <2>2. \E s : Ends(p, s) /\ MayGo(p, s)
    BY <1>1, <1>6, <2>1, GoesOn DEF PreparesPointer, MayGo, Over, Undoing
  <2> QED BY <1>1, <1>2, <1>3, <2>2, MereStep
<1>7. CASE WritesPhase(p)
  <2>1. step[p] \in UpgradePhases
    BY <1>7 DEF WritesPhase
  <2>2. Proceeds(p) \/ (Ends(p, "restore") /\ step[p] = "installed-validated")
    BY <1>7 DEF WritesPhase, AtStep, Installed
  <2>3. step[p] = "installed-validated" => PlaceOf(p, step[p]) = 14
    BY UpgraderPlaces
  <2>4. \E s : Ends(p, s) /\ MayGo(p, s)
    BY <1>1, <2>1, <2>2, <2>3, GoesOn DEF UpgradePhases, MayGo, Over, Undoing
  <2> QED BY <1>1, <1>2, <1>3, <2>4, MereStep
<1>8. CASE Archives(p)
  BY <1>1, <1>2, <1>3, <1>8, MereStep DEF Archives, MayGo
<1>9. CASE AbortsUpgrade(p)
  <2>1. \E s : Ends(p, s) /\ MayGo(p, s)
    BY <1>9 DEF AbortsUpgrade, Bound, AtStep, MayGo, Undoing
  <2> QED BY <1>1, <1>2, <1>3, <2>1, MereStep
<1>10. CASE RollsBack(p)
  <2>1. current = found[p].previous
    BY <1>10 DEF RollsBack, AtStep, InstallInv, UpgraderKeeps
  <2>2. \E s : Ends(p, s) /\ MayGo(p, s)
    BY <1>10, <2>1 DEF RollsBack, AtStep, MayGo, Undoing
  <2> QED BY <1>1, <1>2, <1>3, <2>2, MereStep
<1> QED BY <1>4, <1>5, <1>6, <1>7, <1>8, <1>9, <1>10

LEMMA MereCommon ==
  ASSUME InstallInv, NEW p \in Processes, RunsCommand(p) \/ LeavesReceipt(p)
  PROVE  InstallInv'
<1>1. UNCHANGED <<candidate, release, current, found, archived, gate>>
  BY DEF RunsCommand, LeavesReceipt, diskVars
<1>2. CASE RunsCommand(p)
  <2>1. PlaceOf(p, step[p]) = 0
    BY <1>2, InstallerPlaces, UpgraderPlaces DEF RunsCommand, AtStep, Processes
  <2>2. Ends(p, StepsOf(p)[1]) /\ MayGo(p, StepsOf(p)[1])
    BY <1>2, <2>1 DEF RunsCommand, MayGo, Processes
  <2> QED BY <1>1, <2>2, InstallRests
<1>3. CASE LeavesReceipt(p)
  <2>1. \E s : Ends(p, s) /\ MayGo(p, s)
    BY <1>3, GoesOn DEF LeavesReceipt, AtStep, Over, Undoing
  <2> QED BY <1>1, <2>1, InstallRests
<1> QED BY <1>2, <1>3

LEMMA Mishaps ==
  ASSUME InstallInv, NEW p \in Processes,
         GivesUpLocks(p) \/ CallBreaks(p) \/ ProcessKilled(p)
  PROVE  InstallInv'
<1>1. /\ UNCHANGED <<candidate, release, current, found>>
      /\ DOMAIN archived' = Upgraders /\ candidate' \in 1 .. MaxVersion
  BY DEF GivesUpLocks, CallBreaks, ProcessKilled, diskVars, InstallInv, InstallTyped
<1>2. CASE GivesUpLocks(p) \/ ProcessKilled(p)
  <2>1. PICK s \in {"ended", "killed"} : Ends(p, s) /\ Drops(p)
    BY <1>2 DEF GivesUpLocks, ProcessKilled
  <2>2. "live-operation" \in Purposes /\ "runtime" \notin Processes /\ Nobody # "runtime"
    BY InstallAssumption DEF Purposes
  <2>3. GateKept(p, s)
    BY <2>1, <2>2 DEF Drops, GateKept, HoldsLive, InstallInv
  <2> QED BY <1>1, <2>1, <2>3, MereStep DEF MayGo
<1>3. CASE CallBreaks(p)
  <2>1. Ends(p, Caught(p)) /\ UNCHANGED gate /\ step[p] \notin Over \cup {"ask", "close", "error"}
    BY <1>3 DEF CallBreaks
  <2>2. \A s : GateKept(p, s)
    BY <2>1 DEF InstallInv, InstallTyped, GateKept, HoldsLive
  <2>3. MayGo(p, Caught(p))
    <3>1. CASE p \in Installers
      BY <3>1 DEF MayGo, Caught
    <3>2. CASE p \in Upgraders /\ p \notin Installers
      <4>1. step[p] \in Undoing => Caught(p) = "close"
        BY <3>2 DEF Caught
      <4>2. ASSUME step[p] \notin Undoing
            PROVE  MayGo(p, Caught(p))
        <5>1. step[p] \in Program(p) /\ Place(p, step[p]) = PlaceOf(p, step[p])
          BY <2>1, <3>2, <4>2 DEF InstallInv, InstallTyped, PlaceOf
        <5>2. PlaceOf(p, step[p]) \in 1 .. 18
          BY <3>2, <5>1, ProgramPlaces, ProgramLengths
        <5>3. PlaceOf(p, step[p]) # 18
          BY <2>1, <3>2, UpgraderPlaces
        <5>4. PlaceOf(p, "create-wal") = 5 /\ PlaceOf(p, "switch") = 12
          BY <3>2, UpgraderPlaces
        <5>5. Place(p, "create-wal") = 5
          <6>1. "create-wal" \in Program(p)
            BY <5>4, ProgramPlaces DEF Outside
          <6> QED BY <5>4, <6>1 DEF PlaceOf
        <5> QED BY <3>2, <5>1, <5>2, <5>3, <5>5 DEF Caught, MayGo
      <4> QED BY <4>1, <4>2 DEF MayGo
    <3> QED BY <3>1, <3>2, InstallAssumption DEF Processes
  <2> QED BY <1>1, <2>1, <2>2, <2>3, MereStep
<1> QED BY <1>2, <1>3

LEMMA Advance ==
  ASSUME InstallInv, NEW p \in Processes, Proceeds(p), NEW i \in Nat,
         PlaceOf(p, step[p]) = i, i \in DOMAIN StepsOf(p), i + 1 \in DOMAIN StepsOf(p)
  PROVE  /\ step'[p] \in Program(p) /\ PlaceOf(p, step'[p]) = i + 1
         /\ \A q \in Processes \ {p} : step'[q] = step[q]
         /\ p \in Upgraders => step'[p] \notin Undoing
         /\ /\ DOMAIN step' = Processes
            /\ \A q \in Installers : step'[q] \in Program(q) \cup Over \cup {"error"}
            /\ \A q \in Upgraders : step'[q] \in Program(q) \cup Over \cup Undoing
<1>1. step[p] \in Program(p) /\ Place(p, step[p]) = i
  BY ProgramPlaces, ProgramLengths DEF PlaceOf, Outside
<1>2. step' = [step EXCEPT ![p] = StepsOf(p)[i + 1]] /\ DOMAIN step = Processes
  BY <1>1 DEF Proceeds, Ends, InstallInv, InstallTyped
<1>3. step'[p] = StepsOf(p)[i + 1]
  BY <1>2
<1>4. step'[p] \in Program(p) /\ PlaceOf(p, step'[p]) = i + 1
  BY <1>3, StandsAt
<1>5. p \in Upgraders => step'[p] \notin Undoing
  BY <1>4, ProgramLengths, UpgraderPlaces, InstallAssumption DEF Outside
<1>6. \A q \in Processes \ {p} : step'[q] = step[q]
  BY <1>2
<1>7. /\ \A q \in Installers : step'[q] \in Program(q) \cup Over \cup {"error"}
      /\ \A q \in Upgraders : step'[q] \in Program(q) \cup Over \cup Undoing
  BY <1>4, <1>6 DEF InstallInv, InstallTyped, Processes
<1> QED BY <1>2, <1>4, <1>5, <1>6, <1>7

LEMMA GatesChange ==
  ASSUME InstallInv, NEW p \in Processes,
         (p \in Installers /\ AsksJournal(p)) \/ \E x \in Purposes : TakesLock(p, x)
  PROVE  InstallInv'
<1>1. /\ "live-operation" \in Purposes /\ p # "runtime" /\ Nobody # "runtime"
      /\ "runtime" \notin Processes /\ Nobody \notin Processes
  BY InstallAssumption DEF Purposes
<1>2. CASE p \in Installers /\ AsksJournal(p)
  <2>1. UNCHANGED <<candidate, release, current, found, archived>>
    BY <1>2 DEF AsksJournal, diskVars
  <2>2. \/ UNCHANGED gate
        \/ gate' = [x \in Purposes |-> p] /\ gate["live-operation"] = Nobody
    BY <1>1, <1>2 DEF AsksJournal
  <2>3. \A s : GateKept(p, s)
    BY <1>1, <2>2, <2>1 DEF InstallInv, InstallTyped, GateKept, HoldsLive
  <2>4. \E s : Ends(p, s) /\ MayGo(p, s)
    BY <1>2, GoesOn, InstallAssumption DEF AsksJournal, AtStep, MayGo, Over
  <2>5. candidate' \in 1 .. MaxVersion /\ DOMAIN archived' = Upgraders
    BY <2>1 DEF InstallInv, InstallTyped
  <2> QED BY <2>1, <2>3, <2>4, <2>5, MereStep
<1>3. ASSUME NEW x \in Purposes, TakesLock(p, x)
      PROVE  InstallInv'
  <2>1. UNCHANGED <<candidate, release, current, found, archived>> /\ step[p] = x
    BY <1>3 DEF TakesLock, diskVars, AtStep
  <2>2. /\ candidate' \in 1 .. MaxVersion /\ DOMAIN archived' = Upgraders /\ DOMAIN gate = Purposes
        /\ HoldsLive("runtime") => current # Nobody
    BY <2>1 DEF InstallInv, InstallTyped
  <2>3. \/ gate' = gate /\ Ends(p, IF p \in Installers THEN "error" ELSE "close")
        \/ gate[x] = Nobody /\ gate' = [gate EXCEPT ![x] = p] /\ Proceeds(p)
    BY <1>3 DEF TakesLock, MayLock
  <2>4. CASE gate' = gate /\ Ends(p, IF p \in Installers THEN "error" ELSE "close")
    <3>1. \E s : Ends(p, s) /\ MayGo(p, s)
      BY <2>4 DEF MayGo, Processes
    <3> QED BY <2>1, <2>4, <3>1, InstallRests
  <2>5. CASE gate[x] = Nobody /\ gate' = [gate EXCEPT ![x] = p] /\ Proceeds(p)
    <3>1. /\ DOMAIN gate' = Purposes
          /\ \A q \in Processes : HoldsLive(q) => HoldsLive(q)'
          /\ HoldsLive("runtime")' => current # Nobody
          /\ x = "live-operation" => HoldsLive(p)'
      BY <1>1, <2>2, <2>5 DEF HoldsLive
    <3>2. \A s : GateKept(p, s)
      BY <2>1, <3>1 DEF GateKept
    <3>3. CASE p \in Installers \/ x # "live-operation"
      <4>1. \E s : Ends(p, s) /\ MayGo(p, s)
        BY <2>1, <2>5, <3>3, GoesOn, InstallAssumption DEF Purposes, Over, Undoing
      <4> QED BY <2>1, <2>2, <3>2, <4>1, MereStep
    <3>4. CASE p \notin Installers /\ x = "live-operation"
      <4>1. p \in Upgraders /\ UpgraderKeeps(p) /\ PlaceOf(p, step[p]) = 3 /\ step[p] \in Program(p)
        BY <2>1, <3>4, UpgraderPlaces, ProgramPlaces DEF InstallInv, Processes, InstallTyped, Outside
      <4>2. 3 \in DOMAIN StepsOf(p) /\ 3 + 1 \in DOMAIN StepsOf(p)
        BY <3>4, ProgramLengths
      <4>3. /\ PlaceOf(p, step'[p]) = 4 /\ step'[p] \notin Undoing
            /\ \A q \in Processes \ {p} : step'[q] = step[q]
        BY <2>5, <4>1, <4>2, Advance
      <4>4. /\ DOMAIN step' = Processes
            /\ \A q \in Installers : step'[q] \in Program(q) \cup Over \cup {"error"}
            /\ \A q \in Upgraders : step'[q] \in Program(q) \cup Over \cup Undoing
        BY <2>5, <4>1, <4>2, Advance
      <4>5. SpareTheRest(p)
        BY <2>1, <3>1, <4>3 DEF SpareTheRest
      <4>6. UpgraderKeeps(p)'
        BY <2>1, <3>1, <3>4, <4>1, <4>3 DEF UpgraderKeeps, Undoing
      <4>7. InstallTyped'
        BY <2>1, <3>1, <4>4 DEF InstallInv, InstallTyped, Program
      <4> QED BY <2>1, <3>1, <3>4, <4>1, <4>5, <4>6, <4>7, OthersKeep DEF InstallInv
    <3> QED BY <3>3, <3>4
  <2> QED BY <2>3, <2>4, <2>5
<1> QED BY <1>2, <1>3

LEMMA Elsewhere ==
  ASSUME InstallInv, Builds \/ RuntimeStarts \/ RuntimeStops
  PROVE  InstallInv'
<1>1. /\ "live-operation" \in Purposes /\ "runtime" \notin Processes
      /\ Nobody \notin Processes /\ Nobody # "runtime" /\ MaxVersion \in Nat
  BY InstallAssumption DEF Purposes
<1>2. UNCHANGED <<step, release, current, found, archived>>
  BY DEF Builds, RuntimeStarts, RuntimeStops, diskVars
<1>3. candidate' \in 1 .. MaxVersion
  BY <1>1 DEF Builds, RuntimeStarts, RuntimeStops, InstallInv, InstallTyped
<1>4. /\ DOMAIN gate' = Purposes
      /\ \A q \in Processes : HoldsLive(q) => HoldsLive(q)'
      /\ HoldsLive("runtime")' => current # Nobody
  BY <1>1 DEF Builds, RuntimeStarts, RuntimeStops, Drops, InstallInv, InstallTyped, HoldsLive
<1> QED BY <1>2, <1>3, <1>4, Steady

LEMMA CandidateRead ==
  ASSUME InstallInv, NEW p \in Processes, \/ p \in Installers /\ Scans(p)
                                          \/ p \in Upgraders /\ Validates(p)
  PROVE  InstallInv'
<1>1. UNCHANGED <<candidate, release, current, archived, gate>>
  BY DEF Scans, Validates, diskVars
<1>2. /\ candidate \in 1 .. MaxVersion /\ DOMAIN step = Processes /\ MaxVersion \in Nat
      /\ found \in [Processes -> [version : 0 .. MaxVersion, previous : Processes \cup {Nobody}]]
  BY InstallAssumption DEF InstallInv, InstallTyped
<1>3. CASE p \in Installers /\ Scans(p)
  <2>1. /\ step[p] = "scan" /\ Proceeds(p) /\ found' = [found EXCEPT ![p].version = candidate]
    BY <1>3 DEF Scans, AtStep
  <2>2. InstallerKeeps(p) /\ PlaceOf(p, step[p]) = 6 /\ step[p] \in Program(p)
    BY <1>3, <2>1, InstallerPlaces, ProgramPlaces DEF InstallInv, Outside
  <2>3. 6 \in DOMAIN StepsOf(p) /\ 6 + 1 \in DOMAIN StepsOf(p)
    BY <1>3, ProgramLengths
  <2>4. PlaceOf(p, step'[p]) = 7 /\ \A q \in Processes \ {p} : step'[q] = step[q]
    BY <2>1, <2>2, <2>3, Advance
  <2>9. /\ DOMAIN step' = Processes
        /\ \A q \in Installers : step'[q] \in Program(q) \cup Over \cup {"error"}
        /\ \A q \in Upgraders : step'[q] \in Program(q) \cup Over \cup Undoing
    BY <2>1, <2>2, <2>3, Advance
  <2>5. /\ found'[p].version = candidate
        /\ found' \in [Processes -> [version : 0 .. MaxVersion, previous : Processes \cup {Nobody}]]
    BY <1>2, <2>1
  <2>6. SpareTheRest(p)
    BY <1>1, <1>2, <2>1, <2>4 DEF SpareTheRest, HoldsLive
  <2>7. InstallerKeeps(p)'
    BY <1>1, <1>2, <2>2, <2>4, <2>5 DEF InstallerKeeps
  <2>8. InstallTyped'
    BY <1>1, <2>5, <2>9 DEF InstallInv, InstallTyped, Program
  <2> QED BY <1>1, <1>3, <2>6, <2>7, <2>8, OthersKeep, InstallAssumption DEF InstallInv, HoldsLive
<1>4. CASE p \in Upgraders /\ Validates(p)
  <2>1. step[p] = "validate"
    BY <1>4 DEF Validates, AtStep
  <2>2. /\ UpgraderKeeps(p) /\ PlaceOf(p, step[p]) = 1 /\ step[p] \in Program(p)
        /\ p \notin Installers
    BY <1>4, <2>1, UpgraderPlaces, ProgramPlaces, InstallAssumption DEF InstallInv, Outside
  <2>3. CASE current \in Sealed /\ Proceeds(p)
             /\ found' = [found EXCEPT ![p] = [version |-> candidate, previous |-> current]]
    <3>1. 1 \in DOMAIN StepsOf(p) /\ 1 + 1 \in DOMAIN StepsOf(p)
      BY <2>2, ProgramLengths
    <3>2. /\ PlaceOf(p, step'[p]) = 2 /\ step'[p] \notin Undoing
          /\ \A q \in Processes \ {p} : step'[q] = step[q]
      BY <1>4, <2>2, <2>3, <3>1, Advance
    <3>3. /\ DOMAIN step' = Processes
          /\ \A q \in Installers : step'[q] \in Program(q) \cup Over \cup {"error"}
          /\ \A q \in Upgraders : step'[q] \in Program(q) \cup Over \cup Undoing
      BY <2>2, <2>3, <3>1, Advance
    <3>4. current \in Processes /\ current # p
      BY <2>2, <2>3 DEF Sealed, UpgraderKeeps
    <3>5. /\ found'[p].version = candidate /\ found'[p].previous = current
          /\ found' \in [Processes -> [version : 0 .. MaxVersion, previous : Processes \cup {Nobody}]]
      BY <1>2, <2>3, <3>4
    <3>6. SpareTheRest(p)
      BY <1>1, <1>2, <2>3, <3>2 DEF SpareTheRest, HoldsLive
    <3>7. UpgraderKeeps(p)'
      BY <1>1, <1>2, <2>2, <3>2, <3>4, <3>5 DEF UpgraderKeeps, Undoing
    <3>8. InstallTyped'
      BY <1>1, <3>3, <3>5 DEF InstallInv, InstallTyped, Program
    <3> QED BY <1>1, <2>2, <3>6, <3>7, <3>8, OthersKeep DEF InstallInv, HoldsLive
  <2>4. CASE UNCHANGED found /\ Ends(p, "ended")
    BY <1>1, <2>4, InstallRests DEF MayGo
  <2> QED BY <1>4, <2>3, <2>4 DEF Validates
<1> QED BY <1>3, <1>4

\* A release that is being made, by a process that keeps its place or goes on.
LEMMA ReleaseGrows ==
  ASSUME InstallInv, NEW p \in Processes, CreatesRelease(p) \/ Puts(p)
  PROVE  InstallInv'
<1>1. /\ UNCHANGED <<candidate, current, archived, gate, found>>
      /\ p \in Installers => step[p] \in {"create-release", "materialize"}
      /\ p \notin Installers => step[p] \in {"create-release", "copy"}
      /\ Proceeds(p) \/ step' = step
  BY DEF CreatesRelease, Puts, AtStep
<1>2. /\ DOMAIN release' = Processes
      /\ DOMAIN release'[p] = {"made", "data", "sealed"} /\ release'[p].sealed = release[p].sealed
      /\ \A q \in Processes \ {p} : release'[q] = release[q]
  <2>1. DOMAIN release = Processes /\ DOMAIN release[p] = {"made", "data", "sealed"}
    BY DEF InstallInv, InstallTyped
  <2>2. CASE CreatesRelease(p)
    <3>1. release' = [release EXCEPT ![p].made = TRUE]
      BY <2>2 DEF CreatesRelease
    <3> QED BY <2>1, <3>1
  <2>3. CASE Puts(p)
    <3>1. PICK d : release' = [release EXCEPT ![p].data = d]
      BY <2>3 DEF Puts
    <3> QED BY <2>1, <3>1
  <2> QED BY <2>2, <2>3
<1>3. /\ \A q \in Processes \ {p} : step'[q] = step[q]
      /\ DOMAIN step' = Processes
      /\ \A q \in Installers : step'[q] \in Program(q) \cup Over \cup {"error"}
      /\ \A q \in Upgraders : step'[q] \in Program(q) \cup Over \cup Undoing
      /\ p \in Installers => PlaceOf(p, step[p]) \in 20 .. 21 /\ PlaceOf(p, step'[p]) \in 20 .. 22
      /\ p \in Upgraders => /\ PlaceOf(p, step[p]) \in 6 .. 7 /\ PlaceOf(p, step'[p]) \in 6 .. 8
                            /\ step'[p] \notin Undoing
  <2>1. /\ p \in Installers => PlaceOf(p, step[p]) \in 20 .. 21
        /\ p \in Upgraders => PlaceOf(p, step[p]) \in 6 .. 7 /\ p \notin Installers
    BY <1>1, InstallAssumption, InstallerPlaces, UpgraderPlaces
  <2>2. CASE step' = step
    <3>1. p \in Upgraders => step[p] \notin Undoing
      BY <2>1, UpgraderPlaces DEF Outside
    <3> QED BY <2>1, <2>2, <3>1 DEF InstallInv, InstallTyped
  <2>3. CASE Proceeds(p)
    <3>1. PICK i \in Nat : i = PlaceOf(p, step[p])
      BY <2>1 DEF Processes
    <3>2. i \in DOMAIN StepsOf(p) /\ i + 1 \in DOMAIN StepsOf(p)
      BY <2>1, <3>1, ProgramLengths DEF Processes
    <3>3. /\ PlaceOf(p, step'[p]) = i + 1
          /\ p \in Upgraders => step'[p] \notin Undoing
      BY <2>3, <3>1, <3>2, Advance
    <3>4. /\ \A q \in Processes \ {p} : step'[q] = step[q]
          /\ DOMAIN step' = Processes
          /\ \A q \in Installers : step'[q] \in Program(q) \cup Over \cup {"error"}
          /\ \A q \in Upgraders : step'[q] \in Program(q) \cup Over \cup Undoing
      BY <2>3, <3>1, <3>2, Advance
    <3>5. /\ p \in Installers => PlaceOf(p, step'[p]) \in 20 .. 22
          /\ p \in Upgraders => PlaceOf(p, step'[p]) \in 6 .. 8
      BY <2>1, <3>1, <3>3
    <3> QED BY <2>1, <3>3, <3>4, <3>5
  <2> QED BY <1>1, <2>2, <2>3
<1>4. SpareTheRest(p)
  BY <1>1, <1>2, <1>3 DEF SpareTheRest, HoldsLive
<1>5. InstallTyped'
  <2>1. release'[p].sealed \in BOOLEAN
    BY <1>2 DEF InstallInv, InstallTyped
  <2>2. \A q \in Processes : DOMAIN release'[q] = {"made", "data", "sealed"} /\ release'[q].sealed \in BOOLEAN
    BY <1>2, <2>1 DEF InstallInv, InstallTyped
  <2> QED BY <1>1, <1>2, <1>3, <2>2 DEF InstallInv, InstallTyped, Program
<1>6. p \in Installers => InstallerKeeps(p)'
  BY <1>1, <1>2, <1>3 DEF InstallInv, InstallerKeeps
<1>7. p \in Upgraders => UpgraderKeeps(p)'
  BY <1>1, <1>2, <1>3 DEF InstallInv, UpgraderKeeps, HoldsLive, Undoing
<1> QED BY <1>1, <1>4, <1>5, <1>6, <1>7, OthersKeep DEF InstallInv, HoldsLive

LEMMA ReleaseSealed ==
  ASSUME InstallInv, NEW p \in Processes, Seals(p)
  PROVE  InstallInv'
<1>1. /\ UNCHANGED <<candidate, current, archived, gate, found>>
      /\ step[p] = "seal" /\ release' = [release EXCEPT ![p].sealed = TRUE]
      /\ (AsExpected(p) /\ Proceeds(p)) \/ (~AsExpected(p) /\ Ends(p, Failed(p)))
  BY DEF Seals, AtStep
<1>2. /\ DOMAIN release' = Processes
      /\ DOMAIN release'[p] = {"made", "data", "sealed"} /\ release'[p].sealed = TRUE
      /\ release'[p].data = release[p].data
      /\ \A q \in Processes \ {p} : release'[q] = release[q]
  BY <1>1 DEF InstallInv, InstallTyped
<1>3. /\ p \in Installers => PlaceOf(p, step[p]) = 23
      /\ p \in Upgraders => PlaceOf(p, step[p]) = 8 /\ p \notin Installers
  BY <1>1, InstallAssumption, InstallerPlaces, UpgraderPlaces
<1>4. AsExpected(p) => p \in Sealed'
  <2>1. found[p].version \in 1 .. MaxVersion
    BY <1>3 DEF InstallInv, InstallerKeeps, UpgraderKeeps, Processes
  <2> QED BY <1>2, <2>1 DEF AsExpected, Sealed, Valid
<1>5. /\ \A q \in Processes \ {p} : step'[q] = step[q]
      /\ DOMAIN step' = Processes
      /\ \A q \in Installers : step'[q] \in Program(q) \cup Over \cup {"error"}
      /\ \A q \in Upgraders : step'[q] \in Program(q) \cup Over \cup Undoing
      /\ p \in Installers => \/ PlaceOf(p, step'[p]) = 24 /\ p \in Sealed'
                             \/ PlaceOf(p, step'[p]) = Outside
      /\ p \in Upgraders => \/ PlaceOf(p, step'[p]) = 9 /\ p \in Sealed' /\ step'[p] \notin Undoing
                            \/ PlaceOf(p, step'[p]) = Outside /\ step'[p] = "abort"
  <2>1. CASE AsExpected(p) /\ Proceeds(p)
    <3>1. PICK i \in Nat : i = PlaceOf(p, step[p])
      BY <1>3 DEF Processes
    <3>2. i \in DOMAIN StepsOf(p) /\ i + 1 \in DOMAIN StepsOf(p)
      BY <1>3, <3>1, ProgramLengths DEF Processes
    <3>3. /\ PlaceOf(p, step'[p]) = i + 1
          /\ p \in Upgraders => step'[p] \notin Undoing
      BY <2>1, <3>1, <3>2, Advance
    <3>4. /\ \A q \in Processes \ {p} : step'[q] = step[q]
          /\ DOMAIN step' = Processes
          /\ \A q \in Installers : step'[q] \in Program(q) \cup Over \cup {"error"}
          /\ \A q \in Upgraders : step'[q] \in Program(q) \cup Over \cup Undoing
      BY <2>1, <3>1, <3>2, Advance
    <3>5. /\ p \in Installers => PlaceOf(p, step'[p]) = 24
          /\ p \in Upgraders => PlaceOf(p, step'[p]) = 9
      BY <1>3, <3>1, <3>3
    <3> QED BY <1>4, <2>1, <3>3, <3>4, <3>5
  <2>2. CASE ~AsExpected(p) /\ Ends(p, Failed(p))
    <3>1. step' = [step EXCEPT ![p] = Failed(p)] /\ DOMAIN step = Processes
      BY <2>2 DEF Ends, InstallInv, InstallTyped
    <3>2. /\ p \in Installers => Failed(p) = "error" /\ PlaceOf(p, Failed(p)) = Outside
          /\ p \in Upgraders => Failed(p) = "abort" /\ PlaceOf(p, Failed(p)) = Outside
      BY <1>3, InstallerPlaces, UpgraderPlaces DEF Failed, Undoing
    <3> QED BY <3>1, <3>2, InstallAssumption DEF InstallInv, InstallTyped, Undoing, Processes
  <2> QED BY <1>1, <2>1, <2>2
<1>6. SpareTheRest(p)
  BY <1>1, <1>2, <1>5 DEF SpareTheRest, HoldsLive
<1>7. InstallTyped'
  <2>1. \A q \in Processes : DOMAIN release'[q] = {"made", "data", "sealed"} /\ release'[q].sealed \in BOOLEAN
    BY <1>2 DEF InstallInv, InstallTyped
  <2> QED BY <1>1, <1>2, <1>5, <2>1 DEF InstallInv, InstallTyped, Program
<1>8. p \in Installers => InstallerKeeps(p)'
  BY <1>5 DEF InstallerKeeps, Outside
<1>9. p \in Upgraders => UpgraderKeeps(p)'
  BY <1>1, <1>3, <1>5 DEF InstallInv, UpgraderKeeps, HoldsLive, Undoing, Outside
<1> QED BY <1>1, <1>6, <1>7, <1>8, <1>9, OthersKeep DEF InstallInv, HoldsLive

LEMMA PointerMoves ==
  ASSUME InstallInv, NEW p \in Processes,
         \/ p \in Installers /\ Links(p)
         \/ p \in Upgraders /\ (SwitchesPointer(p) \/ Restores(p))
  PROVE  InstallInv'
<1>1. UNCHANGED <<candidate, release, archived, gate, found>> /\ Nobody \notin Processes
  BY InstallAssumption DEF Links, SwitchesPointer, Restores
<1>2. CASE p \in Installers /\ Links(p)
  <2>1. step[p] = "link" /\ PlaceOf(p, step[p]) = 27 /\ p \notin Upgraders
    BY <1>2, InstallerPlaces, InstallAssumption DEF Links, AtStep
  <2>2. CASE current = Nobody /\ current' = p /\ Proceeds(p)
    <3>1. 27 \in DOMAIN StepsOf(p) /\ 27 + 1 \in DOMAIN StepsOf(p)
      BY <1>2, ProgramLengths
    <3>2. PlaceOf(p, step'[p]) = 28 /\ \A q \in Processes \ {p} : step'[q] = step[q]
      BY <2>1, <2>2, <3>1, Advance
    <3>3. /\ DOMAIN step' = Processes
          /\ \A q \in Installers : step'[q] \in Program(q) \cup Over \cup {"error"}
          /\ \A q \in Upgraders : step'[q] \in Program(q) \cup Over \cup Undoing
      BY <2>1, <2>2, <3>1, Advance
    <3>4. SpareTheRest(p)
      BY <1>1, <2>2, <3>2 DEF SpareTheRest, HoldsLive
    <3>5. InstallerKeeps(p)'
      BY <3>2 DEF InstallerKeeps
    <3>6. InstallTyped'
      BY <1>1, <2>2, <3>3 DEF InstallInv, InstallTyped, Program
    <3> QED BY <1>1, <2>1, <2>2, <3>4, <3>5, <3>6, OthersKeep DEF InstallInv, HoldsLive
  <2>3. CASE UNCHANGED current /\ Ends(p, "error")
    BY <1>1, <1>2, <2>3, InstallRests DEF MayGo, Links
  <2> QED BY <1>2, <2>2, <2>3 DEF Links
<1>3. CASE p \in Upgraders /\ SwitchesPointer(p)
  <2>1. step[p] = "switch" /\ PlaceOf(p, step[p]) = 12 /\ p \notin Installers
    BY <1>3, UpgraderPlaces, InstallAssumption DEF SwitchesPointer, AtStep
  <2>2. UpgraderKeeps(p) /\ HoldsLive(p)
    BY <1>3, <2>1 DEF InstallInv, UpgraderKeeps
  <2>3. CASE Bound(p) /\ current' = p /\ Proceeds(p)
    <3>1. 12 \in DOMAIN StepsOf(p) /\ 12 + 1 \in DOMAIN StepsOf(p)
      BY <2>1, ProgramLengths
    <3>2. /\ PlaceOf(p, step'[p]) = 13 /\ step'[p] \notin Undoing
          /\ \A q \in Processes \ {p} : step'[q] = step[q]
      BY <1>3, <2>1, <2>3, <3>1, Advance
    <3>3. /\ DOMAIN step' = Processes
          /\ \A q \in Installers : step'[q] \in Program(q) \cup Over \cup {"error"}
          /\ \A q \in Upgraders : step'[q] \in Program(q) \cup Over \cup Undoing
      BY <2>1, <2>3, <3>1, Advance
    <3>4. SpareTheRest(p)
      BY <1>1, <2>2, <3>2 DEF SpareTheRest, HoldsLive
    <3>5. UpgraderKeeps(p)'
      BY <1>1, <2>1, <2>2, <2>3, <3>2 DEF UpgraderKeeps, HoldsLive, Undoing
    <3>6. InstallTyped'
      BY <1>1, <2>3, <3>3 DEF InstallInv, InstallTyped, Program
    <3> QED BY <1>1, <2>1, <2>3, <3>4, <3>5, <3>6, OthersKeep DEF InstallInv, HoldsLive
  <2>4. CASE UNCHANGED current /\ Ends(p, "abort")
    <3>1. MayGo(p, "abort")
      BY <1>3, <2>1 DEF MayGo
    <3> QED BY <1>1, <2>4, <3>1, InstallRests
  <2> QED BY <1>3, <2>3, <2>4 DEF SwitchesPointer
<1>4. CASE p \in Upgraders /\ Restores(p)
  <2>1. step[p] = "restore" /\ step[p] \in Undoing /\ p \notin Installers
    BY <1>4, InstallAssumption DEF Restores, AtStep, Undoing
  <2>2. UpgraderKeeps(p) /\ HoldsLive(p) /\ found[p].previous \in Processes
    BY <1>4, <2>1 DEF InstallInv, UpgraderKeeps
  <2>3. CASE current' = found[p].previous /\ Ends(p, "rolled-back")
    <3>1. step' = [step EXCEPT ![p] = "rolled-back"] /\ DOMAIN step = Processes
      BY <2>3 DEF Ends, InstallInv, InstallTyped
    <3>2. PlaceOf(p, step'[p]) = Outside /\ step'[p] = "rolled-back"
      BY <1>4, <3>1, UpgraderPlaces DEF Undoing
    <3>3. SpareTheRest(p)
      BY <1>1, <2>2, <3>1 DEF SpareTheRest, HoldsLive
    <3>4. UpgraderKeeps(p)'
      BY <1>1, <2>2, <2>3, <3>2 DEF UpgraderKeeps, HoldsLive, Undoing, Outside
    <3>5. InstallTyped'
      BY <1>1, <2>1, <2>2, <2>3, <3>1 DEF InstallInv, InstallTyped, Program, Undoing
    <3> QED BY <1>1, <2>1, <2>2, <2>3, <3>3, <3>4, <3>5, OthersKeep DEF InstallInv, HoldsLive
  <2>4. CASE UNCHANGED current /\ Ends(p, "close")
    BY <1>1, <2>4, InstallRests DEF MayGo
  <2> QED BY <1>4, <2>3, <2>4 DEF Restores
<1> QED BY <1>2, <1>3, <1>4

-----------------------------------------------------------------------------
LEMMA InstallBegins == InstallInit => InstallInv
<1> SUFFICES ASSUME InstallInit
             PROVE  InstallInv
  OBVIOUS
<1>1. Nobody \notin Processes /\ Nobody # "runtime" /\ MaxVersion \in Nat \ {0}
  BY InstallAssumption
<1>7. \A p \in Processes : step[p] = "idle"
  BY DEF InstallInit
<1>2. \A p \in Processes : PlaceOf(p, step[p]) = 0
  BY <1>7, InstallerPlaces, UpgraderPlaces DEF Processes
<1>3. InstallTyped
  <2>1. /\ candidate \in 1 .. MaxVersion /\ current \in Processes \cup {Nobody}
        /\ DOMAIN gate = Purposes /\ DOMAIN release = Processes
        /\ DOMAIN archived = Upgraders /\ DOMAIN step = Processes
    BY <1>1 DEF InstallInit
  <2>2. \A p \in Processes : DOMAIN release[p] = {"made", "data", "sealed"} /\ release[p].sealed = FALSE
    BY DEF InstallInit
  <2>3. found \in [Processes -> [version : 0 .. MaxVersion, previous : Processes \cup {Nobody}]]
    BY <1>1 DEF InstallInit
  <2> QED BY <1>7, <2>1, <2>2, <2>3 DEF InstallTyped, Over, Processes
<1>4. \A p \in Installers : InstallerKeeps(p)
  BY <1>2 DEF InstallInit, InstallerKeeps, Processes
<1>5. \A p \in Upgraders : UpgraderKeeps(p)
  BY <1>1, <1>2 DEF InstallInit, UpgraderKeeps, Processes, Undoing
<1>6. ~HoldsLive("runtime")
  BY <1>1 DEF InstallInit, HoldsLive, Purposes
<1> QED BY <1>3, <1>4, <1>5, <1>6 DEF InstallInv

LEMMA InstallStep == InstallInv /\ [InstallNext]_installVars => InstallInv'
<1> SUFFICES ASSUME InstallInv, [InstallNext]_installVars
             PROVE  InstallInv'
  OBVIOUS
<1>1. ASSUME NEW p \in Installers, CleanInstall(p)
      PROVE  InstallInv'
  BY <1>1, GatesChange, MereInstall, CandidateRead, PointerMoves DEF CleanInstall, Processes
<1>2. ASSUME NEW p \in Upgraders, Upgrade(p)
      PROVE  InstallInv'
  BY <1>2, MereUpgrade, CandidateRead, PointerMoves DEF Upgrade, Processes
<1>3. ASSUME NEW p \in Processes,
             \/ RunsCommand(p) \/ CreatesRelease(p) \/ Puts(p) \/ Seals(p) \/ LeavesReceipt(p)
             \/ GivesUpLocks(p) \/ CallBreaks(p) \/ ProcessKilled(p)
             \/ \E x \in Purposes : TakesLock(p, x)
      PROVE  InstallInv'
  BY <1>3, MereCommon, ReleaseGrows, ReleaseSealed, Mishaps, GatesChange
<1>4. CASE Builds \/ RuntimeStarts \/ RuntimeStops
  BY <1>4, Elsewhere
<1>5. CASE UNCHANGED installVars
  BY <1>5, Steady DEF installVars, diskVars, InstallInv, InstallTyped, HoldsLive
<1> QED BY <1>1, <1>2, <1>3, <1>4, <1>5 DEF InstallNext

LEMMA InstallHolds == InstallSpec => []InstallInv
BY InstallBegins, InstallStep, PTL DEF InstallSpec

-----------------------------------------------------------------------------
(* The pointer implements InstalledRelease.  Each step shows as one of its     *)
(* steps, or not at all.                                                    *)
Shown == <<current, Sealed, HoldsLive("runtime"), archived>>

Hidden == UNCHANGED <<current, archived>> /\ Sealed' = Sealed /\ HoldsLive("runtime")' = HoldsLive("runtime")

LEMMA SealedIsKept ==
  ASSUME \A p \in Processes : release'[p].sealed = release[p].sealed
                              /\ (release[p].sealed => release'[p].data = release[p].data)
  PROVE  Sealed' = Sealed
BY DEF Sealed

LEMMA HiddenSteps ==
  ASSUME InstallInv, NEW p \in Processes,
         \/ p \in Installers /\ (AsksJournal(p) \/ CreatesJournal(p) \/ Records(p) \/ CreatesContainer(p)
                                   \/ Scans(p) \/ Fills(p) \/ Lays(p) \/ RecordsError(p))
         \/ p \in Upgraders /\ (Validates(p) \/ ChecksDrift(p) \/ CreatesWal(p) \/ PreparesPointer(p)
                                  \/ WritesPhase(p) \/ AbortsUpgrade(p) \/ RollsBack(p))
         \/ RunsCommand(p) \/ LeavesReceipt(p) \/ GivesUpLocks(p) \/ ProcessKilled(p)
         \/ \E x \in Purposes : TakesLock(p, x)
  PROVE  Hidden
<1>1. UNCHANGED <<current, archived, release>>
  BY DEF AsksJournal, CreatesJournal, Records, CreatesContainer, Scans, Fills, Lays, RecordsError,
         Validates, ChecksDrift, CreatesWal, PreparesPointer, WritesPhase, AbortsUpgrade, RollsBack,
         RunsCommand, LeavesReceipt, GivesUpLocks, ProcessKilled, TakesLock, diskVars
<1>2. /\ "live-operation" \in Purposes /\ p # "runtime" /\ Nobody # "runtime"
      /\ DOMAIN gate = Purposes
  BY InstallAssumption DEF Purposes, InstallInv, InstallTyped
<1>3. \/ UNCHANGED gate
      \/ Drops(p)
      \/ gate["live-operation"] = Nobody /\ gate' = [x \in Purposes |-> p]
      \/ \E x \in Purposes : gate[x] = Nobody /\ gate' = [gate EXCEPT ![x] = p]
  BY <1>2 DEF AsksJournal, CreatesJournal, Records, CreatesContainer, Scans, Fills, Lays,
     RecordsError,
         Validates, ChecksDrift, CreatesWal, PreparesPointer, WritesPhase, AbortsUpgrade, RollsBack,
         RunsCommand, LeavesReceipt, GivesUpLocks, ProcessKilled, TakesLock, MayLock
<1>4. HoldsLive("runtime")' = HoldsLive("runtime")
  BY <1>2, <1>3 DEF Drops, HoldsLive
<1>5. Sealed' = Sealed
  BY <1>1 DEF Sealed
<1> QED BY <1>1, <1>4, <1>5 DEF Hidden

LEMMA MakingIsHidden ==
  ASSUME InstallInv, NEW p \in Processes, CreatesRelease(p) \/ Puts(p)
  PROVE  Hidden
<1>1. UNCHANGED <<current, archived, gate>>
  BY DEF CreatesRelease, Puts
<1>2. DOMAIN release = Processes /\ DOMAIN release[p] = {"made", "data", "sealed"}
  BY DEF InstallInv, InstallTyped
<1>3. CASE CreatesRelease(p)
  <2>1. release' = [release EXCEPT ![p].made = TRUE]
    BY <1>3 DEF CreatesRelease
  <2>2. Sealed' = Sealed
    BY <1>2, <2>1, SealedIsKept
  <2> QED BY <1>1, <2>2 DEF Hidden, HoldsLive
<1>4. CASE Puts(p)
  <2>1. PICK d : release' = [release EXCEPT ![p].data = d]
    BY <1>4 DEF Puts
  <2>2. ~release[p].sealed
    <3>1. CASE p \in Installers
      <4>1. PlaceOf(p, step[p]) = 21
        BY <1>4, <3>1, InstallerPlaces DEF Puts, AtStep
      <4> QED BY <3>1, <4>1 DEF InstallInv, InstallerKeeps
    <3>2. CASE p \notin Installers
      <4>1. p \in Upgraders /\ PlaceOf(p, step[p]) = 7
        BY <1>4, <3>2, UpgraderPlaces DEF Puts, AtStep, Processes
      <4> QED BY <4>1 DEF InstallInv, UpgraderKeeps
    <3> QED BY <3>1, <3>2
  <2>3. Sealed' = Sealed
    BY <1>2, <2>1, <2>2, SealedIsKept
  <2> QED BY <1>1, <2>3 DEF Hidden, HoldsLive
<1> QED BY <1>3, <1>4

LEMMA SealShows ==
  ASSUME InstallInv, NEW p \in Processes, Seals(p)
  PROVE  Promise!Seal(p) \/ Hidden
<1>1. UNCHANGED <<current, archived, gate>> /\ release' = [release EXCEPT ![p].sealed = TRUE]
  BY DEF Seals
<1>2. /\ DOMAIN release = Processes /\ DOMAIN release[p] = {"made", "data", "sealed"}
      /\ release'[p].data = release[p].data /\ release'[p].sealed = TRUE
      /\ \A q \in Processes \ {p} : release'[q] = release[q]
  BY <1>1 DEF InstallInv, InstallTyped
<1>3. Sealed' = Sealed \cup {p} \/ Sealed' = Sealed
  <2>1. CASE Valid(release[p].data)
    BY <1>2, <2>1 DEF Sealed
  <2>2. CASE ~Valid(release[p].data)
    BY <1>2, <2>2 DEF Sealed
  <2> QED BY <2>1, <2>2
<1> QED BY <1>1, <1>3 DEF Promise!Seal, Hidden, HoldsLive

LEMMA MoveShows ==
  ASSUME InstallInv, NEW p \in Processes,
         \/ p \in Installers /\ Links(p)
         \/ p \in Upgraders /\ (SwitchesPointer(p) \/ Restores(p))
  PROVE  (\E r \in Processes : Promise!Move(r)) \/ Hidden
<1>1. UNCHANGED <<release, archived, gate>> /\ Sealed' = Sealed
  BY DEF Links, SwitchesPointer, Restores, Sealed
<1>2. p # "runtime" /\ Sealed \subseteq Processes
  BY InstallAssumption DEF Sealed
<1>3. CASE UNCHANGED current
  BY <1>1, <1>3 DEF Hidden, HoldsLive
<1>4. CASE p \in Installers /\ Links(p) /\ current' # current
  <2>1. current = Nobody /\ current' = p /\ PlaceOf(p, step[p]) = 27
    BY <1>4, InstallerPlaces DEF Links, AtStep
  <2>2. p \in Sealed /\ gate["live-operation"] # "runtime"
    BY <1>4, <2>1 DEF InstallInv, InstallerKeeps, HoldsLive
  <2> QED BY <1>1, <2>1, <2>2 DEF Promise!Move
<1>5. CASE p \in Upgraders /\ SwitchesPointer(p) /\ current' # current
  <2>1. current' = p /\ PlaceOf(p, step[p]) = 12
    BY <1>5, UpgraderPlaces DEF SwitchesPointer, AtStep
  <2>2. p \in Sealed /\ gate["live-operation"] # "runtime"
    BY <1>2, <1>5, <2>1 DEF InstallInv, UpgraderKeeps, HoldsLive
  <2> QED BY <1>1, <2>1, <2>2 DEF Promise!Move
<1>6. CASE p \in Upgraders /\ Restores(p) /\ current' # current
  <2>1. current' = found[p].previous /\ found[p].previous \in Sealed /\ step[p] \in Undoing
    BY <1>6 DEF Restores, AtStep, Undoing
  <2>2. gate["live-operation"] # "runtime"
    BY <1>2, <1>6, <2>1 DEF InstallInv, UpgraderKeeps, HoldsLive
  <2> QED BY <1>1, <1>2, <2>1, <2>2 DEF Promise!Move
<1> QED BY <1>3, <1>4, <1>5, <1>6

LEMMA ReportShows ==
  ASSUME InstallInv, NEW p \in Upgraders, Archives(p) \/ CallBreaks(p)
  PROVE  Promise!Report(p) \/ Hidden
<1>1. UNCHANGED <<current, release, gate>> /\ Sealed' = Sealed
  BY DEF Archives, CallBreaks, Sealed
<1>2. UpgraderKeeps(p)
  BY DEF InstallInv
<1>3. CASE step[p] = "archive" /\ archived' = [archived EXCEPT ![p] = "complete"]
  <2>1. PlaceOf(p, step[p]) = 17
    BY <1>3, UpgraderPlaces
  <2>2. current = p
    BY <1>2, <2>1 DEF UpgraderKeeps
  <2> QED BY <1>1, <1>3, <2>2 DEF Promise!Report
<1>4. CASE step[p] = "archive-undone" /\ archived' = [archived EXCEPT ![p] = "undone"]
  <2>1. current # p
    BY <1>2, <1>4 DEF UpgraderKeeps
  <2> QED BY <1>1, <1>4, <2>1 DEF Promise!Report
<1>5. CASE UNCHANGED archived
  BY <1>1, <1>5 DEF Hidden, HoldsLive
<1>6. Archives(p) => \/ step[p] = "archive" /\ archived' = [archived EXCEPT ![p] = "complete"]
                     \/ step[p] = "archive-undone" /\ archived' = [archived EXCEPT ![p] = "undone"]
  BY DEF Archives, AtStep
<1>7. CallBreaks(p) => \/ step[p] = "archive" /\ archived' = [archived EXCEPT ![p] = "complete"]
                       \/ UNCHANGED archived
  BY DEF CallBreaks, AtStep
<1> QED BY <1>3, <1>4, <1>5, <1>6, <1>7

LEMMA InstallerBreaks ==
  ASSUME InstallInv, NEW p \in Installers, CallBreaks(p)
  PROVE  Hidden
<1>1. UNCHANGED <<current, release, gate>>
  BY DEF CallBreaks
<1>2. step[p] # "archive"
  <2>1. \A i \in 1 .. 30 : CleanSteps[i] # "archive"
    BY DEF CleanSteps
  <2>2. step[p] \in Program(p) \cup Over \cup {"error"}
    BY DEF InstallInv, InstallTyped
  <2> QED BY <2>1, <2>2, CleanPlaces DEF Program, StepsOf, Over
<1>3. UNCHANGED archived
  BY <1>2 DEF CallBreaks, AtStep
<1> QED BY <1>1, <1>3 DEF Hidden, HoldsLive, Sealed

LEMMA RunShows ==
  ASSUME InstallInv, RuntimeStarts \/ RuntimeStops
  PROVE  Promise!Run
<1>1. UNCHANGED <<current, release, archived>> /\ Sealed' = Sealed
  BY DEF RuntimeStarts, RuntimeStops, diskVars, Sealed
<1>2. Nobody # "runtime" /\ "live-operation" \in Purposes /\ DOMAIN gate = Purposes
  BY InstallAssumption DEF Purposes, InstallInv, InstallTyped
<1>3. current # Nobody
  BY DEF RuntimeStarts, RuntimeStops, InstallInv, HoldsLive
<1>4. (gate["live-operation"] = "runtime")' = ~(gate["live-operation"] = "runtime")
  BY <1>2 DEF RuntimeStarts, RuntimeStops, Drops
<1> QED BY <1>1, <1>3, <1>4 DEF Promise!Run

LEMMA InstallShows ==
  InstallInv /\ [InstallNext]_installVars => [Promise!ReleaseNext]_(Promise!releaseVars)
<1> SUFFICES ASSUME InstallInv, [InstallNext]_installVars
             PROVE  Promise!ReleaseNext \/ UNCHANGED Promise!releaseVars
  OBVIOUS
<1>1. Hidden => UNCHANGED Promise!releaseVars
  BY DEF Hidden, HoldsLive, Promise!releaseVars
<1>2. \A p \in Processes :
        (\E r \in Processes : Promise!Move(r)) \/ Promise!Seal(p) => Promise!ReleaseNext
  BY DEF Promise!ReleaseNext
<1>3. \A p \in Upgraders : Promise!Report(p) => Promise!ReleaseNext
  BY DEF Promise!ReleaseNext, InstallInv, InstallTyped
<1>4. ASSUME NEW p \in Installers, CleanInstall(p)
      PROVE  Promise!ReleaseNext \/ UNCHANGED Promise!releaseVars
  BY <1>1, <1>2, <1>4, HiddenSteps, MoveShows DEF CleanInstall, Processes
<1>5. ASSUME NEW p \in Upgraders, Upgrade(p)
      PROVE  Promise!ReleaseNext \/ UNCHANGED Promise!releaseVars
  BY <1>1, <1>2, <1>3, <1>5, HiddenSteps, MoveShows, ReportShows DEF Upgrade, Processes
<1>6. ASSUME NEW p \in Processes,
             \/ RunsCommand(p) \/ CreatesRelease(p) \/ Puts(p) \/ Seals(p) \/ LeavesReceipt(p)
             \/ GivesUpLocks(p) \/ CallBreaks(p) \/ ProcessKilled(p)
             \/ \E x \in Purposes : TakesLock(p, x)
      PROVE  Promise!ReleaseNext \/ UNCHANGED Promise!releaseVars
  <2>1. CASE CallBreaks(p)
    BY <1>1, <1>3, <2>1, InstallerBreaks, ReportShows DEF Processes
  <2>2. CASE ~CallBreaks(p)
    BY <1>1, <1>2, <1>6, <2>2, HiddenSteps, MakingIsHidden, SealShows
  <2> QED BY <2>1, <2>2
<1>7. CASE Builds
  BY <1>7 DEF Builds, diskVars, Promise!releaseVars, Sealed
<1>8. CASE RuntimeStarts \/ RuntimeStops
  BY <1>8, RunShows DEF Promise!ReleaseNext
<1>9. CASE UNCHANGED installVars
  BY <1>9 DEF installVars, diskVars, Promise!releaseVars, Sealed
<1> QED BY <1>4, <1>5, <1>6, <1>7, <1>8, <1>9 DEF InstallNext

(* The pointer of an installed runtime names a whole and sealed release or     *)
(* nothing, moves at once and never under a running runtime, and an archived   *)
(* upgrade says of itself where it then is (installCleanRuntimeV2,             *)
(* upgradeRuntimeV2): for any number of installs, upgrades, builds, failures   *)
(* and kills the steps of the commands implement InstalledRelease.             *)
THEOREM InstalledPointerHolds == InstallSpec => PointerIsInstalled
<1>1. InstallInit => Promise!ReleaseInit
  BY InstallAssumption DEF InstallInit, Promise!ReleaseInit, Sealed, Purposes
<1> QED BY <1>1, InstallHolds, InstallShows, PTL DEF InstallSpec, PointerIsInstalled,
    Promise!ReleaseSpec

===============================================================================
