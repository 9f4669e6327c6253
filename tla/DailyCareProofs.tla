--------------------------- MODULE DailyCareProofs ---------------------------
(***************************************************************************)
(* The broadcast of a slot, for any number of sessions, attempts, faults,     *)
(* edits of the owner and ends of the process.                               *)
(***************************************************************************)
EXTENDS DailyCare, SequenceTheorems, TLAPS

USE DailyCareAssumption

(***************************************************************************)
(* The inductive invariant.  What a session may be is said of a value x, so    *)
(* that a step has to be shown to lead to such a value and nothing else.        *)
(***************************************************************************)
Spent == record.status \in {"submitted-uncertain", "verified"}
Shot(x) == x.at \in {"submit", "press"}

(* The record of the slot and the chat.  There is one text per slot, and it is   *)
(* sent once: what was sent, or may still be by a process that is gone, is the    *)
(* text on record, which says so.                                            *)
RecordOK ==
  /\ record.status = "none" => record.phase = "claimed" /\ ~record.quarantined
  /\ record.status = "pending" => record.phase \notin {"submit-started", "terminal"}
  /\ record.status = "submitted-uncertain" => record.phase = "submit-started"
  /\ record.status \in {"verified", "skipped"} => record.phase = "terminal"
  /\ record.phase = "claimed" => record.text = 0 /\ composer \notin Texts
  /\ record.status = "verified" => sent # <<>>

ChatOK ==
  /\ sent # <<>> => /\ Spent /\ Len(sent) = 1 /\ sent[1] = record.text
                    /\ composer \notin Texts
  /\ orphan # 0 => orphan = record.text /\ Spent /\ sent = <<>> /\ ~record.quarantined

(* One session after the other works on the slot, and one holds it.             *)
InTurn ==
  /\ \A s \in Sessions : s < current => session[s].close = "closed"
  /\ \A s \in Sessions : s > current => session[s] = Fresh

OneHolder ==
  /\ \A s, t \in Sessions :
       Shot(session[s]) /\ (Shot(session[t]) \/ session[t].slot) => s = t
  /\ orphan # 0 => \A s \in Sessions : ~session[s].slot

(* A session by itself: its operation, its close and its slot.                  *)
Unslotted == {"begin-expire", "begin-read", "claim-marker", "claim-record", "reread",
              "attempt"}
Restoring == {"restore", "restore-look", "restore-clear", "restore-quarantine"}
Researching == {"research", "skip", "save"}
Typing == {"restore-look", "restore-clear", "type", "typed"}
Submitting == {"mark-submit-started", "submit", "press"}

OperationOK(x) ==
  /\ x.op = "none" <=> x.at = "idle"
  /\ x.at \in Unslotted \cup Restoring => x.op = "begin"
  /\ x.at \in Submitting => x.op = "submit"
  /\ x.at = "save" => x.op = "prepare"
  /\ x.at = "exact" => \/ x.op \in {"verify", "submit"}
                      \/ (x.op \in {"begin", "prepare"} /\ x.bound)
  /\ x.op = "begin" => x.outer = "idle" /\ x.close \in {"none", "wait"}
  /\ x.at \in Typing => x.bound /\ x.op \in {"begin", "prepare"}
  /\ x.prepared # 0 => x.bound
  /\ x.at \in {"submit", "press"} => x.phase = "submitted"
  /\ x.at = "press" => x.prepared # 0 /\ x.close \notin {"clear", "clear-skip", "quarantine"}

CloseOK(x) ==
  /\ x.close # "none" => x.closing
  /\ x.close \notin {"none", "wait"} => x.op = "none" \/ x.late
  /\ x.timer = "rejected" => x.late /\ x.closing

SlotOK(x) ==
  /\ x.close = "closed" => ~x.slot
  /\ x.slot => x.phase # "idle"
  /\ x.outer \notin {"idle", "closed"} /\ x.close # "closed" => x.slot
  /\ x.op # "none" /\ x.at \notin Unslotted /\ x.close # "closed" => x.slot
  /\ x.at \in Restoring => x.slot /\ x.phase = "prepared"
  /\ x.at = "type" /\ ~x.late => x.phase = "prepared"
  /\ x.at \in Researching /\ x.slot => x.phase \in {"begun", "researched", "aborted"}

Shape(x) == OperationOK(x) /\ CloseOK(x) /\ SlotOK(x)

(* A session and the slot: what the holder knows of the record and the composer;  *)
(* what a submit under way implies; that a quarantined draft leaves every session  *)
(* at its end, or unable to get beyond its first command; that a close which still  *)
(* holds the slot can give the composer up.                                   *)
HolderOK(x) ==
  x.slot =>
    /\ record.status # "none"
    /\ x.phase = "submitted" => record.status = "submitted-uncertain"
    /\ x.phase = "verified" => record.status = "verified"
    /\ Spent => x.phase \in {"submitted", "verified"}
    /\ x.phase \in {"begun", "researched", "aborted"} => composer \notin Texts
    /\ x.at = "clear-skip" \/ x.close = "clear-skip" => composer \notin Texts

Stuck(x) ==
  \/ x.outer = "idle" /\ (x.op = "none" \/ (x.op = "begin" /\ x.at \in Unslotted))
  \/ x.closing /\ (x.op = "none" \/ x.late)

Accounted(x) ==
  \/ composer \notin Texts
  \/ record.quarantined \/ record.status = "submitted-uncertain"
  \/ record.status = "skipped" /\ x.phase # "aborted"

Fits(x) ==
  /\ x.text \in {0, record.text} /\ x.prepared \in {0, record.text}
  /\ HolderOK(x)
  /\ Shot(x) => Spent /\ orphan = 0 /\ sent = <<>>
  /\ x.at = "mark-verified" => sent # <<>>
  /\ record.quarantined => Stuck(x) /\ x.at # "press"
  /\ x.close = "release" /\ x.slot => Accounted(x)

DailyCareInv ==
  /\ DailyCareTypeOK /\ RecordOK /\ ChatOK /\ InTurn /\ OneHolder
  /\ \A s \in Sessions : Shape(session[s]) /\ Fits(session[s])

(***************************************************************************)
(* A session moves on.                                                       *)
(***************************************************************************)

(* A session that is gone has nothing to do with the slot.                     *)
LEMMA GoneFits ==
  ASSUME DailyCareTypeOK
  PROVE  /\ Gone \in Session /\ Shape(Gone) /\ Fits(Gone) /\ Gone.close = "closed"
         /\ ~Shot(Gone) /\ ~Gone.slot
  BY DEF Gone, Fresh, Session, Phases, Outers, Timers, Operations, Closes, Shape,
         OperationOK, CloseOK, SlotOK, Fits, HolderOK, Stuck,
         Accounted, Shot, Positions, Unslotted, Restoring, Researching, Typing, Submitting

(* A session that has not been opened has nothing to do with it either.    *)
LEMMA FreshFits ==
  ASSUME DailyCareTypeOK
  PROVE  /\ Fresh \in Session /\ Shape(Fresh) /\ Fits(Fresh)
         /\ ~Shot(Fresh) /\ ~Fresh.slot
  BY DEF Fresh, Session, Phases, Outers, Timers, Operations, Closes, Shape, OperationOK,
         CloseOK, SlotOK, Fits, HolderOK, Stuck,
         Accounted, Shot, Positions, Unslotted, Restoring, Researching, Typing, Submitting

(* Set changes one session, to the value given or, once it is closed, to Gone.*)
LEMMA SetParts ==
  ASSUME DailyCareTypeOK, NEW s \in Workers, NEW next \in Session, Set(s, next)
  PROVE  /\ session' \in [Workers -> Session]
         /\ \A t \in Workers : t # s => session'[t] = session[t]
         /\ session'[s] = next \/ (session'[s] = Gone /\ next.close = "closed")
<1>1. Gone \in Session
  BY GoneFits
<1> QED
  BY <1>1 DEF Set, DailyCareTypeOK

(* What a step of session s, to the value y, has to be shown to be.             *)
Fit(s, y) ==
  /\ s <= current
  /\ s < current => y.close = "closed"
  /\ Shape(y) /\ Fits(y)

(* The step of a session that may change the record and the chat, as long as the   *)
(* others still fit.                                                        *)
LEMMA StepKeeps ==
  ASSUME DailyCareInv, NEW s \in Sessions, NEW next \in Session, Set(s, next),
         UNCHANGED current,
         session' \in [Workers -> Session] => DailyCareTypeOK',
         RecordOK', ChatOK', Fit(s, next)',
         \A t \in Sessions : t # s => Fits(session[t])',
         Shot(next) \/ next.slot => \A t \in Sessions : t # s => ~Shot(session[t]),
         Shot(next) => \A t \in Sessions : t # s => ~session[t].slot,
         orphan' # 0 => ~next.slot /\ \A t \in Sessions : t # s => ~session[t].slot
  PROVE  DailyCareInv'
<1> DEFINE y == session'[s]
<1>0. DailyCareTypeOK /\ s \in Workers /\ Lane \notin Sessions
  BY DEF DailyCareInv, Workers, Lane, Sessions
<1>1. /\ DailyCareTypeOK'
      /\ \A t \in Workers : t # s => session'[t] = session[t]
      /\ y = next \/ (y = Gone /\ next.close = "closed")
  BY <1>0, SetParts
<1>2. /\ Gone \in Session /\ Shape(Gone) /\ Gone.close = "closed" /\ ~Shot(Gone) /\ ~Gone.slot
  BY <1>0, GoneFits
<1>3. Fits(Gone)'
  BY <1>1, GoneFits, PTL
<1>4. Shape(session[s])' /\ Fits(session[s])' /\ (s < current => session[s].close = "closed")'
  BY <1>1, <1>2, <1>3 DEF Fit
<1>5. \A t \in Sessions : t # s => session'[t] = session[t] /\ Shape(session[t])'
  <2> SUFFICES ASSUME NEW t \in Sessions, t # s
               PROVE  session'[t] = session[t] /\ Shape(session[t])'
    OBVIOUS
  <2>1. session'[t] = session[t] /\ Shape(session[t])
    BY <1>1 DEF DailyCareInv, Workers
  <2> QED
    BY <2>1 DEF Shape, OperationOK, CloseOK, SlotOK, Unslotted, Restoring, Researching,
                Typing, Submitting
<1>6. InTurn'
  BY <1>1, <1>4, <1>5 DEF DailyCareInv, InTurn, Fit, Sessions, DailyCareTypeOK
<1>7. OneHolder'
  BY <1>1, <1>2, <1>5 DEF DailyCareInv, OneHolder, Shot
<1> QED
  BY <1>1, <1>4, <1>5, <1>6, <1>7 DEF DailyCareInv

(* Where the session is, and what it is.                                       *)
LEMMA Here ==
  ASSUME DailyCareInv, NEW s \in Sessions
  PROVE  /\ session[s] \in Session /\ Shape(session[s]) /\ Fits(session[s])
         /\ DailyCareTypeOK /\ RecordOK /\ ChatOK
         /\ session[s].at # "idle" => s <= current
         /\ session[s].outer # "idle" => s <= current
         /\ session[s].close # "none" => s <= current
         /\ session[s].timer # "off" => s <= current
         /\ s < current => session[s].close = "closed"
  BY DEF DailyCareInv, DailyCareTypeOK, InTurn, Fresh, Sessions, Workers

(* The session that holds the slot is the last one; the others have nothing to do  *)
(* with it.                                                                  *)
LEMMA HolderAlone ==
  ASSUME DailyCareInv, NEW s \in Sessions, session[s].slot
  PROVE  /\ s = current /\ orphan = 0
         /\ \A t \in Sessions : t # s =>
              ~session[t].slot /\ ~Shot(session[t]) /\ Stuck(session[t])
<1>1. /\ s \in Nat /\ current \in Nat
      /\ \A t \in Sessions : t \in Nat /\ Shape(session[t])
  BY DEF DailyCareInv, DailyCareTypeOK, Sessions
<1>2. \A t \in Sessions : t < current => ~session[t].slot /\ Stuck(session[t])
  BY <1>1 DEF DailyCareInv, InTurn, Shape, SlotOK, CloseOK, Stuck
<1>3. \A t \in Sessions : t > current => ~session[t].slot /\ Stuck(session[t])
  BY <1>1 DEF DailyCareInv, InTurn, Fresh, Stuck
<1>4. s = current
  BY <1>1, <1>2, <1>3
<1> QED
  BY <1>1, <1>2, <1>3, <1>4 DEF DailyCareInv, OneHolder

(* A session that does not hold the slot does not mind what becomes of the record.  *)
LEMMA QuietFits ==
  ASSUME NEW x, Fits(x), ~x.slot, ~Shot(x), record'.text = record.text,
         sent # <<>> => sent' # <<>>, record'.quarantined => Stuck(x)
  PROVE  Fits(x)'
  BY DEF Fits, HolderOK, Shot, Stuck, Unslotted

(* Nor does any session mind that the composer is emptied, or overwritten by the     *)
(* owner.                                                                    *)
LEMMA EmptiedFits ==
  ASSUME NEW x, Fits(x), composer' = composer \/ composer' \notin Texts,
         UNCHANGED <<record, sent, orphan>>
  PROVE  Fits(x)'
  BY DEF Fits, HolderOK, Accounted, Spent, Shot, Stuck, Unslotted

(* Before a submit, the record is written by one session and by another.            *)
Early ==
  /\ record.status \in {"none", "pending"} /\ record'.status \in {"pending", "skipped"}
  /\ record'.quarantined <=> record.quarantined
  /\ record'.text = record.text \/ record.text = 0
  /\ UNCHANGED <<composer, sent, orphan>>

(* A session fits such a record if it fitted the one before.               *)
LEMMA EarlyFits ==
  ASSUME NEW x, Fits(x), Early
  PROVE  Fits(x)'
  BY DEF Early, Fits, HolderOK, Accounted, Spent, Shot, Stuck, Unslotted

(***************************************************************************)
(* The kinds of steps.                                                       *)
(***************************************************************************)

(* A session moves, the record and the chat stay, but for a composer that is emptied. *)
Moves(s, y) ==
  /\ y \in Session /\ s <= current /\ (s < current => y.close = "closed")
  /\ Shape(y)
  /\ Shot(y) => Shot(session[s])
  /\ y.slot => session[s].slot

(* Such a step keeps the invariant; its session may rely on the emptied composer.*)
LEMMA EmptyingStep ==
  ASSUME DailyCareInv, NEW s \in Sessions, NEW next, Moves(s, next), Fits(next)', Set(s, next),
         composer' = composer \/ composer' \in {Empty, Foreign},
         marker' \in {marker, TRUE}, UNCHANGED <<record, sent, world>>
  PROVE  DailyCareInv'
<1>0. /\ DailyCareTypeOK /\ RecordOK /\ ChatOK
      /\ composer' = composer \/ composer' \notin Texts
  BY DEF DailyCareInv, Texts, Sessions, Empty, Foreign
<1>1. session' \in [Workers -> Session] => DailyCareTypeOK'
  BY <1>0 DEF DailyCareTypeOK, world
<1>2. RecordOK' /\ ChatOK'
  BY <1>0 DEF RecordOK, ChatOK, Spent, world
<1>3. Fit(s, next)' /\ next \in Session
  BY DEF Moves, Fit, Shape, OperationOK, CloseOK, SlotOK, Unslotted, Restoring, Researching,
         Typing, Submitting, world
<1>4. \A t \in Sessions : t # s => Fits(session[t])'
  <2> SUFFICES ASSUME NEW t \in Sessions, t # s PROVE Fits(session[t])'
    OBVIOUS
  <2>1. PICK x : x = session[t]
    OBVIOUS
  <2>2. session'[t] = x /\ Fits(x)
    BY <1>3, <2>1, SetParts DEF DailyCareInv, Workers
  <2>3. Fits(x)'
    BY <1>0, <2>2, EmptiedFits DEF world
  <2> QED
    BY <2>2, <2>3 DEF Fits, HolderOK, Accounted, Spent, Shot, Stuck, Unslotted
<1>5. /\ Shot(next) \/ next.slot => \A t \in Sessions : t # s => ~Shot(session[t])
      /\ Shot(next) => \A t \in Sessions : t # s => ~session[t].slot
      /\ orphan' # 0 => ~next.slot /\ \A t \in Sessions : t # s => ~session[t].slot
  BY DEF Moves, DailyCareInv, OneHolder, world
<1> QED
  BY <1>1, <1>2, <1>3, <1>4, <1>5, StepKeeps DEF world

(* The same when its session fits whatever the composer holds.             *)
LEMMA EmptiedStep ==
  ASSUME DailyCareInv, NEW s \in Sessions, NEW next, Moves(s, next), Fits(next), Set(s, next),
         composer' = composer \/ composer' \in {Empty, Foreign},
         marker' \in {marker, TRUE}, UNCHANGED <<record, sent, world>>
  PROVE  DailyCareInv'
<1>1. composer' = composer \/ composer' \notin Texts
  BY DEF Texts, Sessions, Empty, Foreign
<1>2. Fits(next)'
  BY <1>1, EmptiedFits DEF world
<1> QED
  BY <1>2, EmptyingStep

(* The same when nothing but the session moves.                            *)
LEMMA OwnStep ==
  ASSUME DailyCareInv, NEW s \in Sessions, NEW next, Moves(s, next), Fits(next), Set(s, next),
         marker' \in {marker, TRUE}, UNCHANGED <<record, chat, world>>
  PROVE  DailyCareInv'
  BY EmptiedStep DEF chat

(* A session writes the record before anything was submitted.                      *)
LEMMA EarlyStep ==
  ASSUME DailyCareInv, NEW s \in Sessions, NEW next \in Session, Set(s, next), Early,
         record' \in Slot, RecordOK', s <= current, s < current => next.close = "closed",
         Shape(next), Fits(next)', ~Shot(next), UNCHANGED <<marker, world>>
  PROVE  DailyCareInv'
<1>0. /\ DailyCareTypeOK /\ ChatOK /\ ~Spent /\ sent = <<>> /\ orphan = 0
      /\ \A t \in Sessions : ~Shot(session[t])
  BY DEF DailyCareInv, ChatOK, Early, Spent, Fits
<1>1. session' \in [Workers -> Session] => DailyCareTypeOK'
  BY <1>0 DEF DailyCareTypeOK, Early, world
<1>2. ChatOK'
  BY <1>0 DEF ChatOK, Early, world
<1>3. Fit(s, next)'
  BY DEF Fit, Shape, OperationOK, CloseOK, SlotOK, Unslotted, Restoring, Researching, Typing,
         Submitting, world
<1>4. \A t \in Sessions : t # s => Fits(session[t])'
  <2> SUFFICES ASSUME NEW t \in Sessions, t # s PROVE Fits(session[t])'
    OBVIOUS
  <2>1. PICK x : x = session[t]
    OBVIOUS
  <2>2. session'[t] = x /\ Fits(x)
    BY <1>0, <2>1, SetParts DEF DailyCareInv, Workers
  <2>3. Fits(x)'
    BY <2>2, EarlyFits
  <2> QED
    BY <2>2, <2>3 DEF Fits, HolderOK, Accounted, Spent, Shot, Stuck, Unslotted
<1> QED
  BY <1>0, <1>1, <1>2, <1>3, <1>4, StepKeeps DEF Early, world

(* The step of a session beside which no other has to do with the slot: of its holder, *)
(* or of the one whose press is under way.                                       *)
LEMMA LoneStep ==
  ASSUME DailyCareInv, NEW s \in Sessions, NEW next \in Session, Set(s, next),
         \A t \in Sessions : t # s => /\ ~session[t].slot /\ ~Shot(session[t])
                                      /\ record'.quarantined => Stuck(session[t]),
         record' \in Slot, record'.text = record.text, RecordOK', ChatOK',
         composer' \in Texts \cup {Empty, Foreign}, sent' \in Seq(Texts),
         sent # <<>> => sent' # <<>>, orphan' = 0,
         s <= current, s < current => next.close = "closed",
         Shape(next), Fits(next)', UNCHANGED <<marker, world>>
  PROVE  DailyCareInv'
<1>0. DailyCareTypeOK
  BY DEF DailyCareInv
<1>1. session' \in [Workers -> Session] => DailyCareTypeOK'
  BY <1>0 DEF DailyCareTypeOK, world
<1>3. Fit(s, next)'
  BY DEF Fit, Shape, OperationOK, CloseOK, SlotOK, Unslotted, Restoring, Researching, Typing,
         Submitting, world
<1>4. \A t \in Sessions : t # s => Fits(session[t])'
  <2> SUFFICES ASSUME NEW t \in Sessions, t # s PROVE Fits(session[t])'
    OBVIOUS
  <2>1. PICK x : x = session[t]
    OBVIOUS
  <2>2. session'[t] = x /\ Fits(x) /\ ~x.slot /\ ~Shot(x) /\ (record'.quarantined => Stuck(x))
    BY <1>0, <2>1, SetParts DEF DailyCareInv, Workers
  <2>3. Fits(x)'
    BY <2>2, QuietFits
  <2> QED
    BY <2>2, <2>3 DEF Fits, HolderOK, Accounted, Spent, Shot, Stuck, Unslotted
<1> QED
  BY <1>1, <1>3, <1>4, StepKeeps DEF world

(* A step of nobody's: the lane, the owner, the clock.                            *)
LEMMA AsideStep ==
  ASSUME DailyCareInv, \A t \in Sessions : session'[t] = session[t],
         DailyCareTypeOK', RecordOK', ChatOK', UNCHANGED current,
         orphan' = 0 \/ orphan' = orphan,
         \A x : Fits(x) => Fits(x)'
  PROVE  DailyCareInv'
<1>1. \A t \in Sessions : Shape(session[t])' /\ Fits(session[t])'
  <2> SUFFICES ASSUME NEW t \in Sessions PROVE Shape(session[t])' /\ Fits(session[t])'
    OBVIOUS
  <2>1. PICK x : x = session[t]
    OBVIOUS
  <2>2. session'[t] = x /\ Fits(x)' /\ Shape(x)
    BY <2>1 DEF DailyCareInv
  <2>3. Shape(session[t])'
    BY <2>2 DEF Shape, OperationOK, CloseOK, SlotOK, Unslotted, Restoring, Researching, Typing,
                Submitting
  <2> QED
    BY <2>2, <2>3 DEF Fits, HolderOK, Accounted, Spent, Shot, Stuck, Unslotted
<1>2. InTurn' /\ OneHolder'
  BY DEF DailyCareInv, InTurn, OneHolder, Shot, Fresh
<1> QED
  BY <1>1, <1>2 DEF DailyCareInv
(* The words of a session.                                                    *)
LEMMA Words ==
  /\ "idle" \in Positions /\ "begin-expire" \in Positions /\ "begin-read" \in Positions
  /\ "claim-marker" \in Positions /\ "claim-record" \in Positions /\ "reread" \in Positions
  /\ "attempt" \in Positions /\ "lane-skip" \in Positions /\ "restore" \in Positions
  /\ "restore-look" \in Positions /\ "restore-clear" \in Positions
  /\ "restore-quarantine" \in Positions /\ "research" \in Positions /\ "skip" \in Positions
  /\ "save" \in Positions /\ "type" \in Positions /\ "typed" \in Positions
  /\ "exact" \in Positions /\ "mark-draft-verified" \in Positions
  /\ "mark-submit-started" \in Positions /\ "submit" \in Positions /\ "press" \in Positions
  /\ "look" \in Positions /\ "mark-verified" \in Positions /\ "clear" \in Positions
  /\ "clear-skip" \in Positions
  /\ "begun" \in Phases /\ "researched" \in Phases /\ "prepared" \in Phases
  /\ "draft-verified" \in Phases /\ "submitted" \in Phases /\ "verified" \in Phases
  /\ "aborted" \in Phases
  /\ "begun" \in Outers /\ "researched" \in Outers /\ "weather-unavailable" \in Outers
  /\ "prepared" \in Outers /\ "draft-verified" \in Outers /\ "submitted" \in Outers
  /\ "send-verified" \in Outers /\ "closed" \in Outers
  /\ "off" \in Timers /\ "set" \in Timers /\ "rejected" \in Timers /\ "spent" \in Timers
  /\ "none" \in Operations /\ "begin" \in Operations /\ "research" \in Operations
  /\ "prepare" \in Operations /\ "verify" \in Operations /\ "submit" \in Operations
  /\ "verify-send" \in Operations /\ "abort" \in Operations
  /\ "wait" \in Closes /\ "clear" \in Closes /\ "clear-skip" \in Closes
  /\ "quarantine" \in Closes /\ "release" \in Closes /\ "closed" \in Closes
  BY DEF Positions, Phases, Outers, Timers, Operations, Closes

(* The operation of a session ends.                                            *)
LEMMA EndedParts ==
  ASSUME DailyCareInv, NEW s \in Sessions
  PROVE  /\ Ended(s) \in Session /\ Ended(s).op = "none" /\ Ended(s).at = "idle"
         /\ Ended(s).phase = session[s].phase /\ Ended(s).outer = session[s].outer
         /\ Ended(s).slot = session[s].slot /\ Ended(s).timer = session[s].timer
         /\ Ended(s).late = session[s].late /\ Ended(s).reached = session[s].reached
         /\ Ended(s).closing = session[s].closing /\ Ended(s).bound = session[s].bound
         /\ Ended(s).text = session[s].text /\ Ended(s).prepared = session[s].prepared
         /\ Ended(s).close = session[s].close
  BY Here, Words DEF Ended, Session

(* To end an operation is such a step.                                     *)
LEMMA EndedMoves ==
  ASSUME DailyCareInv, NEW s \in Sessions, session[s].op # "none"
  PROVE  Moves(s, Ended(s)) /\ Fits(Ended(s))
<1>1. PICK y : y = Ended(s)
  OBVIOUS
<1>2. PICK x : x = session[s]
  OBVIOUS
<1>3. /\ y \in Session /\ y.phase = x.phase /\ y.outer = x.outer /\ y.slot = x.slot
      /\ y.timer = x.timer /\ y.late = x.late /\ y.reached = x.reached
      /\ y.closing = x.closing /\ y.bound = x.bound /\ y.text = x.text
      /\ y.prepared = x.prepared /\ y.op = "none" /\ y.at = "idle" /\ y.close = x.close
  BY <1>1, <1>2, EndedParts
<1>4. /\ x \in Session /\ Shape(x) /\ Fits(x)
      /\ s <= current /\ (s < current => x.close = "closed")
  BY <1>2, Here DEF Shape, OperationOK
<1>5. Moves(s, y) /\ Fits(y)
  BY <1>2, <1>3, <1>4 DEF Moves, Shape, OperationOK, CloseOK, SlotOK, Fits, HolderOK, Stuck,
     Accounted, Shot, Unslotted, Restoring, Researching, Typing, Submitting
<1> QED
  BY <1>1, <1>5

(* BeginStarts keeps the invariant.                                        *)
LEMMA BeginStartsKeeps ==
  ASSUME DailyCareInv, NEW s \in Sessions, BeginStarts(s)
  PROVE  DailyCareInv'
<1> DEFINE x == session[s]
<1>0. /\ x \in Session /\ Shape(x) /\ Fits(x)
      /\ s <= current /\ (s < current => x.close = "closed")
      /\ s = current /\ x.op = "none" /\ ~x.closing /\ x.outer = "idle"
  BY Here DEF BeginStarts, Starts, Ready, Shape, OperationOK, DailyCareTypeOK
<1>1. /\ Moves(s, [x EXCEPT !.op = "begin", !.at = "begin-expire"])
      /\ Fits([x EXCEPT !.op = "begin", !.at = "begin-expire"])
  BY <1>0, Words DEF Session, Moves, Shape, OperationOK, CloseOK, SlotOK, Fits,
     HolderOK, Stuck, Accounted, Shot, Unslotted, Restoring, Researching, Typing,
     Submitting
<1>2. /\ Moves(s, [x EXCEPT !.op = "begin", !.at = "begin-read"])
      /\ Fits([x EXCEPT !.op = "begin", !.at = "begin-read"])
  BY <1>0, Words DEF Session, Moves, Shape, OperationOK, CloseOK, SlotOK, Fits,
     HolderOK, Stuck, Accounted, Shot, Unslotted, Restoring, Researching, Typing,
     Submitting
<1> QED
  BY <1>0, <1>1, <1>2, OwnStep DEF BeginStarts, Starts, Ready, disk


(* BeginReads keeps the invariant.                                         *)
LEMMA BeginReadsKeeps ==
  ASSUME DailyCareInv, NEW s \in Sessions, BeginReads(s)
  PROVE  DailyCareInv'
<1> DEFINE x == session[s]
<1>0. /\ x \in Session /\ Shape(x) /\ Fits(x)
      /\ s <= current /\ (s < current => x.close = "closed")
      /\ x.at = "begin-read"
  BY Here DEF BeginReads, Goes, Shape, OperationOK
<1>1. /\ Moves(s, [x EXCEPT !.at = "claim-marker"])
      /\ Fits([x EXCEPT !.at = "claim-marker"])
  BY <1>0, Words DEF Session, Moves, Shape, OperationOK, CloseOK, SlotOK, Fits,
     HolderOK, Stuck, Accounted, Shot, Unslotted, Restoring, Researching, Typing,
     Submitting
<1>2. Moves(s, [x EXCEPT !.at = "attempt"]) /\ Fits([x EXCEPT !.at = "attempt"])
  BY <1>0, Words DEF Session, Moves, Shape, OperationOK, CloseOK, SlotOK, Fits,
     HolderOK, Stuck, Accounted, Shot, Unslotted, Restoring, Researching, Typing,
     Submitting
<1> QED
  BY <1>0, <1>1, <1>2, OwnStep DEF BeginReads, Goes, disk


(* ClaimMarks keeps the invariant.                                         *)
LEMMA ClaimMarksKeeps ==
  ASSUME DailyCareInv, NEW s \in Sessions, ClaimMarks(s)
  PROVE  DailyCareInv'
<1> DEFINE x == session[s]
<1>0. /\ x \in Session /\ Shape(x) /\ Fits(x)
      /\ s <= current /\ (s < current => x.close = "closed")
      /\ x.at = "claim-marker"
  BY Here DEF ClaimMarks, Goes, Shape, OperationOK
<1>1. Moves(s, [x EXCEPT !.at = "reread"]) /\ Fits([x EXCEPT !.at = "reread"])
  BY <1>0, Words DEF Session, Moves, Shape, OperationOK, CloseOK, SlotOK, Fits,
     HolderOK, Stuck, Accounted, Shot, Unslotted, Restoring, Researching, Typing,
     Submitting
<1>2. /\ Moves(s, [x EXCEPT !.at = "claim-record"])
      /\ Fits([x EXCEPT !.at = "claim-record"])
  BY <1>0, Words DEF Session, Moves, Shape, OperationOK, CloseOK, SlotOK, Fits,
     HolderOK, Stuck, Accounted, Shot, Unslotted, Restoring, Researching, Typing,
     Submitting
<1> QED
  BY <1>0, <1>1, <1>2, OwnStep DEF ClaimMarks, Goes, disk


(* ClaimRereads keeps the invariant.                                       *)
LEMMA ClaimRereadsKeeps ==
  ASSUME DailyCareInv, NEW s \in Sessions, ClaimRereads(s)
  PROVE  DailyCareInv'
<1> DEFINE x == session[s]
<1>0. /\ x \in Session /\ Shape(x) /\ Fits(x)
      /\ s <= current /\ (s < current => x.close = "closed")
      /\ x.at = "reread" /\ x.op # "none" /\ s # Lane
  BY Here DEF ClaimRereads, Goes, Throws, AfterClaim, Sessions, Lane, Shape,
     OperationOK
<1>1. Moves(s, Ended(s)) /\ Fits(Ended(s))
  BY <1>0, EndedMoves
<1>2. Moves(s, [x EXCEPT !.at = "attempt"]) /\ Fits([x EXCEPT !.at = "attempt"])
  BY <1>0, Words DEF Session, Moves, Shape, OperationOK, CloseOK, SlotOK, Fits,
     HolderOK, Stuck, Accounted, Shot, Unslotted, Restoring, Researching, Typing,
     Submitting
<1> QED
  BY <1>0, <1>1, <1>2, OwnStep DEF ClaimRereads, Goes, Throws, AfterClaim, Sessions,
     Lane, disk


(* Restores keeps the invariant.                                           *)
LEMMA RestoresKeeps ==
  ASSUME DailyCareInv, NEW s \in Sessions, Restores(s)
  PROVE  DailyCareInv'
<1> DEFINE x == session[s]
<1>0. /\ x \in Session /\ Shape(x) /\ Fits(x)
      /\ s <= current /\ (s < current => x.close = "closed")
      /\ x.at = "restore" /\ x.op # "none"
  BY Here DEF Restores, Goes, Throws, Shape, OperationOK
<1>1. Moves(s, Ended(s)) /\ Fits(Ended(s))
  BY <1>0, EndedMoves
<1>2. /\ Moves(s, [Ended(s) EXCEPT !.reached = TRUE])
      /\ Fits([Ended(s) EXCEPT !.reached = TRUE])
  <2>1. PICK y : y = [Ended(s) EXCEPT !.reached = TRUE]
    OBVIOUS
  <2>2. /\ y \in Session /\ y.phase = x.phase /\ y.outer = x.outer
        /\ y.slot = x.slot /\ y.timer = x.timer /\ y.late = x.late
        /\ y.reached = TRUE /\ y.closing = x.closing /\ y.bound = x.bound
        /\ y.text = x.text /\ y.prepared = x.prepared /\ y.op = "none"
        /\ y.at = "idle" /\ y.close = x.close
    BY <1>0, <2>1, EndedParts, Words DEF Session
  <2>3. Moves(s, y) /\ Fits(y)
    BY <1>0, <2>2 DEF Moves, Shape, OperationOK, CloseOK, SlotOK, Fits, HolderOK,
       Stuck, Accounted, Shot, Unslotted, Restoring, Researching, Typing, Submitting
  <2> QED BY <2>1, <2>3
<1>3. Moves(s, [x EXCEPT !.at = "clear"]) /\ Fits([x EXCEPT !.at = "clear"])
  BY <1>0, Words DEF Session, Moves, Shape, OperationOK, CloseOK, SlotOK, Fits,
     HolderOK, Stuck, Accounted, Shot, Unslotted, Restoring, Researching, Typing,
     Submitting
<1>4. /\ Moves(s, [x EXCEPT !.bound = TRUE, !.at = "restore-look"])
      /\ Fits([x EXCEPT !.bound = TRUE, !.at = "restore-look"])
  BY <1>0, Words DEF Session, Moves, Shape, OperationOK, CloseOK, SlotOK, Fits,
     HolderOK, Stuck, Accounted, Shot, Unslotted, Restoring, Researching, Typing,
     Submitting
<1> QED
  BY <1>0, <1>1, <1>2, <1>3, <1>4, OwnStep DEF Restores, Goes, Throws, disk


(* RestoreLooks keeps the invariant.                                       *)
LEMMA RestoreLooksKeeps ==
  ASSUME DailyCareInv, NEW s \in Sessions, RestoreLooks(s)
  PROVE  DailyCareInv'
<1> DEFINE x == session[s]
<1>0. /\ x \in Session /\ Shape(x) /\ Fits(x)
      /\ s <= current /\ (s < current => x.close = "closed")
      /\ x.at = "restore-look" /\ x.op # "none" /\ ~(x.bound /\ x.late)
  BY Here DEF RestoreLooks, Goes, Returns, Expired, Shape, OperationOK
<1>1. /\ Moves(s, [Ended(s) EXCEPT !.outer = "prepared"])
      /\ Fits([Ended(s) EXCEPT !.outer = "prepared"])
  <2>1. PICK y : y = [Ended(s) EXCEPT !.outer = "prepared"]
    OBVIOUS
  <2>2. /\ y \in Session /\ y.phase = x.phase /\ y.outer = "prepared"
        /\ y.slot = x.slot /\ y.timer = x.timer /\ y.late = x.late
        /\ y.reached = x.reached /\ y.closing = x.closing /\ y.bound = x.bound
        /\ y.text = x.text /\ y.prepared = x.prepared /\ y.op = "none"
        /\ y.at = "idle" /\ y.close = x.close
    BY <1>0, <2>1, EndedParts, Words DEF Session
  <2>3. Moves(s, y) /\ Fits(y)
    BY <1>0, <2>2 DEF Moves, Shape, OperationOK, CloseOK, SlotOK, Fits, HolderOK,
       Stuck, Accounted, Shot, Unslotted, Restoring, Researching, Typing, Submitting
  <2> QED BY <2>1, <2>3
<1>2. Moves(s, [x EXCEPT !.at = "type"]) /\ Fits([x EXCEPT !.at = "type"])
  BY <1>0, Words DEF Session, Moves, Shape, OperationOK, CloseOK, SlotOK, Fits,
     HolderOK, Stuck, Accounted, Shot, Unslotted, Restoring, Researching, Typing,
     Submitting
<1>3. /\ Moves(s, [x EXCEPT !.at = "restore-clear"])
      /\ Fits([x EXCEPT !.at = "restore-clear"])
  BY <1>0, Words DEF Session, Moves, Shape, OperationOK, CloseOK, SlotOK, Fits,
     HolderOK, Stuck, Accounted, Shot, Unslotted, Restoring, Researching, Typing,
     Submitting
<1> QED
  BY <1>0, <1>1, <1>2, <1>3, OwnStep DEF RestoreLooks, Goes, Returns, Expired, disk


(* ResearchStarts keeps the invariant.                                     *)
LEMMA ResearchStartsKeeps ==
  ASSUME DailyCareInv, NEW s \in Sessions, ResearchStarts(s)
  PROVE  DailyCareInv'
<1> DEFINE x == session[s]
<1>0. /\ x \in Session /\ Shape(x) /\ Fits(x)
      /\ s <= current /\ (s < current => x.close = "closed")
      /\ x.op = "none" /\ ~x.closing /\ x.outer = "begun" /\ x.phase = "begun"
  BY Here DEF ResearchStarts, Starts, Ready, Shape, OperationOK
<1>1. /\ Moves(s, [x EXCEPT !.op = "research", !.at = "research"])
      /\ Fits([x EXCEPT !.op = "research", !.at = "research"])
  BY <1>0, Words DEF Session, Moves, Shape, OperationOK, CloseOK, SlotOK, Fits,
     HolderOK, Stuck, Accounted, Shot, Unslotted, Restoring, Researching, Typing,
     Submitting
<1> QED
  BY <1>0, <1>1, OwnStep DEF ResearchStarts, Starts, Ready, disk


(* ResearchAnswers keeps the invariant.                                    *)
LEMMA ResearchAnswersKeeps ==
  ASSUME DailyCareInv, NEW s \in Sessions, ResearchAnswers(s)
  PROVE  DailyCareInv'
<1> DEFINE x == session[s]
<1>0. /\ x \in Session /\ Shape(x) /\ Fits(x)
      /\ s <= current /\ (s < current => x.close = "closed")
      /\ x.at = "research" /\ x.op # "none"
  BY Here DEF ResearchAnswers, Goes, Shape, OperationOK
<1>1. /\ Moves(s, [Ended(s) EXCEPT !.phase = "researched", !.outer = "researched"])
      /\ Fits([Ended(s) EXCEPT !.phase = "researched", !.outer = "researched"])
  <2>1. PICK y : y = [Ended(s) EXCEPT !.phase = "researched", !.outer = "researched"]
    OBVIOUS
  <2>2. /\ y \in Session /\ y.phase = "researched" /\ y.outer = "researched"
        /\ y.slot = x.slot /\ y.timer = x.timer /\ y.late = x.late
        /\ y.reached = x.reached /\ y.closing = x.closing /\ y.bound = x.bound
        /\ y.text = x.text /\ y.prepared = x.prepared /\ y.op = "none"
        /\ y.at = "idle" /\ y.close = x.close
    BY <1>0, <2>1, EndedParts, Words DEF Session
  <2>3. Moves(s, y) /\ Fits(y)
    BY <1>0, <2>2 DEF Moves, Shape, OperationOK, CloseOK, SlotOK, Fits, HolderOK,
       Stuck, Accounted, Shot, Unslotted, Restoring, Researching, Typing, Submitting
  <2> QED BY <2>1, <2>3
<1>2. /\ Moves(s, [Ended(s) EXCEPT !.phase = "researched", !.outer = "weather-unavailable"])
      /\ Fits([Ended(s) EXCEPT !.phase = "researched", !.outer = "weather-unavailable"])
  <2>1. PICK y : y = [Ended(s) EXCEPT !.phase = "researched", !.outer = "weather-unavailable"]
    OBVIOUS
  <2>2. /\ y \in Session /\ y.phase = "researched"
        /\ y.outer = "weather-unavailable" /\ y.slot = x.slot /\ y.timer = x.timer
        /\ y.late = x.late /\ y.reached = x.reached /\ y.closing = x.closing
        /\ y.bound = x.bound /\ y.text = x.text /\ y.prepared = x.prepared
        /\ y.op = "none" /\ y.at = "idle" /\ y.close = x.close
    BY <1>0, <2>1, EndedParts, Words DEF Session
  <2>3. Moves(s, y) /\ Fits(y)
    BY <1>0, <2>2 DEF Moves, Shape, OperationOK, CloseOK, SlotOK, Fits, HolderOK,
       Stuck, Accounted, Shot, Unslotted, Restoring, Researching, Typing, Submitting
  <2> QED BY <2>1, <2>3
<1>3. Moves(s, [x EXCEPT !.at = "skip"]) /\ Fits([x EXCEPT !.at = "skip"])
  BY <1>0, Words DEF Session, Moves, Shape, OperationOK, CloseOK, SlotOK, Fits,
     HolderOK, Stuck, Accounted, Shot, Unslotted, Restoring, Researching, Typing,
     Submitting
<1> QED
  BY <1>0, <1>1, <1>2, <1>3, OwnStep DEF ResearchAnswers, Goes, disk


(* PrepareStarts keeps the invariant.                                      *)
LEMMA PrepareStartsKeeps ==
  ASSUME DailyCareInv, NEW s \in Sessions, PrepareStarts(s)
  PROVE  DailyCareInv'
<1> DEFINE x == session[s]
<1>0. /\ x \in Session /\ Shape(x) /\ Fits(x)
      /\ s <= current /\ (s < current => x.close = "closed")
      /\ /\ x.op = "none" /\ ~x.closing /\ x.outer # "idle"
         /\ x.phase \in {"begun", "researched"} /\ x.outer \in {"begun", "researched"}
  BY Here DEF PrepareStarts, Starts, Ready, Notices, Shape, OperationOK
<1>1. Moves(s, [x EXCEPT !.reached = TRUE]) /\ Fits([x EXCEPT !.reached = TRUE])
  BY <1>0, Words DEF Session, Moves, Shape, OperationOK, CloseOK, SlotOK, Fits,
     HolderOK, Stuck, Accounted, Shot, Unslotted, Restoring, Researching, Typing,
     Submitting
<1>2. /\ Moves(s, [x EXCEPT !.op = "prepare", !.at = "skip"])
      /\ Fits([x EXCEPT !.op = "prepare", !.at = "skip"])
  BY <1>0, Words DEF Session, Moves, Shape, OperationOK, CloseOK, SlotOK, Fits,
     HolderOK, Stuck, Accounted, Shot, Unslotted, Restoring, Researching, Typing,
     Submitting
<1>3. /\ Moves(s, [x EXCEPT !.op = "prepare", !.at = "save"])
      /\ Fits([x EXCEPT !.op = "prepare", !.at = "save"])
  BY <1>0, Words DEF Session, Moves, Shape, OperationOK, CloseOK, SlotOK, Fits,
     HolderOK, Stuck, Accounted, Shot, Unslotted, Restoring, Researching, Typing,
     Submitting
<1> QED
  BY <1>0, <1>1, <1>2, <1>3, OwnStep DEF PrepareStarts, Starts, Ready, Notices, disk


(* TypingProved keeps the invariant.                                       *)
LEMMA TypingProvedKeeps ==
  ASSUME DailyCareInv, NEW s \in Sessions, TypingProved(s)
  PROVE  DailyCareInv'
<1> DEFINE x == session[s]
<1>0. /\ x \in Session /\ Shape(x) /\ Fits(x)
      /\ s <= current /\ (s < current => x.close = "closed")
      /\ x.at = "typed" /\ x.op # "none"
  BY Here DEF TypingProved, Shape, OperationOK
<1>1. /\ Moves(s, [x EXCEPT !.prepared = x.text, !.at = "exact"])
      /\ Fits([x EXCEPT !.prepared = x.text, !.at = "exact"])
  <2>1. PICK y : y = [x EXCEPT !.prepared = x.text, !.at = "exact"]
    OBVIOUS
  <2>2. /\ y \in Session /\ y.phase = x.phase /\ y.outer = x.outer
        /\ y.slot = x.slot /\ y.timer = x.timer /\ y.late = x.late
        /\ y.reached = x.reached /\ y.closing = x.closing /\ y.bound = x.bound
        /\ y.text = x.text /\ y.prepared = x.text /\ y.op = x.op /\ y.at = "exact"
        /\ y.close = x.close
    BY <1>0, <2>1, Words DEF Session
  <2>3. Moves(s, y) /\ Fits(y)
    BY <1>0, <2>2 DEF Moves, Shape, OperationOK, CloseOK, SlotOK, Fits, HolderOK,
       Stuck, Accounted, Shot, Unslotted, Restoring, Researching, Typing, Submitting
  <2> QED BY <2>1, <2>3
<1> QED
  BY <1>0, <1>1, OwnStep DEF TypingProved, disk


(* VerifyStarts keeps the invariant.                                       *)
LEMMA VerifyStartsKeeps ==
  ASSUME DailyCareInv, NEW s \in Sessions, VerifyStarts(s)
  PROVE  DailyCareInv'
<1> DEFINE x == session[s]
<1>0. /\ x \in Session /\ Shape(x) /\ Fits(x)
      /\ s <= current /\ (s < current => x.close = "closed")
      /\ x.op = "none" /\ ~x.closing /\ x.outer = "prepared" /\ x.phase = "prepared"
  BY Here DEF VerifyStarts, Starts, Ready, Notices, Shape, OperationOK
<1>1. Moves(s, [x EXCEPT !.reached = TRUE]) /\ Fits([x EXCEPT !.reached = TRUE])
  BY <1>0, Words DEF Session, Moves, Shape, OperationOK, CloseOK, SlotOK, Fits,
     HolderOK, Stuck, Accounted, Shot, Unslotted, Restoring, Researching, Typing,
     Submitting
<1>2. /\ Moves(s, [x EXCEPT !.op = "verify", !.at = "clear"])
      /\ Fits([x EXCEPT !.op = "verify", !.at = "clear"])
  BY <1>0, Words DEF Session, Moves, Shape, OperationOK, CloseOK, SlotOK, Fits,
     HolderOK, Stuck, Accounted, Shot, Unslotted, Restoring, Researching, Typing,
     Submitting
<1>3. /\ Moves(s, [x EXCEPT !.op = "verify", !.at = "exact"])
      /\ Fits([x EXCEPT !.op = "verify", !.at = "exact"])
  BY <1>0, Words DEF Session, Moves, Shape, OperationOK, CloseOK, SlotOK, Fits,
     HolderOK, Stuck, Accounted, Shot, Unslotted, Restoring, Researching, Typing,
     Submitting
<1> QED
  BY <1>0, <1>1, <1>2, <1>3, OwnStep DEF VerifyStarts, Starts, Ready, Notices, disk


(* SubmitStarts keeps the invariant.                                       *)
LEMMA SubmitStartsKeeps ==
  ASSUME DailyCareInv, NEW s \in Sessions, SubmitStarts(s)
  PROVE  DailyCareInv'
<1> DEFINE x == session[s]
<1>0. /\ x \in Session /\ Shape(x) /\ Fits(x)
      /\ s <= current /\ (s < current => x.close = "closed")
      /\ /\ x.op = "none" /\ ~x.closing
         /\ x.outer = "draft-verified" /\ x.phase = "draft-verified"
  BY Here DEF SubmitStarts, Ready, Shape, OperationOK
<1>1. /\ Moves(s, [x EXCEPT !.outer = "submitted"])
      /\ Fits([x EXCEPT !.outer = "submitted"])
  BY <1>0, Words DEF Session, Moves, Shape, OperationOK, CloseOK, SlotOK, Fits,
     HolderOK, Stuck, Accounted, Shot, Unslotted, Restoring, Researching, Typing,
     Submitting
<1>2. /\ Moves(s, [[x EXCEPT !.outer = "submitted"] EXCEPT !.reached = TRUE])
      /\ Fits([[x EXCEPT !.outer = "submitted"] EXCEPT !.reached = TRUE])
  <2>1. PICK y : y = [[x EXCEPT !.outer = "submitted"] EXCEPT !.reached = TRUE]
    OBVIOUS
  <2>2. /\ y \in Session /\ y.phase = x.phase /\ y.outer = "submitted"
        /\ y.slot = x.slot /\ y.timer = x.timer /\ y.late = x.late
        /\ y.reached = TRUE /\ y.closing = x.closing /\ y.bound = x.bound
        /\ y.text = x.text /\ y.prepared = x.prepared /\ y.op = x.op /\ y.at = x.at
        /\ y.close = x.close
    BY <1>0, <2>1, Words DEF Session
  <2>3. Moves(s, y) /\ Fits(y)
    BY <1>0, <2>2 DEF Moves, Shape, OperationOK, CloseOK, SlotOK, Fits, HolderOK,
       Stuck, Accounted, Shot, Unslotted, Restoring, Researching, Typing, Submitting
  <2> QED BY <2>1, <2>3
<1>3. /\ Moves(s, [[x EXCEPT !.outer = "submitted"] EXCEPT !.op = "submit", !.at = "clear"])
      /\ Fits([[x EXCEPT !.outer = "submitted"] EXCEPT !.op = "submit", !.at = "clear"])
  <2>1. PICK y : y = [[x EXCEPT !.outer = "submitted"] EXCEPT !.op = "submit", !.at = "clear"]
    OBVIOUS
  <2>2. /\ y \in Session /\ y.phase = x.phase /\ y.outer = "submitted"
        /\ y.slot = x.slot /\ y.timer = x.timer /\ y.late = x.late
        /\ y.reached = x.reached /\ y.closing = x.closing /\ y.bound = x.bound
        /\ y.text = x.text /\ y.prepared = x.prepared /\ y.op = "submit"
        /\ y.at = "clear" /\ y.close = x.close
    BY <1>0, <2>1, Words DEF Session
  <2>3. Moves(s, y) /\ Fits(y)
    BY <1>0, <2>2 DEF Moves, Shape, OperationOK, CloseOK, SlotOK, Fits, HolderOK,
       Stuck, Accounted, Shot, Unslotted, Restoring, Researching, Typing, Submitting
  <2> QED BY <2>1, <2>3
<1>4. /\ Moves(s, [[x EXCEPT !.outer = "submitted"] EXCEPT !.op = "submit", !.at = "exact"])
      /\ Fits([[x EXCEPT !.outer = "submitted"] EXCEPT !.op = "submit", !.at = "exact"])
  <2>1. PICK y : y = [[x EXCEPT !.outer = "submitted"] EXCEPT !.op = "submit", !.at = "exact"]
    OBVIOUS
  <2>2. /\ y \in Session /\ y.phase = x.phase /\ y.outer = "submitted"
        /\ y.slot = x.slot /\ y.timer = x.timer /\ y.late = x.late
        /\ y.reached = x.reached /\ y.closing = x.closing /\ y.bound = x.bound
        /\ y.text = x.text /\ y.prepared = x.prepared /\ y.op = "submit"
        /\ y.at = "exact" /\ y.close = x.close
    BY <1>0, <2>1, Words DEF Session
  <2>3. Moves(s, y) /\ Fits(y)
    BY <1>0, <2>2 DEF Moves, Shape, OperationOK, CloseOK, SlotOK, Fits, HolderOK,
       Stuck, Accounted, Shot, Unslotted, Restoring, Researching, Typing, Submitting
  <2> QED BY <2>1, <2>3
<1> QED
  BY <1>0, <1>1, <1>2, <1>3, <1>4, OwnStep DEF SubmitStarts, Ready, disk


(* Exact keeps the invariant.                                              *)
LEMMA ExactKeeps ==
  ASSUME DailyCareInv, NEW s \in Sessions, Exact(s)
  PROVE  DailyCareInv'
<1> DEFINE x == session[s]
<1>0. /\ x \in Session /\ Shape(x) /\ Fits(x)
      /\ s <= current /\ (s < current => x.close = "closed")
      /\ x.at = "exact" /\ x.op # "none" /\ ~(x.bound /\ x.late)
  BY Here DEF Exact, Goes, Throws, Returns, Expired, Shape, OperationOK
<1>1. Moves(s, Ended(s)) /\ Fits(Ended(s))
  BY <1>0, EndedMoves
<1>2. ASSUME x.op \in {"begin", "prepare"}
      PROVE  /\ Moves(s, [Ended(s) EXCEPT !.outer = "prepared"])
             /\ Fits([Ended(s) EXCEPT !.outer = "prepared"])
  <2>1. PICK y : y = [Ended(s) EXCEPT !.outer = "prepared"]
    OBVIOUS
  <2>2. /\ y \in Session /\ y.phase = x.phase /\ y.outer = "prepared"
        /\ y.slot = x.slot /\ y.timer = x.timer /\ y.late = x.late
        /\ y.reached = x.reached /\ y.closing = x.closing /\ y.bound = x.bound
        /\ y.text = x.text /\ y.prepared = x.prepared /\ y.op = "none"
        /\ y.at = "idle" /\ y.close = x.close
    BY <1>0, <1>2, <2>1, EndedParts, Words DEF Session
  <2>3. Moves(s, y) /\ Fits(y)
    BY <1>0, <1>2, <2>2 DEF Moves, Shape, OperationOK, CloseOK, SlotOK, Fits,
       HolderOK, Stuck, Accounted, Shot, Unslotted, Restoring, Researching, Typing,
       Submitting
  <2> QED BY <2>1, <2>3
<1>3. /\ Moves(s, [x EXCEPT !.at = "mark-draft-verified"])
      /\ Fits([x EXCEPT !.at = "mark-draft-verified"])
  BY <1>0, Words DEF Session, Moves, Shape, OperationOK, CloseOK, SlotOK, Fits,
     HolderOK, Stuck, Accounted, Shot, Unslotted, Restoring, Researching, Typing,
     Submitting
<1>4. ASSUME x.op \notin {"begin", "prepare", "verify"}
      PROVE  /\ Moves(s, [x EXCEPT !.at = "mark-submit-started"])
             /\ Fits([x EXCEPT !.at = "mark-submit-started"])
  BY <1>0, <1>4, Words DEF Session, Moves, Shape, OperationOK, CloseOK, SlotOK, Fits,
     HolderOK, Stuck, Accounted, Shot, Unslotted, Restoring, Researching, Typing,
     Submitting
<1> QED
  BY <1>0, <1>1, <1>2, <1>3, <1>4, OwnStep DEF Exact, Goes, Throws, Returns, Expired,
     disk


(* AsksForPress keeps the invariant.                                       *)
LEMMA AsksForPressKeeps ==
  ASSUME DailyCareInv, NEW s \in Sessions, AsksForPress(s)
  PROVE  DailyCareInv'
<1> DEFINE x == session[s]
<1>0. /\ x \in Session /\ Shape(x) /\ Fits(x)
      /\ s <= current /\ (s < current => x.close = "closed")
      /\ x.at = "submit" /\ x.op # "none"
  BY Here DEF AsksForPress, Goes, Throws, Expired, Submitting, Shape, OperationOK
<1>1. Moves(s, Ended(s)) /\ Fits(Ended(s))
  BY <1>0, EndedMoves
<1>2. ASSUME x.prepared # 0, ~(x.bound /\ x.late)
      PROVE  Moves(s, [x EXCEPT !.at = "press"]) /\ Fits([x EXCEPT !.at = "press"])
  BY <1>0, <1>2, Words DEF Session, Moves, Shape, OperationOK, CloseOK, SlotOK, Fits,
     HolderOK, Stuck, Accounted, Shot, Unslotted, Restoring, Researching, Typing,
     Submitting
<1> QED
  BY <1>0, <1>1, <1>2, OwnStep DEF AsksForPress, Goes, Throws, Expired, Submitting,
     disk


(* VerifySendStarts keeps the invariant.                                   *)
LEMMA VerifySendStartsKeeps ==
  ASSUME DailyCareInv, NEW s \in Sessions, VerifySendStarts(s)
  PROVE  DailyCareInv'
<1> DEFINE x == session[s]
<1>0. /\ x \in Session /\ Shape(x) /\ Fits(x)
      /\ s <= current /\ (s < current => x.close = "closed")
      /\ x.op = "none" /\ ~x.closing /\ x.outer = "submitted" /\ x.phase = "submitted"
  BY Here DEF VerifySendStarts, Starts, Ready, Shape, OperationOK
<1>1. /\ Moves(s, [x EXCEPT !.op = "verify-send", !.at = "look"])
      /\ Fits([x EXCEPT !.op = "verify-send", !.at = "look"])
  BY <1>0, Words DEF Session, Moves, Shape, OperationOK, CloseOK, SlotOK, Fits,
     HolderOK, Stuck, Accounted, Shot, Unslotted, Restoring, Researching, Typing,
     Submitting
<1> QED
  BY <1>0, <1>1, OwnStep DEF VerifySendStarts, Starts, Ready, disk


(* SendLooks keeps the invariant.                                          *)
LEMMA SendLooksKeeps ==
  ASSUME DailyCareInv, NEW s \in Sessions, SendLooks(s)
  PROVE  DailyCareInv'
<1> DEFINE x == session[s]
<1>0. /\ x \in Session /\ Shape(x) /\ Fits(x)
      /\ s <= current /\ (s < current => x.close = "closed")
      /\ x.at = "look" /\ x.op # "none"
  BY Here DEF SendLooks, Goes, Throws, Shape, OperationOK
<1>1. Moves(s, Ended(s)) /\ Fits(Ended(s))
  BY <1>0, EndedMoves
<1>2. ASSUME sent # <<>>
      PROVE  /\ Moves(s, [x EXCEPT !.at = "mark-verified"])
             /\ Fits([x EXCEPT !.at = "mark-verified"])
  BY <1>0, <1>2, Words DEF Session, Moves, Shape, OperationOK, CloseOK, SlotOK, Fits,
     HolderOK, Stuck, Accounted, Shot, Unslotted, Restoring, Researching, Typing,
     Submitting
<1> QED
  BY <1>0, <1>1, <1>2, OwnStep DEF SendLooks, Goes, Throws, disk


(* AbortStarts keeps the invariant.                                        *)
LEMMA AbortStartsKeeps ==
  ASSUME DailyCareInv, NEW s \in Sessions, AbortStarts(s)
  PROVE  DailyCareInv'
<1> DEFINE x == session[s]
<1>0. /\ x \in Session /\ Shape(x) /\ Fits(x)
      /\ s <= current /\ (s < current => x.close = "closed")
      /\ /\ x.op = "none" /\ ~x.closing /\ x.outer # "idle"
         /\ x.outer \in {"prepared", "draft-verified"}
  BY Here DEF AbortStarts, Starts, Ready, Shape, OperationOK
<1>1. /\ Moves(s, [x EXCEPT !.op = "abort", !.at = "clear"])
      /\ Fits([x EXCEPT !.op = "abort", !.at = "clear"])
  BY <1>0, Words DEF Session, Moves, Shape, OperationOK, CloseOK, SlotOK, Fits,
     HolderOK, Stuck, Accounted, Shot, Unslotted, Restoring, Researching, Typing,
     Submitting
<1> QED
  BY <1>0, <1>1, OwnStep DEF AbortStarts, Starts, Ready, disk


(* NativeFails keeps the invariant.                                        *)
LEMMA NativeFailsKeeps ==
  ASSUME DailyCareInv, NEW s \in Sessions, NativeFails(s)
  PROVE  DailyCareInv'
<1> DEFINE x == session[s]
<1>0. /\ x \in Session /\ Shape(x) /\ Fits(x)
      /\ s <= current /\ (s < current => x.close = "closed")
      /\ x.op # "none"
  BY Here DEF NativeFails, Throws, Shape, OperationOK
<1>1. Moves(s, Ended(s)) /\ Fits(Ended(s))
  BY <1>0, EndedMoves
<1> QED
  BY <1>0, <1>1, OwnStep DEF NativeFails, Throws, disk


(* DeadlinePasses keeps the invariant.                                     *)
LEMMA DeadlinePassesKeeps ==
  ASSUME DailyCareInv, NEW s \in Sessions, DeadlinePasses(s)
  PROVE  DailyCareInv'
<1> DEFINE x == session[s]
<1>0. /\ x \in Session /\ Shape(x) /\ Fits(x)
      /\ s <= current /\ (s < current => x.close = "closed")
      /\ x.timer = "set"
  BY Here DEF DeadlinePasses, Shape, OperationOK
<1>1. Moves(s, [x EXCEPT !.late = TRUE]) /\ Fits([x EXCEPT !.late = TRUE])
  <2>1. PICK y : y = [x EXCEPT !.late = TRUE]
    OBVIOUS
  <2>2. /\ y \in Session /\ y.phase = x.phase /\ y.outer = x.outer
        /\ y.slot = x.slot /\ y.timer = x.timer /\ y.late = TRUE
        /\ y.reached = x.reached /\ y.closing = x.closing /\ y.bound = x.bound
        /\ y.text = x.text /\ y.prepared = x.prepared /\ y.op = x.op /\ y.at = x.at
        /\ y.close = x.close
    BY <1>0, <2>1, Words DEF Session
  <2>3. Moves(s, y) /\ Fits(y)
    BY <1>0, <2>2 DEF Moves, Shape, OperationOK, CloseOK, SlotOK, Fits, HolderOK,
       Stuck, Accounted, Shot, Unslotted, Restoring, Researching, Typing, Submitting
  <2> QED BY <2>1, <2>3
<1> QED
  BY <1>0, <1>1, OwnStep DEF DeadlinePasses, disk


(* TimerFires keeps the invariant.                                         *)
LEMMA TimerFiresKeeps ==
  ASSUME DailyCareInv, NEW s \in Sessions, TimerFires(s)
  PROVE  DailyCareInv'
<1> DEFINE x == session[s]
<1>0. /\ x \in Session /\ Shape(x) /\ Fits(x)
      /\ s <= current /\ (s < current => x.close = "closed")
      /\ x.timer = "set" /\ x.late
  BY Here DEF TimerFires, Shape, OperationOK
<1>1. Moves(s, [x EXCEPT !.timer = "spent"]) /\ Fits([x EXCEPT !.timer = "spent"])
  BY <1>0, Words DEF Session, Moves, Shape, OperationOK, CloseOK, SlotOK, Fits,
     HolderOK, Stuck, Accounted, Shot, Unslotted, Restoring, Researching, Typing,
     Submitting
<1>2. /\ Moves(s, [x EXCEPT !.timer = "rejected", !.reached = TRUE, !.closing = TRUE,
                            !.close = IF @ = "none" THEN "wait" ELSE @])
      /\ Fits([x EXCEPT !.timer = "rejected", !.reached = TRUE, !.closing = TRUE,
                        !.close = IF @ = "none" THEN "wait" ELSE @])
  <2>1. PICK y : y = [x EXCEPT !.timer = "rejected", !.reached = TRUE, !.closing = TRUE,
                               !.close = IF @ = "none" THEN "wait" ELSE @]
    OBVIOUS
  <2>2. /\ y \in Session /\ y.phase = x.phase /\ y.outer = x.outer
        /\ y.slot = x.slot /\ y.timer = "rejected" /\ y.late = x.late
        /\ y.reached = TRUE /\ y.closing = TRUE /\ y.bound = x.bound
        /\ y.text = x.text /\ y.prepared = x.prepared /\ y.op = x.op /\ y.at = x.at
        /\ y.close = (IF x.close = "none" THEN "wait" ELSE x.close)
    BY <1>0, <2>1, Words DEF Session
  <2>3. Moves(s, y) /\ Fits(y)
    BY <1>0, <2>2 DEF Moves, Shape, OperationOK, CloseOK, SlotOK, Fits, HolderOK,
       Stuck, Accounted, Shot, Unslotted, Restoring, Researching, Typing, Submitting
  <2> QED BY <2>1, <2>3
<1> QED
  BY <1>0, <1>1, <1>2, OwnStep DEF TimerFires, disk


(* CloseRequested keeps the invariant.                                     *)
LEMMA CloseRequestedKeeps ==
  ASSUME DailyCareInv, NEW s \in Sessions, CloseRequested(s)
  PROVE  DailyCareInv'
<1> DEFINE x == session[s]
<1>0. /\ x \in Session /\ Shape(x) /\ Fits(x)
      /\ s <= current /\ (s < current => x.close = "closed")
      /\ s = current /\ ~x.closing
  BY Here DEF CloseRequested, Shape, OperationOK, DailyCareTypeOK
<1>1. /\ Moves(s, [x EXCEPT !.closing = TRUE, !.close = "wait"])
      /\ Fits([x EXCEPT !.closing = TRUE, !.close = "wait"])
  <2>1. PICK y : y = [x EXCEPT !.closing = TRUE, !.close = "wait"]
    OBVIOUS
  <2>2. /\ y \in Session /\ y.phase = x.phase /\ y.outer = x.outer
        /\ y.slot = x.slot /\ y.timer = x.timer /\ y.late = x.late
        /\ y.reached = x.reached /\ y.closing = TRUE /\ y.bound = x.bound
        /\ y.text = x.text /\ y.prepared = x.prepared /\ y.op = x.op /\ y.at = x.at
        /\ y.close = "wait"
    BY <1>0, <2>1, Words DEF Session
  <2>3. Moves(s, y) /\ Fits(y)
    BY <1>0, <2>2 DEF Moves, Shape, OperationOK, CloseOK, SlotOK, Fits, HolderOK,
       Stuck, Accounted, Shot, Unslotted, Restoring, Researching, Typing, Submitting
  <2> QED BY <2>1, <2>3
<1> QED
  BY <1>0, <1>1, OwnStep DEF CloseRequested, disk


(* CloseStarts keeps the invariant.                                        *)
LEMMA CloseStartsKeeps ==
  ASSUME DailyCareInv, NEW s \in Sessions, CloseStarts(s)
  PROVE  DailyCareInv'
<1> DEFINE x == session[s]
<1>0. /\ x \in Session /\ Shape(x) /\ Fits(x)
      /\ s <= current /\ (s < current => x.close = "closed")
      /\ /\ x.close = "wait"
         /\ x.op = "none" \/ (x.timer = "rejected" /\ x.op # "begin")
      /\ x.phase \in Phases /\ RecordOK /\ ChatOK
  BY Here DEF CloseStarts, TailResolved, Session, Shape, OperationOK
<1>1. ASSUME x.phase \in {"prepared", "draft-verified"}
      PROVE  /\ Moves(s, [x EXCEPT !.close = "clear"])
             /\ Fits([x EXCEPT !.close = "clear"])
  BY <1>0, <1>1, Words DEF Session, Moves, Shape, OperationOK, CloseOK, SlotOK, Fits,
     HolderOK, Stuck, Accounted, Shot, Unslotted, Restoring, Researching, Typing,
     Submitting
<1>2. ASSUME x.phase \in {"begun", "researched"}
      PROVE  /\ Moves(s, [x EXCEPT !.phase = "aborted", !.close = "release"])
             /\ Fits([x EXCEPT !.phase = "aborted", !.close = "release"])
  <2>1. PICK y : y = [x EXCEPT !.phase = "aborted", !.close = "release"]
    OBVIOUS
  <2>2. /\ y \in Session /\ y.phase = "aborted" /\ y.outer = x.outer
        /\ y.slot = x.slot /\ y.timer = x.timer /\ y.late = x.late
        /\ y.reached = x.reached /\ y.closing = x.closing /\ y.bound = x.bound
        /\ y.text = x.text /\ y.prepared = x.prepared /\ y.op = x.op /\ y.at = x.at
        /\ y.close = "release"
    BY <1>0, <1>2, <2>1, Words DEF Session
  <2>3. Moves(s, y) /\ Fits(y)
    BY <1>0, <1>2, <2>2 DEF Moves, Shape, OperationOK, CloseOK, SlotOK, Fits,
       HolderOK, Stuck, Accounted, Shot, Unslotted, Restoring, Researching, Typing,
       Submitting
  <2> QED BY <2>1, <2>3
<1>3. ASSUME x.phase \notin {"prepared", "draft-verified", "begun", "researched"}
      PROVE  /\ Moves(s, [x EXCEPT !.close = "release"])
             /\ Fits([x EXCEPT !.close = "release"])
  BY <1>0, <1>3, Words DEF Session, Moves, Shape, OperationOK, CloseOK, SlotOK, Fits,
     HolderOK, Stuck, Accounted, Shot, Unslotted, Restoring, Researching, Typing,
     Submitting, RecordOK, ChatOK, Phases, Spent
<1> QED
  BY <1>0, <1>1, <1>2, <1>3, OwnStep DEF CloseStarts, TailResolved, Session, disk


(* CloseReleases keeps the invariant.                                      *)
LEMMA CloseReleasesKeeps ==
  ASSUME DailyCareInv, NEW s \in Sessions, CloseReleases(s)
  PROVE  DailyCareInv'
<1> DEFINE x == session[s]
<1>0. /\ x \in Session /\ Shape(x) /\ Fits(x)
      /\ s <= current /\ (s < current => x.close = "closed")
      /\ x.close = "release"
  BY Here DEF CloseReleases, Shape, OperationOK
<1>1. /\ Moves(s, [x EXCEPT !.close = "closed", !.outer = "closed", !.slot = FALSE,
                            !.text = 0, !.timer = IF @ = "set" THEN "off" ELSE @])
      /\ Fits([x EXCEPT !.close = "closed", !.outer = "closed", !.slot = FALSE, !.text = 0,
                        !.timer = IF @ = "set" THEN "off" ELSE @])
  <2>1. PICK y : y = [x EXCEPT !.close = "closed", !.outer = "closed", !.slot = FALSE,
                               !.text = 0, !.timer = IF @ = "set" THEN "off" ELSE @]
    OBVIOUS
  <2>2. /\ y \in Session /\ y.phase = x.phase /\ y.outer = "closed"
        /\ y.slot = FALSE /\ y.timer = (IF x.timer = "set" THEN "off" ELSE x.timer)
        /\ y.late = x.late /\ y.reached = x.reached /\ y.closing = x.closing
        /\ y.bound = x.bound /\ y.text = 0 /\ y.prepared = x.prepared /\ y.op = x.op
        /\ y.at = x.at /\ y.close = "closed"
    BY <1>0, <2>1, Words DEF Session
  <2>3. Moves(s, y) /\ Fits(y)
    BY <1>0, <2>2 DEF Moves, Shape, OperationOK, CloseOK, SlotOK, Fits, HolderOK,
       Stuck, Accounted, Shot, Unslotted, Restoring, Researching, Typing, Submitting
  <2> QED BY <2>1, <2>3
<1> QED
  BY <1>0, <1>1, OwnStep DEF CloseReleases, disk


(***************************************************************************)
(* The steps that write the record.                                          *)
(***************************************************************************)

(* What is written.                                                          *)
LEMMA RecordWords ==
  /\ "none" \in Statuses /\ "pending" \in Statuses /\ "submitted-uncertain" \in Statuses
  /\ "verified" \in Statuses /\ "skipped" \in Statuses
  /\ "claimed" \in RecordPhases /\ "candidate-prepared" \in RecordPhases
  /\ "draft-verified" \in RecordPhases /\ "submit-started" \in RecordPhases
  /\ "terminal" \in RecordPhases
  BY DEF Statuses, RecordPhases

(* markSkipped.                                                            *)
LEMMA SkippedIs ==
  ASSUME record \in Slot
  PROVE  /\ Skipped \in Slot /\ Skipped.status = "skipped" /\ Skipped.phase = "terminal"
         /\ Skipped.text = record.text /\ (Skipped.quarantined <=> record.quarantined)
  BY RecordWords DEF Skipped, Slot

(* claimSlot.                                                              *)
LEMMA ClaimedIs ==
  /\ Claimed \in Slot /\ Claimed.status = "pending" /\ Claimed.phase = "claimed"
  /\ Claimed.text = 0 /\ ~Claimed.quarantined
<1>1. /\ Unclaimed \in Slot /\ Unclaimed.phase = "claimed" /\ Unclaimed.text = 0
      /\ ~Unclaimed.quarantined
  BY RecordWords DEF Unclaimed, Slot
<1> QED
  BY <1>1, RecordWords DEF Claimed, Slot

(* saveCandidate.                                                          *)
LEMMA CandidateSavedIs ==
  ASSUME record \in Slot, NEW s \in Sessions, NEW r, r = CandidateSaved(s)
  PROVE  /\ r \in Slot /\ r.status = record.status /\ r.phase = "candidate-prepared"
         /\ r.text = s /\ (r.quarantined <=> record.quarantined)
  BY RecordWords DEF CandidateSaved, Slot, Texts

(* markDraftVerified.                                                      *)
LEMMA DraftVerifiedIs ==
  ASSUME record \in Slot
  PROVE  /\ DraftVerified \in Slot /\ DraftVerified.status = record.status
         /\ DraftVerified.phase = "draft-verified" /\ DraftVerified.text = record.text
         /\ (DraftVerified.quarantined <=> record.quarantined)
  BY RecordWords DEF DraftVerified, Slot

(* markSubmitStarted.                                                      *)
LEMMA SubmitStartedIs ==
  ASSUME record \in Slot
  PROVE  /\ SubmitStarted \in Slot /\ SubmitStarted.status = "submitted-uncertain"
         /\ SubmitStarted.phase = "submit-started" /\ SubmitStarted.text = record.text
         /\ (SubmitStarted.quarantined <=> record.quarantined)
  BY RecordWords DEF SubmitStarted, Slot

(* markVerified.                                                           *)
LEMMA VerifiedIs ==
  ASSUME record \in Slot
  PROVE  /\ Verified \in Slot /\ Verified.status = "verified" /\ Verified.phase = "terminal"
         /\ Verified.text = record.text /\ (Verified.quarantined <=> record.quarantined)
  BY RecordWords DEF Verified, Slot

(* markDraftQuarantined.                                                   *)
LEMMA QuarantinedIs ==
  ASSUME record \in Slot
  PROVE  /\ Quarantined \in Slot /\ Quarantined.status = record.status
         /\ Quarantined.phase = record.phase /\ Quarantined.text = record.text
         /\ Quarantined.quarantined
  BY RecordWords DEF Quarantined, Slot

(* startSessionAttempt.                                                    *)
LEMMA AttemptCountedIs ==
  ASSUME record \in Slot, NEW r, r = AttemptCounted
  PROVE  /\ r \in Slot /\ r.text = record.text /\ (r.quarantined <=> record.quarantined)
         /\ ~AttemptOpen => r = record
         /\ AttemptOpen => \/ r.status = "skipped" /\ r.phase = "terminal"
                           \/ r.status = "pending" /\ r.phase = record.phase
<1>1. CASE ~AttemptOpen
  BY <1>1 DEF AttemptCounted
<1>2. CASE AttemptOpen /\ record.attempts >= MaxAttempts
  BY <1>2, SkippedIs DEF AttemptCounted
<1>3. CASE AttemptOpen /\ ~(record.attempts >= MaxAttempts)
  <2>1. r = [record EXCEPT !.attempts = @ + 1] /\ record.attempts + 1 \in 0 .. MaxAttempts
    BY <1>3 DEF AttemptCounted, Slot
  <2> QED
    BY <1>3, <2>1 DEF Slot, AttemptOpen
<1> QED
  BY <1>1, <1>2, <1>3

(* What the record says before a submit.                                          *)
LEMMA EarlyFacts ==
  ASSUME DailyCareInv
  PROVE  /\ record \in Slot /\ RecordOK /\ composer \in Texts \cup {Empty, Foreign}
         /\ record.status \in {"none", "pending"} => sent = <<>> /\ orphan = 0
         /\ record.phase = "claimed" => record.text = 0 /\ composer \notin Texts
  BY DEF DailyCareInv, DailyCareTypeOK, RecordOK, ChatOK, Spent

(* A slot is skipped only before its submit.                                       *)
LEMMA SkippedEarly ==
  ASSUME DailyCareInv, CanSkip, record' = Skipped, UNCHANGED <<composer, sent, orphan>>
  PROVE  Early /\ record' \in Slot /\ RecordOK'
<1>1. /\ record' \in Slot /\ record'.status = "skipped" /\ record'.phase = "terminal"
      /\ record'.text = record.text /\ (record'.quarantined <=> record.quarantined)
  BY EarlyFacts, SkippedIs
<1> QED
  BY <1>1 DEF CanSkip, Early, RecordOK

(* The end of an operation, as a value.                                           *)
LEMMA EndedValue ==
  ASSUME DailyCareInv, NEW s \in Sessions, session[s].op # "none"
  PROVE  \E y : y = Ended(s) /\ Moves(s, y) /\ Fits(y) /\ ~Shot(y) /\ y.at = "idle"
  BY EndedMoves, EndedParts DEF Shot

(* BeginExpires keeps the invariant.                                       *)
LEMMA BeginExpiresKeeps ==
  ASSUME DailyCareInv, NEW s \in Sessions, BeginExpires(s)
  PROVE  DailyCareInv'
<1>1. session[s].op # "none"
  BY Here DEF BeginExpires, Shape, OperationOK
<1>2. PICK y : y = Ended(s) /\ Moves(s, y) /\ Fits(y) /\ ~Shot(y)
  BY <1>1, EndedValue
<1>3. Set(s, y)
  BY <1>2 DEF BeginExpires, Throws
<1>4. CASE record.status = "pending"
  <2>1. Early /\ record' \in Slot /\ RecordOK'
    BY <1>4, SkippedEarly DEF BeginExpires, CanSkip, chat, world
  <2>2. Fits(y)'
    BY <1>2, <2>1, EarlyFits
  <2> QED
    BY <1>2, <1>3, <2>1, <2>2, EarlyStep DEF BeginExpires, Moves
<1>5. CASE record.status # "pending"
  BY <1>2, <1>3, <1>5, OwnStep DEF BeginExpires
<1> QED
  BY <1>4, <1>5

(* ClaimRecords keeps the invariant.                                       *)
LEMMA ClaimRecordsKeeps ==
  ASSUME DailyCareInv, NEW s \in Sessions, ClaimRecords(s)
  PROVE  DailyCareInv'
<1> DEFINE x == session[s]
<1>0. /\ x \in Session /\ Shape(x) /\ Fits(x) /\ x.at = "claim-record"
      /\ s <= current /\ (s < current => x.close = "closed") /\ AfterClaim(s) = "attempt"
  BY Here DEF ClaimRecords, AfterClaim, Sessions, Lane
<1>1. ASSUME NEW at \in {"reread", "attempt"}, NEW y, y = [x EXCEPT !.at = at]
      PROVE  Moves(s, y) /\ Fits(y) /\ ~Shot(y)
  <2>1. CASE at = "reread"
    BY <1>0, <1>1, <2>1, Words DEF Session, Moves, Shape, OperationOK, CloseOK, SlotOK, Fits,
       HolderOK, Stuck, Accounted, Shot, Unslotted, Restoring, Researching, Typing, Submitting
  <2>2. CASE at = "attempt"
    BY <1>0, <1>1, <2>2, Words DEF Session, Moves, Shape, OperationOK, CloseOK, SlotOK, Fits,
       HolderOK, Stuck, Accounted, Shot, Unslotted, Restoring, Researching, Typing, Submitting
  <2> QED BY <2>1, <2>2
<1>2. CASE record.status = "none"
  <2>1. PICK y : y = [x EXCEPT !.at = "attempt"]
    OBVIOUS
  <2>2. Moves(s, y) /\ Fits(y) /\ ~Shot(y) /\ Set(s, y)
    BY <1>0, <1>1, <1>2, <2>1 DEF ClaimRecords, Goes
  <2>3. Early /\ record' \in Slot /\ RecordOK'
    BY <1>2, EarlyFacts, ClaimedIs DEF ClaimRecords, Early, chat, world, RecordOK
  <2>4. Fits(y)'
    BY <2>2, <2>3, EarlyFits
  <2> QED
    BY <2>2, <2>3, <2>4, EarlyStep DEF ClaimRecords, Moves
<1>3. CASE record.status # "none"
  BY <1>1, <1>3, OwnStep DEF ClaimRecords, Goes
<1> QED
  BY <1>2, <1>3

(* The attempt is counted; the session takes the slot, if the record is still open.   *)
LEMMA BeginAttemptsKeeps ==
  ASSUME DailyCareInv, NEW s \in Sessions, BeginAttempts(s)
  PROVE  DailyCareInv'
<1> DEFINE x == session[s]
<1>0. /\ x \in Session /\ Shape(x) /\ Fits(x) /\ x.at = "attempt" /\ x.op = "begin"
      /\ s <= current /\ (s < current => x.close = "closed") /\ x.close # "closed"
      /\ record \in Slot /\ record.text \in Texts \cup {0}
  BY Here, EarlyFacts DEF BeginAttempts, Shape, OperationOK, Unslotted, Slot
<1>1. /\ record' \in Slot /\ record'.text = record.text
      /\ record'.quarantined <=> record.quarantined
      /\ ~AttemptOpen => record' = record
      /\ AttemptOpen => \/ record'.status = "skipped" /\ record'.phase = "terminal"
                        \/ record'.status = "pending" /\ record'.phase = record.phase
  BY <1>0, AttemptCountedIs DEF BeginAttempts
<1>2. AttemptOpen => Early /\ RecordOK'
  BY <1>1, EarlyFacts DEF BeginAttempts, AttemptOpen, Early, RecordOK, chat, world
<1>3. ASSUME NEW y \in Session, Set(s, y), Shape(y), Fits(y)', ~Shot(y), AttemptOpen,
             y.close = x.close
      PROVE  DailyCareInv'
  BY <1>0, <1>1, <1>2, <1>3, EarlyStep DEF BeginAttempts
<1>4. CASE ~AttemptOpen \/ record'.status = "skipped" \/ record.quarantined
  <2>1. PICK y : y = Ended(s) /\ Moves(s, y) /\ Fits(y) /\ ~Shot(y)
    BY <1>0, EndedValue
  <2>2. Set(s, y) /\ y.close = x.close
    BY <1>4, <2>1, EndedParts DEF BeginAttempts, Throws
  <2>3. CASE ~AttemptOpen
    BY <1>1, <2>1, <2>2, <2>3, OwnStep DEF BeginAttempts
  <2>4. CASE AttemptOpen
    <3>1. Fits(y)'
      BY <1>2, <2>1, <2>4, EarlyFits
    <3> QED
      BY <1>3, <2>1, <2>2, <2>4, <3>1 DEF Moves
  <2> QED BY <2>3, <2>4
<1>5. CASE ~(~AttemptOpen \/ record'.status = "skipped" \/ record.quarantined)
  <2>0. /\ record'.status = "pending" /\ ~record'.quarantined /\ AttemptOpen
        /\ record.phase \in {"claimed", "candidate-prepared", "draft-verified"}
        /\ record.phase = "claimed" => record.text = 0 /\ composer \notin Texts
        /\ UNCHANGED <<composer, sent, orphan>>
    BY <1>0, <1>1, <1>5, EarlyFacts DEF BeginAttempts, AttemptOpen, chat, world, Slot, RecordPhases
  <2>1. CASE record.phase = "claimed"
    <3>1. PICK y : y = [Ended(s) EXCEPT !.slot = TRUE, !.timer = "set", !.phase = "begun",
                                        !.outer = "begun"]
      OBVIOUS
    <3>2. /\ y \in Session /\ y.phase = "begun" /\ y.outer = "begun"
          /\ y.slot = TRUE /\ y.timer = "set" /\ y.late = x.late
          /\ y.reached = x.reached /\ y.closing = x.closing /\ y.bound = x.bound
          /\ y.text = x.text /\ y.prepared = x.prepared /\ y.op = "none"
          /\ y.at = "idle" /\ y.close = x.close
      BY <1>0, <3>1, EndedParts, Words DEF Session
    <3>3. Shape(y) /\ Fits(y)' /\ ~Shot(y)
      BY <1>0, <1>1, <2>0, <2>1, <3>2
      DEF Shape, OperationOK, CloseOK, SlotOK, Fits, HolderOK, Stuck, Accounted, Shot, Spent,
       Unslotted, Restoring, Researching, Typing, Submitting
    <3>4. Set(s, y)
      BY <1>5, <2>1, <3>1 DEF BeginAttempts
    <3> QED
      BY <1>3, <2>0, <3>2, <3>3, <3>4
  <2>2. CASE record.phase = "draft-verified"
    <3>1. PICK y : y = [Ended(s) EXCEPT !.slot = TRUE, !.timer = "set",
                                        !.phase = "draft-verified",
                                             !.outer = "draft-verified", !.text = record.text]
      OBVIOUS
    <3>2. /\ y \in Session /\ y.phase = "draft-verified"
          /\ y.outer = "draft-verified" /\ y.slot = TRUE /\ y.timer = "set"
          /\ y.late = x.late /\ y.reached = x.reached /\ y.closing = x.closing
          /\ y.bound = x.bound /\ y.text = record.text /\ y.prepared = x.prepared
          /\ y.op = "none" /\ y.at = "idle" /\ y.close = x.close
      BY <1>0, <3>1, EndedParts, Words DEF Session
    <3>3. Shape(y) /\ Fits(y)' /\ ~Shot(y)
      BY <1>0, <1>1, <2>0, <2>2, <3>2
      DEF Shape, OperationOK, CloseOK, SlotOK, Fits, HolderOK, Stuck, Accounted, Shot, Spent,
       Unslotted, Restoring, Researching, Typing, Submitting
    <3>4. Set(s, y)
      BY <1>5, <2>2, <3>1 DEF BeginAttempts
    <3> QED
      BY <1>3, <2>0, <3>2, <3>3, <3>4
  <2>3. CASE record.phase = "candidate-prepared"
    <3>1. PICK y : y = [x EXCEPT !.slot = TRUE, !.timer = "set", !.phase = "prepared",
                                 !.text = record.text, !.at = "restore"]
      OBVIOUS
    <3>2. /\ y \in Session /\ y.phase = "prepared" /\ y.outer = x.outer
          /\ y.slot = TRUE /\ y.timer = "set" /\ y.late = x.late
          /\ y.reached = x.reached /\ y.closing = x.closing /\ y.bound = x.bound
          /\ y.text = record.text /\ y.prepared = x.prepared /\ y.op = x.op
          /\ y.at = "restore" /\ y.close = x.close
      BY <1>0, <3>1, Words DEF Session
    <3>3. Shape(y) /\ Fits(y)' /\ ~Shot(y)
      BY <1>0, <1>1, <2>0, <2>3, <3>2
      DEF Shape, OperationOK, CloseOK, SlotOK, Fits, HolderOK, Stuck, Accounted, Shot, Spent,
       Unslotted, Restoring, Researching, Typing, Submitting
    <3>4. Set(s, y)
      BY <1>5, <2>3, <3>1 DEF BeginAttempts
    <3> QED
      BY <1>3, <2>0, <3>2, <3>3, <3>4
  <2> QED BY <2>0, <2>1, <2>2, <2>3
<1> QED
  BY <1>4, <1>5

(* Skips keeps the invariant.                                              *)
LEMMA SkipsKeeps ==
  ASSUME DailyCareInv, NEW s \in Sessions, Skips(s)
  PROVE  DailyCareInv'
<1>x. PICK x : x = session[s]
  OBVIOUS
<1>0. /\ x = session[s] /\ x \in Session /\ Shape(x) /\ Fits(x) /\ x.at = "skip" /\ x.op # "none"
      /\ s <= current /\ (s < current => x.close = "closed")
  BY <1>x, Here DEF Skips, Shape, OperationOK
<1>1. CASE CanSkip
  <2>0. Early /\ record' \in Slot /\ RecordOK'
    BY <1>1, SkippedEarly DEF Skips, chat, world
  <2>e. Fits(x)'
    BY <1>0, <2>0, EarlyFits
  <2>1. PICK y : y = [Ended(s) EXCEPT !.phase = "aborted"]
    OBVIOUS
  <2>2. /\ y \in Session /\ y.phase = "aborted" /\ y.outer = x.outer
        /\ y.slot = x.slot /\ y.timer = x.timer /\ y.late = x.late
        /\ y.reached = x.reached /\ y.closing = x.closing /\ y.bound = x.bound
        /\ y.text = x.text /\ y.prepared = x.prepared /\ y.op = "none"
        /\ y.at = "idle" /\ y.close = x.close
    BY <1>0, <2>1, EndedParts, Words DEF Session
  <2>3. Shape(y) /\ Fits(y)' /\ ~Shot(y)
    BY <1>0, <1>1, <2>0, <2>e, <2>2
    DEF Shape, OperationOK, CloseOK, SlotOK, Fits, HolderOK, Stuck, Accounted, Shot, Spent,
       Unslotted, Restoring, Researching, Typing, Submitting, Early, CanSkip
  <2>4. Set(s, y)
    BY <1>0, <1>1, <2>1 DEF Skips
  <2> QED
    BY <1>0, <2>0, <2>2, <2>3, <2>4, EarlyStep DEF Skips
<1>2. CASE ~CanSkip
  BY <1>0, <1>2, EndedMoves, OwnStep DEF Skips, Throws
<1> QED BY <1>1, <1>2

(* Saves keeps the invariant.                                              *)
LEMMA SavesKeeps ==
  ASSUME DailyCareInv, NEW s \in Sessions, Saves(s)
  PROVE  DailyCareInv'
<1>x. PICK x : x = session[s]
  OBVIOUS
<1>0. /\ x = session[s] /\ x \in Session /\ Shape(x) /\ Fits(x) /\ x.at = "save" /\ x.op # "none"
      /\ s <= current /\ (s < current => x.close = "closed") /\ s \in Texts
  BY <1>x, Here DEF Saves, Shape, OperationOK, Texts
<1>1. CASE CanSave(s)
  <2>r. /\ record' \in Slot /\ record'.status = record.status /\ record'.text = s
        /\ record'.phase = "candidate-prepared"
        /\ record'.quarantined <=> record.quarantined
        /\ UNCHANGED <<composer, sent, orphan>>
    BY <1>1, EarlyFacts, CandidateSavedIs DEF Saves, chat, world
  <2>0. Early /\ RecordOK' /\ record.status = "pending"
    BY <1>1, <2>r, EarlyFacts DEF CanSave, Updatable, PendingIn, Terminal, Early, RecordOK,
       Slot, Statuses
  <2>e. Fits(x)'
    BY <1>0, <2>0, EarlyFits
  <2>x. ASSUME NEW y \in Session, Set(s, y), Shape(y), Fits(y)', ~Shot(y), y.close = x.close
        PROVE  DailyCareInv'
    BY <1>0, <2>r, <2>0, <2>x, EarlyStep DEF Saves
  <2>1. CASE x.slot /\ ~x.late
    <3>1. PICK y : y = [x EXCEPT !.text = s, !.phase = "prepared", !.bound = TRUE, !.at = "type"]
      OBVIOUS
    <3>2. /\ y \in Session /\ y.phase = "prepared" /\ y.outer = x.outer
          /\ y.slot = x.slot /\ y.timer = x.timer /\ y.late = x.late
          /\ y.reached = x.reached /\ y.closing = x.closing /\ y.bound = TRUE
          /\ y.text = s /\ y.prepared = x.prepared /\ y.op = x.op /\ y.at = "type"
          /\ y.close = x.close
      BY <1>0, <3>1, Words DEF Session
    <3>3. Shape(y) /\ Fits(y)' /\ ~Shot(y)
      BY <1>0, <2>r, <2>0, <2>e, <2>1, <3>2
      DEF Shape, OperationOK, CloseOK, SlotOK, Fits, HolderOK, Stuck, Accounted, Shot, Spent,
       Unslotted, Restoring, Researching, Typing, Submitting
    <3>4. Set(s, y)
      BY <1>0, <1>1, <2>1, <3>1 DEF Saves
    <3> QED BY <2>x, <3>2, <3>3, <3>4
  <2>2. CASE ~(x.slot /\ ~x.late)
    <3>1. PICK y : y = [Ended(s) EXCEPT !.text = s, !.phase = "prepared"]
      OBVIOUS
    <3>2. /\ y \in Session /\ y.phase = "prepared" /\ y.outer = x.outer
          /\ y.slot = x.slot /\ y.timer = x.timer /\ y.late = x.late
          /\ y.reached = x.reached /\ y.closing = x.closing /\ y.bound = x.bound
          /\ y.text = s /\ y.prepared = x.prepared /\ y.op = "none" /\ y.at = "idle"
          /\ y.close = x.close
      BY <1>0, <3>1, EndedParts, Words DEF Session
    <3>3. Shape(y) /\ Fits(y)' /\ ~Shot(y)
      BY <1>0, <2>r, <2>0, <2>e, <2>2, <3>2
      DEF Shape, OperationOK, CloseOK, SlotOK, Fits, HolderOK, Stuck, Accounted, Shot, Spent,
       Unslotted, Restoring, Researching, Typing, Submitting
    <3>4. Set(s, y)
      BY <1>0, <1>1, <2>2, <3>1 DEF Saves
    <3> QED BY <2>x, <3>2, <3>3, <3>4
  <2> QED BY <2>1, <2>2
<1>2. CASE ~CanSave(s)
  BY <1>0, <1>2, EndedMoves, OwnStep DEF Saves, Throws
<1> QED BY <1>1, <1>2

(* MarksDraftVerified keeps the invariant.                                 *)
LEMMA MarksDraftVerifiedKeeps ==
  ASSUME DailyCareInv, NEW s \in Sessions, MarksDraftVerified(s)
  PROVE  DailyCareInv'
<1>x. PICK x : x = session[s]
  OBVIOUS
<1>0. /\ x = session[s] /\ x \in Session /\ Shape(x) /\ Fits(x)
      /\ x.at = "mark-draft-verified" /\ x.op # "none"
      /\ s <= current /\ (s < current => x.close = "closed")
  BY <1>x, Here DEF MarksDraftVerified, Shape, OperationOK
<1>1. CASE x.slot /\ PendingIn("candidate-prepared")
  <2>r. /\ record' \in Slot /\ record'.status = "pending" /\ record'.text = record.text
        /\ record'.phase = "draft-verified"
        /\ record'.quarantined <=> record.quarantined
        /\ UNCHANGED <<composer, sent, orphan>>
    BY <1>0, <1>1, EarlyFacts, DraftVerifiedIs DEF MarksDraftVerified, PendingIn, chat, world
  <2>0. Early /\ RecordOK' /\ record.status = "pending"
    BY <1>1, <2>r, EarlyFacts DEF PendingIn, Early, RecordOK
  <2>e. Fits(x)'
    BY <1>0, <2>0, EarlyFits
  <2>1. PICK y : y = [Ended(s) EXCEPT !.phase = "draft-verified", !.outer = "draft-verified"]
    OBVIOUS
  <2>2. /\ y \in Session /\ y.phase = "draft-verified" /\ y.outer = "draft-verified"
        /\ y.slot = x.slot /\ y.timer = x.timer /\ y.late = x.late
        /\ y.reached = x.reached /\ y.closing = x.closing /\ y.bound = x.bound
        /\ y.text = x.text /\ y.prepared = x.prepared /\ y.op = "none"
        /\ y.at = "idle" /\ y.close = x.close
    BY <1>0, <2>1, EndedParts, Words DEF Session
  <2>3. Shape(y) /\ Fits(y)' /\ ~Shot(y)
    BY <1>0, <1>1, <2>r, <2>0, <2>e, <2>2
    DEF Shape, OperationOK, CloseOK, SlotOK, Fits, HolderOK, Stuck, Accounted, Shot, Spent,
       Unslotted, Restoring, Researching, Typing, Submitting
  <2>4. Set(s, y)
    BY <1>0, <1>1, <2>1 DEF MarksDraftVerified
  <2> QED
    BY <1>0, <2>r, <2>0, <2>2, <2>3, <2>4, EarlyStep DEF MarksDraftVerified
<1>2. CASE ~(x.slot /\ PendingIn("candidate-prepared"))
  BY <1>0, <1>2, EndedMoves, OwnStep DEF MarksDraftVerified, Throws
<1> QED BY <1>1, <1>2

(* ClearSkips keeps the invariant.                                         *)
LEMMA ClearSkipsKeeps ==
  ASSUME DailyCareInv, NEW s \in Sessions,
         ClearSkips(s, "at") \/ ClearSkips(s, "close")
  PROVE  DailyCareInv'
<1>x. PICK x : x = session[s]
  OBVIOUS
<1>0. /\ x = session[s] /\ x \in Session /\ Shape(x) /\ Fits(x)
      /\ s <= current /\ (s < current => x.close = "closed")
      /\ ClearSkips(s, "at") => x.at = "clear-skip" /\ x.op # "none"
      /\ ClearSkips(s, "close") => x.close = "clear-skip"
  BY <1>x, Here DEF ClearSkips, Shape, OperationOK
<1>1. CASE x.slot /\ CanSkip
  <2>0. Early /\ record' \in Slot /\ RecordOK'
    BY <1>0, <1>1, SkippedEarly DEF ClearSkips, chat, world
  <2>e. Fits(x)' /\ ~Shot(x)
    BY <1>0, <1>1, <2>0, EarlyFits DEF Fits, Spent, CanSkip
  <2>x. ASSUME NEW y \in Session, Set(s, y), Shape(y), Fits(y)', ~Shot(y),
               y.close = x.close \/ x.close # "closed"
        PROVE  DailyCareInv'
    BY <1>0, <2>0, <2>x, EarlyStep DEF ClearSkips
  <2>1. CASE ClearSkips(s, "close")
    <3>1. PICK y : y = [x EXCEPT !.phase = "aborted", !.text = 0, !.close = "release"]
      OBVIOUS
    <3>2. /\ y \in Session /\ y.phase = "aborted" /\ y.outer = x.outer
          /\ y.slot = x.slot /\ y.timer = x.timer /\ y.late = x.late
          /\ y.reached = x.reached /\ y.closing = x.closing /\ y.bound = x.bound
          /\ y.text = 0 /\ y.prepared = x.prepared /\ y.op = x.op /\ y.at = x.at
          /\ y.close = "release"
      BY <1>0, <3>1, Words DEF Session
    <3>3. Shape(y) /\ Fits(y)' /\ ~Shot(y)
      BY <1>0, <1>1, <2>0, <2>e, <2>1, <3>2
      DEF Shape, OperationOK, CloseOK, SlotOK, Fits, HolderOK, Stuck, Accounted, Shot, Spent,
       Unslotted, Restoring, Researching, Typing, Submitting, Early, CanSkip
    <3>4. Set(s, y)
      BY <1>0, <1>1, <2>1, <3>1 DEF ClearSkips
    <3> QED BY <1>0, <2>1, <2>x, <3>2, <3>3, <3>4
  <2>2. CASE ClearSkips(s, "at") /\ x.op = "abort"
    <3>1. PICK y : y = [Ended(s) EXCEPT !.phase = "aborted", !.text = 0, !.outer = "send-verified"]
      OBVIOUS
    <3>2. /\ y \in Session /\ y.phase = "aborted" /\ y.outer = "send-verified"
          /\ y.slot = x.slot /\ y.timer = x.timer /\ y.late = x.late
          /\ y.reached = x.reached /\ y.closing = x.closing /\ y.bound = x.bound
          /\ y.text = 0 /\ y.prepared = x.prepared /\ y.op = "none" /\ y.at = "idle"
          /\ y.close = x.close
      BY <1>0, <3>1, EndedParts, Words DEF Session
    <3>3. Shape(y) /\ Fits(y)' /\ ~Shot(y)
      BY <1>0, <1>1, <2>0, <2>e, <2>2, <3>2
      DEF Shape, OperationOK, CloseOK, SlotOK, Fits, HolderOK, Stuck, Accounted, Shot, Spent,
       Unslotted, Restoring, Researching, Typing, Submitting, Early, CanSkip
    <3>4. Set(s, y)
      BY <1>0, <1>1, <2>2, <3>1 DEF ClearSkips
    <3> QED BY <1>0, <2>2, <2>x, <3>2, <3>3, <3>4
  <2>3. CASE ClearSkips(s, "at") /\ x.op # "abort"
    <3>1. PICK y : y = [Ended(s) EXCEPT !.phase = "aborted", !.text = 0]
      OBVIOUS
    <3>2. /\ y \in Session /\ y.phase = "aborted" /\ y.outer = x.outer
          /\ y.slot = x.slot /\ y.timer = x.timer /\ y.late = x.late
          /\ y.reached = x.reached /\ y.closing = x.closing /\ y.bound = x.bound
          /\ y.text = 0 /\ y.prepared = x.prepared /\ y.op = "none" /\ y.at = "idle"
          /\ y.close = x.close
      BY <1>0, <3>1, EndedParts, Words DEF Session
    <3>3. Shape(y) /\ Fits(y)' /\ ~Shot(y)
      BY <1>0, <1>1, <2>0, <2>e, <2>3, <3>2
      DEF Shape, OperationOK, CloseOK, SlotOK, Fits, HolderOK, Stuck, Accounted, Shot, Spent,
       Unslotted, Restoring, Researching, Typing, Submitting, Early, CanSkip
    <3>4. Set(s, y)
      BY <1>0, <1>1, <2>3, <3>1 DEF ClearSkips
    <3> QED BY <1>0, <2>3, <2>x, <3>2, <3>3, <3>4
  <2> QED BY <2>1, <2>2, <2>3
<1>2. CASE ~(x.slot /\ CanSkip)
  <2>1. CASE ClearSkips(s, "at")
    BY <1>0, <1>2, <2>1, EndedMoves, OwnStep DEF ClearSkips, ClearThrows
  <2>2. CASE ClearSkips(s, "close")
    <3>1. /\ Moves(s, [x EXCEPT !.close = "quarantine"])
          /\ Fits([x EXCEPT !.close = "quarantine"])
      BY <1>0, <2>2, Words DEF Session, Moves, Shape, OperationOK, CloseOK, SlotOK, Fits, HolderOK,
         Stuck, Accounted, Shot, Unslotted, Restoring, Researching, Typing, Submitting
    <3> QED
      BY <1>0, <1>2, <2>2, <3>1, OwnStep DEF ClearSkips, ClearThrows
  <2> QED BY <2>1, <2>2
<1> QED BY <1>1, <1>2

(* RestoreQuarantines keeps the invariant.                                 *)
LEMMA RestoreQuarantinesKeeps ==
  ASSUME DailyCareInv, NEW s \in Sessions, RestoreQuarantines(s)
  PROVE  DailyCareInv'
<1>x. PICK x : x = session[s]
  OBVIOUS
<1>0. /\ x = session[s] /\ x \in Session /\ Shape(x) /\ Fits(x)
      /\ s <= current /\ (s < current => x.close = "closed")
      /\ x.at = "restore-quarantine" /\ x.op # "none" /\ x.slot
  BY <1>x, Here DEF RestoreQuarantines, Shape, OperationOK, SlotOK, Restoring
<1>k. /\ record \in Slot /\ record.text \in Texts \cup {0} /\ RecordOK /\ ChatOK
      /\ composer \in Texts \cup {Empty, Foreign} /\ sent \in Seq(Texts) /\ Empty \notin Texts
  BY Here DEF DailyCareTypeOK, Slot, Texts, Sessions, Empty
<1>1. CASE Updatable
  <2>r. /\ record' \in Slot /\ record'.status = record.status /\ record'.text = record.text
        /\ record'.phase = record.phase /\ record'.quarantined
        /\ UNCHANGED <<composer, sent, orphan, marker, world>>
    BY <1>0, <1>1, <1>k, QuarantinedIs DEF RestoreQuarantines, chat, world
  <2>h. orphan = 0 /\ \A t \in Sessions : t # s =>
          ~session[t].slot /\ ~Shot(session[t]) /\ Stuck(session[t])
    BY <1>0, HolderAlone
  <2>0. RecordOK' /\ ChatOK'
    BY <1>1, <1>k, <2>r, <2>h DEF RecordOK, ChatOK, Spent, Updatable
  <2>1. PICK y : y = Ended(s)
    OBVIOUS
  <2>2. /\ y \in Session /\ y.phase = x.phase /\ y.outer = x.outer
        /\ y.slot = x.slot /\ y.timer = x.timer /\ y.late = x.late
        /\ y.reached = x.reached /\ y.closing = x.closing /\ y.bound = x.bound
        /\ y.text = x.text /\ y.prepared = x.prepared /\ y.op = "none"
        /\ y.at = "idle" /\ y.close = x.close
    BY <1>0, <2>1, EndedParts, Words DEF Session
  <2>3. Shape(y) /\ Fits(y)'
    BY <1>0, <2>r, <2>h, <2>2
    DEF Shape, OperationOK, CloseOK, SlotOK, Fits, HolderOK, Stuck, Accounted, Shot, Spent,
       Unslotted, Restoring, Researching, Typing, Submitting
  <2>4. Set(s, y)
    BY <1>0, <2>1 DEF RestoreQuarantines, Throws
  <2> QED
    BY <1>0, <1>k, <2>r, <2>h, <2>0, <2>2, <2>3, <2>4, LoneStep
<1>2. CASE ~Updatable
  BY <1>0, <1>2, EndedMoves, OwnStep DEF RestoreQuarantines, Throws
<1> QED BY <1>1, <1>2

(* CloseQuarantines keeps the invariant.                                   *)
LEMMA CloseQuarantinesKeeps ==
  ASSUME DailyCareInv, NEW s \in Sessions, CloseQuarantines(s)
  PROVE  DailyCareInv'
<1>x. PICK x : x = session[s]
  OBVIOUS
<1>0. /\ x = session[s] /\ x \in Session /\ Shape(x) /\ Fits(x)
      /\ s <= current /\ (s < current => x.close = "closed")
      /\ x.close = "quarantine"
  BY <1>x, Here DEF CloseQuarantines, Shape, OperationOK
<1>k. /\ record \in Slot /\ record.text \in Texts \cup {0} /\ RecordOK /\ ChatOK
      /\ composer \in Texts \cup {Empty, Foreign} /\ sent \in Seq(Texts) /\ Empty \notin Texts
  BY Here DEF DailyCareTypeOK, Slot, Texts, Sessions, Empty
<1>1. CASE x.slot /\ Updatable
  <2>r. /\ record' \in Slot /\ record'.status = record.status /\ record'.text = record.text
        /\ record'.phase = record.phase /\ record'.quarantined
        /\ UNCHANGED <<composer, sent, orphan, marker, world>>
    BY <1>0, <1>1, <1>k, QuarantinedIs DEF CloseQuarantines, chat, world
  <2>h. orphan = 0 /\ \A t \in Sessions : t # s =>
          ~session[t].slot /\ ~Shot(session[t]) /\ Stuck(session[t])
    BY <1>0, <1>1, HolderAlone
  <2>0. RecordOK' /\ ChatOK'
    BY <1>1, <1>k, <2>r, <2>h DEF RecordOK, ChatOK, Spent, Updatable
  <2>1. PICK y : y = [x EXCEPT !.close = "release"]
    OBVIOUS
  <2>2. /\ y \in Session /\ y.phase = x.phase /\ y.outer = x.outer
        /\ y.slot = x.slot /\ y.timer = x.timer /\ y.late = x.late
        /\ y.reached = x.reached /\ y.closing = x.closing /\ y.bound = x.bound
        /\ y.text = x.text /\ y.prepared = x.prepared /\ y.op = x.op /\ y.at = x.at
        /\ y.close = "release"
    BY <1>0, <2>1, Words DEF Session
  <2>3. Shape(y) /\ Fits(y)'
    BY <1>0, <2>r, <2>h, <2>2
    DEF Shape, OperationOK, CloseOK, SlotOK, Fits, HolderOK, Stuck, Accounted, Shot, Spent,
       Unslotted, Restoring, Researching, Typing, Submitting
  <2>4. Set(s, y)
    BY <1>0, <2>1 DEF CloseQuarantines
  <2> QED
    BY <1>0, <1>k, <2>r, <2>h, <2>0, <2>2, <2>3, <2>4, LoneStep
<1>2. CASE ~(x.slot /\ Updatable)
  <2>1. PICK y : y = [x EXCEPT !.close = "release"]
    OBVIOUS
  <2>2. /\ y \in Session /\ y.phase = x.phase /\ y.outer = x.outer
        /\ y.slot = x.slot /\ y.timer = x.timer /\ y.late = x.late
        /\ y.reached = x.reached /\ y.closing = x.closing /\ y.bound = x.bound
        /\ y.text = x.text /\ y.prepared = x.prepared /\ y.op = x.op /\ y.at = x.at
        /\ y.close = "release"
    BY <1>0, <2>1, Words DEF Session
  <2>3. Moves(s, y) /\ Fits(y)
    BY <1>0, <1>2, <1>k, <2>2
    DEF Shape, OperationOK, CloseOK, SlotOK, Fits, HolderOK, Stuck, Accounted, Shot, Spent,
       Unslotted, Restoring, Researching, Typing, Submitting, Moves, RecordOK, ChatOK,
       Updatable, Terminal
  <2>4. Set(s, y)
    BY <1>0, <2>1 DEF CloseQuarantines
  <2> QED
    BY <1>0, <1>2, <2>3, <2>4, OwnStep DEF CloseQuarantines
<1> QED BY <1>1, <1>2

(* MarksSubmitStarted keeps the invariant.                                 *)
LEMMA MarksSubmitStartedKeeps ==
  ASSUME DailyCareInv, NEW s \in Sessions, MarksSubmitStarted(s)
  PROVE  DailyCareInv'
<1>x. PICK x : x = session[s]
  OBVIOUS
<1>0. /\ x = session[s] /\ x \in Session /\ Shape(x) /\ Fits(x)
      /\ s <= current /\ (s < current => x.close = "closed")
      /\ x.at = "mark-submit-started" /\ x.op = "submit"
  BY <1>x, Here DEF MarksSubmitStarted, Shape, OperationOK, Submitting
<1>k. /\ record \in Slot /\ record.text \in Texts \cup {0} /\ RecordOK /\ ChatOK
      /\ composer \in Texts \cup {Empty, Foreign} /\ sent \in Seq(Texts) /\ Empty \notin Texts
  BY Here DEF DailyCareTypeOK, Slot, Texts, Sessions, Empty
<1>1. CASE x.slot /\ PendingIn("draft-verified")
  <2>r. /\ record' \in Slot /\ record'.status = "submitted-uncertain" /\ record'.text = record.text
        /\ record'.phase = "submit-started" /\ (record'.quarantined <=> record.quarantined)
        /\ UNCHANGED <<composer, sent, orphan, marker, world>>
        /\ record.status = "pending"
    BY <1>0, <1>1, <1>k, SubmitStartedIs DEF MarksSubmitStarted, PendingIn, chat, world
  <2>h. orphan = 0 /\ sent = <<>> /\ \A t \in Sessions : t # s =>
          ~session[t].slot /\ ~Shot(session[t]) /\ Stuck(session[t])
    BY <1>0, <1>1, <2>r, HolderAlone, EarlyFacts
  <2>0. RecordOK' /\ ChatOK'
    BY <1>1, <1>k, <2>r, <2>h DEF RecordOK, ChatOK, Spent
  <2>1. PICK y : y = [x EXCEPT !.phase = "submitted", !.at = "submit"]
    OBVIOUS
  <2>2. /\ y \in Session /\ y.phase = "submitted" /\ y.outer = x.outer
        /\ y.slot = x.slot /\ y.timer = x.timer /\ y.late = x.late
        /\ y.reached = x.reached /\ y.closing = x.closing /\ y.bound = x.bound
        /\ y.text = x.text /\ y.prepared = x.prepared /\ y.op = x.op
        /\ y.at = "submit" /\ y.close = x.close
    BY <1>0, <2>1, Words DEF Session
  <2>3. Shape(y) /\ Fits(y)'
    BY <1>0, <1>1, <2>r, <2>h, <2>2
    DEF Shape, OperationOK, CloseOK, SlotOK, Fits, HolderOK, Stuck, Accounted, Shot, Spent,
       Unslotted, Restoring, Researching, Typing, Submitting
  <2>4. Set(s, y)
    BY <1>0, <1>1, <2>1 DEF MarksSubmitStarted
  <2> QED
    BY <1>0, <1>k, <2>r, <2>h, <2>0, <2>2, <2>3, <2>4, LoneStep
<1>2. CASE ~(x.slot /\ PendingIn("draft-verified"))
  BY <1>0, <1>2, EndedMoves, OwnStep DEF MarksSubmitStarted, Throws
<1> QED BY <1>1, <1>2

(* MarksVerified keeps the invariant.                                      *)
LEMMA MarksVerifiedKeeps ==
  ASSUME DailyCareInv, NEW s \in Sessions, MarksVerified(s)
  PROVE  DailyCareInv'
<1>x. PICK x : x = session[s]
  OBVIOUS
<1>0. /\ x = session[s] /\ x \in Session /\ Shape(x) /\ Fits(x)
      /\ s <= current /\ (s < current => x.close = "closed")
      /\ x.at = "mark-verified" /\ x.op # "none" /\ sent # <<>>
  BY <1>x, Here DEF MarksVerified, Shape, OperationOK, Fits
<1>k. /\ record \in Slot /\ record.text \in Texts \cup {0} /\ RecordOK /\ ChatOK
      /\ composer \in Texts \cup {Empty, Foreign} /\ sent \in Seq(Texts) /\ Empty \notin Texts
  BY Here DEF DailyCareTypeOK, Slot, Texts, Sessions, Empty
<1>1. CASE x.slot /\ CanVerify
  <2>r. /\ record' \in Slot /\ record'.status = "verified" /\ record'.text = record.text
        /\ record'.phase = "terminal" /\ (record'.quarantined <=> record.quarantined)
        /\ UNCHANGED <<composer, sent, orphan, marker, world>>
    BY <1>0, <1>1, <1>k, VerifiedIs DEF MarksVerified, chat, world
  <2>h. orphan = 0 /\ composer \notin Texts /\ \A t \in Sessions : t # s =>
          ~session[t].slot /\ ~Shot(session[t]) /\ Stuck(session[t])
    BY <1>0, <1>1, <1>k, HolderAlone DEF ChatOK
  <2>0. RecordOK' /\ ChatOK'
    BY <1>0, <1>1, <1>k, <2>r, <2>h DEF RecordOK, ChatOK, Spent
  <2>1. PICK y : y = [Ended(s) EXCEPT !.phase = "verified", !.outer = "send-verified"]
    OBVIOUS
  <2>2. /\ y \in Session /\ y.phase = "verified" /\ y.outer = "send-verified"
        /\ y.slot = x.slot /\ y.timer = x.timer /\ y.late = x.late
        /\ y.reached = x.reached /\ y.closing = x.closing /\ y.bound = x.bound
        /\ y.text = x.text /\ y.prepared = x.prepared /\ y.op = "none"
        /\ y.at = "idle" /\ y.close = x.close
    BY <1>0, <2>1, EndedParts, Words DEF Session
  <2>3. Shape(y) /\ Fits(y)'
    BY <1>0, <1>1, <2>r, <2>h, <2>2
    DEF Shape, OperationOK, CloseOK, SlotOK, Fits, HolderOK, Stuck, Accounted, Shot, Spent,
       Unslotted, Restoring, Researching, Typing, Submitting
  <2>4. Set(s, y)
    BY <1>0, <1>1, <2>1 DEF MarksVerified
  <2> QED
    BY <1>0, <1>k, <2>r, <2>h, <2>0, <2>2, <2>3, <2>4, LoneStep
<1>2. CASE ~(x.slot /\ CanVerify)
  BY <1>0, <1>2, EndedMoves, OwnStep DEF MarksVerified, Throws
<1> QED BY <1>1, <1>2

(***************************************************************************)
(* The steps that change the composer and the chat.                          *)
(***************************************************************************)

(* Types keeps the invariant.                                              *)
LEMMA TypesKeeps ==
  ASSUME DailyCareInv, NEW s \in Sessions, Types(s)
  PROVE  DailyCareInv'
<1>x. PICK x : x = session[s]
  OBVIOUS
<1>0. /\ x = session[s] /\ x \in Session /\ Shape(x) /\ Fits(x)
      /\ s <= current /\ (s < current => x.close = "closed")
      /\ /\ x.at = "type" /\ x.bound /\ ~x.late /\ x.slot /\ x.phase = "prepared"
         /\ x.close \in {"none", "wait"} /\ x.op # "none"
  BY <1>x, Here DEF Types, Shape, OperationOK, CloseOK, SlotOK,
     Typing, Unslotted, Expired
<1>k. /\ record \in Slot /\ record.text \in Texts \cup {0} /\ RecordOK /\ ChatOK
      /\ composer \in Texts \cup {Empty, Foreign} /\ sent \in Seq(Texts) /\ Empty \notin Texts
  BY Here DEF DailyCareTypeOK, Slot, Texts, Sessions, Empty
<1>r. UNCHANGED <<record, sent, orphan, marker, world>> /\ composer' = x.text
  BY <1>0 DEF Types, disk, world
<1>h. orphan = 0 /\ \A t \in Sessions : t # s =>
        ~session[t].slot /\ ~Shot(session[t]) /\ Stuck(session[t])
  BY <1>0, HolderAlone
<1>s. ~Spent /\ composer' \in Texts \cup {Empty} /\ (record.text = 0 => composer' = 0)
  BY <1>0, <1>r, <1>k DEF Fits, HolderOK, Empty
<1>w. RecordOK' /\ ChatOK'
  BY <1>k, <1>r, <1>h, <1>s DEF RecordOK, ChatOK, Spent, Empty
<1>1. PICK y : y = [x EXCEPT !.at = "typed"]
  OBVIOUS
<1>2. /\ y \in Session /\ y.phase = x.phase /\ y.outer = x.outer /\ y.slot = x.slot
      /\ y.timer = x.timer /\ y.late = x.late /\ y.reached = x.reached
      /\ y.closing = x.closing /\ y.bound = x.bound /\ y.text = x.text
      /\ y.prepared = x.prepared /\ y.op = x.op /\ y.at = "typed"
      /\ y.close = x.close
  BY <1>0, <1>1, Words DEF Session
<1>3. Shape(y) /\ Fits(y)'
  BY <1>0, <1>r, <1>h, <1>s, <1>2
  DEF Shape, OperationOK, CloseOK, SlotOK, Fits, HolderOK, Stuck, Accounted, Shot, Spent,
       Unslotted, Restoring, Researching, Typing, Submitting
<1>4. Set(s, y)
  BY <1>0, <1>1 DEF Types, Goes
<1> QED
  BY <1>0, <1>k, <1>r, <1>h, <1>s, <1>w, <1>2, <1>3, <1>4, LoneStep

(* Presses keeps the invariant.                                            *)
LEMMA PressesKeeps ==
  ASSUME DailyCareInv, NEW s \in Sessions, Presses(s)
  PROVE  DailyCareInv'
<1>x. PICK x : x = session[s]
  OBVIOUS
<1>0. /\ x = session[s] /\ x \in Session /\ Shape(x) /\ Fits(x)
      /\ s <= current /\ (s < current => x.close = "closed")
      /\ x.at = "press" /\ x.op # "none" /\ x.prepared # 0 /\ x.phase = "submitted"
  BY <1>x, Here DEF Presses, Shape, OperationOK
<1>k. /\ record \in Slot /\ record.text \in Texts \cup {0} /\ RecordOK /\ ChatOK
      /\ composer \in Texts \cup {Empty, Foreign} /\ sent \in Seq(Texts) /\ Empty \notin Texts
  BY Here DEF DailyCareTypeOK, Slot, Texts, Sessions, Empty
<1>h. /\ orphan = 0 /\ sent = <<>> /\ Spent /\ ~record.quarantined
      /\ x.prepared = record.text /\ Shot(x) /\ record.text \in Texts
      /\ \A t \in Sessions : t # s => ~session[t].slot /\ ~Shot(session[t])
  BY <1>0, <1>k DEF Fits, Shot, DailyCareInv, OneHolder
<1>r. /\ UNCHANGED <<record, orphan, marker, world>> /\ composer' = Empty
      /\ sent' = Append(sent, record.text)
  BY <1>0, <1>h DEF Presses, disk, world
<1>s. sent' \in Seq(Texts) /\ sent' # <<>> /\ Len(sent') = 1 /\ sent'[1] = record.text
  BY <1>h, <1>r, <1>k
<1>w. RecordOK' /\ ChatOK'
  BY <1>k, <1>r, <1>h, <1>s DEF RecordOK, ChatOK, Spent
<1>1. PICK y : y = Ended(s)
  OBVIOUS
<1>2. /\ y \in Session /\ y.phase = x.phase /\ y.outer = x.outer /\ y.slot = x.slot
      /\ y.timer = x.timer /\ y.late = x.late /\ y.reached = x.reached
      /\ y.closing = x.closing /\ y.bound = x.bound /\ y.text = x.text
      /\ y.prepared = x.prepared /\ y.op = "none" /\ y.at = "idle"
      /\ y.close = x.close
  BY <1>0, <1>1, EndedParts, Words DEF Session
<1>3. Shape(y) /\ Fits(y)'
  BY <1>0, <1>k, <1>r, <1>h, <1>s, <1>2
  DEF Shape, OperationOK, CloseOK, SlotOK, Fits, HolderOK, Stuck, Accounted, Shot, Spent,
       Unslotted, Restoring, Researching, Typing, Submitting
<1>4. Set(s, y)
  BY <1>0, <1>1 DEF Presses, Throws
<1> QED
  BY <1>0, <1>k, <1>r, <1>h, <1>s, <1>w, <1>2, <1>3, <1>4, LoneStep

(* RestoreClears keeps the invariant.                                      *)
LEMMA RestoreClearsKeeps ==
  ASSUME DailyCareInv, NEW s \in Sessions, RestoreClears(s)
  PROVE  DailyCareInv'
<1> DEFINE x == session[s]
<1>0. /\ x \in Session /\ Shape(x) /\ Fits(x) /\ x.at = "restore-clear"
      /\ s <= current /\ (s < current => x.close = "closed")
  BY Here DEF RestoreClears, Shape, OperationOK
<1>1. /\ Moves(s, [x EXCEPT !.at = "restore-quarantine"])
      /\ Fits([x EXCEPT !.at = "restore-quarantine"])
  BY <1>0, Words DEF Session, Moves, Shape, OperationOK, CloseOK, SlotOK, Fits, HolderOK,
     Stuck, Accounted, Shot, Unslotted, Restoring, Researching, Typing, Submitting
<1> QED
  BY <1>1, EmptiedStep DEF RestoreClears, Goes, disk

(* Clears keeps the invariant.                                             *)
LEMMA ClearsKeeps ==
  ASSUME DailyCareInv, NEW s \in Sessions, Clears(s, "at") \/ Clears(s, "close")
  PROVE  DailyCareInv'
<1>x. PICK x : x = session[s]
  OBVIOUS
<1>0. /\ x = session[s] /\ x \in Session /\ Shape(x) /\ Fits(x) /\ ~(x.bound /\ x.late)
      /\ s <= current /\ (s < current => x.close = "closed")
      /\ Clears(s, "at") => x.at = "clear"
      /\ Clears(s, "close") => x.close = "clear"
  BY <1>x, Here DEF Clears, Expired
<1>r. /\ UNCHANGED <<record, sent, orphan, marker, world>> /\ composer' = Empty
      /\ composer' \notin Texts
  BY DEF Clears, disk, world, Empty, Texts, Sessions
<1>e. Fits(x)'
  BY <1>0, <1>r, EmptiedFits
<1>1. CASE Clears(s, "at")
  <2>1. PICK y : y = [x EXCEPT !.prepared = 0, !.at = "clear-skip"]
    OBVIOUS
  <2>2. /\ y \in Session /\ y.phase = x.phase /\ y.outer = x.outer
        /\ y.slot = x.slot /\ y.timer = x.timer /\ y.late = x.late
        /\ y.reached = x.reached /\ y.closing = x.closing /\ y.bound = x.bound
        /\ y.text = x.text /\ y.prepared = 0 /\ y.op = x.op /\ y.at = "clear-skip"
        /\ y.close = x.close
    BY <1>0, <2>1, Words DEF Session
  <2>3. Moves(s, y) /\ Fits(y)'
    BY <1>0, <1>1, <1>r, <1>e, <2>2
    DEF Shape, OperationOK, CloseOK, SlotOK, Fits, HolderOK, Stuck, Accounted, Shot, Spent,
       Unslotted, Restoring, Researching, Typing, Submitting, Moves
  <2>4. Set(s, y)
    BY <1>0, <1>1, <2>1 DEF Clears
  <2> QED
    BY <1>r, <2>3, <2>4, EmptyingStep
<1>2. CASE Clears(s, "close")
  <2>1. PICK y : y = [x EXCEPT !.prepared = 0, !.close = "clear-skip"]
    OBVIOUS
  <2>2. /\ y \in Session /\ y.phase = x.phase /\ y.outer = x.outer
        /\ y.slot = x.slot /\ y.timer = x.timer /\ y.late = x.late
        /\ y.reached = x.reached /\ y.closing = x.closing /\ y.bound = x.bound
        /\ y.text = x.text /\ y.prepared = 0 /\ y.op = x.op /\ y.at = x.at
        /\ y.close = "clear-skip"
    BY <1>0, <2>1, Words DEF Session
  <2>3. Moves(s, y) /\ Fits(y)'
    BY <1>0, <1>2, <1>r, <1>e, <2>2
    DEF Shape, OperationOK, CloseOK, SlotOK, Fits, HolderOK, Stuck, Accounted, Shot, Spent,
       Unslotted, Restoring, Researching, Typing, Submitting, Moves
  <2>4. Set(s, y)
    BY <1>0, <1>2, <2>1 DEF Clears
  <2> QED
    BY <1>r, <2>3, <2>4, EmptyingStep
<1> QED BY <1>1, <1>2

(* ClearFails keeps the invariant.                                         *)
LEMMA ClearFailsKeeps ==
  ASSUME DailyCareInv, NEW s \in Sessions, ClearFails(s, "at") \/ ClearFails(s, "close")
  PROVE  DailyCareInv'
<1> DEFINE x == session[s]
<1>0. /\ x \in Session /\ Shape(x) /\ Fits(x) /\ s <= current /\ (s < current => x.close = "closed")
      /\ ClearFails(s, "at") => x.at = "clear" /\ x.op # "none"
      /\ ClearFails(s, "close") => x.close = "clear"
      /\ composer' = composer \/ composer' = Empty
      /\ UNCHANGED <<record, sent, marker, world>>
  BY Here DEF ClearFails, Shape, OperationOK, disk
<1>1. CASE ClearFails(s, "at")
  BY <1>0, <1>1, EndedMoves, EmptiedStep DEF ClearFails, ClearThrows
<1>2. CASE ClearFails(s, "close")
  <2>1. /\ Moves(s, [x EXCEPT !.close = "quarantine"])
        /\ Fits([x EXCEPT !.close = "quarantine"])
    BY <1>0, <1>2, Words DEF Session, Moves, Shape, OperationOK, CloseOK, SlotOK, Fits, HolderOK,
       Stuck, Accounted, Shot, Unslotted, Restoring, Researching, Typing, Submitting
  <2> QED
    BY <1>0, <1>2, <2>1, EmptiedStep DEF ClearFails, ClearThrows
<1> QED BY <1>1, <1>2

(***************************************************************************)
(* The steps beside the sessions.                                            *)
(***************************************************************************)

(* The scheduler's skip of a slot has a place of its own: it is no session.          *)
LEMMA LaneSets ==
  ASSUME DailyCareInv, NEW next \in Session, Set(Lane, next)
  PROVE  /\ session' \in [Workers -> Session]
         /\ \A t \in Sessions : session'[t] = session[t]
<1>1. Lane \in Workers /\ \A t \in Sessions : t \in Workers /\ t # Lane
  BY DEF Workers, Sessions, Lane
<1> QED
  BY <1>1, SetParts DEF DailyCareInv

(* The places it may move to.                                              *)
LEMMA LaneMoves ==
  ASSUME DailyCareInv
  PROVE  /\ \A at \in Positions : [session[Lane] EXCEPT !.at = at] \in Session
         /\ Ended(Lane) \in Session
<1>1. session[Lane] \in Session
  BY DEF DailyCareInv, DailyCareTypeOK, Workers
<1> QED
  BY <1>1, Words DEF Session, Ended

(* The scheduler claims and skips, before anything was submitted, or reads.         *)
LEMMA LaneStep ==
  ASSUME DailyCareInv, NEW next \in Session, Set(Lane, next),
         record' = record \/ (Early /\ record' \in Slot /\ RecordOK'),
         marker' \in {marker, TRUE}, UNCHANGED <<chat, world>>
  PROVE  DailyCareInv'
<1>1. session' \in [Workers -> Session] /\ \A t \in Sessions : session'[t] = session[t]
  BY LaneSets
<1>2. DailyCareTypeOK' /\ RecordOK' /\ ChatOK'
  BY <1>1, EarlyFacts
     DEF DailyCareInv, DailyCareTypeOK, RecordOK, ChatOK, Spent, Early, chat, world
<1>3. \A x : Fits(x) => Fits(x)'
  <2> SUFFICES ASSUME NEW x, Fits(x) PROVE Fits(x)'
    OBVIOUS
  <2> QED
    BY EarlyFits, EmptiedFits DEF chat, world
<1> QED
  BY <1>1, <1>2, <1>3, AsideStep DEF world

(* The steps of the scheduler.                                             *)
LEMMA LaneKeeps ==
  ASSUME DailyCareInv,
         \/ LaneStarts \/ LaneSkips
         \/ ClaimMarks(Lane) \/ ClaimRecords(Lane) \/ ClaimRereads(Lane)
  PROVE  DailyCareInv'
<1>0. /\ \A at \in Positions : [session[Lane] EXCEPT !.at = at] \in Session
      /\ Ended(Lane) \in Session
  BY LaneMoves
<1>1. CASE LaneStarts
  BY <1>0, <1>1, Words, LaneStep DEF LaneStarts, Goes, disk
<1>2. CASE LaneSkips
  BY <1>0, <1>2, SkippedEarly, LaneStep DEF LaneSkips, Throws, CanSkip, chat, world
<1>3. CASE ClaimMarks(Lane)
  BY <1>0, <1>3, Words, LaneStep DEF ClaimMarks, Goes
<1>4. CASE ClaimRecords(Lane)
  <2>1. CASE record.status = "none"
    <3>1. Early /\ record' \in Slot /\ RecordOK'
      BY <1>4, <2>1, EarlyFacts, ClaimedIs DEF ClaimRecords, Early, chat, world, RecordOK
    <3> QED
      BY <1>0, <1>4, <2>1, <3>1, Words, LaneStep DEF ClaimRecords, Goes, AfterClaim
  <2>2. CASE record.status # "none"
    BY <1>0, <1>4, <2>2, Words, LaneStep DEF ClaimRecords, Goes
  <2> QED BY <2>1, <2>2
<1>5. CASE ClaimRereads(Lane)
  BY <1>0, <1>5, Words, LaneStep DEF ClaimRereads, Goes, Throws, AfterClaim, disk
<1> QED
  BY <1>1, <1>2, <1>3, <1>4, <1>5

(* OwnerEdits keeps the invariant.                                         *)
LEMMA OwnerEditsKeeps ==
  ASSUME DailyCareInv, OwnerEdits
  PROVE  DailyCareInv'
<1>1. composer' \in {Empty, Foreign} /\ composer' \notin Texts
  BY DEF OwnerEdits, Empty, Foreign, Texts, Sessions
<1>2. DailyCareTypeOK' /\ RecordOK' /\ ChatOK'
  BY <1>1 DEF DailyCareInv, DailyCareTypeOK, RecordOK, ChatOK, Spent, OwnerEdits, disk
<1>3. \A x : Fits(x) => Fits(x)'
  BY <1>1, EmptiedFits DEF OwnerEdits, disk
<1> QED
  BY <1>2, <1>3, AsideStep DEF OwnerEdits

(* WindowEnds keeps the invariant.                                         *)
LEMMA WindowEndsKeeps ==
  ASSUME DailyCareInv, WindowEnds
  PROVE  DailyCareInv'
<1>2. DailyCareTypeOK' /\ RecordOK' /\ ChatOK'
  BY DEF DailyCareInv, DailyCareTypeOK, RecordOK, ChatOK, Spent, WindowEnds, disk, chat
<1>3. \A x : Fits(x) => Fits(x)'
  BY EmptiedFits DEF WindowEnds, disk, chat
<1> QED
  BY <1>2, <1>3, AsideStep DEF WindowEnds

(* The press that outlived its process: no session submits, none holds the slot.      *)
LEMMA OrphanPressesKeeps ==
  ASSUME DailyCareInv, OrphanPresses
  PROVE  DailyCareInv'
<1>1. /\ orphan # 0 /\ orphan = record.text /\ Spent /\ sent = <<>> /\ orphan' = 0
      /\ UNCHANGED <<record, marker, kind, window, session, current>>
      /\ DailyCareTypeOK /\ orphan \in Texts
  BY DEF OrphanPresses, DailyCareInv, ChatOK, DailyCareTypeOK, disk
<1>2. CASE composer = orphan /\ sent' = Append(sent, composer) /\ composer' = Empty
  <2>1. /\ sent' \in Seq(Texts) /\ sent' # <<>> /\ Len(sent') = 1 /\ sent'[1] = record.text
        /\ composer' \notin Texts
    BY <1>1, <1>2 DEF DailyCareTypeOK, Empty, Texts, Sessions
  <2>2. DailyCareTypeOK' /\ RecordOK' /\ ChatOK'
    BY <1>1, <1>2, <2>1 DEF DailyCareInv, DailyCareTypeOK, RecordOK, ChatOK, Spent
  <2>3. \A x : Fits(x) => Fits(x)'
    BY <1>1, <1>2, <2>1 DEF Fits, HolderOK, Accounted, Spent, Shot, Stuck, Unslotted
  <2> QED
    BY <1>1, <2>2, <2>3, AsideStep
<1>3. CASE UNCHANGED <<composer, sent>>
  <2>1. DailyCareTypeOK' /\ RecordOK' /\ ChatOK'
    BY <1>1, <1>3 DEF DailyCareInv, DailyCareTypeOK, RecordOK, ChatOK, Spent
  <2>2. \A x : Fits(x) => Fits(x)'
    BY <1>1, <1>3 DEF Fits, HolderOK, Accounted, Spent, Shot, Stuck, Unslotted
  <2> QED
    BY <1>1, <2>1, <2>2, AsideStep
<1> QED
  BY <1>2, <1>3 DEF OrphanPresses

(* The next session opens when the last one is closed.                             *)
LEMMA SessionOpensKeeps ==
  ASSUME DailyCareInv, SessionOpens
  PROVE  DailyCareInv'
<1>1. /\ UNCHANGED <<kind, record, marker, composer, sent, window, session, orphan>>
      /\ current' = current + 1 /\ current < MaxSessions /\ NoSession
      /\ DailyCareTypeOK /\ current \in 0 .. MaxSessions
  BY DEF SessionOpens, DailyCareInv, DailyCareTypeOK, disk, chat
<1>2. DailyCareTypeOK' /\ RecordOK' /\ ChatOK'
  BY <1>1 DEF DailyCareInv, DailyCareTypeOK, RecordOK, ChatOK, Spent
<1>3. InTurn'
  BY <1>1 DEF DailyCareInv, InTurn, NoSession, Sessions, Workers, Lane, Fresh
<1>4. OneHolder'
  BY <1>1 DEF DailyCareInv, OneHolder, Shot
<1>5. \A s \in Sessions : Shape(session[s])' /\ Fits(session[s])'
  BY <1>1 DEF DailyCareInv, Shape, OperationOK, CloseOK, SlotOK, Fits, HolderOK, Stuck, Accounted,
     Shot, Spent, Unslotted, Restoring, Researching, Typing, Submitting
<1> QED
  BY <1>2, <1>3, <1>4, <1>5 DEF DailyCareInv

(* The end of the process: every session is gone, a press may outlive it.             *)
LEMMA CrashKeeps ==
  ASSUME DailyCareInv, Crash
  PROVE  DailyCareInv'
<1>1. /\ UNCHANGED <<kind, record, marker, composer, sent, window, current>>
      /\ DailyCareTypeOK /\ current \in 0 .. MaxSessions /\ RecordOK /\ ChatOK
  BY DEF Crash, DailyCareInv, DailyCareTypeOK, disk, chat
<1>2. \/ orphan' = orphan
      \/ /\ orphan = 0 /\ Spent /\ sent = <<>> /\ ~record.quarantined
         /\ orphan' # 0 /\ orphan' = record.text
  <2> DEFINE pressing == {s \in Sessions : session[s].at = "press"}
  <2>1. CASE pressing = {}
    BY <2>1 DEF Crash
  <2>2. CASE pressing # {}
    <3>1. PICK s : s = CHOOSE p \in pressing : TRUE
      OBVIOUS
    <3>2. s \in Sessions /\ session[s].at = "press"
      BY <2>2, <3>1
    <3>3. orphan' = session[s].prepared
      BY <2>2, <3>1 DEF Crash
    <3> QED
      BY <3>2, <3>3, Here DEF Shape, OperationOK, Fits, Shot
  <2> QED BY <2>1, <2>2
<1>3. /\ Fresh \in Session /\ ~Fresh.slot /\ ~Shot(Fresh)
      /\ Gone \in Session /\ ~Gone.slot /\ ~Shot(Gone)
  BY <1>1, GoneFits, FreshFits
<1>4. /\ session' \in [Workers -> Session]
      /\ \A s \in Sessions : session'[s] = IF s > current THEN Fresh ELSE Gone
  BY <1>3 DEF Crash, Workers, Sessions, Lane
<1>5. orphan' \in Texts \cup {0}
  BY <1>1, <1>2 DEF DailyCareTypeOK, Slot
<1>6. DailyCareTypeOK' /\ RecordOK' /\ ChatOK'
  <2>2. DailyCareTypeOK'
    BY <1>1, <1>4, <1>5 DEF DailyCareTypeOK
  <2>3. RecordOK'
    BY <1>1 DEF RecordOK
  <2>4. ChatOK'
    <3>1. Spent' <=> Spent
      BY <1>1 DEF Spent
    <3>2. (sent # <<>> => /\ Spent /\ Len(sent) = 1 /\ sent[1] = record.text
                          /\ composer \notin Texts)'
      BY <1>1, <3>1 DEF ChatOK
    <3>3. orphan' # 0 => orphan' = record.text /\ Spent /\ sent = <<>> /\ ~record.quarantined
      BY <1>1, <1>2 DEF ChatOK
    <3>4. record' = record /\ sent' = sent
      BY <1>1
    <3>5. (orphan # 0 => orphan = record.text /\ Spent /\ sent = <<>> /\ ~record.quarantined)'
      BY <3>1, <3>3, <3>4
    <3> QED BY <3>2, <3>5 DEF ChatOK
  <2> QED BY <2>2, <2>3, <2>4
<1>7. InTurn'
  <2>1. Gone.close = "closed"
    BY DEF Gone, Fresh
  <2>2. current' = current /\ current \in Nat /\ \A s \in Sessions : s \in Nat
    BY <1>1 DEF Sessions, DailyCareTypeOK
  <2>3. \A s \in Sessions : s < current' => session'[s].close = "closed"
    BY <1>4, <2>1, <2>2
  <2>4. \A s \in Sessions : s > current' => session'[s] = Fresh
    BY <1>4, <2>2
  <2> QED BY <2>3, <2>4 DEF InTurn
<1>8. OneHolder'
  BY <1>3, <1>4 DEF OneHolder
<1>9. (Shape(Gone) /\ Fits(Gone))' /\ (Shape(Fresh) /\ Fits(Fresh))'
  BY <1>6, GoneFits, FreshFits, PTL
<1>10. \A s \in Sessions : Shape(session[s])' /\ Fits(session[s])'
  BY <1>4, <1>9
<1> QED
  BY <1>6, <1>7, <1>8, <1>10 DEF DailyCareInv

(***************************************************************************)
(* The invariant.                                                            *)
(***************************************************************************)
LEMMA DailyCareInvInit == Init => DailyCareInv
<1> SUFFICES ASSUME Init PROVE DailyCareInv
  OBVIOUS
<1>1. /\ record = Unclaimed /\ composer = 0 /\ sent = <<>> /\ orphan = 0 /\ current = 0
      /\ \A s \in Sessions : session[s] = Fresh
  BY DEF Init, InitAfter, Empty, Workers
<1>2. /\ Unclaimed \in Slot /\ Unclaimed.status = "none" /\ Unclaimed.phase = "claimed"
      /\ Unclaimed.text = 0 /\ ~Unclaimed.quarantined
  BY RecordWords DEF Unclaimed, Slot
<1>3. Fresh \in Session /\ Fresh.outer = "idle" /\ ~Fresh.slot
  BY Words DEF Fresh, Session, Phases, Outers, Timers, Operations, Closes, Positions
<1>4. session \in [Workers -> Session]
  BY <1>3 DEF Init, InitAfter
<1>5. DailyCareTypeOK
  BY <1>1, <1>2, <1>4 DEF Init, InitAfter, DailyCareTypeOK, Empty
<1>6. RecordOK /\ ChatOK
  BY <1>1, <1>2 DEF RecordOK, ChatOK, Texts, Sessions
<1>7. InTurn
  BY <1>1 DEF InTurn, Sessions
<1>8. Shape(Fresh) /\ Fits(Fresh) /\ ~Shot(Fresh)
  BY <1>5, FreshFits
<1> QED
  BY <1>1, <1>3, <1>5, <1>6, <1>7, <1>8 DEF DailyCareInv, OneHolder

(* Every step keeps the invariant.                                         *)
LEMMA DailyCareInvNext == DailyCareInv /\ [Next]_vars => DailyCareInv'
<1> SUFFICES ASSUME DailyCareInv, [Next]_vars PROVE DailyCareInv'
  OBVIOUS
<1>1. ASSUME NEW s \in Sessions, CommandStarts(s) PROVE DailyCareInv'
  BY <1>1, BeginStartsKeeps, ResearchStartsKeeps, PrepareStartsKeeps, VerifyStartsKeeps,
     SubmitStartsKeeps, VerifySendStartsKeeps, AbortStartsKeeps DEF CommandStarts
<1>2. ASSUME NEW s \in Sessions, OperationStep(s) PROVE DailyCareInv'
  BY <1>2, BeginExpiresKeeps, BeginReadsKeeps, ClaimMarksKeeps, ClaimRecordsKeeps,
     ClaimRereadsKeeps, BeginAttemptsKeeps, RestoresKeeps, RestoreLooksKeeps, RestoreClearsKeeps,
     RestoreQuarantinesKeeps, ResearchAnswersKeeps, SkipsKeeps, SavesKeeps, TypesKeeps,
     TypingProvedKeeps, ExactKeeps, MarksDraftVerifiedKeeps, MarksSubmitStartedKeeps,
     AsksForPressKeeps, PressesKeeps, SendLooksKeeps, MarksVerifiedKeeps, ClearsKeeps,
     ClearSkipsKeeps, ClearFailsKeeps, NativeFailsKeeps DEF OperationStep
<1>3. ASSUME NEW s \in Sessions, CloseStep(s) PROVE DailyCareInv'
  BY <1>3, CloseStartsKeeps, ClearsKeeps, ClearSkipsKeeps, ClearFailsKeeps,
     CloseQuarantinesKeeps, CloseReleasesKeeps DEF CloseStep
<1>4. ASSUME NEW s \in Sessions, DeadlinePasses(s) \/ TimerFires(s) \/ CloseRequested(s)
      PROVE  DailyCareInv'
  BY <1>4, DeadlinePassesKeeps, TimerFiresKeeps, CloseRequestedKeeps
<1>5. CASE UNCHANGED vars
  <2>1. /\ UNCHANGED <<kind, record, marker, composer, sent, window, session, current, orphan>>
    BY <1>5 DEF vars
  <2>2. DailyCareTypeOK' /\ RecordOK' /\ ChatOK'
    BY <2>1 DEF DailyCareInv, DailyCareTypeOK, RecordOK, ChatOK, Spent
  <2>3. \A x : Fits(x) => Fits(x)'
    BY <2>1, EmptiedFits
  <2> QED
    BY <2>1, <2>2, <2>3, AsideStep
<1> QED
  BY <1>1, <1>2, <1>3, <1>4, <1>5, SessionOpensKeeps, LaneKeeps, OwnerEditsKeeps,
     WindowEndsKeeps, CrashKeeps, OrphanPressesKeeps DEF Next

(* It holds of every behaviour.                                            *)
LEMMA DailyCareInvAlways == Spec => []DailyCareInv
  BY DailyCareInvInit, DailyCareInvNext, PTL DEF Spec

(* Whatever the sessions, their deadlines and the ends of the process do, the        *)
(* variables stay within their types.                                        *)
THEOREM DailyCareTyped == Spec => []DailyCareTypeOK
  BY DailyCareInvAlways, PTL DEF DailyCareInv

(* A slot is broadcast at most once, with the text on record, and the record never     *)
(* again says that it was not (BROADCAST_SLOT_ALREADY_CLAIMED, markSubmitStarted       *)
(* before the press, no attempt after it).                                    *)
THEOREM SlotIsBroadcastOnce == Spec => []BroadcastOnce
<1>1. DailyCareInv => BroadcastOnce
  BY DEF DailyCareInv, ChatOK, Spent, BroadcastOnce
<1> QED
  BY <1>1, DailyCareInvAlways, PTL

(* After the draft of a slot is quarantined nothing is sent: neither by an operation   *)
(* given up at the deadline nor by a press that outlived its process.              *)
THEOREM QuarantinedIsNeverSent == Spec => QuarantineHolds
<1>1. DailyCareInv /\ [Next]_vars => (record.quarantined => sent' = sent)
  <2> SUFFICES ASSUME DailyCareInv, [Next]_vars, record.quarantined PROVE sent' = sent
    OBVIOUS
  <2>1. \A s \in Sessions : ~Presses(s)
    BY Here DEF Presses, Fits
  <2>2. ~OrphanPresses
    BY DEF OrphanPresses, DailyCareInv, ChatOK
  <2>3. ASSUME NEW s \in Sessions, OperationStep(s) PROVE sent' = sent
    BY <2>1, <2>3 DEF OperationStep, BeginExpires, BeginReads, ClaimMarks, ClaimRecords,
         ClaimRereads,
       BeginAttempts, Restores, RestoreLooks, RestoreClears, RestoreQuarantines, ResearchAnswers,
       Skips, Saves, Types, TypingProved, Exact, MarksDraftVerified, MarksSubmitStarted,
       AsksForPress, SendLooks, MarksVerified, Clears, ClearSkips, ClearFails, NativeFails,
       chat, disk
  <2>4. ASSUME NEW s \in Sessions, CommandStarts(s) PROVE sent' = sent
    BY <2>4 DEF CommandStarts, BeginStarts, ResearchStarts, PrepareStarts, VerifyStarts,
       SubmitStarts, VerifySendStarts, AbortStarts, chat
  <2>5. ASSUME NEW s \in Sessions, CloseStep(s) PROVE sent' = sent
    BY <2>5 DEF CloseStep, CloseStarts, Clears, ClearSkips, ClearFails, CloseQuarantines,
       CloseReleases, chat
  <2>6. ASSUME NEW s \in Sessions, DeadlinePasses(s) \/ TimerFires(s) \/ CloseRequested(s)
        PROVE  sent' = sent
    BY <2>6 DEF DeadlinePasses, TimerFires, CloseRequested, chat
  <2>7. ASSUME \/ SessionOpens \/ LaneStarts \/ LaneSkips \/ ClaimMarks(Lane)
               \/ ClaimRecords(Lane) \/ ClaimRereads(Lane) \/ OwnerEdits \/ WindowEnds \/ Crash
        PROVE  sent' = sent
    BY <2>7 DEF SessionOpens, LaneStarts, LaneSkips, ClaimMarks, ClaimRecords, ClaimRereads,
       OwnerEdits, WindowEnds, Crash, chat
  <2> QED
    BY <2>2, <2>3, <2>4, <2>5, <2>6, <2>7 DEF Next, vars
<1>2. Spec => [][record.quarantined => sent' = sent]_vars
  BY <1>1, DailyCareInvAlways, PTL DEF Spec
<1> QED
  BY <1>2 DEF QuarantineHolds

(* A session that closes while it holds the slot leaves no draft behind that the       *)
(* record does not speak of, unless the slot was skipped under it (closeAfterInflight). *)
THEOREM ClosedSlotIsAccounted == Spec => ClosedIsAccounted
<1> DEFINE Step == \A s \in Sessions :
      session[s].close = "release" /\ session'[s].close = "closed" /\ session[s].slot
        => \/ composer \notin Texts
           \/ record.quarantined \/ record.status = "submitted-uncertain"
           \/ record.status = "skipped" /\ session[s].phase # "aborted"
<1>1. DailyCareInv => Step
  BY Here DEF Fits, Accounted
<1>2. Spec => [][Step]_vars
  BY <1>1, DailyCareInvAlways, PTL DEF Spec
<1> QED
  BY <1>2 DEF ClosedIsAccounted
=============================================================================
