-------------------------- MODULE KernelLeaseProofs --------------------------
(***************************************************************************)
(* What a kernel lease protects, for any calls, processes, operations and  *)
(* faults.  The detailed store implements the atomic one: one call at a    *)
(* time is inside, and the ledger it read is the ledger until it has       *)
(* renamed its own over it.  The operations of a runtime end before its    *)
(* lease is given back, and what a child started is fenced by the close.   *)
(***************************************************************************)
EXTENDS EncryptedStore, LiveOperationCoordinator, SequenceTheorems, TLAPS

Inside == {"revalidate", "read", "temporary", "rename", "written", "throwing"}
Write == {"temporary", "rename"}
Written == {ledger[n] : n \in DOMAIN ledger}

CallRecord == [at : Position, seen : Seq(Calls), polls : 0 .. MaxPolls,
               answer : {"open", "done", "failed", "killed"}]

Types ==
  /\ ledger \in Seq(Calls)
  /\ holder \in Calls \union {Nobody}
  /\ call \in [Calls -> CallRecord]

\* Of each call: inside, it has the lease and, about to write, the newest
\* ledger; it is open until it is over, and written when it says so.
Sound(c) ==
  /\ call[c].at \in Inside => holder = c
  /\ call[c].at \in Write => call[c].seen = ledger
  /\ (call[c].answer = "open") <=> (call[c].at # "over")
  /\ c \in Written => call[c].at \in {"written", "throwing", "over"}
  /\ call[c].at = "written" => c \in Written

IInv == Types /\ \A c \in Calls : Sound(c)

(* What an append to the ledger adds to the calls it holds.                 *)
LEMMA AppendWrites ==
  ASSUME NEW c \in Calls, ledger \in Seq(Calls), ledger' = Append(ledger, c)
  PROVE  ledger' \in Seq(Calls) /\ Written' = Written \union {c}
<1>1. /\ ledger' \in Seq(Calls)
      /\ DOMAIN ledger' = DOMAIN ledger \union {Len(ledger) + 1}
      /\ Len(ledger) + 1 \notin DOMAIN ledger
      /\ ledger'[Len(ledger) + 1] = c
      /\ \A n \in DOMAIN ledger : ledger'[n] = ledger[n]
  BY AppendProperties
<1> QED
  BY <1>1 DEF Written

LEMMA InitIInv == Init => IInv
<1> SUFFICES ASSUME Init PROVE IInv
  OBVIOUS
<1>1. Written = {}
  BY DEF Init, StoreInit, Written
<1>2. Types
  BY StoreAssumption DEF Init, StoreInit, Types, CallRecord, Position
<1> QED
  BY <1>1, <1>2 DEF Init, StoreInit, IInv, Sound, Inside, Write

(* A step of one call that leaves the ledger alone.                          *)
LEMMA QuietStep ==
  ASSUME IInv, NEW c \in Calls, ledger' = ledger, holder' \in Calls \union {Nobody},
         call' \in [Calls -> CallRecord],
         \A d \in Calls \ {c} : call'[d] = call[d],
         \A d \in Calls \ {c} : call[d].at \in Inside => holder' = d,
         Sound(c)'
  PROVE  IInv'
<1>1. Types'
  BY DEF IInv, Types
<1>2. Written' = Written
  BY DEF Written
<1>3. ASSUME NEW d \in Calls \ {c} PROVE Sound(d)'
  <2>1. Sound(d) /\ call'[d] = call[d]
    BY DEF IInv
  <2> QED
    BY <1>2, <2>1 DEF Sound
<1> QED
  BY <1>1, <1>3 DEF IInv

(* Every step of a call keeps the invariant.  The two that need an argument  *)
(* are the rename, which no other call can be about to make, and the read.   *)
LEMMA CallKeepsIInv ==
  ASSUME IInv, NEW c \in Calls, CallStep(c) \/ Throws(c)
  PROVE  IInv'
<1> USE StoreAssumption
<1>t. call \in [Calls -> CallRecord] /\ ledger \in Seq(Calls) /\ holder \in Calls \union {Nobody}
  BY DEF IInv, Types
<1>w. (ledger' = ledger) => (Written' = Written)
  BY DEF Written
<1>c. call[c] \in CallRecord /\ Sound(c)
  BY DEF IInv, Types
<1>d. \A d \in Calls \ {c} : call[d].at \in Inside => holder = d
  BY DEF IInv, Sound
<1>1. CASE ValidatesBefore(c)
  <2>1. call'[c] = [call[c] EXCEPT !.at = "gate"]
        \/ call'[c] = [call[c] EXCEPT !.at = "over", !.answer = "failed"]
    BY <1>1, <1>t DEF ValidatesBefore, Goes, Answer, CallRecord
  <2>2. call' \in [Calls -> CallRecord] /\ \A d \in Calls \ {c} : call'[d] = call[d]
    <3>1. call'[c] \in CallRecord
      BY <1>t, <1>c, <2>1 DEF CallRecord, Position
    <3>2. \A d \in Calls \ {c} : call'[d] = call[d]
      BY <1>1, <1>t DEF ValidatesBefore, Goes, Answer
    <3>3. \E f : call' = [d \in Calls |-> f[d]]
      BY <1>1, <1>t DEF ValidatesBefore, Goes, Answer
    <3> QED
      BY <3>1, <3>2, <3>3, <1>t
  <2>3. Sound(c)'
    BY <1>1, <1>c, <1>w, <2>1, <2>2
    DEF ValidatesBefore, InCall, CallRecord, Position, Inside, Write, Sound
  <2> QED
    BY <1>1, <1>d, <1>t, <2>1, <2>2, <2>3, QuietStep DEF ValidatesBefore
<1>2. CASE LocksGate(c)
  <2>1. call'[c] = [call[c] EXCEPT !.at = "revalidate"]
    BY <1>2, <1>t DEF LocksGate, Goes, CallRecord
  <2>2. call' \in [Calls -> CallRecord] /\ \A d \in Calls \ {c} : call'[d] = call[d]
    BY <1>2, <1>t, <1>c, <2>1 DEF LocksGate, Goes, CallRecord, Position
  <2>3. \A d \in Calls \ {c} : call[d].at \notin Inside
    BY <1>2, <1>d DEF LocksGate, GateFree
  <2>4. Sound(c)'
    BY <1>2, <1>c, <1>w, <2>1, <2>2, <2>3
    DEF LocksGate, InCall, CallRecord, Position, Inside, Write, Sound
  <2> QED
    BY <1>2, <1>d, <1>t, <2>1, <2>2, <2>3, <2>4, QuietStep DEF LocksGate
<1>3. CASE FindsBusy(c)
  <2>1. \/ /\ call'[c] = [call[c] EXCEPT !.at = "start", !.polls = @ + 1]
           /\ call[c].polls < MaxPolls
        \/ call'[c] = [call[c] EXCEPT !.at = "over", !.answer = "failed"]
    BY <1>3, <1>t DEF FindsBusy, Answer, CallRecord
  <2>2. call' \in [Calls -> CallRecord] /\ \A d \in Calls \ {c} : call'[d] = call[d]
    <3>1. call[c].polls < MaxPolls => call[c].polls + 1 \in 0 .. MaxPolls
      BY <1>c DEF CallRecord
    <3>2. call'[c] \in CallRecord
      BY <2>1, <1>c, <3>1 DEF CallRecord, Position
    <3>3. \A d \in Calls \ {c} : call'[d] = call[d]
      BY <1>3, <1>t DEF FindsBusy, Answer
    <3>4. \E f : call' = [d \in Calls |-> f[d]]
      BY <1>3, <1>t DEF FindsBusy, Answer
    <3> QED
      BY <3>2, <3>3, <3>4, <1>t
  <2>3. Sound(c)'
    BY <1>3, <1>c, <1>w, <2>1, <2>2
    DEF FindsBusy, InCall, CallRecord, Position, Inside, Write, Sound
  <2> QED
    BY <1>3, <1>d, <1>t, <2>1, <2>2, <2>3, QuietStep DEF FindsBusy
<1>4. CASE Revalidates(c)
  <2>1. \/ call'[c] = [call[c] EXCEPT !.at = "read"] /\ holder' = holder
        \/ call'[c] = [call[c] EXCEPT !.at = "over", !.answer = "failed"] /\ holder' = Nobody
    BY <1>4, <1>t DEF Revalidates, Goes, Answer, CallRecord
  <2>2. call' \in [Calls -> CallRecord] /\ \A d \in Calls \ {c} : call'[d] = call[d]
    <3>1. call'[c] \in CallRecord
      BY <1>t, <1>c, <2>1 DEF CallRecord, Position
    <3>2. \A d \in Calls \ {c} : call'[d] = call[d]
      BY <1>4, <1>t DEF Revalidates, Goes, Answer
    <3>3. \E f : call' = [d \in Calls |-> f[d]]
      BY <1>4, <1>t DEF Revalidates, Goes, Answer
    <3> QED
      BY <3>1, <3>2, <3>3, <1>t
  <2>3. holder = c
    BY <1>4, <1>c DEF Revalidates, InCall, Inside, Sound
  <2>4. \A d \in Calls \ {c} : call[d].at \notin Inside
    BY <2>3, <1>d
  <2>5. Sound(c)'
    BY <1>4, <1>c, <1>w, <2>1, <2>2, <2>3, <2>4
    DEF Revalidates, InCall, CallRecord, Position, Inside, Write, Sound
  <2> QED
    BY <1>4, <1>d, <1>t, <2>1, <2>2, <2>3, <2>4, <2>5, QuietStep DEF Revalidates
<1>5. CASE Reads(c)
  <2>1. call'[c] = [call[c] EXCEPT !.at = "temporary", !.seen = ledger]
    BY <1>5, <1>t DEF Reads, CallRecord
  <2>2. call' \in [Calls -> CallRecord] /\ \A d \in Calls \ {c} : call'[d] = call[d]
    BY <1>5, <1>t, <1>c, <2>1 DEF Reads, CallRecord, Position
  <2>3. Sound(c)'
    BY <1>5, <1>c, <1>w, <2>1, <2>2
    DEF Reads, InCall, CallRecord, Position, Inside, Write, Sound
  <2> QED
    BY <1>5, <1>d, <1>t, <2>1, <2>2, <2>3, QuietStep DEF Reads
<1>6. CASE WritesFile(c)
  <2>1. call'[c] = [call[c] EXCEPT !.at = "rename"]
    BY <1>6, <1>t DEF WritesFile, Goes, CallRecord
  <2>2. call' \in [Calls -> CallRecord] /\ \A d \in Calls \ {c} : call'[d] = call[d]
    BY <1>6, <1>t, <1>c, <2>1 DEF WritesFile, Goes, CallRecord, Position
  <2>3. Sound(c)'
    BY <1>6, <1>c, <1>w, <2>1, <2>2
    DEF WritesFile, InCall, CallRecord, Position, Inside, Write, Sound
  <2> QED
    BY <1>6, <1>d, <1>t, <2>1, <2>2, <2>3, QuietStep DEF WritesFile
<1>7. CASE RenamesFile(c)
  <2>1. call'[c] = [call[c] EXCEPT !.at = "written"]
    BY <1>7, <1>t DEF RenamesFile, Goes, CallRecord
  <2>2. call' \in [Calls -> CallRecord] /\ \A d \in Calls \ {c} : call'[d] = call[d]
    BY <1>7, <1>t, <1>c, <2>1 DEF RenamesFile, Goes, CallRecord, Position
  <2>3. ledger' \in Seq(Calls) /\ Written' = Written \union {c}
    BY <1>7, <1>c, <1>t, AppendWrites DEF RenamesFile, InCall, Write, Sound
  <2>4. holder' = c /\ holder = c
    BY <1>7, <1>c DEF RenamesFile, InCall, Inside, Sound
  <2>5. \A d \in Calls \ {c} : call[d].at \notin Inside
    BY <2>4, <1>d
  <2>6. Types'
    BY <2>2, <2>3, <2>4 DEF Types
  <2>7. Sound(c)'
    BY <1>c, <1>7, <2>1, <2>3, <2>4 DEF Sound, CallRecord, RenamesFile, InCall, Write
  <2>8. ASSUME NEW d \in Calls \ {c} PROVE Sound(d)'
    <3>1. Sound(d) /\ call'[d] = call[d] /\ call[d].at \notin Inside
      BY <2>2, <2>5 DEF IInv
    <3> QED
      BY <2>3, <3>1 DEF Sound, Inside, Write
  <2> QED
    BY <2>6, <2>7, <2>8 DEF IInv
<1>8. CASE Closes(c)
  <2>1. \E a \in {"done", "failed"} :
           call'[c] = [call[c] EXCEPT !.at = "over", !.answer = a]
    BY <1>8, <1>t DEF Closes, Answer, CallRecord
  <2>2. call' \in [Calls -> CallRecord] /\ \A d \in Calls \ {c} : call'[d] = call[d]
    BY <1>8, <1>t, <1>c, <2>1 DEF Closes, Answer, CallRecord, Position
  <2>3. holder = c /\ holder' = Nobody
    BY <1>8, <1>c DEF Closes, Closing, Inside, GivesUpLease, Sound
  <2>4. \A d \in Calls \ {c} : call[d].at \notin Inside
    BY <2>3, <1>d
  <2>5. Sound(c)'
    BY <1>8, <1>c, <1>w, <2>1, <2>2, <2>3, <2>4
    DEF Closes, CallRecord, Position, Inside, Write, Sound
  <2> QED
    BY <1>8, <1>d, <1>t, <2>1, <2>2, <2>3, <2>4, <2>5, QuietStep DEF Closes
<1>9. CASE Throws(c)
  <2>1. \/ call'[c] = [call[c] EXCEPT !.at = "throwing"] /\ holder = c
        \/ call'[c] = [call[c] EXCEPT !.at = "over", !.answer = "failed"] /\ holder # c
    BY <1>9, <1>t DEF Throws, Goes, Answer, CallRecord
  <2>2. call' \in [Calls -> CallRecord] /\ \A d \in Calls \ {c} : call'[d] = call[d]
    BY <1>9, <1>t, <1>c, <2>1 DEF Throws, Goes, Answer, CallRecord, Position
  <2>3. Sound(c)'
    BY <1>9, <1>c, <1>w, <2>1, <2>2
    DEF Throws, Running, CallRecord, Position, Inside, Write, Sound
  <2> QED
    BY <1>9, <1>d, <1>t, <2>1, <2>2, <2>3, QuietStep DEF Throws
<1> QED
  BY <1>1, <1>2, <1>3, <1>4, <1>5, <1>6, <1>7, <1>8, <1>9 DEF CallStep

(* The calls of a killed process are over, whatever they were at.            *)
LEMMA KillKeepsIInv ==
  ASSUME IInv, NEW p \in Processes, ProcessKilled(p)
  PROVE  IInv'
<1> USE StoreAssumption
<1> DEFINE dead == {c \in Calls : ProcessOf[c] = p /\ Running(c)}
<1>1. /\ ledger' = ledger
      /\ holder' = IF holder \in dead THEN Nobody ELSE holder
      /\ \A c \in Calls : call'[c] = IF c \in dead
           THEN [call[c] EXCEPT !.at = "over", !.answer = "killed"] ELSE call[c]
  BY DEF ProcessKilled
<1>2. Types'
  <2>1. \A c \in Calls : [call[c] EXCEPT !.at = "over", !.answer = "killed"] \in CallRecord
    BY DEF IInv, Types, CallRecord, Position
  <2>2. call' \in [Calls -> CallRecord]
    BY <2>1 DEF IInv, Types, ProcessKilled
  <2> QED
    BY <1>1, <2>2 DEF IInv, Types
<1>3. Written' = Written
  BY <1>1 DEF Written
<1>4. ASSUME NEW c \in Calls PROVE Sound(c)'
  <2>1. Sound(c) /\ call[c] \in CallRecord
    BY DEF IInv, Types
  <2>2. CASE c \in dead
    <3>1. call'[c].at = "over" /\ call'[c].answer = "killed"
      BY <1>1, <2>1, <2>2 DEF CallRecord
    <3> QED
      BY <1>3, <3>1 DEF Sound, Inside, Write
  <2>3. CASE c \notin dead
    <3>1. call'[c] = call[c]
      BY <1>1, <2>3
    <3>2. holder = c => holder' = c
      BY <1>1, <2>3
    <3> QED
      BY <1>1, <1>3, <2>1, <3>1, <3>2 DEF Sound
  <2> QED
    BY <2>2, <2>3
<1> QED
  BY <1>2, <1>4 DEF IInv

(* An installer touches nothing of the store's.                              *)
LEMMA IdleKeepsIInv ==
  ASSUME IInv, UNCHANGED storeVars
  PROVE  IInv'
<1>1. Written' = Written
  BY DEF storeVars, Written
<1> QED
  BY <1>1 DEF storeVars, IInv, Types, Sound

THEOREM StoreInvariant == Spec => []IInv
<1>1. Init => IInv
  BY InitIInv
<1>2. IInv /\ [Next]_vars => IInv'
  <2> SUFFICES ASSUME IInv, [Next]_vars PROVE IInv'
    OBVIOUS
  <2>1. CASE \E c \in Calls : CallStep(c) \/ Throws(c)
    BY <2>1, CallKeepsIInv
  <2>2. CASE \E p \in Processes : ProcessKilled(p)
    BY <2>2, KillKeepsIInv
  <2>3. CASE UNCHANGED storeVars
    BY <2>3, IdleKeepsIInv
  <2> QED
    BY <2>1, <2>2, <2>3 DEF Next, vars
<1> QED
  BY <1>1, <1>2, PTL DEF Spec

(* What the answers become when one call's does, or none.                    *)
LEMMA AnswersStep ==
  ASSUME NEW c \in Calls, call \in [Calls -> CallRecord],
         NEW a, call' = [call EXCEPT ![c] = call'[c]], call'[c].answer = a
  PROVE  answers' = [answers EXCEPT ![c] = a]
<1>1. \A d \in Calls : call'[d].answer = IF d = c THEN a ELSE call[d].answer
  OBVIOUS
<1> QED
  BY <1>1 DEF answers

(* A call's step is a step of the atomic store, or none: the rename takes     *)
(* effect, the end answers, and all else is inside the call.                  *)
LEMMA CallIsAtomic ==
  ASSUME IInv, NEW c \in Calls, CallStep(c) \/ Throws(c)
  PROVE  \/ Atomic!TakesEffect(c)
         \/ Atomic!Answers(c)
         \/ UNCHANGED <<ledger, answers>>
<1>t. call \in [Calls -> CallRecord] /\ Sound(c) /\ call[c] \in CallRecord
  BY DEF IInv, Types
<1>a. answers[c] = call[c].answer /\ Atomic!Effective = Written
  BY DEF answers, Atomic!Effective, Written
<1>1. ASSUME NEW a \in {"done", "failed"},
             Answer(c, a), ledger' = ledger, Running(c), a = "done" => c \in Written
      PROVE  Atomic!Answers(c)
  <2>1. call' = [call EXCEPT ![c] = call'[c]] /\ call'[c].answer = a
    BY <1>1, <1>t DEF Answer, CallRecord
  <2>2. answers' = [answers EXCEPT ![c] = a]
    BY <2>1, <1>t, AnswersStep
  <2>3. answers[c] = "open"
    BY <1>1, <1>t, <1>a DEF Sound, Running
  <2> QED
    BY <1>1, <1>a, <2>2, <2>3 DEF Atomic!Answers
<1>2. ASSUME call' = [call EXCEPT ![c] = call'[c]], call'[c].answer = call[c].answer
      PROVE  UNCHANGED answers
  <2>1. \A d \in Calls : call'[d].answer = call[d].answer
    BY <1>2, <1>t
  <2> QED
    BY <2>1 DEF answers
<1>3. CASE ValidatesBefore(c) \/ FindsBusy(c) \/ Revalidates(c) \/ Throws(c)
  <2>1. ledger' = ledger /\ Running(c)
    BY <1>3 DEF ValidatesBefore, FindsBusy, Revalidates, Throws, InCall, Running
  <2>2. \/ Answer(c, "failed")
        \/ call' = [call EXCEPT ![c] = call'[c]] /\ call'[c].answer = call[c].answer
    <3>1. CASE Goes(c, "gate") \/ Goes(c, "read") \/ Goes(c, "throwing")
      BY <3>1, <1>t DEF Goes, CallRecord
    <3>2. CASE call' = [call EXCEPT ![c].at = "start", ![c].polls = @ + 1]
      BY <3>2, <1>t DEF CallRecord
    <3> QED
      BY <1>3, <3>1, <3>2 DEF ValidatesBefore, FindsBusy, Revalidates, Throws
  <2> QED
    BY <1>1, <1>2, <2>1, <2>2
<1>4. CASE LocksGate(c) \/ Reads(c) \/ WritesFile(c)
  <2>1. call' = [call EXCEPT ![c] = call'[c]] /\ call'[c].answer = call[c].answer
    <3>1. CASE Goes(c, "revalidate") \/ Goes(c, "rename")
      BY <3>1, <1>t DEF Goes, CallRecord
    <3>2. CASE Reads(c)
      <4>1. call'[c] = [call[c] EXCEPT !.at = "temporary", !.seen = ledger]
        BY <3>2, <1>t DEF Reads, CallRecord
      <4>2. call' = [call EXCEPT ![c] = call'[c]]
        BY <3>2, <1>t DEF Reads
      <4> QED
        BY <4>1, <4>2, <1>t DEF CallRecord
    <3> QED
      BY <1>4, <3>1, <3>2 DEF LocksGate, WritesFile
  <2> QED
    BY <1>2, <1>4, <2>1 DEF LocksGate, Reads, WritesFile
<1>5. CASE RenamesFile(c)
  <2>1. ledger' = Append(ledger, c) /\ c \notin Written /\ answers[c] = "open"
    BY <1>5, <1>t, <1>a DEF RenamesFile, InCall, Sound, Write
  <2>2. call' = [call EXCEPT ![c] = call'[c]] /\ call'[c].answer = call[c].answer
    BY <1>5, <1>t DEF RenamesFile, Goes, CallRecord
  <2> QED
    BY <1>2, <1>a, <2>1, <2>2 DEF Atomic!TakesEffect
<1>6. CASE Closes(c)
  <2>1. ledger' = ledger /\ Running(c)
    BY <1>6 DEF Closes, Closing, Running
  <2>2. \E a \in {"done", "failed"} : Answer(c, a) /\ (a = "done" => c \in Written)
    BY <1>6, <1>t DEF Closes, InCall, Sound
  <2> QED
    BY <1>1, <2>1, <2>2
<1> QED
  BY <1>3, <1>4, <1>5, <1>6 DEF CallStep

(* A kill is one of the atomic store's.                                      *)
LEMMA KillIsAtomic ==
  ASSUME IInv, NEW p \in Processes, ProcessKilled(p)
  PROVE  Atomic!Dies({c \in Calls : ProcessOf[c] = p})
<1>1. \A c \in Calls : /\ call[c] \in CallRecord
                       /\ (answers[c] = "open") <=> Running(c)
  BY DEF IInv, Types, Sound, Running, answers
<1>2. \A c \in Calls : call'[c].answer =
         IF ProcessOf[c] = p /\ Running(c) THEN "killed" ELSE call[c].answer
  BY <1>1 DEF ProcessKilled, CallRecord
<1>3. answers' = [c \in Calls |-> IF c \in {d \in Calls : ProcessOf[d] = p} /\ answers[c] = "open"
                                   THEN "killed" ELSE answers[c]]
  BY <1>1, <1>2 DEF answers
<1> QED
  BY <1>3 DEF Atomic!Dies, ProcessKilled

(* The detailed store implements the atomic one: for any number of calls in   *)
(* any processes, with installers at work and any faults, a transaction is    *)
(* one step (runExclusiveTransaction).                                        *)
THEOREM StoreIsAtomic == Spec => ImplementsAtomicStore
<1>1. Init => Atomic!Init
  <2> SUFFICES ASSUME Init PROVE Atomic!Init
    OBVIOUS
  <2>1. answers = [c \in Calls |-> "open"]
    BY DEF Init, StoreInit, answers
  <2> QED
    BY <2>1 DEF Init, StoreInit, Atomic!Init
<1>2. IInv /\ [Next]_vars => [Atomic!Next]_<<ledger, answers>>
  <2> SUFFICES ASSUME IInv, [Next]_vars PROVE [Atomic!Next]_<<ledger, answers>>
    OBVIOUS
  <2>1. CASE \E c \in Calls : CallStep(c) \/ Throws(c)
    BY <2>1, CallIsAtomic DEF Atomic!Next
  <2>2. CASE \E p \in Processes : ProcessKilled(p)
    <3>1. PICK p \in Processes : ProcessKilled(p)
      BY <2>2
    <3>2. Atomic!Dies({c \in Calls : ProcessOf[c] = p})
      BY <3>1, KillIsAtomic
    <3> QED
      BY <3>2 DEF Atomic!Next
  <2>3. CASE UNCHANGED storeVars
    BY <2>3 DEF storeVars, answers
  <2> QED
    BY <2>1, <2>2, <2>3 DEF Next, vars
<1> QED
  BY <1>1, <1>2, StoreInvariant, PTL DEF Spec, ImplementsAtomicStore, Atomic!Spec

-----------------------------------------------------------------------------
(* The catalogue of locks.  Only the installer with the flock of the state      *)
(* directory is at work, and before it writes one of the two files that file    *)
(* is not there.                                                            *)
Aside == {"lock", "busy", "refused", "failed", "killed", "done"}
Stations == Aside \union {"classify", "tombstones", "contents", "pairs", "manifest", "digest",
                         "validate"}

Unwritten(where) ==
  /\ where \in {"pairs", "manifest"} => "manifest" \notin catalog
  /\ where \in {"pairs", "manifest", "digest"} => "digest" \notin catalog

CatalogInv ==
  /\ inst \in [Installers -> [at : Stations, missing : SUBSET OldLocks]]
  /\ \A i \in Installers : inst[i].at \notin Aside => bootstrap = i /\ Unwritten(inst[i].at)

(* An installer that moves, where nobody else is at work.                     *)
LEMMA InstallerMoves ==
  ASSUME CatalogInv, NEW i \in Installers, bootstrap = i \/ bootstrap = Nobody,
         NEW s \in Stations, NEW m \in SUBSET OldLocks,
         inst' = [inst EXCEPT ![i] = [at |-> s, missing |-> m]],
         s \in Aside \/ (bootstrap' = i /\ Unwritten(s)')
  PROVE  CatalogInv'
<1>1. /\ inst' \in [Installers -> [at : Stations, missing : SUBSET OldLocks]]
      /\ inst'[i].at = s
      /\ \A j \in Installers \ {i} : inst'[j] = inst[j]
  BY DEF CatalogInv
<1>2. \A j \in Installers \ {i} : inst[j].at \in Aside
  BY CatalogAssumption DEF CatalogInv
<1>3. ASSUME NEW j \in Installers, inst'[j].at \notin Aside
      PROVE  bootstrap' = j /\ Unwritten(inst[j].at)'
  <2>1. j = i
    BY <1>1, <1>2, <1>3
  <2> QED BY <1>1, <1>3, <2>1 DEF Unwritten
<1> QED
  BY <1>1, <1>3 DEF CatalogInv

(* The same, of the place alone.                                             *)
LEMMA InstallerGoes ==
  ASSUME CatalogInv, NEW i \in Installers, bootstrap = i \/ bootstrap = Nobody,
         NEW s \in Stations, inst' = [inst EXCEPT ![i].at = s],
         s \in Aside \/ (bootstrap' = i /\ Unwritten(s)')
  PROVE  CatalogInv'
<1>1. PICK at \in Stations, m \in SUBSET OldLocks : inst[i] = [at |-> at, missing |-> m]
  BY DEF CatalogInv
<1>2. [inst[i] EXCEPT !.at = s] = [at |-> s, missing |-> m]
  BY <1>1
<1>3. inst' = [inst EXCEPT ![i] = [at |-> s, missing |-> m]]
  BY <1>2
<1> QED
  BY <1>3, InstallerMoves

LEMMA InstallerKeepsCatalog ==
  ASSUME CatalogInv, NEW i \in Installers, InstallerStep(i)
  PROVE  CatalogInv' /\ (Exact => Exact')
<1>0. /\ inst[i] \in [at : Stations, missing : SUBSET OldLocks]
      /\ AtWork(i) => bootstrap = i /\ Unwritten(inst[i].at)
  BY DEF CatalogInv, AtWork, Aside
<1>1. CASE LocksState(i)
  <2>1. Exact => Exact'
    BY <1>1 DEF LocksState, Exact, Buried, Paired
  <2>2. CASE LockFree(i)
    <3> QED BY <1>1, <2>1, <2>2, InstallerGoes DEF Stations, Aside, LocksState, LockFree, Moves, Unwritten
  <2>3. CASE ~LockFree(i)
    <3>1. inst' = [inst EXCEPT ![i].at = "busy"] /\ UNCHANGED <<bootstrap, catalog>>
      BY <1>1, <2>3 DEF LocksState, Moves
    <3>2. /\ inst' \in [Installers -> [at : Stations, missing : SUBSET OldLocks]]
          /\ \A j \in Installers \ {i} : inst'[j] = inst[j]
          /\ inst'[i].at = "busy"
      BY <3>1 DEF CatalogInv, Stations, Aside
    <3>3. CatalogInv'
      BY <3>1, <3>2 DEF CatalogInv, Stations, Aside, Unwritten
    <3> QED BY <2>1, <3>3
  <2> QED BY <2>2, <2>3
<1>2. CASE Classifies(i)
  <2>1. Exact => Exact'
    BY <1>2 DEF Classifies, Exact, Buried, Paired
  <2> DEFINE M == {old \in OldLocks : tombstone[old] = "missing"}
  <2>2. /\ AtWork(i) /\ bootstrap' = bootstrap
        /\ inst' = [inst EXCEPT ![i] = [at |-> "tombstones", missing |-> M]]
    BY <1>2 DEF Classifies, At, AtWork
  <2>4. M \in SUBSET OldLocks
    OBVIOUS
  <2> HIDE DEF M
  <2> QED BY <1>0, <2>1, <2>2, <2>4, InstallerMoves DEF Stations, Aside, Unwritten
<1>3. ASSUME NEW s \in {"refused", "failed", "done"}, Ends(i, s), AtWork(i),
             UNCHANGED <<tombstone, pair, catalog>>
      PROVE  CatalogInv' /\ (Exact => Exact')
  <2>1. Exact => Exact'
    BY <1>3 DEF Ends, Exact, Buried, Paired
  <2> QED BY <1>0, <1>3, <2>1, InstallerGoes DEF Stations, Aside, Ends
<1>4. CASE FindsForeign(i) \/ FindsHalf(i) \/ ValidatesCatalog(i) \/ InstallerFails(i)
  BY <1>3, <1>4 DEF FindsForeign, FindsHalf, ValidatesCatalog, InstallerFails, At, AtWork
<1>5. CASE OpensTombstone(i)
  <2>1. ~Exact
    BY <1>0, <1>5 DEF OpensTombstone, Exact, Buried
  <2>2. bootstrap' = bootstrap /\ AtWork(i)
    BY <1>5 DEF OpensTombstone, At, AtWork
  <2> QED BY <1>0, <1>5, <2>1, <2>2, InstallerGoes DEF Stations, Aside, OpensTombstone, Moves, Unwritten
<1>6. CASE WritesTombstone(i)
  <2>1. ~Exact
    BY <1>0, <1>6 DEF WritesTombstone, Exact, Buried
  <2>2. PICK old \in inst[i].missing :
          inst' = [inst EXCEPT ![i] = [at |-> "tombstones", missing |-> @.missing \ {old}]]
    BY <1>6 DEF WritesTombstone
  <2>3. inst' = [inst EXCEPT ![i] = [at |-> "tombstones", missing |-> inst[i].missing \ {old}]]
    BY <2>2
  <2>4. bootstrap' = bootstrap /\ AtWork(i)
    BY <1>6 DEF WritesTombstone, At, AtWork
  <2>5. inst[i].missing \ {old} \in SUBSET OldLocks
    BY <1>0
  <2> QED BY <1>0, <2>1, <2>3, <2>4, <2>5, InstallerMoves DEF Stations, Aside, Unwritten
<1>7. CASE FindsCatalog(i)
  <2>1. Exact => Exact'
    BY <1>7 DEF FindsCatalog, Exact, Buried, Paired
  <2>2. bootstrap' = bootstrap /\ AtWork(i) /\ catalog' = catalog
    BY <1>7 DEF FindsCatalog, At, AtWork
  <2>3. CASE "manifest" \in catalog
    <3>1. Moves(i, "validate")
      BY <1>7, <2>3 DEF FindsCatalog
    <3> QED BY <1>0, <2>1, <2>2, <3>1, InstallerGoes DEF Stations, Aside, Moves, Unwritten
  <2>4. CASE "manifest" \notin catalog
    <3>1. Moves(i, "pairs") /\ "digest" \notin catalog
      BY <1>7, <2>4 DEF FindsCatalog
    <3> QED BY <1>0, <2>1, <2>2, <2>4, <3>1, InstallerGoes DEF Stations, Aside, Moves, Unwritten
  <2> QED BY <2>3, <2>4
<1>8. ASSUME UNCHANGED <<catalog, bootstrap, inst>> PROVE CatalogInv'
  BY <1>8 DEF CatalogInv, Unwritten
<1>9. ASSUME NEW u \in Purposes, CreatesAnchor(i, u)
      PROVE  CatalogInv' /\ (Exact => Exact')
  <2>1. ~Exact /\ AtWork(i) /\ UNCHANGED <<tombstone, catalog>>
    BY <1>9 DEF CreatesAnchor, Anchored, Exact, Paired, At, AtWork
  <2>2. CASE pair[u] = "none"
    BY <1>8, <1>9, <2>1, <2>2 DEF CreatesAnchor
  <2>3. CASE pair[u] # "none"
    BY <1>3, <1>9, <2>1, <2>3 DEF CreatesAnchor
  <2> QED BY <2>2, <2>3
<1>10. ASSUME NEW u \in Purposes, LinksGate(i, u)
       PROVE  CatalogInv' /\ (Exact => Exact')
  BY <1>8, <1>10 DEF LinksGate, Exact, Paired
<1>11. CASE PairsDone(i)
  <2>1. Exact => Exact'
    BY <1>11 DEF PairsDone, Exact, Buried, Paired
  <2>2. bootstrap' = bootstrap /\ AtWork(i) /\ catalog' = catalog /\ At(i, "pairs")
    BY <1>11 DEF PairsDone, At, AtWork
  <2> QED BY <1>0, <1>11, <2>1, <2>2, InstallerGoes DEF Stations, Aside, PairsDone, Moves, Unwritten, At
<1>12. CASE WritesTemporary(i)
  <2>1. AtWork(i)
    BY <1>12 DEF WritesTemporary, AtWork
  <2>2. ~Exact
    BY <1>0, <1>12, <2>1 DEF WritesTemporary, Exact, Unwritten
  <2> QED BY <1>8, <1>12, <2>2 DEF WritesTemporary
<1>13. CASE RenamesTemporary(i)
  <2>1. AtWork(i) /\ ~Exact /\ UNCHANGED <<tombstone, pair>>
    BY <1>13 DEF RenamesTemporary, AtWork, Exact
  <2>2. CASE inst[i].at \in catalog
    BY <1>3, <1>13, <2>1, <2>2 DEF RenamesTemporary
  <2>3. CASE inst[i].at \notin catalog /\ At(i, "manifest")
    <3>1. Moves(i, "digest") /\ bootstrap' = bootstrap /\ catalog' = catalog \union {"manifest"}
      BY <1>13, <2>3 DEF RenamesTemporary, At
    <3>2. "digest" \notin catalog'
      BY <1>0, <2>1, <2>3, <3>1 DEF At, Unwritten
    <3> QED BY <1>0, <2>1, <3>1, <3>2, InstallerGoes DEF Stations, Aside, Moves, Unwritten
  <2>4. CASE inst[i].at \notin catalog /\ ~At(i, "manifest")
    <3>1. Moves(i, "validate") /\ bootstrap' = bootstrap
      BY <1>13, <2>4 DEF RenamesTemporary, At
    <3> QED BY <1>0, <2>1, <3>1, InstallerGoes DEF Stations, Aside, Moves, Unwritten
  <2> QED BY <2>2, <2>3, <2>4
<1>14. CASE InstallerKilled(i)
  <2>1. Exact => Exact'
    BY <1>14 DEF InstallerKilled, Exact, Buried, Paired
  <2>2. Moves(i, "killed") /\ AtWork(i)
    BY <1>14 DEF InstallerKilled
  <2> QED BY <1>0, <2>1, <2>2, InstallerGoes DEF Stations, Aside, Moves
<1> QED
  BY <1>1, <1>2, <1>4, <1>5, <1>6, <1>7, <1>9, <1>10, <1>11, <1>12, <1>13, <1>14
     DEF InstallerStep

(* Once the catalogue of a data root is exact it is for ever, whatever           *)
(* installers come later, fail, or are killed (kernel-lock.ts).                 *)
THEOREM CatalogStays == Spec => CatalogIsForever
<1>1. Init => CatalogInv
  BY DEF Init, CatalogInit, CatalogInv, Stations, Aside
<1>2. CatalogInv /\ [Next]_vars => CatalogInv' /\ (Exact => Exact')
  <2> SUFFICES ASSUME CatalogInv, [Next]_vars PROVE CatalogInv' /\ (Exact => Exact')
    OBVIOUS
  <2>1. ASSUME UNCHANGED <<tombstone, pair, catalog, temporary, bootstrap, inst>>
        PROVE  CatalogInv' /\ (Exact => Exact')
    BY <2>1 DEF CatalogInv, Unwritten, Exact, Buried, Paired
  <2>2. ASSUME NEW c \in Calls, CallStep(c) \/ Throws(c)
        PROVE  CatalogInv' /\ (Exact => Exact')
    BY <2>1, <2>2 DEF CallStep, Throws, ValidatesBefore, LocksGate, FindsBusy, Revalidates, Reads,
         WritesFile, RenamesFile, Closes, catalogVars
  <2>3. ASSUME NEW p \in Processes, ProcessKilled(p)
        PROVE  CatalogInv' /\ (Exact => Exact')
    BY <2>1, <2>3 DEF ProcessKilled
  <2>4. CASE UNCHANGED vars
    BY <2>1, <2>4 DEF vars, catalogVars
  <2> QED BY <2>2, <2>3, <2>4, InstallerKeepsCatalog DEF Next
<1> QED
  BY <1>1, <1>2, PTL DEF Spec, CatalogIsForever

-----------------------------------------------------------------------------
(* The operations of a runtime.  Whoever is at work stands in a queue, but    *)
(* for a parent operation nested in a child that waits for it.               *)
Listed(queue, o) == \E i \in DOMAIN queue : queue[i] = o

Places == {"idle", "queued", "body", "waiting", "proving", "settled"}

CoordinatorTypes ==
  /\ inner \in Plans
  /\ pc \in [Ops -> Places]
  /\ result \in [Ops -> {"none", "value", "closed", "lost"}]
  /\ context \in [Ops -> [parent : Ops \union {None}, child : Ops \union {None}]]
  /\ parentQueue \in Seq(Parents) /\ childQueue \in Seq(Children)
  /\ closing \in BOOLEAN /\ owned \in BOOLEAN
  /\ lease \in {"held", "released"}

\* A child waits in its body until the parent operation it called has settled.
Awaited(o) == \E k \in Children : inner[k] = o /\ pc[k] = "waiting"

Placed(o) ==
  /\ o \in Children => /\ pc[o] # "proving"
                       /\ pc[o] \in {"queued", "body", "waiting"} => Listed(childQueue, o)
  /\ o \in Parents =>
       /\ pc[o] \in {"queued", "proving"} => ~Nested(o)
       /\ pc[o] \in {"queued", "body", "waiting", "proving"} =>
            IF Nested(o) THEN Awaited(o) ELSE Listed(parentQueue, o)
  /\ pc[o] \in {"idle", "queued"} => result[o] = "none"

CoordinatorInv ==
  /\ CoordinatorTypes
  /\ \A o \in Ops : Placed(o)
  /\ lease = "released" => closing /\ Drained

-----------------------------------------------------------------------------
LEMMA CallIsOfOne ==
  ASSUME inner \in Plans, NEW k \in Ops, inner[k] # None
  PROVE  /\ inner[k] \in Ops /\ Caller(inner[k]) = {k}
         /\ inner[k] \in Parents <=> k \in Children
<1>1. inner \in [Ops -> Ops \union {None}]
  BY CoordinatorAssumption DEF CoordinatorAssumption
<1>2. inner[k] \in Ops /\ (inner[k] \in Parents <=> k \in Children)
  BY <1>1, CoordinatorAssumption DEF CoordinatorAssumption, Children
<1>3. \A j \in Ops : inner[j] = inner[k] => j = k
  BY CoordinatorAssumption DEF CoordinatorAssumption
<1> QED BY <1>2, <1>3 DEF Caller

LEMMA CalledInTyped ==
  ASSUME CoordinatorTypes, NEW o \in Ops
  PROVE  /\ CalledIn(o) \in [parent : Ops \union {None}, child : Ops \union {None}]
         /\ Caller(o) = {} => CalledIn(o) = NoContext
<1>1. CASE Caller(o) = {}
  BY <1>1 DEF CalledIn, NoContext
<1>2. CASE Caller(o) # {}
  <2>1. (CHOOSE k \in Caller(o) : TRUE) \in Caller(o)
    BY <1>2
  <2>2. (CHOOSE k \in Caller(o) : TRUE) \in Ops
    BY <2>1 DEF Caller
  <2> QED BY <1>2, <2>2 DEF CalledIn, CoordinatorTypes
<1> QED BY <1>1, <1>2

\* The queues: what was listed stays, but for the one that settles.
LEMMA ListedWithout ==
  ASSUME NEW S, NEW queue \in Seq(S), NEW o, NEW other, other # o, Listed(queue, other)
  PROVE  Listed(Without(queue, o), other)
<1>1. PICK i \in DOMAIN queue : queue[i] = other
  BY DEF Listed
<1>2. CASE queue # <<>> /\ Head(queue) = o
  <2>1. i # 1 /\ i \in 1 .. Len(queue)
    BY <1>1, <1>2
  <2>2. i - 1 \in DOMAIN Tail(queue) /\ Tail(queue)[i - 1] = other
    BY <1>1, <1>2, <2>1
  <2> QED BY <1>2, <2>2 DEF Listed, Without
<1>3. CASE ~(queue # <<>> /\ Head(queue) = o)
  BY <1>3 DEF Without
<1> QED BY <1>2, <1>3

LEMMA WithoutTyped ==
  ASSUME NEW S, NEW queue \in Seq(S), NEW o
  PROVE  Without(queue, o) \in Seq(S) /\ (queue = <<>> => Without(queue, o) = <<>>)
BY DEF Without

LEMMA ListedAppended ==
  ASSUME NEW S, NEW queue \in Seq(S), NEW o \in S
  PROVE  /\ Append(queue, o) \in Seq(S) /\ Listed(Append(queue, o), o)
         /\ \A other : Listed(queue, other) => Listed(Append(queue, o), other)
<1>1. Append(queue, o)[Len(queue) + 1] = o /\ Len(queue) + 1 \in DOMAIN Append(queue, o)
  BY AppendProperties
<1>2. \A i \in DOMAIN queue : i \in DOMAIN Append(queue, o) /\ Append(queue, o)[i] = queue[i]
  BY AppendProperties
<1> QED BY <1>1, <1>2 DEF Listed

\* An operation settles, and has nobody in its body any more.
LEMMA SettleKeeps ==
  ASSUME CoordinatorInv, NEW o \in Ops, NEW how \in {"value", "closed", "lost"}, Settle(o, how),
         UNCHANGED <<inner, context, closing, lease, owned>>,
         \A x \in Ops : inner[o] = x /\ pc[o] = "waiting" => pc[x] = "settled"
  PROVE  CoordinatorInv'
<1>1. CoordinatorTypes
  BY DEF CoordinatorInv
<1>2. /\ pc' = [pc EXCEPT ![o] = "settled"] /\ result' = [result EXCEPT ![o] = how]
      /\ parentQueue' = Without(parentQueue, o) /\ childQueue' = Without(childQueue, o)
  BY DEF Settle
<1>3. CoordinatorTypes'
  <2>1. parentQueue' \in Seq(Parents) /\ childQueue' \in Seq(Children)
    BY <1>1, <1>2, WithoutTyped DEF CoordinatorTypes
  <2> QED BY <1>1, <1>2, <2>1 DEF CoordinatorTypes, Places
<1>4. ASSUME NEW x \in Ops PROVE Placed(x)'
  <2>1. CASE x = o
    BY <1>1, <1>2, <2>1 DEF Placed, CoordinatorTypes
  <2>2. CASE x # o
    <3>1. pc'[x] = pc[x] /\ result'[x] = result[x] /\ Nested(x)' = Nested(x) /\ Placed(x)
      BY <1>1, <1>2, <2>2 DEF CoordinatorTypes, Nested, CoordinatorInv
    <3>2. Listed(parentQueue, x) => Listed(parentQueue, x)'
      BY <1>1, <1>2, <2>2, ListedWithout DEF CoordinatorTypes
    <3>3. Listed(childQueue, x) => Listed(childQueue, x)'
      BY <1>1, <1>2, <2>2, ListedWithout DEF CoordinatorTypes
    <3>4. pc[x] # "settled" /\ Awaited(x) => Awaited(x)'
      BY <1>1, <1>2, <2>2 DEF CoordinatorTypes, Awaited, Children
    <3> QED BY <3>1, <3>2, <3>3, <3>4 DEF Placed
  <2> QED BY <2>1, <2>2
<1>5. lease' = "released" => closing' /\ Drained'
  <2>1. lease = "released" => parentQueue = <<>> /\ childQueue = <<>> /\ closing
    BY DEF CoordinatorInv, Drained
  <2> QED BY <1>1, <1>2, <2>1, WithoutTyped DEF CoordinatorTypes, Drained
<1> QED BY <1>3, <1>4, <1>5 DEF CoordinatorInv

\* An operation goes on where it is listed.
LEMMA MoveKeeps ==
  ASSUME CoordinatorInv, NEW o \in Ops, NEW place \in {"body", "proving"},
         pc' = [pc EXCEPT ![o] = place],
         UNCHANGED <<inner, result, context, parentQueue, childQueue, closing, lease, owned>>,
         pc[o] \in {"queued", "body", "waiting"},
         place = "proving" => o \in Parents /\ ~Nested(o),
         \A x \in Ops : inner[o] = x /\ pc[o] = "waiting" => pc[x] = "settled"
  PROVE  CoordinatorInv'
<1>1. CoordinatorTypes
  BY DEF CoordinatorInv
<1>2. CoordinatorTypes'
  BY <1>1 DEF CoordinatorTypes, Places
<1>3. ASSUME NEW x \in Ops PROVE Placed(x)'
  <2>1. /\ Nested(x)' = Nested(x) /\ Placed(x) /\ result'[x] = result[x]
        /\ Listed(parentQueue, x)' = Listed(parentQueue, x)
        /\ Listed(childQueue, x)' = Listed(childQueue, x)
    BY DEF Nested, CoordinatorInv, Listed
  <2>2. pc[x] # "settled" /\ Awaited(x) => Awaited(x)'
    BY <1>1 DEF CoordinatorTypes, Awaited, Children
  <2>3. x # o => pc'[x] = pc[x]
    BY <1>1 DEF CoordinatorTypes
  <2>4. pc'[o] = place
    BY <1>1 DEF CoordinatorTypes
  <2> QED BY <2>1, <2>2, <2>3, <2>4 DEF Placed, Children
<1>4. lease' = "released" => closing' /\ Drained'
  BY DEF CoordinatorInv, Drained
<1> QED BY <1>2, <1>3, <1>4 DEF CoordinatorInv

\* A call: refused, queued, or run inside the child that waits for it.
LEMMA RequestKeeps ==
  ASSUME CoordinatorInv, NEW o \in Ops, NEW waiting, Requested(o, waiting),
         \/ waiting = pc /\ Caller(o) = {}
         \/ \E k \in Ops : /\ inner[k] = o /\ pc[k] = "body" /\ Caller(o) = {k}
                           /\ o \in Parents <=> k \in Children
                           /\ waiting = [pc EXCEPT ![k] = "waiting"]
  PROVE  CoordinatorInv'
<1>1. CoordinatorTypes
  BY DEF CoordinatorInv
<1>2. pc[o] = "idle" /\ UNCHANGED <<inner, closing, lease, owned>>
  BY DEF Requested
<1>3. waiting \in [Ops -> Places]
  BY <1>1 DEF CoordinatorTypes, Places
<1>4. PICK place \in {"settled", "queued", "body"} : pc' = [waiting EXCEPT ![o] = place]
  BY DEF Requested, Refuse, QueueParent, RunNested, QueueChild
<1>5. /\ pc' \in [Ops -> Places] /\ pc'[o] = place
      /\ \A x \in Ops \ {o} : \/ pc'[x] = pc[x]
                              \/ pc[x] = "body" /\ pc'[x] = "waiting"
      /\ \A x \in Ops : pc[x] = "waiting" => pc'[x] = "waiting"
  BY <1>1, <1>2, <1>3, <1>4 DEF CoordinatorTypes, Places
<1>6. \A x \in Ops : Awaited(x) => Awaited(x)'
  BY <1>2, <1>5 DEF Awaited, Children
<1>7. CalledIn(o) \in [parent : Ops \union {None}, child : Ops \union {None}]
  BY <1>1, CalledInTyped
<1>8. \A x \in Ops \ {o} : Placed(x)
  BY DEF CoordinatorInv
<1>9. ASSUME UNCHANGED <<context, parentQueue, childQueue>>, place = "settled",
             \A x \in Ops \ {o} : result'[x] = result[x],
             result' \in [Ops -> {"none", "value", "closed", "lost"}]
      PROVE  CoordinatorInv'
  <2>1. CoordinatorTypes'
    BY <1>1, <1>2, <1>5, <1>9 DEF CoordinatorTypes
  <2>2. Placed(o)'
    BY <1>5, <1>9 DEF Placed
  <2>3. \A x \in Ops \ {o} : Placed(x)'
    BY <1>5, <1>6, <1>8, <1>9 DEF Placed, Nested, Listed
  <2> QED BY <1>2, <1>9, <2>1, <2>2, <2>3 DEF CoordinatorInv, Drained
<1>10. CASE Refuse(o, waiting)
  <2>1. result' = [result EXCEPT ![o] = "closed"] /\ UNCHANGED <<context, parentQueue, childQueue>>
        /\ place = "settled"
    BY <1>3, <1>4, <1>5, <1>10 DEF Refuse
  <2> QED BY <1>1, <1>9, <2>1 DEF CoordinatorTypes
<1>11. ASSUME ~closing, UNCHANGED result,
              NEW here \in [parent : Ops \union {None}, child : Ops \union {None}],
              context' = [context EXCEPT ![o] = here],
              parentQueue' \in Seq(Parents), childQueue' \in Seq(Children),
              \A x \in Ops : /\ Listed(parentQueue, x) => Listed(parentQueue, x)'
                             /\ Listed(childQueue, x) => Listed(childQueue, x)',
              Placed(o)'
       PROVE  CoordinatorInv'
  <2>1. CoordinatorTypes'
    BY <1>1, <1>2, <1>5, <1>11 DEF CoordinatorTypes
  <2>2. \A x \in Ops \ {o} : Nested(x)' = Nested(x)
    BY <1>1, <1>11 DEF CoordinatorTypes, Nested
  <2>3. ASSUME NEW x \in Ops \ {o} PROVE Placed(x)'
    BY <1>5, <1>6, <1>8, <1>11, <2>2 DEF Placed
  <2>4. lease' # "released"
    BY <1>2, <1>11 DEF CoordinatorInv
  <2> QED BY <1>11, <2>1, <2>3, <2>4 DEF CoordinatorInv
<1>12. result[o] = "none"
  BY <1>2 DEF CoordinatorInv, Placed
<1>13. CASE QueueParent(o, waiting)
  <2>1. PICK here : here = [parent |-> o, child |-> CalledIn(o).child]
    OBVIOUS
  <2>2. /\ ~closing /\ o \in Parents /\ context' = [context EXCEPT ![o] = here]
        /\ parentQueue' = Append(parentQueue, o) /\ UNCHANGED <<result, childQueue>>
        /\ here \in [parent : Ops \union {None}, child : Ops \union {None}]
    BY <1>7, <1>13, <2>1 DEF QueueParent
  <2>3. /\ parentQueue' \in Seq(Parents) /\ Listed(parentQueue, o)'
        /\ \A x : Listed(parentQueue, x) => Listed(parentQueue, x)'
    BY <1>1, <2>2, ListedAppended DEF CoordinatorTypes
  <2>4. ~Nested(o)' /\ place = "queued"
    BY <1>1, <1>3, <1>4, <1>13, <2>1, <2>2 DEF CoordinatorTypes, Nested, QueueParent
  <2>5. Placed(o)'
    BY <1>5, <1>12, <2>2, <2>3, <2>4 DEF Placed, Children
  <2>6. \A x : Listed(childQueue, x) => Listed(childQueue, x)'
    BY <2>2 DEF Listed
  <2>7. childQueue' \in Seq(Children)
    BY <1>1, <2>2 DEF CoordinatorTypes
  <2> QED BY <1>11, <2>2, <2>3, <2>5, <2>6, <2>7
<1>14. CASE RunNested(o, waiting)
  <2>1. PICK around, here : /\ around = Enclosing(CalledIn(o))
                            /\ here = [parent |-> around, child |-> CalledIn(o).child]
    OBVIOUS
  <2>2. /\ ~closing /\ o \in Parents /\ context' = [context EXCEPT ![o] = here]
        /\ UNCHANGED <<result, parentQueue, childQueue>>
        /\ around # None /\ Active(around) /\ place = "body"
    BY <1>3, <1>4, <1>14, <2>1 DEF RunNested, Nests
  <2>3. around # o
    BY <1>2, <2>2 DEF Active
  <2>4. CalledIn(o).child # None /\ around = context[CalledIn(o).child].parent
    BY <2>1, <2>2 DEF Enclosing
  <2>5. here \in [parent : Ops \union {None}, child : Ops \union {None}]
    BY <1>1, <1>7, <2>1, <2>4 DEF CoordinatorTypes
  <2>6. Nested(o)'
    BY <1>1, <2>1, <2>2, <2>3 DEF CoordinatorTypes, Nested
  <2>7. Caller(o) # {}
    BY <1>1, <2>4, CalledInTyped DEF NoContext
  <2>8. PICK k \in Children : inner[k] = o /\ pc[k] = "body" /\ waiting = [pc EXCEPT ![k] = "waiting"]
    BY <2>2, <2>7
  <2>9. Awaited(o)'
    BY <1>1, <1>2, <1>4, <2>8 DEF CoordinatorTypes, Awaited, Children
  <2>10. Placed(o)'
    BY <1>5, <2>2, <2>6, <2>9 DEF Placed, Children
  <2>11. \A x : /\ Listed(parentQueue, x) => Listed(parentQueue, x)'
                /\ Listed(childQueue, x) => Listed(childQueue, x)'
    BY <2>2 DEF Listed
  <2>12. parentQueue' \in Seq(Parents) /\ childQueue' \in Seq(Children)
    BY <1>1, <2>2 DEF CoordinatorTypes
  <2> QED BY <1>11, <2>2, <2>5, <2>10, <2>11, <2>12
<1>15. CASE QueueChild(o, waiting)
  <2>1. PICK here : here = [parent |-> CalledIn(o).parent, child |-> o]
    OBVIOUS
  <2>2. /\ ~closing /\ o \in Children /\ context' = [context EXCEPT ![o] = here]
        /\ childQueue' = Append(childQueue, o) /\ UNCHANGED <<result, parentQueue>>
        /\ here \in [parent : Ops \union {None}, child : Ops \union {None}]
        /\ place = "queued"
    BY <1>3, <1>4, <1>7, <1>15, <2>1 DEF QueueChild
  <2>3. /\ childQueue' \in Seq(Children) /\ Listed(childQueue, o)'
        /\ \A x : Listed(childQueue, x) => Listed(childQueue, x)'
    BY <1>1, <2>2, ListedAppended DEF CoordinatorTypes
  <2>4. Placed(o)'
    BY <1>5, <1>12, <2>2, <2>3 DEF Placed, Children
  <2>5. \A x : Listed(parentQueue, x) => Listed(parentQueue, x)'
    BY <2>2 DEF Listed
  <2>6. parentQueue' \in Seq(Parents)
    BY <1>1, <2>2 DEF CoordinatorTypes
  <2> QED BY <1>11, <2>2, <2>3, <2>4, <2>5, <2>6
<1> QED BY <1>10, <1>13, <1>14, <1>15 DEF Requested

LEMMA CoordinatorBegins == CoordinatorInit => CoordinatorInv
<1> SUFFICES ASSUME CoordinatorInit PROVE CoordinatorInv
  OBVIOUS
<1>1. CoordinatorTypes
  <2>1. NoContext \in [parent : Ops \union {None}, child : Ops \union {None}]
    BY DEF NoContext
  <2>2. context \in [Ops -> [parent : Ops \union {None}, child : Ops \union {None}]]
    BY <2>1 DEF CoordinatorInit
  <2>3. parentQueue \in Seq(Parents) /\ childQueue \in Seq(Children)
    BY DEF CoordinatorInit
  <2> QED BY <2>2, <2>3 DEF CoordinatorInit, CoordinatorTypes, Places
<1>2. \A o \in Ops : Placed(o)
  BY DEF CoordinatorInit, Placed
<1> QED BY <1>1, <1>2 DEF CoordinatorInv, CoordinatorInit

LEMMA CoordinatorStep ==
  CoordinatorInv /\ [CoordinatorNext]_coordinatorVars => CoordinatorInv'
<1> SUFFICES ASSUME CoordinatorInv, [CoordinatorNext]_coordinatorVars PROVE CoordinatorInv'
  OBVIOUS
<1>1. CoordinatorTypes
  BY DEF CoordinatorInv
<1>2. ASSUME UNCHANGED <<inner, pc, result, context, parentQueue, childQueue>>,
             closing' \in BOOLEAN, owned' \in BOOLEAN, lease' \in {"held", "released"},
             lease' = "released" => closing' /\ Drained
      PROVE  CoordinatorInv'
  <2>1. CoordinatorTypes'
    BY <1>1, <1>2 DEF CoordinatorTypes
  <2>2. \A o \in Ops : Placed(o)'
    BY <1>2 DEF CoordinatorInv, Placed, Nested, Listed, Awaited
  <2> QED BY <1>2, <2>1, <2>2 DEF CoordinatorInv, Drained
<1>3. ASSUME NEW o \in Ops, CallFromOutside(o) PROVE CoordinatorInv'
  BY <1>3, RequestKeeps DEF CallFromOutside
<1>4. ASSUME NEW k \in Ops, CallFromBody(k) PROVE CoordinatorInv'
  <2>1. PICK o, waiting : o = inner[k] /\ waiting = [pc EXCEPT ![k] = "waiting"]
    OBVIOUS
  <2>2. o \in Ops /\ Caller(o) = {k} /\ (o \in Parents <=> k \in Children)
    BY <1>1, <1>4, <2>1, CallIsOfOne DEF CoordinatorTypes, CallFromBody
  <2>3. Requested(o, waiting) /\ pc[k] = "body"
    BY <1>4, <2>1 DEF CallFromBody
  <2> QED BY <2>1, <2>2, <2>3, RequestKeeps
<1>5. ASSUME NEW o \in Ops, StartChild(o) \/ StartParent(o) PROVE CoordinatorInv'
  <2>1. UNCHANGED <<inner, context, closing, lease, owned>> /\ pc[o] = "queued"
    BY <1>5 DEF StartChild, StartParent
  <2>2. CASE \E how \in {"closed", "lost"} : Settle(o, how)
    BY <2>1, <2>2, SettleKeeps
  <2>3. CASE /\ pc' = [pc EXCEPT ![o] = "body"]
             /\ UNCHANGED <<result, parentQueue, childQueue>>
    BY <2>1, <2>3, MoveKeeps
  <2> QED BY <1>5, <2>2, <2>3 DEF StartChild, StartParent
<1>6. ASSUME NEW o \in Ops, EndBody(o) PROVE CoordinatorInv'
  <2>1. UNCHANGED <<inner, context, closing, lease, owned>> /\ pc[o] \in {"body", "waiting"}
    BY <1>6 DEF EndBody, Active
  <2>2. \A x \in Ops : inner[o] = x => pc[x] = "settled"
    BY <1>6, CoordinatorAssumption DEF EndBody, CoordinatorAssumption
  <2>3. CASE o \in Parents /\ ~Nested(o) /\ Accepted(o)
    <3>1. pc' = [pc EXCEPT ![o] = "proving"] /\ UNCHANGED <<result, parentQueue, childQueue>>
      BY <1>6, <2>3 DEF EndBody
    <3> QED BY <2>1, <2>2, <2>3, <3>1, MoveKeeps
  <2>4. CASE ~(o \in Parents /\ ~Nested(o) /\ Accepted(o))
    <3>1. PICK how \in {"value", "closed"} : Settle(o, how)
      BY <1>6, <2>4 DEF EndBody
    <3> QED BY <2>1, <2>2, <3>1, SettleKeeps
  <2> QED BY <2>3, <2>4
<1>7. ASSUME NEW o \in Ops, Prove(o) PROVE CoordinatorInv'
  <2>1. PICK how \in {"value", "lost"} : Settle(o, how)
    BY <1>7 DEF Prove
  <2> QED BY <1>7, <2>1, SettleKeeps DEF Prove
<1>8. CASE LoseGate
  BY <1>2, <1>8 DEF LoseGate, CoordinatorInv, CoordinatorTypes
<1>9. CASE Close
  BY <1>2, <1>9 DEF Close, CoordinatorInv, CoordinatorTypes
<1>10. CASE Release
  BY <1>2, <1>10 DEF Release, CoordinatorInv, CoordinatorTypes
<1>11. CASE UNCHANGED coordinatorVars
  BY <1>1, <1>2, <1>11 DEF coordinatorVars, CoordinatorInv, CoordinatorTypes
<1> QED
  BY <1>3, <1>4, <1>5, <1>6, <1>7, <1>8, <1>9, <1>10, <1>11 DEF CoordinatorNext, Done

LEMMA CoordinatorHolds == CoordinatorSpec => []CoordinatorInv
BY CoordinatorBegins, CoordinatorStep, PTL DEF CoordinatorSpec

(* No operation of a runtime is at work once its kernel lease is given back   *)
(* (runExclusive and close of LiveOperationCoordinator, drainOnClose): for     *)
(* any operations, any plan of who calls whom and any queue lengths, whoever   *)
(* is at work stands in one of the two queues the close waits for, or is        *)
(* awaited by one that does.                                                *)
THEOREM CoordinatorLeaseCoversWork == CoordinatorSpec => []LeaseCoversWork
<1>1. CoordinatorInv => LeaseCoversWork
  <2> SUFFICES ASSUME CoordinatorInv, lease = "released", NEW o \in Ops
               PROVE  pc[o] \notin {"queued", "body", "waiting", "proving"}
    BY DEF LeaseCoversWork
  <2>1. \A x : ~Listed(parentQueue, x) /\ ~Listed(childQueue, x)
    BY DEF CoordinatorInv, Drained, Listed
  <2>2. \A x \in Children : pc[x] \notin {"queued", "body", "waiting", "proving"}
    BY <2>1 DEF CoordinatorInv, Placed, Children
  <2>3. \A x \in Parents : x \in Ops /\ ~Awaited(x)
    BY <2>2, CoordinatorAssumption DEF Awaited, CoordinatorAssumption
  <2>4. \A x \in Parents : pc[x] \notin {"queued", "body", "waiting", "proving"}
    BY <2>1, <2>3 DEF CoordinatorInv, Placed
  <2> QED BY <2>2, <2>4 DEF Children
<1> QED BY <1>1, CoordinatorHolds, PTL

\* What a child started is not accepted after the close.
LEMMA ChildIsRefused ==
  ASSUME CoordinatorInv, NEW o \in Ops, closing, pc[o] = "queued", context[o].child # None
  PROVE  /\ result[o] = "none" /\ ~Accepted(o)
<1>1. Placed(o)
  BY DEF CoordinatorInv
<1>2. o \in Parents => context[o].parent = o
  BY <1>1 DEF Placed, Nested
<1> QED BY <1>1, <1>2 DEF Placed, Accepted, DrainsOnClose

(* Work a child started is fenced by the close (assertCurrent of the fence,   *)
(* drainOnClose): for any operations and plans, a queued operation with a      *)
(* child in its context neither begins nor ends with a value once closing.    *)
THEOREM CoordinatorFencesStale == CoordinatorSpec => StaleIsFenced
<1>1. ASSUME CoordinatorInv, [CoordinatorNext]_coordinatorVars, NEW o \in Ops, closing,
             pc[o] = "queued", context[o].child # None
      PROVE  pc'[o] \in {"queued", "settled"} /\ result'[o] # "value"
  <2>1. CoordinatorTypes /\ result[o] = "none" /\ ~Accepted(o)
    BY <1>1, ChildIsRefused DEF CoordinatorInv
  <2>2. ASSUME pc'[o] = pc[o], result'[o] = result[o]
        PROVE  pc'[o] \in {"queued", "settled"} /\ result'[o] # "value"
    BY <1>1, <2>1, <2>2
  <2>3. ASSUME NEW x \in Ops, NEW how, Settle(x, how), x = o => how # "value"
        PROVE  pc'[o] \in {"queued", "settled"} /\ result'[o] # "value"
    BY <1>1, <2>1, <2>3 DEF Settle, CoordinatorTypes
  <2>4. ASSUME NEW x \in Ops, NEW place, x # o, pc' = [pc EXCEPT ![x] = place], UNCHANGED result
        PROVE  pc'[o] \in {"queued", "settled"} /\ result'[o] # "value"
    BY <1>1, <2>1, <2>4 DEF CoordinatorTypes
  <2>5. ASSUME NEW x \in Ops, NEW waiting, Requested(x, waiting), waiting[o] = pc[o],
               DOMAIN waiting = Ops
        PROVE  pc'[o] \in {"queued", "settled"} /\ result'[o] # "value"
    <3>1. Refuse(x, waiting) /\ pc[x] = "idle"
      BY <1>1, <2>5 DEF Requested, QueueParent, RunNested, QueueChild
    <3>2. x # o
      BY <1>1, <3>1
    <3>3. pc' = [waiting EXCEPT ![x] = "settled"] /\ result' = [result EXCEPT ![x] = "closed"]
      BY <3>1 DEF Refuse
    <3>4. pc'[o] = pc[o] /\ result'[o] = result[o]
      BY <2>1, <2>5, <3>2, <3>3 DEF CoordinatorTypes
    <3> QED BY <2>2, <3>4
  <2>6. ASSUME NEW x \in Ops, CallFromOutside(x)
        PROVE  pc'[o] \in {"queued", "settled"} /\ result'[o] # "value"
    BY <2>1, <2>5, <2>6 DEF CallFromOutside, CoordinatorTypes
  <2>7. ASSUME NEW k \in Ops, CallFromBody(k)
        PROVE  pc'[o] \in {"queued", "settled"} /\ result'[o] # "value"
    <3>1. PICK waiting : waiting = [pc EXCEPT ![k] = "waiting"]
      OBVIOUS
    <3>2. inner[k] \in Ops
      BY <2>1, <2>7, CallIsOfOne DEF CallFromBody, CoordinatorTypes
    <3>3. Requested(inner[k], waiting) /\ pc[k] = "body"
      BY <2>7, <3>1 DEF CallFromBody
    <3>4. waiting[o] = pc[o] /\ DOMAIN waiting = Ops
      BY <1>1, <2>1, <3>1, <3>3 DEF CoordinatorTypes
    <3> QED BY <2>5, <3>2, <3>3, <3>4
  <2>8. ASSUME NEW x \in Ops, StartChild(x) \/ StartParent(x)
        PROVE  pc'[o] \in {"queued", "settled"} /\ result'[o] # "value"
    <3>1. CASE \E how \in {"closed", "lost"} : Settle(x, how)
      BY <2>3, <3>1
    <3>2. CASE ~\E how \in {"closed", "lost"} : Settle(x, how)
      <4>1. Accepted(x) /\ pc' = [pc EXCEPT ![x] = "body"] /\ UNCHANGED result
        BY <2>8, <3>2 DEF StartChild, StartParent
      <4>2. x # o
        BY <2>1, <4>1
      <4> QED BY <2>4, <4>1, <4>2
    <3> QED BY <3>1, <3>2
  <2>9. ASSUME NEW x \in Ops, EndBody(x) \/ Prove(x)
        PROVE  pc'[o] \in {"queued", "settled"} /\ result'[o] # "value"
    <3>1. x # o
      BY <1>1, <2>9 DEF EndBody, Prove, Active
    <3>2. CASE \E how : Settle(x, how)
      BY <2>3, <3>1, <3>2
    <3>3. CASE ~\E how : Settle(x, how)
      <4>1. pc' = [pc EXCEPT ![x] = "proving"] /\ UNCHANGED result
        BY <2>9, <3>3 DEF EndBody, Prove
      <4> QED BY <2>4, <3>1, <4>1
    <3> QED BY <3>2, <3>3
  <2>10. CASE LoseGate \/ Close \/ Release \/ Done \/ UNCHANGED coordinatorVars
    BY <2>2, <2>10 DEF LoseGate, Close, Release, Done, coordinatorVars
  <2> QED
    BY <1>1, <2>6, <2>7, <2>8, <2>9, <2>10 DEF CoordinatorNext
<1>2. CoordinatorInv /\ [CoordinatorNext]_coordinatorVars =>
        [\A o \in Ops : closing /\ pc[o] = "queued" /\ context[o].child # None
           => pc'[o] \in {"queued", "settled"} /\ result'[o] # "value"]_coordinatorVars
  BY <1>1
<1> QED BY <1>2, CoordinatorHolds, PTL DEF CoordinatorSpec, StaleIsFenced

=============================================================================
