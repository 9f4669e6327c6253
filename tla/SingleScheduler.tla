--------------------------- MODULE SingleScheduler ---------------------------
(***************************************************************************)
(* The durable record of the ten-minute scheduler: runtime-v2/               *)
(* single-scheduler.ts, beginScheduledTick and the completion it hands out.   *)
(*                                                                         *)
(* Every claim and every completion is one transaction under the kernel       *)
(* lease of the store, so it is one step.  Time is the index of the           *)
(* ten-minute bucket, which is also the tick key.  A claim that is refused    *)
(* throws before the transaction saves: it changes nothing, and what it had   *)
(* recovered in memory is lost.                                             *)
(***************************************************************************)
EXTENDS ScheduledCycles, FiniteSets

CONSTANTS
  CircuitFailureThreshold,
  CircuitDuration,           \* in buckets
  MaxTime                    \* bound: the last bucket

Lanes == {"p0", "p1"}

ASSUME CircuitAssumption == /\ CircuitFailureThreshold \in Nat \ {0}
                            /\ CircuitDuration \in Nat \ {0}
ASSUME MaxTimeAssumption == MaxTime \in Nat \ {0}

VARIABLES
  now,
  scheduler,   \* SingleSchedulerState
  claim,       \* per cycle, what its completion closes over: its lane and time
  misses       \* observer: per lane, the cycles claimed since the last success

schedulerVars == <<now, scheduler, claim, misses>>

Never     == 0
Idle      == [cycle |-> NoCycle, lane |-> "p1"]
Unclaimed == [lane |-> "p1", at |-> Never]

SchedulerState ==
  [lastTick : 0 .. MaxTime,
   active : [cycle : Cycles, lane : Lanes] \cup {Idle},
   failures : [Lanes -> Nat],
   openUntil : [Lanes -> Nat]]

(* settleCycleState.                                                       *)
Settled(s, lane, success, at) ==
  LET count == IF success THEN 0 ELSE s.failures[lane] + 1
  IN [s EXCEPT !.active = Idle,
               !.failures[lane] = count,
               !.openUntil[lane] =
                 IF count >= CircuitFailureThreshold THEN at + CircuitDuration ELSE Never]

(* A claim first settles, as failed, the cycle that another one left behind.  *)
Recovered ==
  IF scheduler.active = Idle THEN scheduler
  ELSE Settled(scheduler, scheduler.active.lane, FALSE, now)

CircuitOpen(s, lane) == s.openUntil[lane] > now

(* Mutant: the circuit is read before the cycle left behind is settled.     *)
MayClaimUnsettled(lane) ==
  /\ Recovered.lastTick # now
  /\ ~CircuitOpen(scheduler, lane)

MayClaim(lane) ==
  /\ Recovered.lastTick # now
  /\ ~CircuitOpen(Recovered, lane)

Claim(c, lane) ==
  /\ MayClaim(lane)
  /\ scheduler' = [Recovered EXCEPT !.lastTick = now,
                                    !.active = [cycle |-> c, lane |-> lane]]
  /\ claim' = [claim EXCEPT ![c] = [lane |-> lane, at |-> now]]
  /\ misses' = [misses EXCEPT ![lane] = @ \cup {c}]
  /\ UNCHANGED now

IsActive(c) == scheduler.active = [cycle |-> c, lane |-> claim[c].lane]

(* The completion settles its own cycle, and nothing once that one has been   *)
(* settled by somebody else.                                               *)
Complete(c, success) ==
  /\ scheduler' = IF IsActive(c) THEN Settled(scheduler, claim[c].lane, success, claim[c].at)
                  ELSE scheduler
  /\ misses' = IF IsActive(c) /\ success THEN [misses EXCEPT ![claim[c].lane] = {}]
               ELSE misses
  /\ UNCHANGED <<now, claim>>

TimePasses ==
  /\ now < MaxTime
  /\ now' = now + 1
  /\ UNCHANGED <<scheduler, claim, misses>>

SchedulerInit ==
  /\ now = 1
  /\ scheduler = [lastTick |-> Never, active |-> Idle,
                  failures |-> [l \in Lanes |-> 0], openUntil |-> [l \in Lanes |-> Never]]
  /\ claim = [c \in Cycles |-> Unclaimed]
  /\ misses = [l \in Lanes |-> {}]

(* Whatever the processes that use the record do: a cycle is claimed once,    *)
(* and completed never, late, or several times.                             *)
SchedulerNext ==
  \/ \E c \in Cycles : \/ claim[c] = Unclaimed /\ \E lane \in Lanes : Claim(c, lane)
                       \/ claim[c] # Unclaimed /\ \E success \in BOOLEAN : Complete(c, success)
  \/ TimePasses

SchedulerSpec == SchedulerInit /\ [][SchedulerNext]_schedulerVars

-----------------------------------------------------------------------------
SchedulerTypeOK ==
  /\ now \in 1 .. MaxTime
  /\ scheduler \in SchedulerState
  /\ claim \in [Cycles -> [lane : Lanes, at : 0 .. MaxTime]]
  /\ misses \in [Lanes -> SUBSET Cycles]

(* A bucket begins at most one cycle, whatever restarts, late completions and *)
(* cycles that were left behind come between.                               *)
OneCyclePerTick ==
  \A c, d \in Cycles : claim[c].at = claim[d].at /\ claim[c].at # Never => c = d

(* The durable count of a lane is the number of its cycles that were begun     *)
(* since the last one that succeeded, the one under way excepted: no cycle is  *)
(* counted twice, none is forgotten, none is counted to the other lane.       *)
FailuresAreCycles ==
  \A lane \in Lanes :
    scheduler.failures[lane] = Cardinality(misses[lane] \ {scheduler.active.cycle})

(* A lane whose last cycles all failed begins none for CircuitDuration after   *)
(* the start of the last of them.                                           *)
CircuitProtects ==
  [][\A lane \in Lanes : \A c \in misses'[lane] \ misses[lane] :
       Cardinality(misses[lane]) >= CircuitFailureThreshold =>
         \A d \in misses[lane] : claim[d].at + CircuitDuration <= now]_schedulerVars

=============================================================================
