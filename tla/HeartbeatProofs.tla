--------------------------- MODULE HeartbeatProofs ---------------------------
(***************************************************************************)
(* What the heartbeat promises, for any set of cycles, any threshold and       *)
(* duration: the scheduler's record and the terminal barrier whatever their    *)
(* users do - cycles left behind, completed late, twice or never, calls that   *)
(* throw and processes that end -, and the supervisor, which uses both.         *)
(***************************************************************************)
EXTENDS FixedHeartbeat, FiniteSetTheorems, TLAPS

-----------------------------------------------------------------------------
(* The scheduler's record.                                                  *)
(*                                                                         *)
(* The counts of the record are the cycles since the last success because a     *)
(* cycle that is active is one of them and is counted when it is settled (Counts  *)
(* and ActiveMissing).  The circuit protects because the active cycle is the       *)
(* last one that was begun (InOrder), so the end of the circuit that its            *)
(* settlement writes lies behind the start of every other one (Guarded).            *)
InOrder ==
  /\ scheduler.lastTick <= now
  /\ \A c \in Cycles : claim[c].at <= scheduler.lastTick

MissesAreClaimed ==
  \A lane \in Lanes :
    /\ IsFiniteSet(misses[lane])
    /\ \A c \in misses[lane] : claim[c].lane = lane /\ claim[c].at # Never

ActiveMissing ==
  scheduler.active # Idle =>
    /\ scheduler.active.cycle \in misses[scheduler.active.lane]
    /\ claim[scheduler.active.cycle].at = scheduler.lastTick

Counted(s, lane) == misses[lane] \ {s.active.cycle}

Counts(s) == \A lane \in Lanes : s.failures[lane] = Cardinality(Counted(s, lane))

(* While a circuit may be open its end lies CircuitDuration behind every start.   *)
Guarded(s) ==
  \A lane \in Lanes : s.failures[lane] >= CircuitFailureThreshold =>
    \A c \in Counted(s, lane) : claim[c].at + CircuitDuration <= s.openUntil[lane]

SchedulerInv ==
  /\ SchedulerTypeOK /\ InOrder /\ OneCyclePerTick /\ MissesAreClaimed /\ ActiveMissing
  /\ Counts(scheduler) /\ Guarded(scheduler)

USE NoCycleAssumption, CircuitAssumption, MaxTimeAssumption

LEMMA SchedulerInvInit == SchedulerInit => SchedulerInv
<1> SUFFICES ASSUME SchedulerInit PROVE SchedulerInv
  OBVIOUS
<1>1. SchedulerTypeOK
  BY DEF SchedulerInit, SchedulerTypeOK, SchedulerState, Idle, Unclaimed, Lanes, Never
<1>2. InOrder /\ OneCyclePerTick
  BY DEF SchedulerInit, InOrder, OneCyclePerTick, Unclaimed, Never
<1>3. \A lane \in Lanes : misses[lane] = {} /\ Counted(scheduler, lane) = {}
  BY DEF SchedulerInit, Counted
<1>4. MissesAreClaimed
  BY <1>3, FS_EmptySet DEF MissesAreClaimed
<1>5. ActiveMissing
  BY DEF SchedulerInit, ActiveMissing
<1>6. Counts(scheduler) /\ Guarded(scheduler)
  BY <1>3, FS_EmptySet DEF SchedulerInit, Counts, Guarded
<1> QED BY <1>1, <1>2, <1>4, <1>5, <1>6 DEF SchedulerInv

LEMMA StateParts ==
  ASSUME SchedulerTypeOK
  PROVE  /\ scheduler.lastTick \in 0 .. MaxTime
         /\ scheduler.active \in [cycle : Cycles, lane : Lanes] \cup {Idle}
         /\ scheduler.failures \in [Lanes -> Nat]
         /\ scheduler.openUntil \in [Lanes -> Nat]
         /\ scheduler = [lastTick |-> scheduler.lastTick, active |-> scheduler.active,
                         failures |-> scheduler.failures, openUntil |-> scheduler.openUntil]
  BY DEF SchedulerTypeOK, SchedulerState

(* What settling does to the record, part by part.                             *)
LEMMA SettledParts ==
  ASSUME SchedulerTypeOK, NEW lane \in Lanes, NEW success \in BOOLEAN, NEW at \in Nat,
         NEW t, t = Settled(scheduler, lane, success, at)
  PROVE  /\ t \in SchedulerState
         /\ t.active = Idle /\ t.lastTick = scheduler.lastTick
         /\ t.failures[lane] = IF success THEN 0 ELSE scheduler.failures[lane] + 1
         /\ t.failures[lane] >= CircuitFailureThreshold =>
              t.openUntil[lane] = at + CircuitDuration
         /\ \A l \in Lanes \ {lane} : /\ t.failures[l] = scheduler.failures[l]
                                      /\ t.openUntil[l] = scheduler.openUntil[l]
<1> DEFINE count == IF success THEN 0 ELSE scheduler.failures[lane] + 1
           until == IF count >= CircuitFailureThreshold THEN at + CircuitDuration ELSE Never
<1>1. count \in Nat /\ until \in Nat
  BY StateParts DEF Never
<1>2. t = [lastTick |-> scheduler.lastTick, active |-> Idle,
           failures |-> [scheduler.failures EXCEPT ![lane] = count],
           openUntil |-> [scheduler.openUntil EXCEPT ![lane] = until]]
  BY StateParts DEF Settled
<1> HIDE DEF count, until
<1>3. t \in SchedulerState
  BY <1>1, <1>2, StateParts DEF SchedulerState
<1>4. t.failures[lane] = count /\ t.openUntil[lane] = until
  BY <1>2, StateParts
<1>5. \A l \in Lanes \ {lane} : /\ t.failures[l] = scheduler.failures[l]
                                /\ t.openUntil[l] = scheduler.openUntil[l]
  BY <1>2, StateParts
<1> QED BY <1>2, <1>3, <1>4, <1>5 DEF count, until

(* The active cycle is settled at its start or later: its lane's count and its end   *)
(* of the circuit then speak of all the cycles missed, the others' as before.       *)
Missing(lane, success) == [misses EXCEPT ![lane] = IF success THEN {} ELSE @]

LEMMA SettledSpeaksOfAll ==
  ASSUME SchedulerInv, scheduler.active # Idle, NEW success \in BOOLEAN, NEW at \in Nat,
         scheduler.lastTick <= at,
         NEW t, t = Settled(scheduler, scheduler.active.lane, success, at),
         NEW m, m = Missing(scheduler.active.lane, success), NEW l \in Lanes
  PROVE  /\ t.failures[l] = Cardinality(m[l])
         /\ t.failures[l] >= CircuitFailureThreshold =>
              \A c \in m[l] : claim[c].at + CircuitDuration <= t.openUntil[l]
<1> DEFINE a == scheduler.active.cycle
           lane == scheduler.active.lane
<1>1. /\ lane \in Lanes /\ a \in Cycles /\ a \in misses[lane]
      /\ misses \in [Lanes -> SUBSET Cycles]
      /\ claim \in [Cycles -> [lane : Lanes, at : 0 .. MaxTime]]
  BY StateParts DEF SchedulerInv, SchedulerTypeOK, ActiveMissing, Idle
<1>2. /\ t.failures[lane] = IF success THEN 0 ELSE scheduler.failures[lane] + 1
      /\ t.failures[lane] >= CircuitFailureThreshold =>
           t.openUntil[lane] = at + CircuitDuration
      /\ \A k \in Lanes \ {lane} : /\ t.failures[k] = scheduler.failures[k]
                                   /\ t.openUntil[k] = scheduler.openUntil[k]
  BY <1>1, SettledParts DEF SchedulerInv
<1>3. scheduler.failures[l] = Cardinality(misses[l] \ {a})
  BY DEF SchedulerInv, Counts, Counted
<1>4. IsFiniteSet(misses[l]) /\ Cardinality(misses[l]) \in Nat
  BY FS_CardinalityType DEF SchedulerInv, MissesAreClaimed
<1>5. CASE l = lane
  <2>1. CASE success
    <3>1. m[l] = {}
      BY <2>1, <1>1, <1>5 DEF Missing
    <3> QED BY <3>1, <2>1, <1>2, <1>5, FS_EmptySet
  <2>2. CASE ~success
    <3>1. m[l] = misses[l]
      BY <2>2, <1>1, <1>5 DEF Missing
    <3>2. Cardinality(misses[l] \ {a}) = Cardinality(misses[l]) - 1
      BY <1>1, <1>4, <1>5, FS_RemoveElement
    <3>3. t.failures[l] = Cardinality(m[l])
      BY <2>2, <3>1, <3>2, <1>2, <1>3, <1>4, <1>5
    <3>4. scheduler.lastTick \in Nat /\ \A c \in Cycles : claim[c].at <= scheduler.lastTick
      BY StateParts, MaxTimeAssumption DEF SchedulerInv, InOrder
    <3>5. \A c \in Cycles : claim[c].at \in Nat
      BY <1>1, MaxTimeAssumption
    <3>6. m[l] \subseteq Cycles
      BY <3>1, <1>1
    <3>7. \A c \in m[l] : claim[c].at <= at /\ claim[c].at \in Nat
      <4>1. SUFFICES ASSUME NEW c \in Cycles
                     PROVE  claim[c].at <= at /\ claim[c].at \in Nat
        BY <3>6
      <4>2. claim[c].at <= scheduler.lastTick /\ claim[c].at \in Nat
        BY <3>4, <3>5
      <4> QED BY <4>2, <3>4
    <3> QED BY <3>3, <3>7, <1>2, <1>5, CircuitAssumption
  <2> QED BY <2>1, <2>2
<1>6. CASE l # lane
  <2>1. m[l] = misses[l]
    BY <1>1, <1>6 DEF Missing
  <2>2. a \notin misses[l]
    BY <1>1, <1>6 DEF SchedulerInv, MissesAreClaimed
  <2>3. misses[l] \ {a} = misses[l]
    BY <2>2
  <2> QED BY <2>1, <2>3, <1>2, <1>3, <1>6 DEF SchedulerInv, Guarded, Counted
<1> QED BY <1>5, <1>6

(* What a claim finds once the cycle left behind is settled.                     *)
LEMMA RecoveredSpeaksOfAll ==
  ASSUME SchedulerInv, NEW l \in Lanes
  PROVE  /\ Recovered.failures[l] = Cardinality(misses[l])
         /\ Recovered.failures[l] >= CircuitFailureThreshold =>
              \A c \in misses[l] : claim[c].at + CircuitDuration <= Recovered.openUntil[l]
<1>1. CASE scheduler.active = Idle
  <2>1. Counted(scheduler, l) = misses[l]
    BY <1>1 DEF SchedulerInv, SchedulerTypeOK, Counted, Idle
  <2> QED BY <1>1, <2>1 DEF SchedulerInv, Recovered, Counts, Guarded
<1>2. CASE scheduler.active # Idle
  <2> DEFINE t == Settled(scheduler, scheduler.active.lane, FALSE, now)
             m == Missing(scheduler.active.lane, FALSE)
  <2>1. now \in Nat /\ scheduler.lastTick <= now
    BY DEF SchedulerInv, SchedulerTypeOK, InOrder
  <2>2. m[l] = misses[l]
    BY DEF SchedulerInv, SchedulerTypeOK, Missing
  <2>3. Recovered = t
    BY <1>2 DEF Recovered
  <2> HIDE DEF t, m
  <2>4. /\ t.failures[l] = Cardinality(m[l])
        /\ t.failures[l] >= CircuitFailureThreshold =>
             \A c \in m[l] : claim[c].at + CircuitDuration <= t.openUntil[l]
    BY <1>2, <2>1, SettledSpeaksOfAll DEF t, m
  <2> QED BY <2>2, <2>3, <2>4
<1> QED BY <1>1, <1>2

LEMMA RecoveredTyped ==
  ASSUME SchedulerInv
  PROVE  Recovered \in SchedulerState /\ Recovered.lastTick = scheduler.lastTick
<1>1. now \in Nat
  BY DEF SchedulerInv, SchedulerTypeOK
<1>2. scheduler.active # Idle => scheduler.active.lane \in Lanes
  BY StateParts DEF SchedulerInv
<1>3. CASE scheduler.active = Idle
  BY <1>3 DEF SchedulerInv, SchedulerTypeOK, Recovered
<1>4. CASE scheduler.active # Idle
  <2>1. Recovered = Settled(scheduler, scheduler.active.lane, FALSE, now)
    BY <1>4 DEF Recovered
  <2>2. SchedulerTypeOK /\ scheduler.active.lane \in Lanes
    BY <1>2, <1>4 DEF SchedulerInv
  <2>3. \A success \in BOOLEAN, at \in Nat :
          LET t == Settled(scheduler, scheduler.active.lane, success, at)
          IN t \in SchedulerState /\ t.lastTick = scheduler.lastTick
    BY <2>2, SettledParts
  <2> QED BY <1>1, <2>1, <2>3
<1> QED BY <1>3, <1>4

LEMMA ClaimKeeps ==
  ASSUME SchedulerInv, NEW c \in Cycles, NEW lane \in Lanes, claim[c] = Unclaimed, Claim(c, lane)
  PROVE  SchedulerInv'
<1>1. /\ now \in 1 .. MaxTime /\ claim \in [Cycles -> [lane : Lanes, at : 0 .. MaxTime]]
      /\ misses \in [Lanes -> SUBSET Cycles]
  BY DEF SchedulerInv, SchedulerTypeOK
<1>2. /\ Recovered \in SchedulerState /\ Recovered.lastTick = scheduler.lastTick
      /\ scheduler.lastTick \in 0 .. MaxTime
  BY RecoveredTyped, StateParts DEF SchedulerInv
<1>3. scheduler.lastTick < now
  <2>1. scheduler.lastTick # now
    BY <1>2 DEF Claim, MayClaim
  <2> QED BY <2>1, <1>1, <1>2 DEF SchedulerInv, InOrder
<1>4. claim[c].at = 0 /\ \A l \in Lanes : c \notin misses[l]
  BY DEF SchedulerInv, MissesAreClaimed, Unclaimed, Never
<1>5. /\ scheduler'.lastTick = now /\ scheduler'.active = [cycle |-> c, lane |-> lane]
      /\ scheduler'.failures = Recovered.failures
      /\ scheduler'.openUntil = Recovered.openUntil
      /\ scheduler' \in SchedulerState
  <2>1. scheduler' = [Recovered EXCEPT !.lastTick = now,
                                       !.active = [cycle |-> c, lane |-> lane]]
    BY DEF Claim
  <2>2. PICK r \in SchedulerState : r = Recovered
    BY <1>2
  <2>3. scheduler' = [r EXCEPT !.lastTick = now, !.active = [cycle |-> c, lane |-> lane]]
    BY <2>1, <2>2
  <2>4. now \in 0 .. MaxTime /\ [cycle |-> c, lane |-> lane] \in [cycle : Cycles, lane : Lanes]
    BY <1>1
  <2>5. /\ scheduler'.lastTick = now /\ scheduler'.active = [cycle |-> c, lane |-> lane]
        /\ scheduler'.failures = r.failures /\ scheduler'.openUntil = r.openUntil
        /\ scheduler' \in SchedulerState
    BY <2>2, <2>3, <2>4 DEF SchedulerState
  <2> QED BY <2>2, <2>5
<1>6. /\ claim' \in [Cycles -> [lane : Lanes, at : 0 .. MaxTime]]
      /\ claim'[c].lane = lane /\ claim'[c].at = now
      /\ \A d \in Cycles \ {c} : claim'[d] = claim[d]
  BY <1>1 DEF Claim
<1>7. /\ misses' \in [Lanes -> SUBSET Cycles] /\ misses'[lane] = misses[lane] \cup {c}
      /\ \A l \in Lanes \ {lane} : misses'[l] = misses[l]
  BY <1>1 DEF Claim
<1>8. now' = now
  BY DEF Claim
<1>9. SchedulerTypeOK'
  BY <1>1, <1>5, <1>6, <1>7, <1>8 DEF SchedulerTypeOK, SchedulerState
<1>10. \A d \in Cycles : claim[d].at <= scheduler.lastTick /\ claim[d].at \in Nat
  BY <1>1 DEF SchedulerInv, InOrder
<1>11. InOrder'
  <2>1. \A d \in Cycles : claim'[d].at <= now
    BY <1>1, <1>2, <1>3, <1>6, <1>10
  <2> QED BY <2>1, <1>1, <1>5, <1>8 DEF InOrder
<1>12. OneCyclePerTick'
  <2> SUFFICES ASSUME NEW d \in Cycles, NEW e \in Cycles,
                      claim'[d].at = claim'[e].at, claim'[d].at # Never
               PROVE  d = e
    BY DEF OneCyclePerTick
  <2>1. \A f \in Cycles \ {c} : claim'[f].at < now
    BY <1>1, <1>2, <1>3, <1>6, <1>10
  <2>2. CASE d = c \/ e = c
    BY <2>1, <2>2, <1>1, <1>6
  <2>3. CASE d # c /\ e # c
    BY <2>3, <1>6 DEF SchedulerInv, OneCyclePerTick
  <2> QED BY <2>2, <2>3
<1>13. MissesAreClaimed'
  <2> SUFFICES ASSUME NEW l \in Lanes
               PROVE  /\ IsFiniteSet(misses'[l])
                      /\ \A d \in misses'[l] : claim'[d].lane = l /\ claim'[d].at # Never
    BY DEF MissesAreClaimed
  <2>1. /\ IsFiniteSet(misses[l])
        /\ \A d \in misses[l] : claim[d].lane = l /\ claim[d].at # Never
    BY DEF SchedulerInv, MissesAreClaimed
  <2>2. IsFiniteSet(misses[l] \cup {c})
    BY <2>1, FS_AddElement
  <2>3. now # Never
    BY <1>1 DEF Never
  <2>4. /\ misses[l] \subseteq Cycles \ {c}
        /\ misses'[l] = misses[l] \/ (l = lane /\ misses'[l] = misses[l] \cup {c})
    BY <1>1, <1>4, <1>7
  <2>5. IsFiniteSet(misses'[l])
    BY <2>1, <2>2, <2>4
  <2>6. \A d \in misses[l] : claim'[d].lane = l /\ claim'[d].at # Never
    BY <2>1, <2>4, <1>6
  <2>7. claim'[c].lane = lane /\ claim'[c].at # Never
    BY <2>3, <1>6
  <2> QED BY <2>4, <2>5, <2>6, <2>7
<1>14. ActiveMissing'
  BY <1>5, <1>6, <1>7 DEF ActiveMissing
<1>15. \A l \in Lanes : misses'[l] \ {scheduler'.active.cycle} = misses[l]
  BY <1>4, <1>5, <1>7
<1>16. Counts(scheduler)'
  BY <1>5, <1>15, RecoveredSpeaksOfAll DEF Counts, Counted
<1>17. Guarded(scheduler)'
  <2> SUFFICES ASSUME NEW l \in Lanes, scheduler'.failures[l] >= CircuitFailureThreshold,
                      NEW d \in misses[l]
               PROVE  claim'[d].at + CircuitDuration <= scheduler'.openUntil[l]
    BY <1>15 DEF Guarded, Counted
  <2>1. claim'[d] = claim[d]
    BY <1>1, <1>4, <1>6
  <2> QED BY <2>1, <1>5, RecoveredSpeaksOfAll
<1> QED BY <1>9, <1>11, <1>12, <1>13, <1>14, <1>16, <1>17 DEF SchedulerInv

LEMMA CompleteKeeps ==
  ASSUME SchedulerInv, NEW c \in Cycles, NEW success \in BOOLEAN, Complete(c, success)
  PROVE  SchedulerInv'
<1>1. CASE ~IsActive(c)
  <2>1. UNCHANGED schedulerVars
    BY <1>1 DEF Complete, schedulerVars
  <2> QED BY <2>1 DEF schedulerVars, SchedulerInv, SchedulerTypeOK, InOrder, OneCyclePerTick,
                      MissesAreClaimed, ActiveMissing, Counts, Guarded, Counted
<1>2. CASE IsActive(c)
  <2> DEFINE lane == scheduler.active.lane
             at == claim[c].at
  <2>1. /\ scheduler.active.cycle = c /\ lane = claim[c].lane /\ scheduler.active # Idle
    BY <1>2, NoCycleAssumption DEF IsActive, Idle
  <2>2. at = scheduler.lastTick /\ at \in Nat /\ lane \in Lanes
    BY <2>1, StateParts DEF SchedulerInv, SchedulerTypeOK, ActiveMissing
  <2>3. scheduler' = Settled(scheduler, lane, success, at)
    BY <1>2, <2>1 DEF Complete
  <2>4. misses' = Missing(lane, success)
    BY <1>2, <2>1 DEF Complete, Missing, SchedulerInv, SchedulerTypeOK
  <2>5. UNCHANGED <<now, claim>>
    BY DEF Complete
  <2> HIDE DEF lane, at
  <2>6. /\ scheduler' \in SchedulerState /\ scheduler'.active = Idle
        /\ scheduler'.lastTick = scheduler.lastTick
    BY <2>2, <2>3, SettledParts DEF SchedulerInv
  <2>7. \A l \in Lanes : misses'[l] \subseteq misses[l]
    BY <2>4 DEF Missing, SchedulerInv, SchedulerTypeOK
  <2>8. SchedulerTypeOK' /\ InOrder' /\ OneCyclePerTick' /\ ActiveMissing'
    <3>1. misses' \in [Lanes -> SUBSET Cycles]
      BY <2>4 DEF Missing, SchedulerInv, SchedulerTypeOK
    <3> QED BY <3>1, <2>5, <2>6 DEF SchedulerInv, SchedulerTypeOK, InOrder, OneCyclePerTick,
                                    ActiveMissing
  <2>9. MissesAreClaimed'
    <3>1. \A l \in Lanes : IsFiniteSet(misses'[l])
      BY <2>7, FS_Subset DEF SchedulerInv, MissesAreClaimed
    <3> QED BY <3>1, <2>5, <2>7 DEF SchedulerInv, MissesAreClaimed
  <2>10. \A l \in Lanes : misses'[l] \ {scheduler'.active.cycle} = misses'[l]
    BY <2>6, <2>8, NoCycleAssumption DEF SchedulerTypeOK, Idle
  <2>11. \A l \in Lanes :
           /\ scheduler'.failures[l] = Cardinality(misses'[l])
           /\ scheduler'.failures[l] >= CircuitFailureThreshold =>
                \A d \in misses'[l] : claim[d].at + CircuitDuration <= scheduler'.openUntil[l]
    <3>1. scheduler.lastTick <= at
      BY <2>2, StateParts DEF SchedulerInv
    <3> QED BY <3>1, <2>1, <2>2, <2>3, <2>4, SettledSpeaksOfAll DEF lane
  <2> QED BY <2>5, <2>8, <2>9, <2>10, <2>11 DEF SchedulerInv, Counts, Guarded, Counted
<1> QED BY <1>1, <1>2

LEMMA SchedulerInvStep == SchedulerInv /\ [SchedulerNext]_schedulerVars => SchedulerInv'
<1> SUFFICES ASSUME SchedulerInv, [SchedulerNext]_schedulerVars PROVE SchedulerInv'
  OBVIOUS
<1>1. ASSUME NEW c \in Cycles, claim[c] = Unclaimed, \E lane \in Lanes : Claim(c, lane)
      PROVE  SchedulerInv'
  BY <1>1, ClaimKeeps
<1>2. ASSUME NEW c \in Cycles, \E success \in BOOLEAN : Complete(c, success)
      PROVE  SchedulerInv'
  BY <1>2, CompleteKeeps
<1>3. CASE TimePasses
  <2>1. now' \in 1 .. MaxTime /\ now <= now' /\ UNCHANGED <<scheduler, claim, misses>>
    BY <1>3 DEF TimePasses, SchedulerInv, SchedulerTypeOK
  <2>2. scheduler.lastTick \in Nat /\ now \in Nat
    BY StateParts DEF SchedulerInv, SchedulerTypeOK
  <2> QED BY <2>1, <2>2 DEF SchedulerInv, SchedulerTypeOK, InOrder, OneCyclePerTick,
                            MissesAreClaimed, ActiveMissing, Counts, Guarded, Counted
<1>4. CASE UNCHANGED schedulerVars
  BY <1>4 DEF schedulerVars, SchedulerInv, SchedulerTypeOK, InOrder, OneCyclePerTick,
              MissesAreClaimed, ActiveMissing, Counts, Guarded, Counted
<1> QED BY <1>1, <1>2, <1>3, <1>4 DEF SchedulerNext

LEMMA SchedulerInvAlways == SchedulerSpec => []SchedulerInv
<1> QED BY SchedulerInvInit, SchedulerInvStep, PTL DEF SchedulerSpec

(* Type correctness of the record under any use of it.                          *)
THEOREM SchedulerTyped == SchedulerSpec => []SchedulerTypeOK
<1>1. SchedulerInv => SchedulerTypeOK
  BY DEF SchedulerInv
<1> QED BY <1>1, SchedulerInvAlways, PTL

(* beginScheduledTick: a tick key begins at most one cycle, whatever cycles were  *)
(* left behind, restarted or completed late before it.                           *)
THEOREM OneCycle == SchedulerSpec => []OneCyclePerTick
<1>1. SchedulerInv => OneCyclePerTick
  BY DEF SchedulerInv
<1> QED BY <1>1, SchedulerInvAlways, PTL

(* settleCycleState: the durable count of a lane is the number of its cycles since  *)
(* its last success, the one under way excepted.                                  *)
THEOREM FailuresCounted == SchedulerSpec => []FailuresAreCycles
<1>1. SchedulerInv => FailuresAreCycles
  BY DEF SchedulerInv, Counts, Counted, FailuresAreCycles
<1> QED BY <1>1, SchedulerInvAlways, PTL

(* beginScheduledTick and the circuit: a lane whose last cycles all failed begins   *)
(* none within the duration of the circuit after the start of any of them.          *)
THEOREM CircuitHolds == SchedulerSpec => CircuitProtects
<1>1. SchedulerInv /\ [SchedulerNext]_schedulerVars =>
        [\A lane \in Lanes : \A c \in misses'[lane] \ misses[lane] :
           Cardinality(misses[lane]) >= CircuitFailureThreshold =>
             \A d \in misses[lane] : claim[d].at + CircuitDuration <= now]_schedulerVars
  <2> SUFFICES ASSUME SchedulerInv, SchedulerNext, NEW lane \in Lanes,
                      NEW c \in misses'[lane] \ misses[lane],
                      Cardinality(misses[lane]) >= CircuitFailureThreshold,
                      NEW d \in misses[lane]
               PROVE  claim[d].at + CircuitDuration <= now
    OBVIOUS
  <2>1. misses \in [Lanes -> SUBSET Cycles]
    BY DEF SchedulerInv, SchedulerTypeOK
  <2>2. PICK e \in Cycles, l \in Lanes : Claim(e, l)
    BY <2>1 DEF SchedulerNext, Complete, TimePasses
  <2>3. l = lane
    BY <2>1, <2>2 DEF Claim
  <2>4. ~(Recovered.openUntil[lane] > now)
    BY <2>2, <2>3 DEF Claim, MayClaim, CircuitOpen
  <2>5. claim[d].at + CircuitDuration <= Recovered.openUntil[lane]
    BY RecoveredSpeaksOfAll
  <2>6. /\ Recovered.openUntil[lane] \in Nat /\ now \in Nat
        /\ claim[d].at + CircuitDuration \in Nat
    BY <2>1, RecoveredTyped, CircuitAssumption DEF SchedulerInv, SchedulerTypeOK, SchedulerState
  <2> QED BY <2>4, <2>5, <2>6
<1> QED BY <1>1, SchedulerInvAlways, PTL DEF SchedulerSpec, CircuitProtects

-----------------------------------------------------------------------------
(* The terminal barrier.                                                    *)
(*                                                                         *)
(* The two properties are inductive together with what each step of a call has  *)
(* already done (CallInv), and with what a read that has seen no barrier knows   *)
(* (ReadInv): either nothing was unsettled meanwhile, or the receipt still says  *)
(* so, because no barrier can be created before it is rewritten.               *)
Wrote(phase) == receipt = [phase |-> phase, of |-> call.of]

CallInv ==
  /\ call.pc = "create" => receipt = NoReceipt
  /\ call.pc = "sync" => receipt = NoReceipt /\ barrier = call.of
  /\ call.pc = "fill" => Wrote("torn")
  /\ call.pc = "unlink" => Wrote("pending")
  /\ call.pc = "truncate" => Wrote("pending") /\ barrier = NoCycle
  /\ call.pc = "rewrite" => Wrote("torn") /\ barrier = NoCycle

ReadInv ==
  read \in {"quarantine", "receipt"} => seen \/ (barrier = NoCycle /\ unsettled # {})

BarrierInv == BarrierTypeOK /\ UnsettledIsOnDisk /\ CallInv /\ ReadInv /\ PassWasClear

LEMMA BarrierInvInit == BarrierInit => BarrierInv
<1> SUFFICES ASSUME BarrierInit PROVE BarrierInv
  OBVIOUS
<1>1. BarrierTypeOK
  BY DEF BarrierInit, BarrierTypeOK, ReadSteps
<1>2. UnsettledIsOnDisk /\ CallInv
  BY DEF BarrierInit, UnsettledIsOnDisk, CallInv, NoCall
<1>3. ReadInv /\ PassWasClear
  BY DEF BarrierInit, ReadInv, PassWasClear
<1> QED BY <1>1, <1>2, <1>3 DEF BarrierInv

(* A call that begins, that throws, a quarantine, a read and the end of the      *)
(* process leave the three files' story alone.                                *)
LEMMA FilesUntouched ==
  ASSUME BarrierInv,
         \/ \E c \in Cycles : BeginTerminalBarrier(c) \/ ClearTerminalBarrier(c)
         \/ CallThrows \/ Quarantine \/ ReadBegins \/ ReadNext \/ ProcessEnds
         \/ UNCHANGED barrierVars
  PROVE  BarrierInv'
<1> USE DEF BarrierInv, BarrierTypeOK, NoReceipt, NoCall, CallSteps, BeginSteps, ClearSteps,
            ReadSteps
<1>1. ASSUME NEW c \in Cycles, BeginTerminalBarrier(c) PROVE BarrierInv'
  BY <1>1 DEF BeginTerminalBarrier, Watch, UnsettledIsOnDisk, CallInv, ReadInv, PassWasClear
<1>2. ASSUME NEW c \in Cycles, ClearTerminalBarrier(c) PROVE BarrierInv'
  BY <1>2 DEF ClearTerminalBarrier, Watch, UnsettledIsOnDisk, CallInv, ReadInv, PassWasClear
<1>3. CASE CallThrows
  BY <1>3 DEF CallThrows, CallRuns, Becomes, Watch, UnsettledIsOnDisk, CallInv, ReadInv,
              PassWasClear
<1>4. CASE Quarantine
  BY <1>4 DEF Quarantine, Watch, UnsettledIsOnDisk, CallInv, Wrote, ReadInv, PassWasClear
<1>5. CASE ReadBegins
  BY <1>5 DEF ReadBegins, UnsettledIsOnDisk, CallInv, Wrote, ReadInv, PassWasClear
<1>6. CASE ReadNext
  <2>1. BarrierTypeOK' /\ UnsettledIsOnDisk' /\ CallInv'
    BY <1>6 DEF ReadNext, Reads, Watch, UnsettledIsOnDisk, CallInv, Wrote
  <2>2. ReadInv'
    BY <1>6 DEF ReadNext, Reads, Watch, ReadInv
  <2>3. PassWasClear'
    BY <1>6 DEF ReadNext, Reads, Watch, ReadInv, UnsettledIsOnDisk, PassWasClear
  <2> QED BY <2>1, <2>2, <2>3
<1>7. CASE ProcessEnds
  BY <1>7 DEF ProcessEnds, Watch, UnsettledIsOnDisk, CallInv, ReadInv, PassWasClear
<1>8. CASE UNCHANGED barrierVars
  BY <1>8 DEF barrierVars, UnsettledIsOnDisk, CallInv, Wrote, ReadInv, PassWasClear
<1> QED BY <1>1, <1>2, <1>3, <1>4, <1>5, <1>6, <1>7, <1>8

(* The steps of a call.  A barrier is created only where nothing is unsettled;    *)
(* it is unlinked under a pending receipt; and the receipt that is rewritten was   *)
(* the last trace of the only cycle that was.                                 *)
LEMMA CallStepsKeep ==
  ASSUME BarrierInv, CallStep
  PROVE  BarrierInv'
<1> USE DEF BarrierInv, BarrierTypeOK, NoReceipt, NoCall, CallSteps, BeginSteps, ClearSteps,
            ReadSteps, Becomes, Phase, Watch
<1>1. CASE Retire
  BY <1>1 DEF Retire, UnsettledIsOnDisk, CallInv, ReadInv, PassWasClear
<1>2. CASE Create
  BY <1>2 DEF Create, UnsettledIsOnDisk, CallInv, ReadInv, PassWasClear
<1>3. CASE Begun
  BY <1>3 DEF Begun, UnsettledIsOnDisk, CallInv, ReadInv, PassWasClear
<1>4. CASE Pend
  BY <1>4 DEF Pend, Resumes, UnsettledIsOnDisk, CallInv, Wrote, ReadInv, PassWasClear
<1>5. CASE Fill
  BY <1>5 DEF Fill, UnsettledIsOnDisk, CallInv, Wrote, ReadInv, PassWasClear
<1>6. CASE Unlink
  BY <1>6 DEF Unlink, UnsettledIsOnDisk, CallInv, Wrote, ReadInv, PassWasClear
<1>7. CASE Truncate
  BY <1>7 DEF Truncate, UnsettledIsOnDisk, CallInv, Wrote, ReadInv, PassWasClear
<1>8. CASE Rewrite
  <2>1. \A c \in unsettled : c = call.of
    BY <1>8 DEF Rewrite, UnsettledIsOnDisk, CallInv, Wrote
  <2>2. unsettled' = {}
    BY <1>8, <2>1 DEF Rewrite
  <2>3. seen' = TRUE /\ UnsettledIsOnDisk'
    BY <1>8, <2>2 DEF Rewrite, UnsettledIsOnDisk
  <2>4. BarrierTypeOK' /\ CallInv'
    BY <1>8, <2>2, <2>3 DEF Rewrite, CallInv
  <2> QED BY <2>3, <2>4 DEF ReadInv, PassWasClear
<1> QED BY <1>1, <1>2, <1>3, <1>4, <1>5, <1>6, <1>7, <1>8 DEF CallStep

LEMMA BarrierInvHolds == BarrierSpec => []BarrierInv
<1>1. ASSUME BarrierInv, [BarrierNext]_barrierVars PROVE BarrierInv'
  BY <1>1, FilesUntouched, CallStepsKeep DEF BarrierNext
<1> QED BY BarrierInvInit, <1>1, PTL DEF BarrierSpec

(* The state of the files and of the calls keeps its type.                      *)
THEOREM BarrierTyped == BarrierSpec => []BarrierTypeOK
<1>1. BarrierInv => BarrierTypeOK
  BY DEF BarrierInv
<1> QED BY <1>1, BarrierInvHolds, PTL

(* Nothing but its own clear takes a cycle whose barrier was durable out of the   *)
(* files.                                                                  *)
THEOREM UnsettledStays == BarrierSpec => []UnsettledIsOnDisk
<1>1. BarrierInv => UnsettledIsOnDisk
  BY DEF BarrierInv
<1> QED BY <1>1, BarrierInvHolds, PTL

(* An assertClear that passes has lived through an instant at which nothing was   *)
(* unsettled.                                                              *)
THEOREM PassesWhenClear == BarrierSpec => []PassWasClear
<1>1. BarrierInv => PassWasClear
  BY DEF BarrierInv
<1> QED BY <1>1, BarrierInvHolds, PTL

-----------------------------------------------------------------------------
(* The supervisor.                                                         *)
(*                                                                         *)
(* Its types, and what makes it a user of the record and of the barrier: a      *)
(* decision is early until it has claimed its tick, what is active is a cycle     *)
(* that was claimed, and only then is anything closed.                         *)
Early   == {"clear", "recover", "select", "claim"}
Claimed == {"make", "unmade"} \cup AdmissionStages \cup SettlementStages
Stages  == {"unused", "over"} \cup Early \cup Claimed

CycleRecord ==
  [busy : Commands \cup {"no", "initial"}, draft : BOOLEAN, failed : BOOLEAN,
   expired : BOOLEAN, kind : {"none", "graceful", "force"}, pc : ClosePcs,
   success : BOOLEAN, threw : BOOLEAN]

Bounded == faults \in 0 .. MaxFaults /\ crashes \in 0 .. MaxCrashes

StagesTyped  == stage \in [Cycles -> Stages]
RuntimeTyped == runtime \in [Cycles -> {"none", "open", "closed", "unproven", "unnoticed"}]
OwnersTyped  ==
  /\ {attempt, tracker, gate, active} \subseteq Cycles \cup {NoCycle}
  /\ orphans \subseteq Cycles /\ cleanupFailed \in BOOLEAN
  /\ shutdown \in {"no", "running", "done", "failed"}
CycleTyped   == cycle \in CycleRecord

ClaimsKnown  == \A d \in Cycles : claim[d] = Unclaimed <=> stage[d] \in {"unused"} \cup Early
ActiveKnown  ==
  /\ active = NoCycle => cycle = NoRecord
  /\ active # NoCycle => stage[active] = (IF cycle.busy = "initial" THEN "initial" ELSE "over")

Supervised ==
  /\ SchedulerTypeOK /\ BarrierTypeOK
  /\ StagesTyped /\ RuntimeTyped /\ OwnersTyped /\ CycleTyped /\ Bounded
  /\ ClaimsKnown /\ ActiveKnown

LEMMA SupervisorBegins == Init => SchedulerInit /\ BarrierInit /\ Supervised
<1> SUFFICES ASSUME Init PROVE SchedulerInit /\ BarrierInit /\ Supervised
  OBVIOUS
<1>1. SchedulerInit /\ BarrierInit
  BY DEF Init
<1>2. SchedulerTypeOK /\ BarrierTypeOK
  BY <1>1, SchedulerInvInit, BarrierInvInit DEF SchedulerInv, BarrierInv
<1>3. StagesTyped /\ RuntimeTyped /\ OwnersTyped
  BY DEF Init, StagesTyped, Stages, RuntimeTyped, OwnersTyped
<1>4. CycleTyped /\ Bounded /\ ActiveKnown
  BY SupervisorAssumption DEF Init, CycleTyped, CycleRecord, ClosePcs, NoRecord, Bounded,
     ActiveKnown
<1>5. ClaimsKnown
  BY DEF Init, SchedulerInit, ClaimsKnown
<1> QED BY <1>1, <1>2, <1>3, <1>4, <1>5 DEF Supervised

(* What the supervisor does to the record is what the record allows.            *)
LEMMA ActsOnRecord ==
  ASSUME Supervised, Next
  PROVE  [SchedulerNext]_schedulerVars
<1> USE DEF Supervised
<1>1. ASSUME NEW d \in Cycles, claim[d] # Unclaimed,
             (\E success \in BOOLEAN : Complete(d, success)) \/ UNCHANGED schedulerVars
      PROVE  [SchedulerNext]_schedulerVars
  BY <1>1 DEF SchedulerNext
<1>2. ASSUME NEW d \in Cycles, DecisionStep(d) PROVE [SchedulerNext]_schedulerVars
  <2>1. CASE ClaimTick(d)
    <3>1. claim[d] = Unclaimed
      BY <2>1 DEF ClaimTick, ClaimsKnown, Early
    <3> QED BY <2>1, <3>1 DEF ClaimTick, SchedulerNext
  <2>2. CASE Unmade(d) \/ UndoComplete(d) \/ SettleComplete(d)
    <3>1. claim[d] # Unclaimed
      BY <2>2 DEF Unmade, UndoComplete, SettleComplete, ClaimsKnown, Early
    <3> QED BY <1>1, <2>2, <3>1 DEF Unmade, UndoComplete, SettleComplete, Completes,
        CompletionThrows
  <2>3. CASE \/ AssertClear(d) \/ RecoverRealtimePending(d) \/ SelectScheduledLane(d)
             \/ MakeRuntime(d) \/ Acquire(d) \/ AcquireFails(d) \/ Undo(d)
             \/ SettleClose(d) \/ SettleRecord(d)
    BY <2>3 DEF AssertClear, RecoverRealtimePending, SelectScheduledLane, MakeRuntime, Acquire,
         AcquireFails, Undo, SettleClose, SettleRecord
  <2> QED BY <1>2, <2>1, <2>2, <2>3 DEF DecisionStep
<1>3. ASSUME CompleteCycle PROVE [SchedulerNext]_schedulerVars
  <2>1. active \in Cycles
    BY <1>3 DEF CompleteCycle, OwnersTyped, ActiveKnown, NoRecord
  <2>2. claim[active] # Unclaimed
    BY <2>1 DEF ActiveKnown, ClaimsKnown, Early
  <2>3. cycle.success \in BOOLEAN
    BY DEF CycleTyped, CycleRecord
  <2> QED BY <1>1, <1>3, <2>1, <2>2, <2>3 DEF CompleteCycle, Completes, CompletionThrows
<1>4. ASSUME CloseStep PROVE [SchedulerNext]_schedulerVars
  BY <1>3, <1>4 DEF CloseStep, FileStep, BarrierFails, BarrierStands, Drained, CloseSession,
       QuarantineCycle, ReleaseOwner, ClearEnds
<1>5. ASSUME NEW c \in Cycles, BeginScheduledTick(c) \/ DecisionDeadline(c) \/ OrphanEnds(c)
      PROVE  [SchedulerNext]_schedulerVars
  BY <1>5 DEF BeginScheduledTick, DecisionDeadline, OrphanEnds
<1>6. CASE (\E kind \in Commands : Command(kind)) \/ CommandEnds \/ Close \/ Expire
           \/ RequestShutdown \/ ShutdownEnds \/ Restart
  BY <1>6 DEF Command, CommandEnds, Close, Expire, RequestShutdown, ShutdownEnds, Restart
<1>7. CASE BucketPasses
  BY <1>7 DEF BucketPasses, SchedulerNext
<1> QED BY <1>2, <1>4, <1>5, <1>6, <1>7 DEF Next

(* ... and what it does to the barrier is what the barrier allows.               *)
LEMMA ActsOnBarrier ==
  ASSUME Supervised, Next
  PROVE  [BarrierNext]_barrierVars
<1> USE DEF Supervised
<1>1. ASSUME active # NoCycle, BeginTerminalBarrier(active) \/ ClearTerminalBarrier(active)
      PROVE  BarrierNext
  BY <1>1 DEF BarrierNext, OwnersTyped
<1>2. ASSUME NEW d \in Cycles, DecisionStep(d) PROVE [BarrierNext]_barrierVars
  <2>1. CASE AssertClear(d) \/ SettleRecord(d)
    BY <2>1 DEF AssertClear, SettleRecord, Quarantines, QuarantineThrows, BarrierNext
  <2>2. CASE \/ RecoverRealtimePending(d) \/ SelectScheduledLane(d) \/ ClaimTick(d)
             \/ MakeRuntime(d) \/ Unmade(d) \/ Acquire(d) \/ AcquireFails(d) \/ Undo(d)
             \/ UndoComplete(d) \/ SettleClose(d) \/ SettleComplete(d)
    BY <2>2 DEF RecoverRealtimePending, SelectScheduledLane, ClaimTick, MakeRuntime, Unmade,
         Acquire, AcquireFails, Undo, UndoComplete, SettleClose, SettleComplete
  <2> QED BY <1>2, <2>1, <2>2 DEF DecisionStep
<1>3. ASSUME ReleaseOwner PROVE [BarrierNext]_barrierVars
  <2>1. active # NoCycle
    BY <1>3 DEF ReleaseOwner, ActiveKnown, NoRecord
  <2> QED BY <1>1, <1>3, <2>1 DEF ReleaseOwner
<1>4. ASSUME CloseStep PROVE [BarrierNext]_barrierVars
  <2>1. CASE FileStep \/ QuarantineCycle
    BY <2>1 DEF FileStep, QuarantineCycle, Quarantines, QuarantineThrows, BarrierNext
  <2>2. CASE \/ BarrierFails \/ BarrierStands \/ Drained \/ CloseSession \/ CompleteCycle
             \/ ClearEnds
    BY <2>2 DEF BarrierFails, BarrierStands, Drained, CloseSession, CompleteCycle, ClearEnds
  <2> QED BY <1>3, <1>4, <2>1, <2>2 DEF CloseStep
<1>5. ASSUME NEW c \in Cycles, BeginScheduledTick(c) \/ DecisionDeadline(c) \/ OrphanEnds(c)
      PROVE  [BarrierNext]_barrierVars
  BY <1>5 DEF BeginScheduledTick, DecisionDeadline, OrphanEnds, BarrierNext
<1>6. CASE Close \/ Expire \/ RequestShutdown
  BY <1>1, <1>6 DEF Close, Expire, Armed, RequestShutdown, CloseBegins
<1>7. CASE (\E kind \in Commands : Command(kind)) \/ CommandEnds \/ ShutdownEnds \/ BucketPasses
  BY <1>7 DEF Command, CommandEnds, ShutdownEnds, BucketPasses
<1>8. CASE Restart
  BY <1>8 DEF Restart, BarrierNext
<1> QED BY <1>2, <1>4, <1>5, <1>6, <1>7, <1>8 DEF Next

(* A stage that changes with its claim.                                      *)
LEMMA StageMoves ==
  ASSUME StagesTyped, ClaimsKnown, NEW d \in Cycles, NEW t \in Stages, Stage(d, t),
         \A e \in Cycles \ {d} : claim'[e] = claim[e],
         claim'[d] = Unclaimed <=> t \in {"unused"} \cup Early
  PROVE  /\ StagesTyped' /\ ClaimsKnown'
         /\ stage'[d] = t /\ \A e \in Cycles \ {d} : stage'[e] = stage[e]
<1>1. stage'[d] = t /\ \A e \in Cycles \ {d} : stage'[e] = stage[e]
  BY DEF StagesTyped, Stage
<1>2. StagesTyped'
  BY DEF StagesTyped, Stage
<1>3. ClaimsKnown'
  BY <1>1 DEF ClaimsKnown
<1> QED BY <1>1, <1>2, <1>3

(* Where a decision or a settlement goes: onward, or over when it ends.            *)
Onward(d, t) ==
  /\ Stage(d, t)
  /\ attempt' = attempt /\ tracker' = tracker
Over(d) ==
  /\ Stage(d, IF claim'[d] = Unclaimed THEN "unused" ELSE "over")
  /\ attempt' = IF attempt = d THEN NoCycle ELSE attempt
  /\ tracker' = IF tracker = d THEN NoCycle ELSE tracker

SameClaims == claim' = claim

LEMMA CompletionKeepsClaims ==
  ASSUME NEW d, NEW success, Completes(d, success) \/ CompletionThrows(d, success)
  PROVE  claim' = claim /\ now' = now
BY DEF Completes, CompletionThrows, Complete, schedulerVars

LEMMA ClaimIsKept ==
  ASSUME SchedulerTypeOK, NEW d \in Cycles, NEW lane \in Lanes, Claim(d, lane)
  PROVE  claim'[d] # Unclaimed /\ \A e \in Cycles \ {d} : claim'[e] = claim[e]
BY DEF SchedulerTypeOK, Claim, Unclaimed, Never

(* The steps of a decision and of its settlement, by their stages.                *)
Passes(d, t) ==
  /\ Onward(d, t)
  /\ <<stage[d], t>> \in
       {<<"clear", "clear">>, <<"clear", "recover">>, <<"clear", "select">>,
        <<"recover", "select">>, <<"select", "claim">>, <<"make", "close">>,
        <<"make", "acquire">>, <<"make", "unmade">>, <<"acquire", "initial">>,
        <<"acquire", "close">>, <<"acquire", "undo">>, <<"undo", "undoComplete">>,
        <<"close", "complete">>, <<"close", "completeAnyway">>,
        <<"complete", "record">>, <<"completeAnyway", "record">>}
  /\ t = "claim" => MayDecide
  /\ t = "acquire" => attempt = d

DecisionGoes(d) ==
  \/ /\ claim' = claim
     /\ \/ Over(d) /\ stage[d] \in {"clear", "recover", "select", "claim", "unmade",
                                    "undoComplete", "complete", "record"}
        \/ \E t \in Stages : Passes(d, t)
  \/ /\ stage[d] = "claim" /\ claim'[d] # Unclaimed
     /\ \A e \in Cycles \ {d} : claim'[e] = claim[e]
     /\ Over(d) \/ Onward(d, "make")

LEMMA DecisionGoesOn ==
  ASSUME Supervised, NEW d \in Cycles, DecisionStep(d)
  PROVE  DecisionGoes(d)
<1> USE DEF DecisionGoes, Passes, Onward, Over, Ends, Goes, Stages, Early, Claimed, AdmissionStages,
            SettlementStages
<1>1. CASE AssertClear(d)
  BY <1>1 DEF AssertClear, schedulerVars
<1>2. CASE RecoverRealtimePending(d)
  BY <1>2 DEF RecoverRealtimePending, schedulerVars
<1>3. CASE SelectScheduledLane(d)
  BY <1>3 DEF SelectScheduledLane, schedulerVars
<1>4. CASE ClaimTick(d)
  <2>1. CASE UNCHANGED schedulerVars /\ Ends(d)
    BY <1>4, <2>1 DEF ClaimTick, schedulerVars
  <2>2. CASE \E lane \in Lanes : Claim(d, lane)
    BY <1>4, <2>2, ClaimIsKept DEF ClaimTick, Supervised, schedulerVars
  <2> QED BY <1>4, <2>1, <2>2 DEF ClaimTick
<1>5. CASE MakeRuntime(d)
  BY <1>5 DEF MakeRuntime, schedulerVars, Late, UnderWay
<1>6. CASE Unmade(d)
  BY <1>6, CompletionKeepsClaims DEF Unmade
<1>7. CASE Acquire(d)
  BY <1>7 DEF Acquire, schedulerVars
<1>8. CASE AcquireFails(d)
  BY <1>8 DEF AcquireFails, schedulerVars
<1>9. CASE Undo(d)
  BY <1>9 DEF Undo, schedulerVars
<1>10. CASE UndoComplete(d)
  BY <1>10, CompletionKeepsClaims DEF UndoComplete
<1>11. CASE SettleClose(d)
  BY <1>11 DEF SettleClose, schedulerVars
<1>12. CASE SettleComplete(d)
  <2>1. claim' = claim
    BY <1>12, CompletionKeepsClaims DEF SettleComplete
  <2>2. CASE Goes(d, "record")
    BY <1>12, <2>1, <2>2 DEF SettleComplete
  <2>3. CASE stage[d] = "complete" /\ Ends(d)
    BY <2>1, <2>3
  <2> QED BY <1>12, <2>2, <2>3 DEF SettleComplete
<1>13. CASE SettleRecord(d)
  BY <1>13 DEF SettleRecord, schedulerVars
<1> QED BY <1>1, <1>2, <1>3, <1>4, <1>5, <1>6, <1>7, <1>8, <1>9, <1>10, <1>11, <1>12, <1>13
        DEF DecisionStep

(* What a decision touches besides: the active cycle only when it becomes it.      *)
LEMMA DecisionSpares ==
  ASSUME StagesTyped, NEW d \in Cycles, DecisionStep(d)
  PROVE  /\ UNCHANGED <<orphans, shutdown, crashes, now>>
         /\ \/ UNCHANGED <<active, cycle>> /\ ~(stage[d] = "acquire" /\ Stage(d, "initial"))
            \/ /\ stage[d] = "acquire" /\ Stage(d, "initial")
               /\ active' = d /\ cycle' = [NoRecord EXCEPT !.busy = "initial"]
               /\ UNCHANGED <<attempt, tracker, claim>>
<1>1. CASE Acquire(d)
  BY <1>1 DEF Acquire, cycleVars, schedulerVars, Stage, StagesTyped
<1>2. CASE AssertClear(d)
  BY <1>2 DEF AssertClear, cycleVars, schedulerVars
<1>3. CASE RecoverRealtimePending(d)
  BY <1>3 DEF RecoverRealtimePending, cycleVars, schedulerVars
<1>4. CASE SelectScheduledLane(d)
  BY <1>4 DEF SelectScheduledLane, cycleVars, schedulerVars
<1>5. CASE ClaimTick(d)
  BY <1>5 DEF ClaimTick, Claim, cycleVars, schedulerVars
<1>6. CASE MakeRuntime(d)
  BY <1>6 DEF MakeRuntime, cycleVars, schedulerVars
<1>7. CASE Unmade(d)
  BY <1>7, CompletionKeepsClaims DEF Unmade, cycleVars, schedulerVars
<1>8. CASE AcquireFails(d)
  BY <1>8 DEF AcquireFails, cycleVars, schedulerVars, Stage, StagesTyped
<1>9. CASE Undo(d)
  BY <1>9 DEF Undo, cycleVars, schedulerVars
<1>10. CASE UndoComplete(d)
  BY <1>10, CompletionKeepsClaims DEF UndoComplete, cycleVars, schedulerVars
<1>11. CASE SettleClose(d)
  BY <1>11 DEF SettleClose, cycleVars, schedulerVars
<1>12. CASE SettleComplete(d)
  BY <1>12, CompletionKeepsClaims DEF SettleComplete, cycleVars, schedulerVars
<1>13. CASE SettleRecord(d)
  BY <1>13 DEF SettleRecord, cycleVars, schedulerVars
<1> QED BY <1>1, <1>2, <1>3, <1>4, <1>5, <1>6, <1>7, <1>8, <1>9, <1>10, <1>11, <1>12, <1>13
    DEF DecisionStep

LEMMA SupervisedDecides ==
  ASSUME Supervised, NEW d \in Cycles, DecisionStep(d), (SchedulerTypeOK /\ BarrierTypeOK)'
  PROVE  Supervised'
<1>0. DecisionGoes(d)
  BY DecisionGoesOn
<1>1. PICK t \in Stages : Stage(d, t) /\ (claim'[d] = Unclaimed <=> t \in {"unused"} \cup Early)
                          /\ \A e \in Cycles \ {d} : claim'[e] = claim[e]
  BY <1>0 DEF DecisionGoes, Passes, Onward, Over, Supervised, ClaimsKnown, Stages, Early, Claimed,
              AdmissionStages, SettlementStages
<1>2. /\ StagesTyped' /\ ClaimsKnown'
      /\ stage'[d] = t /\ \A e \in Cycles \ {d} : stage'[e] = stage[e]
  BY <1>1, StageMoves DEF Supervised
<1>3. RuntimeTyped'
  BY DEF Supervised, RuntimeTyped, DecisionStep, AssertClear, RecoverRealtimePending,
     SelectScheduledLane, ClaimTick, MakeRuntime, Unmade, Acquire, AcquireFails, Undo,
     UndoComplete, SettleClose, SettleComplete, SettleRecord, Released, ReleaseThrows
<1>4. {attempt', tracker'} \subseteq Cycles \cup {NoCycle}
  BY <1>0 DEF DecisionGoes, Passes, Onward, Over, Supervised, OwnersTyped
<1>5. gate' \in Cycles \cup {NoCycle} /\ cleanupFailed' \in BOOLEAN
  BY DEF Supervised, OwnersTyped, DecisionStep, AssertClear, RecoverRealtimePending,
     SelectScheduledLane, ClaimTick, MakeRuntime, Unmade, Acquire, AcquireFails, Undo,
     UndoComplete, SettleClose, SettleComplete, SettleRecord, Released, ReleaseThrows
<1>6. OwnersTyped'
  BY <1>4, <1>5, DecisionSpares DEF Supervised, OwnersTyped
<1>7. CycleTyped'
  BY DecisionSpares DEF Supervised, CycleTyped, CycleRecord, NoRecord, ClosePcs
<1>8. Bounded'
  <2>1. faults' = faults \/ (faults < MaxFaults /\ faults' = faults + 1)
    BY DEF DecisionStep, AssertClear, RecoverRealtimePending,
     SelectScheduledLane, ClaimTick, MakeRuntime, Unmade, Acquire, AcquireFails, Undo,
     UndoComplete, SettleClose, SettleComplete, SettleRecord, Released, ReleaseThrows,
     Completes, CompletionThrows, Quarantines, QuarantineThrows, Throws, Works
  <2> QED BY <2>1, DecisionSpares, SupervisorAssumption DEF Supervised, Bounded
<1>9. ActiveKnown'
  <2>1. CASE UNCHANGED <<active, cycle>>
    <3>1. stage[d] \notin {"initial", "over"}
      BY <1>0 DEF DecisionGoes, Passes
    <3>2. active # d
      BY <3>1 DEF Supervised, ActiveKnown
    <3> QED BY <1>2, <2>1, <3>2 DEF Supervised, ActiveKnown, OwnersTyped
  <2>2. CASE Stage(d, "initial") /\ active' = d /\ cycle' = [NoRecord EXCEPT !.busy = "initial"]
    BY <2>2 DEF Supervised, StagesTyped, Stage, ActiveKnown, NoRecord
  <2> QED BY <2>1, <2>2, DecisionSpares DEF Supervised
<1> QED BY <1>2, <1>3, <1>6, <1>7, <1>8, <1>9 DEF Supervised

(* The active cycle keeps or ends its initial command.                         *)
LEMMA ReturnsKeep ==
  ASSUME Supervised, active # NoCycle, Returns, claim' = claim, active' = active,
         cycle'.busy # "initial"
  PROVE  /\ StagesTyped' /\ ClaimsKnown' /\ stage'[active] = "over"
         /\ \A e \in Cycles \ {active} : stage'[e] = stage[e]
         /\ attempt' \in {attempt, NoCycle}
<1>0. active \in Cycles
  BY DEF Supervised, OwnersTyped
<1>1. CASE cycle.busy = "initial"
  <2>1. Stage(active, "over") /\ claim[active] # Unclaimed /\ attempt' = NoCycle
    BY <1>0, <1>1 DEF Returns, Supervised, ActiveKnown, ClaimsKnown, Early
  <2>2. "over" \in Stages /\ "over" \notin {"unused"} \cup Early
    BY DEF Stages, Early
  <2> QED BY <1>0, <2>1, <2>2, StageMoves DEF Supervised
<1>2. CASE cycle.busy # "initial"
  BY <1>2 DEF Returns, Supervised, StagesTyped, ClaimsKnown, ActiveKnown
<1> QED BY <1>1, <1>2

LEMMA SupervisedStep ==
  ASSUME Supervised, Next, (SchedulerTypeOK /\ BarrierTypeOK)'
  PROVE  Supervised'
<1>1. ASSUME NEW c \in Cycles, BeginScheduledTick(c) PROVE Supervised'
  <2>1. /\ Stage(c, "clear") /\ claim' = claim /\ stage[c] = "unused"
        /\ UNCHANGED <<runtime, tracker, cleanupFailed, gate, active, cycle, orphans, shutdown,
                       faults, crashes>>
        /\ attempt' = c
    BY <1>1 DEF BeginScheduledTick, schedulerVars, cycleVars
  <2>2. claim[c] = Unclaimed /\ "clear" \in Stages /\ "clear" \in Early
    BY <2>1 DEF Supervised, ClaimsKnown, Stages, Early
  <2>3. /\ StagesTyped' /\ ClaimsKnown'
        /\ stage'[c] = "clear" /\ \A e \in Cycles \ {c} : stage'[e] = stage[e]
    BY <2>1, <2>2, StageMoves DEF Supervised
  <2>4. ActiveKnown'
    BY <2>1, <2>3 DEF Supervised, ActiveKnown, OwnersTyped
  <2> QED BY <2>1, <2>3, <2>4 DEF Supervised, RuntimeTyped, OwnersTyped, CycleTyped, Bounded
<1>2. ASSUME NEW c \in Cycles, DecisionDeadline(c) PROVE Supervised'
  BY <1>2 DEF DecisionDeadline, schedulerVars, cycleVars, Supervised, StagesTyped, RuntimeTyped,
     OwnersTyped, CycleTyped, Bounded, ClaimsKnown, ActiveKnown
<1>3. ASSUME NEW c \in Cycles, OrphanEnds(c) PROVE Supervised'
  BY <1>3 DEF OrphanEnds, schedulerVars, decisionVars, Supervised, StagesTyped, RuntimeTyped,
     OwnersTyped, CycleTyped, Bounded, ClaimsKnown, ActiveKnown
<1>4. ASSUME claim' = claim, UNCHANGED <<decisionVars, gate, active, orphans>>,
             shutdown' \in {"no", "running", "done", "failed"},
             CycleTyped', cycle'.busy = cycle.busy \/ stage[active] = "over",
             cycle'.busy = "initial" => cycle.busy = "initial",
             active # NoCycle, faults' \in 0 .. MaxFaults, crashes' = crashes
      PROVE  Supervised'
  BY <1>4 DEF decisionVars, Supervised, StagesTyped, RuntimeTyped, OwnersTyped, Bounded,
     ClaimsKnown, ActiveKnown
<1> USE DEF Supervised, Bounded
<1>5. ASSUME NEW kind \in Commands, Command(kind) PROVE Supervised'
  <2>1. kind # "initial"
    BY DEF Commands
  <2>2. CycleTyped'
    BY <1>5 DEF Command, CycleTyped, CycleRecord
  <2>3. cycle'.busy = kind /\ cycle.busy = "no"
    BY <1>5 DEF Command, CycleTyped, CycleRecord, Busy
  <2>4. stage[active] = "over"
    BY <1>5, <2>3 DEF Command, ActiveKnown
  <2> QED BY <1>4, <1>5, <2>1, <2>2, <2>3, <2>4 DEF Command, schedulerVars, OwnersTyped
<1>6. ASSUME CommandEnds \/ Expire PROVE Supervised'
  <2>1. /\ active # NoCycle /\ active' = active /\ claim' = claim /\ Returns
        /\ UNCHANGED <<runtime, tracker, cleanupFailed, gate, shutdown, faults, crashes>>
        /\ orphans' \in {orphans, orphans \cup {active}}
    BY <1>6 DEF CommandEnds, Expire, Armed, Busy, ActiveKnown, NoRecord, schedulerVars
  <2>2. CycleTyped' /\ cycle'.busy = "no"
    <3>1. CASE CommandEnds
      BY <3>1 DEF CommandEnds, CycleTyped, CycleRecord
    <3>2. CASE Expire
      <4> DEFINE late == [cycle EXCEPT !.expired = TRUE, !.busy = "no", !.failed = @ \/ Busy]
      <4>1. late \in CycleRecord /\ late.busy = "no"
        BY DEF CycleTyped, CycleRecord
      <4>2. \/ cycle' = late \/ cycle' = [late EXCEPT !.pc = "barrier", !.kind = "force"]
            \/ cycle' = [late EXCEPT !.pc = "quarantine", !.threw = TRUE]
        BY <3>2 DEF Expire, CloseBegins
      <4> HIDE DEF late
      <4> QED BY <4>1, <4>2 DEF CycleTyped, CycleRecord, ClosePcs
    <3> QED BY <1>6, <3>1, <3>2
  <2>3. /\ StagesTyped' /\ ClaimsKnown' /\ stage'[active] = "over"
        /\ \A e \in Cycles \ {active} : stage'[e] = stage[e]
        /\ attempt' \in {attempt, NoCycle}
    BY <2>1, <2>2, ReturnsKeep
  <2>4. OwnersTyped' /\ RuntimeTyped' /\ ActiveKnown'
    BY <2>1, <2>2, <2>3 DEF OwnersTyped, RuntimeTyped, ActiveKnown
  <2> QED BY <2>1, <2>2, <2>3, <2>4
<1>7. ASSUME cycle.pc # "none" PROVE active # NoCycle
  BY <1>7 DEF ActiveKnown, NoRecord
<1>8. ASSUME Close \/ (RequestShutdown /\ cycle' # cycle) PROVE Supervised'
  <2>1. /\ active # NoCycle /\ UNCHANGED <<claim, decisionVars, gate, active, orphans, faults, crashes>>
        /\ cycle' = [cycle EXCEPT !.pc = "barrier", !.kind = "graceful"]
        /\ shutdown' \in {shutdown, "running"}
    BY <1>8 DEF Close, RequestShutdown, CloseBegins, schedulerVars
  <2>2. CycleTyped' /\ cycle'.busy = cycle.busy
    BY <2>1 DEF CycleTyped, CycleRecord, ClosePcs
  <2> QED BY <1>4, <2>1, <2>2 DEF OwnersTyped
<1>9. ASSUME \/ RequestShutdown /\ cycle' = cycle
             \/ ShutdownEnds \/ BucketPasses \/ FileStep
      PROVE  Supervised'
  <2>1. /\ claim' = claim /\ cycle' = cycle
        /\ UNCHANGED <<decisionVars, gate, active, orphans, crashes>>
        /\ shutdown' \in {"no", "running", "done", "failed"}
        /\ faults' = faults \/ (faults < MaxFaults /\ faults' = faults + 1)
    BY <1>9 DEF RequestShutdown, ShutdownEnds, BucketPasses, TimePasses, FileStep, CallStep,
       CallThrows, Works, Throws, cycleVars, schedulerVars, OwnersTyped
  <2> QED BY <2>1, SupervisorAssumption DEF decisionVars, StagesTyped, RuntimeTyped, OwnersTyped,
      CycleTyped,
             ClaimsKnown, ActiveKnown
<1>10. ASSUME \/ BarrierFails \/ BarrierStands \/ Drained \/ CloseSession \/ CompleteCycle
       PROVE  Supervised'
  <2>1. cycle.pc # "none"
    BY <1>10 DEF BarrierFails, BarrierStands, Drained, CloseSession, CompleteCycle
  <2>2. CycleTyped' /\ cycle'.busy = cycle.busy
    <3>1. ASSUME NEW pc \in ClosePcs, Proceeds(pc) PROVE CycleTyped' /\ cycle'.busy = cycle.busy
      BY <3>1 DEF Proceeds, CycleTyped, CycleRecord
    <3>2. CASE BarrierStands \/ Drained
      BY <3>1, <3>2 DEF BarrierStands, Drained, SessionStep, ClosePcs
    <3>3. CASE BarrierFails
      BY <3>3 DEF BarrierFails, CycleTyped, CycleRecord, ClosePcs
    <3>4. CASE CloseSession
      BY <3>4 DEF CloseSession, CycleTyped, CycleRecord, ClosePcs
    <3>5. CASE CompleteCycle
      BY <3>1, <3>5 DEF CompleteCycle, CycleTyped, CycleRecord, ClosePcs
    <3> QED BY <1>10, <3>2, <3>3, <3>4, <3>5
  <2>3. /\ claim' = claim /\ UNCHANGED <<decisionVars, gate, active, orphans, crashes>>
        /\ shutdown' \in {shutdown, "failed"}
        /\ faults' = faults \/ (faults < MaxFaults /\ faults' = faults + 1)
    BY <1>10, CompletionKeepsClaims DEF BarrierFails, BarrierStands, Drained, CloseSession,
       CompleteCycle, Completes, CompletionThrows, Works, Throws, ShutdownFollows, schedulerVars
  <2> QED BY <1>4, <1>7, <2>1, <2>2, <2>3, SupervisorAssumption DEF OwnersTyped
<1>11. ASSUME QuarantineCycle \/ ReleaseOwner \/ ClearEnds PROVE Supervised'
  <2>1. active # NoCycle
    BY <1>7, <1>11 DEF QuarantineCycle, ReleaseOwner, ClearEnds
  <2>2. /\ UNCHANGED <<claim, stage, attempt, tracker, cleanupFailed, orphans, crashes>>
        /\ shutdown' \in {shutdown, "failed"}
        /\ faults' = faults \/ (faults < MaxFaults /\ faults' = faults + 1)
    BY <1>11 DEF QuarantineCycle, ReleaseOwner, ClearEnds, Quarantines, QuarantineThrows, Released,
       ReleaseThrows, FinishCycle, Continues, ShutdownFollows, Works, Throws, decisionVars,
       schedulerVars
  <2>3. RuntimeTyped' /\ gate' \in {gate, NoCycle}
    BY <1>11, <2>1 DEF QuarantineCycle, ReleaseOwner, ClearEnds, Released, ReleaseThrows,
       RuntimeTyped,
       decisionVars
  <2>4. \/ active' = NoCycle /\ cycle' = NoRecord
        \/ active' = active /\ \E pc \in ClosePcs : Proceeds(pc)
    BY <1>11 DEF QuarantineCycle, ReleaseOwner, ClearEnds, FinishCycle, Continues, ClosePcs
  <2>5. CycleTyped' /\ ActiveKnown'
    <3>1. CASE active' = NoCycle /\ cycle' = NoRecord
      BY <3>1 DEF CycleTyped, CycleRecord, NoRecord, ClosePcs, ActiveKnown
    <3>2. CASE active' = active /\ \E pc \in ClosePcs : Proceeds(pc)
      <4>1. CycleTyped' /\ cycle'.busy = cycle.busy
        BY <3>2 DEF Proceeds, CycleTyped, CycleRecord
      <4> QED BY <2>1, <2>2, <3>2, <4>1 DEF ActiveKnown
    <3> QED BY <2>4, <3>1, <3>2
  <2>6. OwnersTyped'
    BY <2>2, <2>3, <2>4 DEF OwnersTyped
  <2> QED BY <2>2, <2>3, <2>5, <2>6, SupervisorAssumption DEF StagesTyped, ClaimsKnown
<1>12. ASSUME Restart PROVE Supervised'
  <2>1. /\ claim' = claim /\ faults' = faults
        /\ stage' = [c \in Cycles |-> IF claim[c] = Unclaimed THEN "unused" ELSE "over"]
        /\ runtime' = [c \in Cycles |-> IF runtime[c] = "none" THEN "none" ELSE "closed"]
        /\ attempt' = NoCycle /\ tracker' = NoCycle /\ cleanupFailed' = FALSE
        /\ gate' = NoCycle /\ active' = NoCycle /\ cycle' = NoRecord
        /\ orphans' = {} /\ shutdown' = "no"
        /\ crashes' = crashes \/ (crashes < MaxCrashes /\ crashes' = crashes + 1)
    BY <1>12 DEF Restart, schedulerVars
  <2>2. StagesTyped' /\ ClaimsKnown'
    BY <2>1 DEF StagesTyped, Stages, ClaimsKnown, Early
  <2>3. RuntimeTyped' /\ OwnersTyped'
    BY <2>1 DEF RuntimeTyped, OwnersTyped
  <2>4. CycleTyped' /\ ActiveKnown'
    BY <2>1 DEF CycleTyped, CycleRecord, NoRecord, ClosePcs, ActiveKnown
  <2> QED BY <2>1, <2>2, <2>3, <2>4, SupervisorAssumption
<1> QED
  BY <1>1, <1>2, <1>3, <1>5, <1>6, <1>8, <1>9, <1>10, <1>11, <1>12, SupervisedDecides
     DEF Next, CloseStep

LEMMA SupervisedAlways ==
  /\ Spec => SchedulerSpec
  /\ Spec => BarrierSpec
  /\ Spec => [](SchedulerInv /\ BarrierInv /\ Supervised)
<1> DEFINE I == SchedulerInv /\ BarrierInv /\ Supervised
<1>1. Init => I /\ SchedulerInit /\ BarrierInit
  BY SupervisorBegins, SchedulerInvInit, BarrierInvInit
<1>2. I /\ [Next]_vars => [SchedulerNext]_schedulerVars /\ [BarrierNext]_barrierVars
  BY ActsOnRecord, ActsOnBarrier DEF vars
<1>3. I /\ [Next]_vars => I'
  <2> SUFFICES ASSUME I, [Next]_vars PROVE I'
    OBVIOUS
  <2>1. SchedulerInv'
    BY <1>2, SchedulerInvStep
  <2>2. BarrierInv'
    BY <1>2, FilesUntouched, CallStepsKeep DEF BarrierNext
  <2>3. CASE Next
    BY <2>1, <2>2, <2>3, SupervisedStep DEF SchedulerInv, BarrierInv
  <2>4. CASE UNCHANGED vars
    BY <2>1, <2>2, <2>4 DEF vars, decisionVars, cycleVars, schedulerVars, Supervised, SchedulerInv,
       BarrierInv, StagesTyped, RuntimeTyped, OwnersTyped, CycleTyped, Bounded, ClaimsKnown,
       ActiveKnown
  <2> QED BY <2>1, <2>2, <2>3, <2>4
<1> QED BY <1>1, <1>2, <1>3, PTL DEF Spec, SchedulerSpec, BarrierSpec

(* What the supervisor uses it uses as it should, for any number of decisions that  *)
(* are late (beginScheduledTick, its completion, and the terminal barrier).         *)
THEOREM SupervisorTyped == Spec => []HeartbeatTypeOK
<1>1. Supervised => HeartbeatTypeOK
  BY DEF Supervised, HeartbeatTypeOK, StagesTyped, Stages, Early, Claimed, DecisionStages,
     RuntimeTyped,
     OwnersTyped, CycleTyped, CycleRecord, Bounded
<1> QED BY <1>1, SupervisedAlways, PTL

(* Nothing but its own clear takes a cycle that closes out of the files, whatever   *)
(* deadline, shutdown, failure or crash comes between.                          *)
THEOREM SupervisorKeepsUnsettled == Spec => []UnsettledIsOnDisk
  BY SupervisedAlways, UnsettledStays, PTL

-----------------------------------------------------------------------------
(* One decision late at a time.                                              *)
(*                                                                         *)
(* A decision that has passed the admission of its claim is the only one that     *)
(* has: any other under way is on its way there, and waits for it (Alone).  It     *)
(* finds nothing active but its own cycle (Decided), so that the files do not      *)
(* change under a decision that reads them (Reading).                          *)
Ordered == {"clear", "recover", "select"}

Decided ==
  \A d \in Cycles :
    /\ stage[d] \in {"clear"} \cup AdmissionStages => attempt = d
    /\ UnderWay(d) /\ stage[d] # "initial" => active = NoCycle
    /\ stage[d] = "initial" => active = d /\ cycle.busy = "initial"

Alone ==
  \A d \in Cycles :
    /\ Late(d) => tracker = d
    /\ stage[d] \in Claimed \cup {"claim"} =>
         \A e \in Cycles \ {d} : UnderWay(e) => stage[e] \in Ordered /\ tracker = d

LEMMA DecidesAlone ==
  ASSUME Supervised, Decided, Alone, NEW d \in Cycles, DecisionStep(d)
  PROVE  Decided' /\ Alone'
<1> USE DEF Early, Claimed, AdmissionStages, SettlementStages, Ordered
<1>0. StagesTyped /\ ActiveKnown /\ OwnersTyped
  BY DEF Supervised
<1>1. CASE Over(d) /\ stage[d] \notin {"unused", "over", "initial"}
  <2>1. /\ stage'[d] \in {"unused", "over"}
        /\ \A e \in Cycles \ {d} : stage'[e] = stage[e]
        /\ attempt' = IF attempt = d THEN NoCycle ELSE attempt
        /\ tracker' = IF tracker = d THEN NoCycle ELSE tracker
    BY <1>0, <1>1 DEF Over, Stage, StagesTyped
  <2>2. UNCHANGED <<active, cycle>>
    BY <1>0, <1>1, DecisionSpares DEF Over, Stage, StagesTyped
  <2>3. Decided'
    BY <1>1, <2>1, <2>2 DEF Decided, UnderWay
  <2>4. Alone'
    BY <1>1, <2>1 DEF Alone, Late, UnderWay
  <2> QED BY <2>3, <2>4
<1>2. ASSUME NEW t \in Stages, Onward(d, t), stage[d] \in Claimed \cup Early,
             t \in Claimed \cup Early, stage[d] # "initial",
             t \in Ordered \/ stage[d] \in Claimed \cup {"claim"} \/ (t = "claim" /\ MayDecide),
             stage[d] \in Ordered \/ t \in Claimed \cup {"claim"},
             t \in {"clear"} \cup AdmissionStages => attempt = d,
             t = "initial" => stage[d] = "acquire"
      PROVE  Decided' /\ Alone'
  <2>1. /\ stage'[d] = t /\ \A e \in Cycles \ {d} : stage'[e] = stage[e]
        /\ attempt' = attempt /\ tracker' = tracker
    BY <1>0, <1>2 DEF Onward, Stage, StagesTyped
  <2>2. \A e \in Cycles : Late(e) => tracker = e
    BY DEF Alone
  <2>3. Alone'
    <3>1. \A e \in Cycles : UnderWay(e)' <=> UnderWay(e)
      BY <1>2, <2>1 DEF UnderWay
    <3>2. \A e \in Cycles : Late(e)' => tracker' = e
      BY <2>1, <2>2, <3>1 DEF Late
    <3>3. ASSUME NEW c \in Cycles, stage'[c] \in Claimed \cup {"claim"},
                 NEW e \in Cycles \ {c}, UnderWay(e)
          PROVE  stage'[e] \in Ordered /\ tracker = c
      <4>1. CASE t = "claim" /\ MayDecide
        <5>1. tracker = NoCycle /\ \A f \in Cycles : UnderWay(f) => f = attempt
          BY <2>2, <4>1 DEF MayDecide, Late
        <5>2. UnderWay(d)
          BY <1>2 DEF UnderWay
        <5> QED BY <2>1, <3>3, <5>1, <5>2, <3>1 DEF UnderWay
      <4>2. CASE ~(t = "claim" /\ MayDecide)
        BY <1>2, <2>1, <3>3, <4>2 DEF Alone, UnderWay
      <4> QED BY <4>1, <4>2
    <3> QED BY <2>1, <3>1, <3>2, <3>3 DEF Alone
  <2>4. CASE UNCHANGED <<active, cycle>> /\ t # "initial"
    <3>1. ASSUME NEW e \in Cycles \ {d}
          PROVE  UNCHANGED <<stage[e], UnderWay(e)>>
      BY <2>1 DEF UnderWay
    <3>2. UnderWay(d) /\ stage[d] # "initial"
      BY <1>2 DEF UnderWay
    <3>3. active = NoCycle
      BY <3>2 DEF Decided
    <3>4. Decided'
      BY <1>2, <2>1, <2>4, <3>1, <3>3 DEF Decided
    <3> QED BY <2>3, <3>4
  <2>5. CASE /\ t = "initial" /\ stage[d] = "acquire" /\ active' = d
             /\ cycle' = [NoRecord EXCEPT !.busy = "initial"]
    <3>1. attempt = d
      BY <2>5 DEF Decided
    <3>2. cycle'.busy = "initial"
      BY <2>5 DEF NoRecord
    <3>3. \A e \in Cycles \ {d} : ~UnderWay(e)
      BY <2>2, <2>5, <3>1 DEF Alone, Late
    <3> QED BY <2>1, <2>3, <2>5, <3>1, <3>2, <3>3 DEF Decided, UnderWay
  <2> QED
    BY <1>0, <1>2, <2>1, <2>3, <2>4, <2>5, DecisionSpares DEF Onward, Stage, StagesTyped
<1>3. DecisionGoes(d)
  BY DecisionGoesOn
<1>4. ASSUME NEW t \in Stages, Passes(d, t) PROVE Decided' /\ Alone'
  BY <1>2, <1>4 DEF Passes, Decided
<1>5. CASE stage[d] = "claim" /\ Onward(d, "make")
  BY <1>2, <1>5 DEF Stages
<1> QED BY <1>1, <1>3, <1>4, <1>5 DEF DecisionGoes

(* The active cycle: its deadline ends a command and spares the session, and a      *)
(* session is touched only when no command is under way.  A call to the barrier     *)
(* is of the cycle that closes, and what closes is unsettled.                     *)
Closings == {"drain", "abort", "close", "quarantine", "complete", "quarantineOutcome",
             "release", "quarantineRelease", "stuck"}

Placed ==
  /\ cycle.pc \notin {"none", "barrier", "drain"} => ~Busy
  /\ cycle.expired => ~Busy /\ cycle.pc \notin {"drain", "abort", "close"}
  /\ cycle.kind = "force" => cycle.expired
  /\ cycle.pc = "clear" => cycle.success
  /\ cycle.success => cycle.pc \notin {"none", "barrier", "drain", "abort", "close"}

Calls ==
  /\ CallRuns => cycle.pc \in {"barrier", "clear"}
  /\ cycle.pc \in {"barrier", "clear"} => call.of = active
  /\ call.pc = "begun" => call.of \in unsettled
  /\ cycle.pc \in Closings => active \in unsettled

(* The steps of the active cycle leave the decisions alone, but for the tick whose   *)
(* initial command it is.                                                   *)
CycleMoves ==
  \/ \E kind \in Commands : Command(kind)
  \/ CommandEnds \/ Close \/ Expire \/ CloseStep \/ RequestShutdown

Expiry == [cycle EXCEPT !.expired = TRUE, !.busy = "no", !.failed = @ \/ Busy]

LEMMA PlacedStep ==
  ASSUME Supervised, Placed, CycleMoves
  PROVE  Placed'
<1>0. CycleTyped
  BY DEF Supervised
<1> USE DEF Placed, Busy, CycleTyped, CycleRecord
<1>1. ASSUME NEW kind \in Commands, Command(kind) PROVE Placed'
  BY <1>0, <1>1 DEF Command
<1>2. CASE CommandEnds
  BY <1>0, <1>2 DEF CommandEnds
<1>3. CASE Close \/ (RequestShutdown /\ cycle' # cycle)
  <2>1. cycle.pc = "none" /\ cycle' = [cycle EXCEPT !.pc = "barrier", !.kind = "graceful"]
    BY <1>3 DEF Close, RequestShutdown, CloseBegins
  <2> QED BY <1>0, <2>1
<1>4. CASE Expire
  <2>1. /\ Expiry \in CycleRecord /\ Expiry.busy = "no" /\ Expiry.expired /\ Expiry.pc = cycle.pc
        /\ Expiry.kind = cycle.kind /\ Expiry.success = cycle.success
    BY <1>0 DEF Expiry
  <2>2. \/ cycle.pc = "none" /\ cycle' = [Expiry EXCEPT !.pc = "barrier", !.kind = "force"]
        \/ cycle' = [Expiry EXCEPT !.pc = "quarantine", !.threw = TRUE]
        \/ cycle.pc \notin {"none", "drain", "abort", "close"} /\ cycle' = Expiry
    BY <1>4 DEF Expire, CloseBegins, Expiry
  <2> QED BY <2>1, <2>2
<1>5. CASE BarrierFails \/ CloseSession
  BY <1>0, <1>5 DEF BarrierFails, CloseSession
<1>6. CASE BarrierStands \/ Drained
  BY <1>0, <1>6 DEF BarrierStands, Drained, SessionStep, Proceeds
<1>7. ASSUME NEW fails, FinishCycle(fails) PROVE Placed'
  BY <1>7 DEF FinishCycle, NoRecord
<1>70. ASSUME NEW pc \in {"complete", "release", "stuck", "quarantineRelease", "clear"},
              Proceeds(pc), cycle.pc \in {"quarantine", "quarantineOutcome", "quarantineRelease",
                                          "release"},
              pc = "clear" => cycle.success
       PROVE  Placed'
  BY <1>0, <1>70 DEF Proceeds
<1>71. CASE QuarantineCycle
  <2>1. \/ FinishCycle(TRUE)
        \/ /\ cycle.pc \in {"quarantine", "quarantineOutcome", "quarantineRelease"}
           /\ Proceeds("complete") \/ Proceeds("release") \/ Proceeds("stuck")
    BY <1>71 DEF QuarantineCycle, Continues
  <2> QED BY <1>7, <1>70, <2>1
<1>8. CASE CompleteCycle
  BY <1>0, <1>8 DEF CompleteCycle, Proceeds
<1>9. CASE ReleaseOwner \/ ClearEnds
  <2>1. \/ FinishCycle(TRUE) \/ FinishCycle(cycle.threw) \/ FinishCycle(call.pc = "failed")
        \/ cycle.pc = "release" /\ cycle.success /\ Proceeds("clear")
        \/ cycle.pc = "release" /\ Proceeds("quarantineRelease")
    BY <1>9 DEF ReleaseOwner, ClearEnds, Clears, Continues
  <2> QED BY <1>7, <1>70, <2>1
<1>10. CASE FileStep \/ (RequestShutdown /\ cycle' = cycle)
  BY <1>10 DEF FileStep, cycleVars
<1> QED BY <1>1, <1>2, <1>3, <1>4, <1>5, <1>6, <1>71, <1>8, <1>9, <1>10
        DEF CycleMoves, CloseStep

(* A call of the barrier goes on or throws.                                    *)
LEMMA CallGoesOn ==
  ASSUME BarrierTypeOK, CallStep \/ CallThrows
  PROVE  /\ CallRuns /\ call'.of = call.of
         /\ call'.pc = "begun" => call.of \in unsettled'
         /\ unsettled' = unsettled \/ unsettled' = unsettled \ {call.of}
              \/ unsettled' = unsettled \cup {call.of}
<1> QED
  BY DEF BarrierTypeOK, CallSteps, BeginSteps, ClearSteps, CallStep, CallThrows, CallRuns, NoCall,
     Becomes, Retire, Create, Begun, Pend, Resumes, Fill, Unlink, Truncate, Rewrite

LEMMA CallsStep ==
  ASSUME Supervised, Placed, Calls, CycleMoves
  PROVE  Calls'
<1>0. CycleTyped /\ BarrierTypeOK /\ ActiveKnown
  BY DEF Supervised
<1> USE DEF Calls, Closings
<1>1. ASSUME UNCHANGED <<active, barrierVars>>, cycle'.pc = cycle.pc PROVE Calls'
  BY <1>1 DEF barrierVars, CallRuns
<1>2. CASE \/ (\E kind \in Commands : Command(kind)) \/ CommandEnds
           \/ (RequestShutdown /\ cycle' = cycle /\ UNCHANGED barrierVars)
  BY <1>0, <1>1, <1>2 DEF Command, CommandEnds, RequestShutdown, CycleTyped, CycleRecord
<1>3. ASSUME ~CallRuns, call' = call, unsettled' = unsettled,
             cycle'.pc \notin Closings \cup {"barrier", "clear"} \/
               (active' = active /\ active \in unsettled /\ cycle'.pc \in Closings)
      PROVE  Calls'
  BY <1>3 DEF CallRuns
<1>4. ASSUME BeginTerminalBarrier(active), active' = active, cycle'.pc = "barrier" PROVE Calls'
  BY <1>4 DEF BeginTerminalBarrier
<1>5. CASE Close \/ (RequestShutdown /\ ~(cycle' = cycle /\ UNCHANGED barrierVars))
  BY <1>0, <1>4, <1>5 DEF Close, RequestShutdown, CloseBegins, CycleTyped, CycleRecord
<1>6. CASE Expire
  <2>1. Expiry \in CycleRecord /\ Expiry.pc = cycle.pc
    BY <1>0 DEF Expiry, CycleTyped, CycleRecord
  <2>2. active' = active
    BY <1>6 DEF Expire
  <2>3. \/ BeginTerminalBarrier(active) /\ cycle' = [Expiry EXCEPT !.pc = "barrier", !.kind = "force"]
        \/ /\ cycle.pc \in {"drain", "abort", "close"} /\ UNCHANGED barrierVars
           /\ cycle' = [Expiry EXCEPT !.pc = "quarantine", !.threw = TRUE]
        \/ cycle' = Expiry /\ UNCHANGED barrierVars
    BY <1>6 DEF Expire, CloseBegins, Expiry
  <2>4. CASE BeginTerminalBarrier(active) /\ cycle' = [Expiry EXCEPT !.pc = "barrier", !.kind = "force"]
    BY <1>4, <2>1, <2>2, <2>4 DEF CycleRecord
  <2>5. CASE /\ cycle.pc \in {"drain", "abort", "close"} /\ UNCHANGED barrierVars
             /\ cycle' = [Expiry EXCEPT !.pc = "quarantine", !.threw = TRUE]
    BY <1>3, <2>1, <2>2, <2>5 DEF CycleRecord, barrierVars
  <2>6. CASE cycle' = Expiry /\ UNCHANGED barrierVars
    BY <1>1, <2>1, <2>2, <2>6
  <2> QED BY <2>3, <2>4, <2>5, <2>6
<1>7. CASE FileStep
  <2>1. UNCHANGED <<active, cycle>> /\ (CallStep \/ CallThrows)
    BY <1>7 DEF FileStep, cycleVars
  <2> QED BY <1>0, <2>1, CallGoesOn
<1>8. CASE BarrierFails
  BY <1>0, <1>3, <1>8 DEF BarrierFails, CycleTyped, CycleRecord, CallRuns, barrierVars, BeginSteps,
     ClearSteps
<1>9. CASE BarrierStands
  <2>1. ~CallRuns /\ active \in unsettled /\ active' = active /\ UNCHANGED barrierVars
    BY <1>9 DEF BarrierStands, BarrierDurable, CallRuns, BeginSteps, ClearSteps
  <2>2. cycle'.pc \in Closings
    BY <1>0, <1>9 DEF BarrierStands, Proceeds, SessionStep, CycleTyped, CycleRecord
  <2> QED BY <1>3, <2>1, <2>2 DEF barrierVars
<1>10. ASSUME cycle.pc \in Closings, active' = active, cycle'.pc \in Closings,
              call' = call, unsettled' = unsettled
       PROVE  Calls'
  BY <1>3, <1>10
<1>11. CASE Drained \/ CloseSession \/ CompleteCycle
  <2>1. cycle.pc \in Closings /\ active' = active /\ UNCHANGED barrierVars
    BY <1>11 DEF Drained, CloseSession, CompleteCycle
  <2>2. cycle'.pc \in Closings
    BY <1>0, <1>11 DEF Drained, CloseSession, CompleteCycle, Proceeds, SessionStep, CycleTyped,
       CycleRecord
  <2> QED BY <1>10, <2>1, <2>2 DEF barrierVars
<1>12. ASSUME FinishCycle(TRUE) \/ FinishCycle(FALSE), ~CallRuns, call' = call,
              unsettled' = unsettled
       PROVE  Calls'
  <2>0. cycle' = NoRecord
    BY <1>12 DEF FinishCycle
  <2>1. cycle'.pc = "none"
    BY <2>0 DEF NoRecord
  <2>2. "none" \notin Closings \cup {"barrier", "clear"}
    OBVIOUS
  <2> QED BY <1>3, <1>12, <2>1, <2>2
<1>13. CASE QuarantineCycle
  <2>1. cycle.pc \in Closings /\ call' = call /\ unsettled' = unsettled
    BY <1>13 DEF QuarantineCycle, Quarantines, QuarantineThrows, Quarantine, barrierVars
  <2>2. \/ FinishCycle(TRUE)
        \/ active' = active /\ \E pc \in Closings : Proceeds(pc)
    BY <1>13 DEF QuarantineCycle, Continues
  <2> QED BY <1>0, <1>10, <1>12, <2>1, <2>2 DEF Proceeds, CycleTyped, CycleRecord
<1>14. CASE ReleaseOwner
  <2>1. cycle.pc \in Closings /\ cycle.pc = "release"
    BY <1>14 DEF ReleaseOwner
  <2>2. CASE ClearTerminalBarrier(active) /\ Continues("clear")
    BY <1>0, <2>2 DEF ClearTerminalBarrier, Continues, Proceeds, CycleTyped, CycleRecord
  <2>3. CASE UNCHANGED barrierVars /\ Continues("quarantineRelease")
    BY <1>0, <1>10, <2>1, <2>3 DEF Continues, Proceeds, CycleTyped, CycleRecord, barrierVars
  <2>4. CASE UNCHANGED barrierVars /\ (FinishCycle(cycle.threw) \/ FinishCycle(TRUE))
    <3>1. cycle.threw \in BOOLEAN
      BY <1>0 DEF CycleTyped, CycleRecord
    <3> QED BY <1>12, <2>1, <2>4, <3>1 DEF barrierVars
  <2> QED BY <1>14, <2>2, <2>3, <2>4 DEF ReleaseOwner
<1>15. CASE ClearEnds
  <2>1. UNCHANGED barrierVars /\ ~CallRuns /\ FinishCycle(call.pc = "failed")
    BY <1>15 DEF ClearEnds, CallRuns, BeginSteps, ClearSteps
  <2> QED BY <1>12, <2>1 DEF barrierVars
<1> QED
  BY <1>2, <1>5, <1>6, <1>7, <1>8, <1>9, <1>11, <1>13, <1>14, <1>15 DEF CycleMoves, CloseStep

(* What a step of the active cycle does to the decisions.  There is none under way  *)
(* but the tick that became the cycle, until its initial command ends.            *)
CycleGoes ==
  /\ active \in Cycles
  /\ UNCHANGED <<claim, tracker, cleanupFailed>>
  /\ shutdown' = "done" => shutdown = "done"
  /\ active' \in {active, NoCycle}
  /\ \/ /\ UNCHANGED <<stage, attempt>>
        /\ stage[active] = "initial" => active' = active /\ cycle'.busy = "initial"
     \/ stage[active] = "initial" /\ Stage(active, "over") /\ attempt' = NoCycle

(* A shutdown is requested when there is nothing to close.                        *)
NothingToClose ==
  /\ UNCHANGED <<claim, barrierVars, decisionVars, gate, cycleVars>>
  /\ shutdown' # "done"

LEMMA CycleGoesOn ==
  ASSUME Supervised, Placed, Calls, CycleMoves
  PROVE  CycleGoes \/ NothingToClose
<1>0. /\ ActiveKnown /\ CycleTyped /\ BarrierTypeOK /\ active \in Cycles \cup {NoCycle}
      /\ cycle.pc # "none" => active \in Cycles
      /\ active \in Cycles /\ stage[active] = "initial" => cycle.busy = "initial"
  BY DEF Supervised, OwnersTyped, ActiveKnown, NoRecord
<1>1. ASSUME active \in Cycles, UNCHANGED <<claim, decisionVars, active>>,
             shutdown' \in {shutdown, "running", "failed"},
             cycle'.busy = cycle.busy \/ cycle.busy = "no"
      PROVE  CycleGoes
  BY <1>0, <1>1 DEF CycleGoes, decisionVars
<1>2. ASSUME NEW kind \in Commands, Command(kind) PROVE CycleGoes
  BY <1>0, <1>1, <1>2 DEF Command, Busy, schedulerVars
<1>3. CASE CommandEnds \/ Expire
  <2>1. active \in Cycles
    BY <1>0, <1>3 DEF CommandEnds, Expire, Armed, Busy, ActiveKnown, NoRecord
  <2>2. Returns /\ UNCHANGED <<claim, tracker, cleanupFailed, active, shutdown>>
    BY <1>3 DEF CommandEnds, Expire, schedulerVars
  <2> QED BY <1>0, <2>1, <2>2 DEF Returns, CycleGoes, ActiveKnown
<1>4. CASE Close \/ RequestShutdown
  <2>1. ASSUME CloseBegins("graceful", cycle) PROVE cycle'.busy = cycle.busy
    BY <1>0, <2>1 DEF CloseBegins, CycleTyped, CycleRecord
  <2>2. /\ UNCHANGED <<claim, decisionVars, gate, active, orphans>>
        /\ shutdown' \in {shutdown, "running"} /\ shutdown' = "done" => shutdown = "done"
    BY <1>4 DEF Close, RequestShutdown, schedulerVars
  <2>3. CASE Close \/ (active # NoCycle /\ cycle.pc = "none")
    BY <1>0, <1>1, <1>4, <2>1, <2>2, <2>3 DEF Close, RequestShutdown
  <2>4. CASE RequestShutdown /\ ~(active # NoCycle /\ cycle.pc = "none")
    BY <2>2, <2>4 DEF RequestShutdown, NothingToClose, cycleVars
  <2> QED BY <1>4, <2>3, <2>4
<1>5. CASE FileStep
  <2>1. cycle' = cycle /\ UNCHANGED <<claim, decisionVars, active, shutdown>>
    BY <1>5 DEF FileStep, cycleVars, schedulerVars
  <2>2. CallRuns
    BY <1>0, <1>5, CallGoesOn DEF FileStep
  <2> QED BY <1>0, <1>1, <2>1, <2>2 DEF Calls
<1>6. CASE BarrierFails \/ BarrierStands \/ Drained \/ CloseSession \/ CompleteCycle
  <2>1. cycle.pc # "none"
    BY <1>6 DEF BarrierFails, BarrierStands, Drained, CloseSession, CompleteCycle
  <2>2. /\ UNCHANGED <<claim, decisionVars, active>> /\ shutdown' \in {shutdown, "failed"}
    BY <1>6, CompletionKeepsClaims DEF BarrierFails, BarrierStands, Drained, CloseSession,
       CompleteCycle, ShutdownFollows, schedulerVars
  <2>3. cycle'.busy = cycle.busy
    <3>1. ASSUME NEW pc, Proceeds(pc) PROVE cycle'.busy = cycle.busy
      BY <1>0, <3>1 DEF Proceeds, CycleTyped, CycleRecord
    <3>2. CASE BarrierFails \/ CloseSession
      BY <1>0, <3>2 DEF BarrierFails, CloseSession, CycleTyped, CycleRecord
    <3>3. CASE BarrierStands \/ Drained
      BY <3>1, <3>3 DEF BarrierStands, Drained
    <3>4. CASE CompleteCycle
      BY <1>0, <3>1, <3>4 DEF CompleteCycle, CycleTyped, CycleRecord
    <3> QED BY <1>6, <3>2, <3>3, <3>4
  <2> QED BY <1>0, <1>1, <2>1, <2>2, <2>3
<1>7. CASE QuarantineCycle \/ ReleaseOwner \/ ClearEnds
  <2>1. cycle.pc \notin {"none", "barrier", "drain"}
    BY <1>7 DEF QuarantineCycle, ReleaseOwner, ClearEnds
  <2>2. UNCHANGED <<claim, stage, attempt, tracker, cleanupFailed>>
    BY <1>7 DEF QuarantineCycle, ReleaseOwner, ClearEnds, decisionVars, schedulerVars
  <2>3. shutdown' \in {shutdown, "failed"} /\ active' \in {active, NoCycle}
    BY <1>7 DEF QuarantineCycle, ReleaseOwner, ClearEnds, FinishCycle, Continues, ShutdownFollows
  <2>4. stage[active] # "initial" /\ active \in Cycles
    BY <1>0, <2>1 DEF Placed, Busy
  <2> QED BY <2>2, <2>3, <2>4 DEF CycleGoes
<1> QED BY <1>2, <1>3, <1>4, <1>5, <1>6, <1>7 DEF CycleMoves, CloseStep

LEMMA CycleIsAlone ==
  ASSUME Decided, active # NoCycle
  PROVE  \A d \in Cycles : UnderWay(d) => d = active /\ stage[d] = "initial" /\ attempt = d
BY DEF Decided, AdmissionStages

LEMMA CycleDecides ==
  ASSUME Supervised, Decided, Alone, CycleGoes
  PROVE  /\ Decided' /\ Alone'
         /\ \A d \in Cycles : UnderWay(d)' => d = active /\ stage'[d] = "initial"
<1>0. StagesTyped /\ active # NoCycle
  BY NoCycleAssumption DEF Supervised, CycleGoes
<1>1. \A d \in Cycles : UnderWay(d) => d = active /\ stage[d] = "initial" /\ attempt = d
  BY <1>0, CycleIsAlone
<1>2. \A d \in Cycles : stage'[d] = stage[d] \/ (d = active /\ stage'[d] = "over")
  BY <1>0 DEF CycleGoes, Stage, StagesTyped
<1>3. ASSUME NEW d \in Cycles, UnderWay(d)'
      PROVE  /\ d = active /\ stage'[d] = "initial" /\ attempt' = d
             /\ active' = active /\ cycle'.busy = "initial"
  <2>1. stage'[d] = stage[d] /\ UnderWay(d)
    BY <1>2, <1>3 DEF UnderWay
  <2>2. UNCHANGED <<stage, attempt>> /\ active' = active /\ cycle'.busy = "initial"
    BY <1>0, <1>1, <1>3, <2>1 DEF CycleGoes, Stage, StagesTyped, UnderWay
  <2> QED BY <1>1, <2>1, <2>2
<1>4. Decided'
  BY <1>3 DEF Decided, UnderWay, AdmissionStages
<1>5. Alone'
  BY <1>3 DEF Alone, Late, UnderWay, Claimed, AdmissionStages, SettlementStages
<1> QED BY <1>3, <1>4, <1>5

(* Only a decision that is late stands in the way of a tick: with one at a time no   *)
(* decision passes its deadline while another one does.                          *)
LEMMA DeadlineDecides ==
  ASSUME MaxLate <= 1, Supervised, Decided, Alone, NEW c \in Cycles,
         DecisionDeadline(c)
  PROVE  Decided' /\ Alone'
<1>1. \A e \in Cycles : ~Late(e)
  <2> DEFINE L == {e \in Cycles : Late(e)}
  <2>0. L \subseteq {tracker}
    BY DEF Alone
  <2>1. IsFiniteSet(L) /\ Cardinality(L) \in Nat
    BY <2>0, FS_Singleton, FS_Subset, FS_CardinalityType
  <2>2. Cardinality(L) = 0
    BY <2>1, SupervisorAssumption DEF DecisionDeadline
  <2>3. L = {}
    BY <2>1, <2>2, FS_EmptySet
  <2> QED BY <2>3
<1>2. /\ UNCHANGED <<stage, active, cycle>> /\ attempt = c /\ attempt' = NoCycle /\ tracker' = c
      /\ stage[c] \in {"recover", "select", "claim", "make", "unmade"}
  BY DEF DecisionDeadline, DecisionStages, cycleVars
<1>3. \A e \in Cycles : UnderWay(e) => e = c
  BY <1>1, <1>2 DEF Late
<1>4. Decided'
  BY <1>2, <1>3 DEF Decided, UnderWay, AdmissionStages
<1>5. Alone'
  BY <1>2, <1>3 DEF Alone, Late, UnderWay, Claimed, AdmissionStages, SettlementStages
<1> QED BY <1>4, <1>5

LEMMA TickDecides ==
  ASSUME Supervised, Decided, Alone, NEW c \in Cycles, BeginScheduledTick(c)
  PROVE  Decided' /\ Alone'
<1>1. /\ stage'[c] = "clear" /\ \A e \in Cycles \ {c} : stage'[e] = stage[e]
      /\ UNCHANGED <<tracker, active, cycle>> /\ attempt = NoCycle /\ attempt' = c
      /\ active = NoCycle
  BY DEF BeginScheduledTick, cycleVars, Supervised, StagesTyped, Stage
<1>2. \A e \in Cycles \ {c} : UnderWay(e) => tracker = e /\ stage[e] \notin {"clear"} \cup AdmissionStages
  BY <1>1, NoCycleAssumption DEF Alone, Late, Decided
<1>3. Decided'
  BY <1>1, <1>2 DEF Decided, UnderWay, AdmissionStages
<1>4. Alone'
  BY <1>1, <1>2 DEF Alone, Late, UnderWay, Claimed, AdmissionStages, SettlementStages, Ordered
<1> QED BY <1>3, <1>4

(* The files under a decision that reads them, and when it has.                    *)
Reading ==
  \A d \in Cycles :
    /\ stage[d] = "clear" /\ read \in {"quarantine", "receipt"} => barrier = NoCycle
    /\ stage[d] \in {"recover", "select", "claim"} => unsettled = {}

LEMMA DecisionReads ==
  ASSUME Supervised, UnsettledIsOnDisk, Decided, Reading, NEW d \in Cycles, DecisionStep(d)
  PROVE  /\ Reading' /\ UNCHANGED <<barrier, unsettled, call>>
<1>0. StagesTyped
  BY DEF Supervised
<1>1. \A e \in Cycles \ {d} : stage'[e] = stage[e]
  BY <1>0, DecisionGoesOn DEF DecisionGoes, Passes, Onward, Over, Stage, StagesTyped
<1>2. CASE AssertClear(d)
  <2>1. stage[d] = "clear" /\ attempt = d /\ ReadNext
    BY <1>2 DEF AssertClear, Decided
  <2>2. UNCHANGED <<barrier, unsettled, call>>
    BY <2>1 DEF ReadNext
  <2>3. \A e \in Cycles \ {d} : stage[e] # "clear"
    BY <2>1 DEF Decided
  <2>4. CASE read' = "clear"
    <3>1. read = "receipt" /\ receipt.phase \notin {"pending", "torn"} /\ barrier = NoCycle
      BY <2>1, <2>4 DEF ReadNext, Reads, Reading
    <3>2. unsettled = {}
      BY <3>1, NoCycleAssumption DEF UnsettledIsOnDisk, Supervised, BarrierTypeOK
    <3>3. stage'[d] \in {"recover", "select"}
      BY <1>0, <1>2, <2>4 DEF AssertClear, Goes, Stage, StagesTyped
    <3> QED BY <1>1, <2>2, <2>3, <3>2, <3>3 DEF Reading
  <2>5. CASE read' # "clear"
    <3>1. stage'[d] \in {"clear", "unused", "over"}
      BY <1>0, <1>2, <2>5 DEF AssertClear, Goes, Ends, Stage, StagesTyped
    <3>2. read' \in {"quarantine", "receipt"} => barrier = NoCycle
      BY <2>1, <2>5 DEF ReadNext, Reads, Reading
    <3> QED BY <1>1, <2>2, <2>3, <3>1, <3>2 DEF Reading
  <2> QED BY <2>4, <2>5
<1>3. CASE ~AssertClear(d)
  <2>1. UNCHANGED <<barrier, unsettled, call, read>>
    BY <1>3 DEF DecisionStep, RecoverRealtimePending, SelectScheduledLane, ClaimTick, MakeRuntime,
       Unmade, Acquire, AcquireFails, Undo, UndoComplete, SettleClose, SettleComplete, SettleRecord,
       Quarantines, QuarantineThrows, Quarantine, barrierVars
  <2>2. stage[d] # "clear"
    BY <1>3 DEF DecisionStep, RecoverRealtimePending, SelectScheduledLane, ClaimTick, MakeRuntime,
       Unmade, Acquire, AcquireFails, Undo, UndoComplete, SettleClose, SettleComplete, SettleRecord
  <2>3. stage'[d] \in {"select", "claim"} => stage[d] \in {"recover", "select"}
    BY <1>0, <2>2, DecisionGoesOn DEF DecisionGoes, Passes, Onward, Over, Stage, StagesTyped
  <2>4. stage'[d] \notin {"clear", "recover"}
    BY <1>0, <2>2, DecisionGoesOn DEF DecisionGoes, Passes, Onward, Over, Stage, StagesTyped
  <2> QED BY <1>1, <2>1, <2>3, <2>4 DEF Reading
<1> QED BY <1>2, <1>3

LEMMA CycleReads ==
  ASSUME Supervised, Decided, Alone, Reading, CycleGoes
  PROVE  Reading'
BY CycleDecides DEF Reading, UnderWay

(* What a cycle has, and when it has it without being active or under way.          *)
Lost == {"open", "unproven"}
Held == {"initial", "close", "completeAnyway", "record", "over"}
Has(c) == runtime[c] \in Lost \/ gate = c \/ c \in orphans
Abandoned(c) == stage[c] = "over" /\ active # c /\ Has(c)

Owned ==
  \A c \in Cycles :
    /\ runtime[c] \in Lost => stage[c] \in {"acquire", "undo"} \cup Held
    /\ stage[c] \in {"completeAnyway", "record"} => runtime[c] # "open"
    /\ gate = c => stage[c] \in Held
    /\ c \in orphans => stage[c] = "over"
    /\ c \in orphans /\ active = c => cycle.expired /\ ~cycle.success
    /\ active = c /\ cycle.pc = "clear" => runtime[c] \notin Lost /\ gate # c

(* Nothing is active, and no decision is past the admission of its claim.            *)
Quiet == active = NoCycle /\ \A d \in Cycles : stage[d] \notin Claimed \cup {"claim"}

LeftBehind ==
  \A c \in Cycles : Abandoned(c) =>
    /\ Quiet
    /\ unsettled # {} \/ (cleanupFailed /\ runtime[c] # "open")

Done == shutdown = "done" => Quiet

(* What a decision makes, and what it leaves when it is over: something only after a   *)
(* failed close, which it has recorded.                                       *)
OwnedBy(d) ==
  /\ runtime[d] \in Lost => stage[d] \in {"acquire", "undo"} \cup Held
  /\ stage[d] \in {"completeAnyway", "record"} => runtime[d] # "open"
  /\ gate = d => stage[d] \in Held

Leaves(d) ==
  /\ OwnedBy(d)'
  /\ \A c \in Cycles \ {d} : UNCHANGED <<stage[c], runtime[c]>> /\ (gate' = c => gate = c)
  /\ stage'[d] = "over" => \/ runtime'[d] \notin Lost /\ gate' # d
                           \/ cleanupFailed' /\ runtime'[d] # "open"
  /\ cleanupFailed => cleanupFailed'

LEMMA DecisionOwns ==
  ASSUME Supervised, Owned, NEW d \in Cycles, DecisionStep(d)
  PROVE  Leaves(d)
<1>0. StagesTyped /\ RuntimeTyped /\ OwnedBy(d)
  BY DEF Supervised, Owned, OwnedBy
<1>1. ASSUME Goes(d, "make") \/ Goes(d, "claim") \/ Goes(d, "select") \/ Goes(d, "recover")
             \/ Goes(d, "clear") \/ Goes(d, "unmade") \/ Ends(d),
             stage[d] \in Early \cup {"make", "unmade", "undoComplete"},
             UNCHANGED <<runtime, gate, cleanupFailed>>
      PROVE  Leaves(d)
  <2>1. runtime[d] \notin Lost /\ gate # d
    BY <1>0, <1>1 DEF Leaves, OwnedBy, Held, Early
  <2>2. /\ stage'[d] \notin {"completeAnyway", "record"}
        /\ \A c \in Cycles \ {d} : stage'[c] = stage[c]
    BY <1>0, <1>1 DEF Goes, Ends, Stage, StagesTyped
  <2> QED BY <1>1, <2>1, <2>2 DEF OwnedBy, Leaves
<1>2. CASE \/ AssertClear(d) \/ RecoverRealtimePending(d) \/ SelectScheduledLane(d) \/ ClaimTick(d)
           \/ Unmade(d) \/ UndoComplete(d)
  <2>1. UNCHANGED <<runtime, gate, cleanupFailed>>
    BY <1>2 DEF AssertClear, RecoverRealtimePending, SelectScheduledLane, ClaimTick, Unmade,
       UndoComplete
  <2>2. /\ Goes(d, "make") \/ Goes(d, "claim") \/ Goes(d, "select") \/ Goes(d, "recover")
             \/ Goes(d, "clear") \/ Ends(d)
        /\ stage[d] \in Early \cup {"make", "unmade", "undoComplete"}
    BY <1>2 DEF AssertClear, RecoverRealtimePending, SelectScheduledLane, ClaimTick, Unmade,
       UndoComplete, Early
  <2> QED BY <1>1, <2>1, <2>2
<1>3. CASE SettleClose(d)
  <2>1. CASE Released(d) /\ Stage(d, "complete")
    BY <1>0, <1>3, <2>1, NoCycleAssumption DEF SettleClose, Released, Lost, Leaves, OwnedBy,
       Held, Stage,
       StagesTyped, RuntimeTyped
  <2>2. CASE ReleaseThrows(d) /\ Stage(d, "completeAnyway")
    BY <1>0, <1>3, <2>2, NoCycleAssumption DEF SettleClose, ReleaseThrows, Lost, Leaves, OwnedBy,
       Held, Stage,
       StagesTyped, RuntimeTyped
  <2> QED BY <1>3, <2>1, <2>2 DEF SettleClose
<1>4. CASE SettleComplete(d)
  <2>1. UNCHANGED <<runtime, gate, cleanupFailed>>
    BY <1>4 DEF SettleComplete
  <2>2. CASE Goes(d, "record")
    BY <1>0, <1>4, <2>1, <2>2 DEF SettleComplete, Lost, Leaves, OwnedBy, Held, Goes, Stage,
       StagesTyped
  <2>3. CASE stage[d] = "complete" /\ Ends(d)
    BY <1>0, <2>1, <2>3 DEF Leaves, OwnedBy, Held, Ends, Stage, StagesTyped
  <2>4. Goes(d, "record") \/ (stage[d] = "complete" /\ Ends(d))
    BY <1>4 DEF SettleComplete
  <2> QED BY <2>2, <2>3, <2>4
<1>5. CASE MakeRuntime(d)
  BY <1>0, <1>5 DEF MakeRuntime, Lost, Leaves, OwnedBy, Held, Goes, Ends, Stage, StagesTyped,
     RuntimeTyped
<1>6. CASE Acquire(d)
  BY <1>0, <1>6 DEF Acquire, Leaves, OwnedBy, Held, Goes, Ends, Stage, StagesTyped, RuntimeTyped
<1>7. CASE AcquireFails(d)
  BY <1>0, <1>7 DEF AcquireFails, Leaves, OwnedBy, Held, Goes, Ends, Stage, StagesTyped,
     RuntimeTyped
<1>8. CASE Undo(d)
  BY <1>0, <1>8 DEF Undo, Lost, Leaves, OwnedBy, Held, Goes, Ends, Stage, StagesTyped, RuntimeTyped
<1>9. CASE SettleRecord(d)
  <2>1. cleanupFailed' = TRUE /\ UNCHANGED <<runtime, gate>> /\ stage[d] = "record" /\ Ends(d)
        /\ claim' = claim
    BY <1>9 DEF SettleRecord, schedulerVars
  <2>2. stage'[d] = "over" /\ \A c \in Cycles \ {d} : stage'[c] = stage[c]
    BY <1>0, <2>1 DEF Ends, Stage, StagesTyped, Supervised, ClaimsKnown, Early
  <2>3. /\ OwnedBy(d)' /\ runtime'[d] # "open"
        /\ \A c \in Cycles \ {d} : UNCHANGED <<stage[c], runtime[c]>> /\ (gate' = c => gate = c)
    BY <1>0, <2>1, <2>2 DEF OwnedBy, Held
  <2>4. cleanupFailed'
    BY <2>1, Zenon
  <2> QED BY <2>3, <2>4 DEF Leaves
<1> QED BY <1>2, <1>5, <1>6, <1>7, <1>8, <1>3, <1>4, <1>9 DEF DecisionStep

LEMMA DecisionInherits ==
  ASSUME Supervised, UnsettledIsOnDisk, Decided, Alone, Reading, Owned, LeftBehind, Done,
         NEW d \in Cycles, DecisionStep(d)
  PROVE  Owned' /\ LeftBehind' /\ Done'
<1>0. StagesTyped /\ ActiveKnown
  BY DEF Supervised
<1>1. /\ OwnedBy(d)'
      /\ \A c \in Cycles \ {d} : UNCHANGED <<stage[c], runtime[c]>> /\ (gate' = c => gate = c)
      /\ stage'[d] = "over" => \/ runtime'[d] \notin Lost /\ gate' # d
                               \/ cleanupFailed' /\ runtime'[d] # "open"
      /\ cleanupFailed => cleanupFailed'
  BY DecisionOwns DEF Leaves
<1>2. UnderWay(d) /\ stage[d] # "initial" /\ d \notin orphans /\ active = NoCycle
  <2>1. UnderWay(d) /\ stage[d] # "initial"
    BY DEF UnderWay, DecisionStep, AssertClear, RecoverRealtimePending, SelectScheduledLane,
       ClaimTick, MakeRuntime, Unmade, Acquire, AcquireFails, Undo, UndoComplete, SettleClose,
       SettleComplete, SettleRecord
  <2> QED BY <2>1 DEF Decided, Owned, UnderWay
<1>3. UNCHANGED <<orphans, shutdown, unsettled>>
  BY DecisionSpares, DecisionReads DEF Supervised
<1>4. \/ active' = NoCycle
      \/ active' = d /\ cycle'.pc = "none" /\ stage[d] = "acquire"
  BY <1>2, DecisionSpares DEF Supervised, NoRecord
<1>5. Owned'
  <2>1. ASSUME NEW c \in Cycles \ {d}, c = active' PROVE FALSE
    BY <1>4, <2>1, NoCycleAssumption
  <2>2. ASSUME NEW c \in Cycles \ {d} PROVE OwnedBy(c)' /\ (c \in orphans' => stage'[c] = "over")
    BY <1>1, <1>3 DEF Owned, OwnedBy
  <2>3. \A c \in Cycles : OwnedBy(c)' /\ (c \in orphans' => stage'[c] = "over")
    BY <1>1, <1>2, <1>3, <2>2
  <2>4. ASSUME NEW c \in Cycles, active' = c PROVE c \notin orphans' /\ cycle'.pc # "clear"
    BY <1>2, <1>3, <1>4, <2>1, <2>4
  <2> QED BY <2>3, <2>4 DEF Owned, OwnedBy
(* What is quiet stays so while no claim is admitted.                             *)
<1>6. ASSUME Quiet, unsettled # {} \/ cleanupFailed \/ shutdown = "done" PROVE Quiet'
  <2>1. stage[d] \in {"clear", "recover", "select"}
    BY <1>0, <1>2, <1>6 DEF Quiet, StagesTyped, Stages, Early, UnderWay
  <2>2. ~(stage[d] = "select" /\ MayDecide)
    BY <1>6 DEF Reading, MayDecide
  <2>3. stage'[d] \in {"clear", "recover", "select", "unused", "over"}
    BY <1>0, <2>1, <2>2, DecisionGoesOn DEF DecisionGoes, Passes, Onward, Over, Stage, StagesTyped
  <2> QED BY <1>1, <1>4, <1>6, <2>1, <2>3 DEF Quiet, Claimed, AdmissionStages, SettlementStages
<1>7. ASSUME NEW c \in Cycles, Abandoned(c)'
      PROVE  Quiet' /\ (unsettled' # {} \/ (cleanupFailed' /\ runtime'[c] # "open"))
  <2>1. CASE c # d
    <3>1. Abandoned(c)
      BY <1>1, <1>2, <1>3, <1>7, <2>1, NoCycleAssumption DEF Abandoned, Has
    <3> QED BY <1>1, <1>3, <1>6, <2>1, <3>1 DEF LeftBehind
  <2>2. CASE c = d
    <3>1. stage'[d] = "over" /\ cleanupFailed' /\ runtime'[d] # "open"
      BY <1>1, <1>2, <1>3, <1>7, <2>2 DEF Abandoned, Has
    <3>2. stage[d] \in Claimed \cup {"claim"}
      <4>1. DecisionGoes(d) /\ ClaimsKnown
        BY DecisionGoesOn DEF Supervised
      <4>2. stage[d] \notin {"clear", "recover", "select"}
        BY <1>0, <3>1, <4>1 DEF DecisionGoes, Passes, Onward, Over, ClaimsKnown, Early, Stage,
           StagesTyped
      <4> QED BY <1>0, <1>2, <4>2 DEF StagesTyped, Stages, Early, UnderWay
    <3>3. Quiet'
      <4>1. \A e \in Cycles \ {d} : UnderWay(e) => stage[e] \in Ordered
        BY <3>2 DEF Alone
      <4>2. \A e \in Cycles \ {d} : stage'[e] \notin Claimed \cup {"claim"}
        BY <1>1, <4>1 DEF Ordered, UnderWay, Claimed, AdmissionStages, SettlementStages
      <4>3. active' = NoCycle
        <5>1. CASE stage[d] = "acquire" /\ Stage(d, "initial")
          BY <1>0, <3>1, <5>1 DEF Stage, StagesTyped
        <5> QED BY <1>2, <5>1, DecisionSpares DEF Supervised
      <4> QED BY <3>1, <4>2, <4>3 DEF Quiet, Claimed, AdmissionStages, SettlementStages
    <3> QED BY <2>2, <3>1, <3>3
  <2> QED BY <2>1, <2>2
<1>8. LeftBehind'
  BY <1>7 DEF LeftBehind
<1>9. Done'
  BY <1>3, <1>6 DEF Done
<1> QED BY <1>5, <1>8, <1>9

(* What a step of the active cycle does to what cycles have: it gives up an operation  *)
(* only at the deadline, and it ends with its own record in the files or cleared,    *)
(* with nothing left.                                                       *)
CycleOwns ==
  /\ \A c \in Cycles \ {active} : runtime'[c] = runtime[c]
  /\ \/ orphans' = orphans
     \/ orphans' = orphans \cup {active} /\ active' = active /\ cycle'.expired /\ ~cycle'.success
  /\ gate' = gate \/ (gate = active /\ gate' = NoCycle)
  /\ UNCHANGED <<runtime, gate>> \/ stage[active] = "over"
  /\ active' = active =>
       /\ cycle.expired /\ ~cycle.success => cycle'.expired /\ ~cycle'.success
       /\ cycle'.pc = "clear" => \/ cycle.pc = "clear" /\ UNCHANGED <<runtime, gate>>
                                 \/ runtime'[active] = "closed" /\ gate' # active
  /\ active' # active =>
       \/ active \in unsettled'
       \/ cycle.pc = "clear" /\ UNCHANGED <<runtime, gate, orphans>>

LEMMA CycleOwnsOn ==
  ASSUME Supervised, Placed, Calls, CycleMoves, active \in Cycles
  PROVE  CycleOwns
<1>0. ActiveKnown /\ CycleTyped /\ RuntimeTyped
  BY DEF Supervised
<1>1. ASSUME UNCHANGED <<runtime, gate, orphans, active>>,
             cycle.expired /\ ~cycle.success => cycle'.expired /\ ~cycle'.success,
             cycle'.pc # "clear" \/ cycle.pc = "clear"
      PROVE  CycleOwns
  BY <1>1 DEF CycleOwns
<1>2. ASSUME NEW kind \in Commands, Command(kind) PROVE CycleOwns
  BY <1>0, <1>1, <1>2 DEF Command, decisionVars, CycleTyped, CycleRecord
<1>3. CASE CommandEnds
  BY <1>0, <1>1, <1>3 DEF CommandEnds, CycleTyped, CycleRecord
<1>4. CASE Close \/ RequestShutdown
  <2>1. UNCHANGED <<runtime, gate, orphans, active>>
    BY <1>4 DEF Close, RequestShutdown, decisionVars
  <2>2. cycle' = cycle \/ cycle' = [cycle EXCEPT !.pc = "barrier", !.kind = "graceful"]
    BY <1>4 DEF Close, RequestShutdown, CloseBegins
  <2> QED BY <1>0, <1>1, <2>1, <2>2 DEF CycleTyped, CycleRecord
<1>5. CASE Expire
  <2>1. /\ Expiry \in CycleRecord /\ Expiry.expired /\ Expiry.pc = cycle.pc
        /\ Expiry.success = cycle.success
    BY <1>0 DEF Expiry, CycleTyped, CycleRecord
  <2>2. \/ cycle' = [Expiry EXCEPT !.pc = "barrier", !.kind = "force"]
        \/ cycle' = [Expiry EXCEPT !.pc = "quarantine", !.threw = TRUE]
        \/ cycle' = Expiry
    BY <1>5 DEF Expire, CloseBegins, Expiry
  <2>3. cycle'.expired /\ cycle'.success = cycle.success /\ (cycle'.pc # "clear" \/ cycle.pc = "clear")
    BY <2>1, <2>2 DEF CycleRecord
  <2>4. UNCHANGED <<runtime, gate, active>>
    BY <1>5 DEF Expire
  <2>5. CASE GivenUp
    <3>1. ~cycle.success
      BY <1>0, <2>5 DEF GivenUp, Placed, CycleTyped, CycleRecord
    <3>2. orphans' = orphans \cup {active}
      BY <1>5, <2>5 DEF Expire
    <3> QED BY <2>3, <2>4, <3>1, <3>2 DEF CycleOwns
  <2>6. CASE ~GivenUp
    BY <1>1, <1>5, <2>3, <2>4, <2>6 DEF Expire
  <2> QED BY <2>5, <2>6
<1>6. CASE FileStep
  BY <1>1, <1>6 DEF FileStep, cycleVars, decisionVars
<1>7. CASE BarrierFails \/ CloseSession
  <2>1. UNCHANGED <<runtime, gate, orphans, active>>
    BY <1>7 DEF BarrierFails, CloseSession, decisionVars
  <2>2. cycle.expired => cycle.pc # "close"
    BY DEF Placed
  <2> QED BY <1>0, <1>1, <1>7, <2>1, <2>2 DEF BarrierFails, CloseSession, CycleTyped, CycleRecord
<1>8. CASE BarrierStands \/ Drained \/ CompleteCycle
  <2>1. UNCHANGED <<runtime, gate, orphans, active>>
    BY <1>8 DEF BarrierStands, Drained, CompleteCycle, decisionVars
  <2>2. ASSUME NEW pc \in ClosePcs \ {"clear"}, Proceeds(pc) PROVE CycleOwns
    BY <1>0, <1>1, <2>1, <2>2 DEF Proceeds, CycleTyped, CycleRecord
  <2>3. CASE BarrierStands \/ Drained
    BY <2>2, <2>3 DEF BarrierStands, Drained, SessionStep, ClosePcs
  <2>4. CASE CompleteCycle
    BY <1>0, <1>1, <2>1, <2>2, <2>4 DEF CompleteCycle, ClosePcs, CycleTyped, CycleRecord
  <2> QED BY <1>8, <2>3, <2>4
<1>9. CASE QuarantineCycle
  <2>1. /\ UNCHANGED <<runtime, gate, orphans>> /\ unsettled' = unsettled
        /\ cycle.pc \in Closings
    BY <1>9 DEF QuarantineCycle, decisionVars, Quarantines, QuarantineThrows, Quarantine,
       barrierVars,
       Closings
  <2>2. \/ active' = NoCycle
        \/ active' = active /\ (Proceeds("complete") \/ Proceeds("release") \/ Proceeds("stuck"))
    BY <1>9 DEF QuarantineCycle, Continues, FinishCycle
  <2>3. CASE active' = NoCycle
    BY <2>1, <2>3, NoCycleAssumption DEF CycleOwns, Calls
  <2>4. CASE active' = active /\ (Proceeds("complete") \/ Proceeds("release") \/ Proceeds("stuck"))
    BY <1>0, <1>1, <2>1, <2>4 DEF Proceeds, CycleTyped, CycleRecord
  <2> QED BY <2>2, <2>3, <2>4
<1>10. CASE ReleaseOwner
  <2>1. cycle.pc = "release" /\ orphans' = orphans /\ active \in unsettled /\ unsettled' = unsettled
    BY <1>10 DEF ReleaseOwner, Calls, Closings, ClearTerminalBarrier, barrierVars
  <2>2. stage[active] = "over"
    BY <1>0, <2>1, NoCycleAssumption DEF Placed, Busy, ActiveKnown
  <2>3. \/ active' = NoCycle
        \/ active' = active /\ Proceeds("clear") /\ Released(active)
        \/ active' = active /\ Proceeds("quarantineRelease")
    BY <1>10 DEF ReleaseOwner, Continues, FinishCycle
  <2>4. /\ \A c \in Cycles \ {active} : runtime'[c] = runtime[c]
        /\ gate' = gate \/ (gate = active /\ gate' = NoCycle)
    BY <1>0, <1>10 DEF ReleaseOwner, Released, ReleaseThrows, RuntimeTyped
  <2>5. CASE active' = NoCycle
    BY <2>1, <2>2, <2>4, <2>5, NoCycleAssumption DEF CycleOwns
  <2>6. CASE active' = active /\ Proceeds("clear") /\ Released(active)
    <3>1. runtime'[active] = "closed" /\ gate' # active
      BY <1>0, <2>6, NoCycleAssumption DEF Released, RuntimeTyped
    <3>2. cycle'.expired = cycle.expired /\ cycle'.success = cycle.success
      BY <1>0, <2>6 DEF Proceeds, CycleTyped, CycleRecord
    <3> QED BY <2>1, <2>2, <2>4, <2>6, <3>1, <3>2 DEF CycleOwns
  <2>7. CASE active' = active /\ Proceeds("quarantineRelease")
    <3>1. cycle'.expired = cycle.expired /\ cycle'.success = cycle.success /\ cycle'.pc # "clear"
      BY <1>0, <2>7 DEF Proceeds, CycleTyped, CycleRecord
    <3> QED BY <2>1, <2>2, <2>4, <2>7, <3>1 DEF CycleOwns
  <2> QED BY <2>3, <2>5, <2>6, <2>7
<1>11. CASE ClearEnds
  BY <1>11, NoCycleAssumption DEF ClearEnds, FinishCycle, decisionVars, CycleOwns
<1> QED
  BY <1>2, <1>3, <1>4, <1>5, <1>6, <1>7, <1>8, <1>9, <1>10, <1>11 DEF CycleMoves, CloseStep

LEMMA CycleInherits ==
  ASSUME Supervised, Placed, Calls, Decided, Alone, Owned, LeftBehind, Done, CycleMoves, CycleGoes,
         Supervised', Placed'
  PROVE  Owned' /\ LeftBehind' /\ Done'
<1>0. StagesTyped /\ active \in Cycles /\ active # NoCycle /\ ~Quiet /\ active' \in {active, NoCycle}
  BY NoCycleAssumption DEF Supervised, CycleGoes, Quiet
<1>1. CycleOwns
  BY <1>0, CycleOwnsOn
<1>2. \A d \in Cycles : UnderWay(d) => d = active /\ stage[d] = "initial" /\ attempt = d
  BY <1>0, CycleIsAlone
<1>3. /\ \A c \in Cycles \ {active} : stage'[c] = stage[c]
      /\ stage[active] = "over" => stage'[active] = "over"
      /\ stage[active] \in {"initial", "over"} /\ stage'[active] \in {"initial", "over"}
  <2>1. stage[active] \in {"initial", "over"}
    BY <1>0 DEF Supervised, ActiveKnown
  <2> QED BY <1>0, <2>1 DEF CycleGoes, Stage, StagesTyped
(* Nobody else has anything: it would have been left behind.                      *)
<1>4. ASSUME NEW c \in Cycles \ {active} PROVE ~Has(c) /\ ~Has(c)'
  <2>1. ~Has(c)
    <3>1. ~UnderWay(c) /\ ~Abandoned(c)
      BY <1>0, <1>2, <1>4 DEF LeftBehind
    <3>2. Has(c) => stage[c] # "unused"
      BY DEF Has, Owned, Held
    <3> QED BY <1>0, <3>1, <3>2 DEF Abandoned, UnderWay
  <2>2. UNCHANGED runtime[c] /\ (c \in orphans' <=> c \in orphans) /\ (gate' = c => gate = c)
    BY <1>0, <1>1, <1>4, NoCycleAssumption DEF CycleOwns
  <2> QED BY <2>1, <2>2 DEF Has
<1>5. active \in orphans' =>
        stage'[active] = "over" /\ (active' = active => cycle'.expired /\ ~cycle'.success)
  <2>1. active \in orphans => stage[active] = "over" /\ cycle.expired /\ ~cycle.success
    BY <1>0 DEF Owned
  <2>2. active' = active /\ cycle'.expired => stage'[active] = "over"
    BY <1>0 DEF Placed, Busy, Supervised, ActiveKnown
  <2> QED BY <1>1, <1>3, <2>1, <2>2 DEF CycleOwns
<1>6. Owned'
  <2>1. ASSUME NEW c \in Cycles, c # active
        PROVE  /\ OwnedBy(c)' /\ (c \in orphans' => stage'[c] = "over") /\ active' # c
    BY <1>0, <1>4, <2>1, NoCycleAssumption DEF Has, OwnedBy, Lost
  <2>2. ASSUME NEW c \in Cycles, c = active PROVE OwnedBy(c)'
    BY <1>3, <2>2 DEF OwnedBy, Held
  <2>3. active' = active /\ cycle'.pc = "clear" => runtime'[active] \notin Lost /\ gate' # active
    BY <1>0, <1>1 DEF CycleOwns, Owned, Lost
  <2> QED BY <1>0, <1>5, <2>1, <2>2, <2>3 DEF Owned, OwnedBy
<1>7. ASSUME NEW c \in Cycles, Abandoned(c)' PROVE Quiet' /\ unsettled' # {}
  <2>1. c = active /\ active' = NoCycle /\ Has(c)' /\ stage'[active] = "over"
    BY <1>0, <1>4, <1>7 DEF Abandoned
  <2>2. Quiet'
    BY <1>0, <1>2, <1>3, <2>1 DEF Quiet, UnderWay, Claimed, AdmissionStages, SettlementStages
  <2>3. CASE cycle.pc = "clear" /\ UNCHANGED <<runtime, gate, orphans>>
    BY <1>0, <2>1, <2>3 DEF Owned, Placed, Has
  <2> QED BY <1>0, <1>1, <2>1, <2>2, <2>3 DEF CycleOwns
<1>8. LeftBehind'
  BY <1>7 DEF LeftBehind
<1>9. Done'
  BY <1>0 DEF CycleGoes, Done
<1> QED BY <1>6, <1>8, <1>9

(* A close that threw unheard was that of a tick the dispatcher refused, which only     *)
(* has to be completed.                                                     *)
Refused == \A c \in Cycles : runtime[c] = "unnoticed" => stage[c] \in {"undoComplete", "over"}

LEMMA DecisionRefuses ==
  ASSUME Supervised, Refused, NEW d \in Cycles, DecisionStep(d)
  PROVE  Refused'
<1>0. StagesTyped /\ RuntimeTyped /\ ClaimsKnown
  BY DEF Supervised
<1>1. \A c \in Cycles \ {d} : stage'[c] = stage[c] /\ runtime'[c] = runtime[c]
  <2>1. \A c \in Cycles \ {d} : stage'[c] = stage[c]
    BY <1>0, DecisionGoesOn DEF DecisionGoes, Passes, Onward, Over, Stage, StagesTyped
  <2>2. \A c \in Cycles \ {d} : runtime'[c] = runtime[c]
    BY <1>0 DEF DecisionStep, AssertClear, RecoverRealtimePending, SelectScheduledLane, ClaimTick,
       MakeRuntime, Unmade, Acquire, AcquireFails, Undo, UndoComplete, SettleClose, SettleComplete,
       SettleRecord, Released, ReleaseThrows, RuntimeTyped
  <2> QED BY <2>1, <2>2
<1>2. runtime'[d] = "unnoticed" => stage'[d] \in {"undoComplete", "over"}
  <2>1. CASE Undo(d)
    BY <1>0, <2>1 DEF Undo, Stage, StagesTyped
  <2>2. CASE MakeRuntime(d) \/ SettleClose(d)
    <3>1. stage[d] \in {"make", "close"}
      BY <2>2 DEF MakeRuntime, SettleClose
    <3>2. runtime'[d] # "unnoticed"
      BY <1>0, <2>2, <3>1 DEF Refused, MakeRuntime, SettleClose, Released, ReleaseThrows,
         RuntimeTyped
    <3> QED BY <3>2
  <2>3. CASE UndoComplete(d)
    <3>1. claim' = claim /\ stage[d] = "undoComplete" /\ Ends(d)
      BY <2>3, CompletionKeepsClaims DEF UndoComplete
    <3> QED BY <1>0, <3>1 DEF Ends, Stage, StagesTyped, ClaimsKnown, Early
  <2>4. CASE ~Undo(d) /\ ~MakeRuntime(d) /\ ~SettleClose(d) /\ ~UndoComplete(d)
    BY <2>4 DEF Refused, DecisionStep, AssertClear, RecoverRealtimePending, SelectScheduledLane,
       ClaimTick, Unmade, Acquire, AcquireFails, SettleComplete, SettleRecord
  <2> QED BY <2>1, <2>2, <2>3, <2>4
<1> QED BY <1>1, <1>2 DEF Refused

LEMMA CycleRefuses ==
  ASSUME Supervised, Placed, Calls, Refused, CycleMoves, CycleGoes
  PROVE  Refused'
<1>0. StagesTyped /\ RuntimeTyped /\ active \in Cycles
  BY DEF Supervised, CycleGoes
<1>1. CycleOwns
  BY <1>0, CycleOwnsOn
<1>2. \A c \in Cycles : stage'[c] = stage[c] \/ stage'[c] = "over"
  BY <1>0 DEF CycleGoes, Stage, StagesTyped
<1>3. \A c \in Cycles : runtime'[c] = runtime[c] \/ runtime'[c] # "unnoticed"
  <2>1. \/ runtime' = runtime
        \/ Released(active) \/ ReleaseThrows(active)
    BY DEF CycleMoves, CloseStep, Command, CommandEnds, Close, RequestShutdown, Expire, FileStep,
       BarrierFails, CloseSession, BarrierStands, Drained, CompleteCycle, QuarantineCycle,
       ReleaseOwner, ClearEnds, decisionVars
  <2> QED BY <1>0, <2>1 DEF Released, ReleaseThrows, RuntimeTyped
<1> QED BY <1>2, <1>3 DEF Refused

-----------------------------------------------------------------------------
SupervisorInv ==
  /\ SchedulerInv /\ BarrierInv /\ Supervised
  /\ Decided /\ Alone /\ Placed /\ Calls /\ Reading /\ Owned /\ LeftBehind /\ Done /\ Refused

LEMMA SupervisorInvInit == Init => SupervisorInv
<1> SUFFICES ASSUME Init PROVE SupervisorInv
  OBVIOUS
<1>1. SchedulerInv /\ BarrierInv /\ Supervised
  BY SupervisorBegins, SchedulerInvInit, BarrierInvInit
<1>2. \A c \in Cycles : stage[c] = "unused" /\ runtime[c] = "none"
  BY DEF Init
<1>3. /\ attempt = NoCycle /\ gate = NoCycle /\ active = NoCycle /\ cycle = NoRecord
      /\ orphans = {} /\ shutdown = "no" /\ call = NoCall /\ NoCycle \notin Cycles
  BY NoCycleAssumption DEF Init, BarrierInit
<1>4. Decided /\ Alone /\ Reading /\ Done
  BY <1>2, <1>3 DEF Decided, Alone, Reading, Done, UnderWay, Late, AdmissionStages, Claimed,
     SettlementStages
<1>5. Placed /\ Calls
  BY <1>3 DEF Placed, Calls, Busy, NoRecord, CallRuns, BeginSteps, ClearSteps, NoCall, Closings
<1>6. Owned /\ LeftBehind /\ Refused
  BY <1>2, <1>3 DEF Owned, LeftBehind, Refused, Abandoned, Has, Lost
<1> QED BY <1>1, <1>4, <1>5, <1>6 DEF SupervisorInv

LEMMA SupervisorInvStep ==
  ASSUME MaxLate <= 1, SupervisorInv, Next, SchedulerInv', BarrierInv', Supervised'
  PROVE  SupervisorInv'
<1> USE DEF SupervisorInv
<1>0. UnsettledIsOnDisk
  BY DEF BarrierInv
<1>1. ASSUME NEW d \in Cycles, DecisionStep(d) PROVE SupervisorInv'
  <2>1. Decided' /\ Alone'
    BY <1>1, DecidesAlone
  <2>2. Reading' /\ UNCHANGED <<barrier, unsettled, call>>
    BY <1>0, <1>1, DecisionReads
  <2>3. Owned' /\ LeftBehind' /\ Done'
    BY <1>0, <1>1, DecisionInherits
  <2>4. UNCHANGED <<active, cycle>> \/ (active = NoCycle /\ cycle'.pc = "none" /\ ~cycle'.expired
                                        /\ cycle'.kind = "none" /\ ~cycle'.success)
    <3>1. CASE cycle' = [NoRecord EXCEPT !.busy = "initial"] /\ stage[d] = "acquire"
      BY <3>1 DEF NoRecord, Decided, UnderWay
    <3> QED BY <1>1, <3>1, DecisionSpares DEF Supervised
  <2>5. Placed' /\ Calls'
    <3>1. active = NoCycle => ~CallRuns
      BY DEF Calls, Supervised, ActiveKnown, NoRecord
    <3> QED BY <2>2, <2>4, <3>1 DEF Placed, Calls, Busy, CallRuns, Closings
  <2>6. Refused'
    BY <1>1, DecisionRefuses
  <2> QED BY <2>1, <2>2, <2>3, <2>5, <2>6
<1>2. ASSUME NEW c \in Cycles, BeginScheduledTick(c) PROVE SupervisorInv'
  <2>1. Decided' /\ Alone'
    BY <1>2, TickDecides
  <2>2. /\ stage[c] = "unused" /\ stage'[c] = "clear" /\ \A e \in Cycles \ {c} : stage'[e] = stage[e]
        /\ UNCHANGED <<runtime, cleanupFailed, gate, active, cycle, orphans, shutdown>>
        /\ UNCHANGED <<barrier, unsettled, call>> /\ read' = "barrier"
    BY <1>2 DEF BeginScheduledTick, cycleVars, ReadBegins, Supervised, StagesTyped, Stage
  <2>3. Placed' /\ Calls'
    BY <2>2 DEF Placed, Calls, Busy, CallRuns
  <2>4. Reading'
    BY <2>2 DEF Reading
  <2>5. Owned' /\ Done' /\ Refused'
    BY <2>2 DEF Owned, Refused, Held, Done, Quiet, Claimed, AdmissionStages, SettlementStages
  <2>6. LeftBehind'
    BY <2>2 DEF LeftBehind, Abandoned, Has, Quiet, Claimed, AdmissionStages, SettlementStages
  <2> QED BY <2>1, <2>3, <2>4, <2>5, <2>6
<1>3. ASSUME UNCHANGED <<stage, runtime, cleanupFailed, gate, active, cycle>>,
             orphans' \subseteq orphans, UNCHANGED <<barrier, read, unsettled, call>>
      PROVE  /\ Placed' /\ Calls' /\ Reading' /\ Owned' /\ LeftBehind' /\ Refused'
             /\ shutdown' = "done" => Quiet \/ shutdown # "done"
             /\ Quiet' <=> Quiet
  BY <1>3 DEF Placed, Calls, Busy, CallRuns, Reading, Owned, LeftBehind, Refused, Abandoned, Has,
     Quiet, Done
<1>4. ASSUME NEW c \in Cycles, DecisionDeadline(c) PROVE SupervisorInv'
  <2>1. Decided' /\ Alone'
    BY <1>4, DeadlineDecides
  <2>2. UNCHANGED <<barrierVars, stage, runtime, cleanupFailed, gate, cycleVars, shutdown>>
    BY <1>4 DEF DecisionDeadline
  <2> QED BY <1>3, <2>1, <2>2 DEF barrierVars, cycleVars, Done
<1>5. ASSUME UNCHANGED <<decisionVars, gate, active, cycle, barrierVars>>, orphans' \subseteq orphans,
             shutdown' = "done" => shutdown = "done" \/ Quiet
      PROVE  SupervisorInv'
  <2>1. Decided' /\ Alone'
    BY <1>5 DEF decisionVars, Decided, Alone, UnderWay, Late
  <2> QED BY <1>3, <1>5, <2>1 DEF decisionVars, barrierVars, Done
<1>6. ASSUME NEW c \in Cycles, OrphanEnds(c) PROVE SupervisorInv'
  BY <1>5, <1>6 DEF OrphanEnds
<1>7. CASE CycleMoves
  <2>1. Placed' /\ Calls'
    BY <1>7, PlacedStep, CallsStep
  <2>2. CASE CycleGoes
    BY <1>7, <2>1, <2>2, CycleDecides, CycleReads, CycleInherits, CycleRefuses
  <2>3. CASE NothingToClose
    BY <1>5, <2>3 DEF NothingToClose, cycleVars
  <2> QED BY <1>7, <2>2, <2>3, CycleGoesOn
<1>8. CASE ShutdownEnds
  <2>1. CASE active = NoCycle /\ attempt = NoCycle /\ tracker = NoCycle
    <3>1. \A d \in Cycles : ~UnderWay(d)
      BY <2>1, NoCycleAssumption DEF Alone, Late
    <3>2. Quiet
      BY <2>1, <3>1 DEF Quiet, UnderWay, Claimed, AdmissionStages, SettlementStages
    <3> QED BY <1>5, <1>8, <3>2 DEF ShutdownEnds, cycleVars
  <2>2. CASE shutdown' = "failed"
    BY <1>5, <1>8, <2>2 DEF ShutdownEnds, cycleVars
  <2> QED BY <1>8, <2>1, <2>2 DEF ShutdownEnds
<1>9. CASE BucketPasses
  BY <1>5, <1>9 DEF BucketPasses, cycleVars
<1>10. CASE Restart
  <2>1. /\ \A c \in Cycles : stage'[c] \in {"unused", "over"} /\ runtime'[c] \in {"none", "closed"}
        /\ gate' = NoCycle /\ active' = NoCycle /\ cycle' = NoRecord /\ orphans' = {}
        /\ shutdown' = "no" /\ attempt' = NoCycle
        /\ call' = NoCall /\ NoCycle \notin Cycles
    BY <1>10, NoCycleAssumption DEF Restart, ProcessEnds
  <2>2. Decided' /\ Alone' /\ Reading' /\ Done'
    BY <2>1 DEF Decided, Alone, Reading, Done, UnderWay, Late, AdmissionStages, Claimed,
       SettlementStages
  <2>3. Placed' /\ Calls'
    BY <2>1 DEF Placed, Calls, Busy, NoRecord, CallRuns, BeginSteps, ClearSteps, NoCall, Closings
  <2>4. Owned' /\ LeftBehind' /\ Refused'
    BY <2>1 DEF Owned, LeftBehind, Refused, Abandoned, Has, Lost
  <2> QED BY <2>2, <2>3, <2>4
<1> QED
  BY <1>1, <1>2, <1>4, <1>6, <1>7, <1>8, <1>9, <1>10 DEF Next, CycleMoves

LEMMA SupervisorInvHolds ==
  ASSUME MaxLate <= 1
  PROVE  Spec => []SupervisorInv
<1>1. SupervisorInv /\ (SchedulerInv /\ BarrierInv /\ Supervised)' /\ [Next]_vars => SupervisorInv'
  <2> SUFFICES ASSUME SupervisorInv, SchedulerInv', BarrierInv', Supervised', [Next]_vars
               PROVE  SupervisorInv'
    OBVIOUS
  <2>1. CASE Next
    BY <2>1, SupervisorInvStep
  <2>2. CASE UNCHANGED vars
    BY <2>2 DEF vars, decisionVars, cycleVars, barrierVars, SupervisorInv, Decided, Alone,
       Placed, Calls,
       Reading, Owned, LeftBehind, Done, Refused, UnderWay, Late, Busy, CallRuns, Abandoned, Has,
       Quiet
  <2> QED BY <2>1, <2>2
<1> QED BY <1>1, SupervisorInvInit, SupervisedAlways, PTL DEF Spec

(* A runtime that is open has somebody who will close it, or the files keep the next  *)
(* cycle from beginning, also when the process has shut down: whatever deadline,      *)
(* failure, shutdown or crash comes between, as long as decisions are late one at a    *)
(* time (settleLateDecision, gracefulClose, forceClose, shutdown).                 *)
THEOREM OpenRuntimeIsKnown ==
  ASSUME MaxLate <= 1
  PROVE  Spec => []NoForgottenRuntime
<1>1. SupervisorInv => NoForgottenRuntime
  <2> SUFFICES ASSUME SupervisorInv, NEW c \in Cycles, runtime[c] = "open"
               PROVE  ~FilesClear \/ (shutdown # "done" /\ (active = c \/ UnderWay(c)))
    BY DEF NoForgottenRuntime
  <2>1. stage[c] \in {"acquire", "undo"} \cup Held
    BY DEF SupervisorInv, Owned, Lost
  <2>2. CASE active = c
    BY <2>2, NoCycleAssumption DEF SupervisorInv, Done, Quiet
  <2>3. CASE stage[c] # "over"
    BY <2>1, <2>3 DEF SupervisorInv, Done, Quiet, UnderWay, Held, Claimed, AdmissionStages,
       SettlementStages
  <2>4. CASE stage[c] = "over" /\ active # c
    <3>1. unsettled # {} /\ UnsettledIsOnDisk
      BY <2>4 DEF SupervisorInv, BarrierInv, LeftBehind, Abandoned, Has, Lost
    <3>2. unsettled \subseteq Cycles
      BY DEF SupervisorInv, Supervised, BarrierTypeOK
    <3> QED BY <3>1, <3>2, NoCycleAssumption DEF UnsettledIsOnDisk, FilesClear
  <2> QED BY <2>2, <2>3, <2>4
<1> QED BY <1>1, SupervisorInvHolds, PTL

(* When a tick is claimed every runtime made before is closed, no operation given up   *)
(* at a deadline still runs and no dispatcher session is held; the one exception is    *)
(* the runtime of a tick the dispatcher refused, whose close threw, which the code     *)
(* does not know of (beginScheduledTick, assertScheduledStageAccepting, line 305).    *)
THEOREM ClaimsBeginClean ==
  ASSUME MaxLate <= 1
  PROVE  Spec => BeginsClean
<1> DEFINE A == \A c \in Cycles : claim'[c] # claim[c] =>
                  /\ \A d \in Cycles : runtime[d] \in {"none", "closed"} \/ Unnoticed(d)
                  /\ orphans = {} /\ gate = NoCycle
<1>1. SupervisorInv /\ [Next]_vars => [A]_vars
  <2> SUFFICES ASSUME SupervisorInv, Next, NEW c \in Cycles, claim'[c] # claim[c]
               PROVE  /\ \A d \in Cycles : runtime[d] \in {"none", "closed"} \/ Unnoticed(d)
                      /\ orphans = {} /\ gate = NoCycle
    OBVIOUS
  <2> USE DEF SupervisorInv
  <2>1. stage[c] = "claim"
    <3>1. ASSUME NEW d \in Cycles, DecisionStep(d) PROVE stage[c] = "claim"
      BY <3>1, DecisionGoesOn DEF DecisionGoes
    <3>2. ~CycleMoves
      BY CycleGoesOn DEF CycleGoes, NothingToClose
    <3> QED
      BY <3>1, <3>2 DEF Next, CycleMoves, BeginScheduledTick, DecisionDeadline, OrphanEnds,
         ShutdownEnds,
         Restart, BucketPasses, TimePasses, schedulerVars
  <2>2. ~Quiet
    BY <2>1 DEF Quiet
  <2>3. active = NoCycle /\ \A d \in Cycles \ {c} : UnderWay(d) => stage[d] \in Ordered
    BY <2>1 DEF Decided, Alone, UnderWay
  <2>4. ASSUME NEW d \in Cycles PROVE ~Has(d)
    <3>1. ~Abandoned(d)
      BY <2>2 DEF LeftBehind
    <3>2. Has(d) => stage[d] \in {"acquire", "undo"} \cup Held
      BY DEF Has, Owned, Held
    <3>3. Has(d) => stage[d] = "over"
      BY <2>1, <2>3, <3>2 DEF Held, Ordered, UnderWay
    <3> QED BY <2>3, <3>1, <3>3, NoCycleAssumption DEF Abandoned
  <2>5. ASSUME NEW d \in Cycles, runtime[d] = "unnoticed" PROVE Unnoticed(d)
    BY <2>1, <2>3, <2>5 DEF Unnoticed, Refused, UnderWay, Ordered
  <2>6. \A d \in Cycles : runtime[d] \in {"none", "closed"} \/ Unnoticed(d)
    BY <2>4, <2>5 DEF Has, Lost, Supervised, RuntimeTyped
  <2> QED BY <2>4, <2>6 DEF Has, Supervised, OwnersTyped
<1> QED BY <1>1, SupervisorInvHolds, PTL DEF Spec, BeginsClean

=============================================================================
