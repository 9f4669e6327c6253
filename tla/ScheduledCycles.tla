--------------------------- MODULE ScheduledCycles ---------------------------
(* The identities the heartbeat's components share: every cycle that is begun *)
(* gets a fresh one (randomUUID in beginScheduledTick), which its claim, its   *)
(* completion, its terminal barrier and its quarantine record carry.          *)
EXTENDS Integers

CONSTANTS
  Cycles,     \* the cycles that may be begun
  NoCycle

ASSUME NoCycleAssumption == NoCycle \notin Cycles

=============================================================================
