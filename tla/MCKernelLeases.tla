---------------------------- MODULE MCKernelLeases ----------------------------
(* What runs under a kernel lease: the transactions of the store, and the     *)
(* operations of a runtime.  The purposes of the two leases differ, so        *)
(* nothing is shared, and each is explored while the other rests.             *)
(*                                                                         *)
(* The store: two installers, one after another or at once, and three calls,  *)
(* two of them in one process.                                              *)
(*                                                                         *)
(* The operations: the call chains of the product and of its tests.  A child   *)
(* calls a parent operation (inbound delivery), a parent a child, and a        *)
(* parent's child a parent again, next to operations from outside; and the     *)
(* chains that wait for one another, which the code does not refuse.           *)
EXTENDS EncryptedStore, LiveOperationCoordinator, TLC

CONSTANTS i1, i2, c1, c2, c3, p1, p2, o1, o2, o3, d1, d2
VARIABLE lessee

MCPurposes == {"live-operation", "encrypted-store-global"}
MCOldLocks == {"release-install.lock"}
MCProcessOf == c1 :> p1 @@ c2 :> p1 @@ c3 :> p2

MCOps == {o1, o2, o3, d1, d2}
MCParents == {o1, o2, o3}

Plan(calls) ==
  [o \in MCOps |-> IF o \in {c[1] : c \in calls}
                     THEN (CHOOSE c \in calls : c[1] = o)[2] ELSE None]

\* Deliveries that call the owner, next to an operation of the owner; a parent
\* whose child calls the owner again, next to others of both queues; a parent
\* that calls a child beside a delivery that calls the owner; and a delivery
\* whose owner's operation calls a child.  The last two may wait for good.
MCPlans == {Plan({<<d1, o1>>, <<d2, o2>>}), Plan({<<o1, d1>>, <<d1, o2>>}),
            Plan({<<o1, d1>>, <<d2, o2>>}), Plan({<<d1, o1>>, <<o1, d2>>})}

MCInit ==
  /\ Init /\ CoordinatorInit
  /\ lessee \in {"store", "runtime"}
  /\ lessee = "store" => inner = CHOOSE plan \in MCPlans : TRUE

AtStore   == Next /\ lessee = "store" /\ UNCHANGED <<lessee, coordinatorVars>>
AtRuntime == CoordinatorNext /\ lessee = "runtime" /\ UNCHANGED <<lessee, vars>>

\* Every call and every installer of the store may be over.
StoreRests ==
  /\ lessee = "store"
  /\ \A c \in Calls : ~Running(c)
  /\ UNCHANGED <<lessee, vars, coordinatorVars>>

\* What waits for good does nothing more.
RuntimeWaits ==
  /\ lessee = "runtime"
  /\ WaitForGood
  /\ UNCHANGED <<lessee, vars, coordinatorVars>>

MCNext == AtStore \/ AtRuntime \/ StoreRests \/ RuntimeWaits

\* Liveness is asked of the runtime alone, and the store's calls rest meanwhile:
\* no fairness for them.
MCSpec ==
  /\ MCInit /\ [][MCNext]_<<lessee, vars, coordinatorVars>>
  /\ CoordinatorFairness
=============================================================================
