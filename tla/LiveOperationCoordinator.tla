----------------------- MODULE LiveOperationCoordinator -----------------------
(***************************************************************************)
(* The live operation coordinator (src/mcp/live-operation-coordinator.ts)  *)
(* over the kernel lease it holds (src/storage/kernel-lock.ts): a queue of *)
(* parent operations, a queue of child operations (inbound delivery), the  *)
(* way one re-enters the other, and the close that drains both before the  *)
(* lease is given back.                                                    *)
(*                                                                         *)
(* An operation's body may call one other operation and await it; the plan *)
(* says which: a parent operation calls a child, a child a parent.  An     *)
(* operation the plan has no caller for is called from outside.  The       *)
(* promise chain of a queue (`tail`) is the sequence of the operations not *)
(* yet settled: only its head runs.  The lifecycle's generation changes    *)
(* once, together with `closing`, so an operation's generation is current  *)
(* exactly while closing is FALSE.                                         *)
(***************************************************************************)
EXTENDS Naturals, Sequences

CONSTANTS
  Ops,         \* the operations
  Parents,     \* those of owner.runExclusive; the others go through the child admission
  Plans,       \* the plans a history may follow: functions from Ops to Ops or None
  None

ASSUME CoordinatorAssumption ==
  /\ Parents \subseteq Ops
  /\ None \notin Ops
  /\ Plans \subseteq [Ops -> Ops \union {None}]
  /\ \A plan \in Plans : \A j, k \in Ops :
       /\ plan[j] = plan[k] /\ plan[j] # None => j = k
       /\ plan[k] # None => (plan[k] \in Parents <=> k \notin Parents)

VARIABLES
  inner,       \* the plan: the operation each body calls
  pc,          \* where each operation is
  result,      \* how it settled
  context,     \* what AsyncLocalStorage holds in its body
  parentQueue, \* the tail of the owner
  childQueue,  \* the tail of the child admission
  closing,     \* OwnerLifecycle.closing
  lease,       \* the kernel lease
  owned        \* the gate on disk is still the one the lease locked

coordinatorVars == <<inner, pc, result, context, parentQueue, childQueue, closing, lease, owned>>

Children == Ops \ Parents
NoContext == [parent |-> None, child |-> None]

\* The body of o is under way: running, or waiting for the operation it called.
Active(o) == pc[o] \in {"body", "waiting"}

Caller(o) == {k \in Ops : inner[k] = o}

\* The context an operation is called in: its caller's, or none.
CalledIn(o) ==
  IF Caller(o) = {} THEN NoContext ELSE context[CHOOSE k \in Caller(o) : TRUE]

\* The parent operation whose body called the child this call comes from.
Enclosing(here) == IF here.child = None THEN None ELSE context[here.child].parent

\* Every parent operation waits for its turn.
NestsNever(o) == FALSE

\* A parent operation a child calls runs at once inside that parent's turn.
Nests(o) ==
  LET around == Enclosing(CalledIn(o)) IN around # None /\ Active(around)

Nested(o) == o \in Parents /\ context[o].parent # o

\* Every parent operation accepted before the close is drained.
DrainsAlways(o) == TRUE

\* drainOnClose: no child stands between the outside and the parent operation.
DrainsOnClose(o) == context[context[o].parent].child = None

\* assertAccepted for a parent operation, the fence's assertCurrent for a child.
Accepted(o) == ~closing \/ (o \in Parents /\ DrainsOnClose(o))

\* A queue moves on when its head settles; a nested operation is in neither.
Without(queue, o) == IF queue # <<>> /\ Head(queue) = o THEN Tail(queue) ELSE queue

Settle(o, how) ==
  /\ pc' = [pc EXCEPT ![o] = "settled"]
  /\ result' = [result EXCEPT ![o] = how]
  /\ parentQueue' = Without(parentQueue, o)
  /\ childQueue' = Without(childQueue, o)

-----------------------------------------------------------------------------
\* runExclusive of the owner and of the child admission.  `waiting` is the
\* state of the operations once the caller, if any, awaits the answer.
Refuse(o, waiting) ==
  /\ closing
  /\ pc' = [waiting EXCEPT ![o] = "settled"]
  /\ result' = [result EXCEPT ![o] = "closed"]
  /\ UNCHANGED <<context, parentQueue, childQueue>>

QueueParent(o, waiting) ==
  /\ ~closing /\ o \in Parents /\ ~Nests(o)
  /\ pc' = [waiting EXCEPT ![o] = "queued"]
  /\ context' = [context EXCEPT ![o] = [parent |-> o, child |-> CalledIn(o).child]]
  /\ parentQueue' = Append(parentQueue, o)
  /\ UNCHANGED <<result, childQueue>>

RunNested(o, waiting) ==
  /\ ~closing /\ o \in Parents /\ Nests(o)
  /\ pc' = [waiting EXCEPT ![o] = "body"]
  /\ context' = [context EXCEPT ![o] =
                   [parent |-> Enclosing(CalledIn(o)), child |-> CalledIn(o).child]]
  /\ UNCHANGED <<result, parentQueue, childQueue>>

QueueChild(o, waiting) ==
  /\ ~closing /\ o \in Children
  /\ pc' = [waiting EXCEPT ![o] = "queued"]
  /\ context' = [context EXCEPT ![o] = [parent |-> CalledIn(o).parent, child |-> o]]
  /\ childQueue' = Append(childQueue, o)
  /\ UNCHANGED <<result, parentQueue>>

Requested(o, waiting) ==
  /\ pc[o] = "idle"
  /\ \/ Refuse(o, waiting)
     \/ QueueParent(o, waiting)
     \/ RunNested(o, waiting)
     \/ QueueChild(o, waiting)
  /\ UNCHANGED <<inner, closing, lease, owned>>

CallFromOutside(o) == Caller(o) = {} /\ Requested(o, pc)

CallFromBody(k) ==
  /\ pc[k] = "body"
  /\ inner[k] # None
  /\ Requested(inner[k], [pc EXCEPT ![k] = "waiting"])

-----------------------------------------------------------------------------
\* The head of the child queue: the fence is asserted before the body.
StartChild(o) ==
  /\ pc[o] = "queued" /\ childQueue # <<>> /\ Head(childQueue) = o
  /\ IF Accepted(o)
       THEN /\ pc' = [pc EXCEPT ![o] = "body"]
            /\ UNCHANGED <<result, parentQueue, childQueue>>
       ELSE Settle(o, "closed")
  /\ UNCHANGED <<inner, context, closing, lease, owned>>

\* The head of the parent queue: the lease proves its gate, then the
\* generation is asserted.
StartParent(o) ==
  /\ pc[o] = "queued" /\ parentQueue # <<>> /\ Head(parentQueue) = o
  /\ IF owned /\ Accepted(o)
       THEN /\ pc' = [pc EXCEPT ![o] = "body"]
            /\ UNCHANGED <<result, parentQueue, childQueue>>
       ELSE Settle(o, IF owned THEN "closed" ELSE "lost")
  /\ UNCHANGED <<inner, context, closing, lease, owned>>

\* The body ends when what it awaits has settled; it is asserted once more.
\* A parent operation of the queue goes on to the lease's second proof.
EndBody(o) ==
  /\ Active(o)
  /\ inner[o] # None => pc[inner[o]] = "settled"
  /\ IF o \in Parents /\ ~Nested(o) /\ Accepted(o)
       THEN /\ pc' = [pc EXCEPT ![o] = "proving"]
            /\ UNCHANGED <<result, parentQueue, childQueue>>
       ELSE Settle(o, IF Accepted(o) THEN "value" ELSE "closed")
  /\ UNCHANGED <<inner, context, closing, lease, owned>>

Prove(o) ==
  /\ pc[o] = "proving"
  /\ Settle(o, IF owned THEN "value" ELSE "lost")
  /\ UNCHANGED <<inner, context, closing, lease, owned>>

-----------------------------------------------------------------------------
\* Something replaces the gate, its anchor or a directory above it.
LoseGate ==
  /\ owned /\ lease = "held"
  /\ owned' = FALSE
  /\ UNCHANGED <<inner, pc, result, context, parentQueue, childQueue, closing, lease>>

\* close: from here on every call is refused; what was queued is drained.
Close ==
  /\ ~closing
  /\ closing' = TRUE
  /\ UNCHANGED <<inner, pc, result, context, parentQueue, childQueue, lease, owned>>

\* The close waits for the owner's own queue alone.
DrainedParents == parentQueue = <<>>

Drained == parentQueue = <<>> /\ childQueue = <<>>

\* allSettled of the two tails, then the lease's close.  The lock is given
\* back even when the gate is no longer the lease's own.
Release ==
  /\ closing /\ lease = "held" /\ Drained
  /\ lease' = "released"
  /\ UNCHANGED <<inner, pc, result, context, parentQueue, childQueue, closing, owned>>

-----------------------------------------------------------------------------
CoordinatorInit ==
  /\ inner \in Plans
  /\ pc = [o \in Ops |-> "idle"]
  /\ result = [o \in Ops |-> "none"]
  /\ context = [o \in Ops |-> NoContext]
  /\ parentQueue = <<>> /\ childQueue = <<>>
  /\ closing = FALSE /\ lease = "held" /\ owned = TRUE

Advance(o) ==
  \/ CallFromBody(o) \/ StartChild(o) \/ StartParent(o) \/ EndBody(o) \/ Prove(o)

Done == lease = "released" /\ UNCHANGED coordinatorVars

CoordinatorNext ==
  \/ \E o \in Ops : CallFromOutside(o)
  \/ \E o \in Ops : CallFromBody(o)
  \/ \E o \in Ops : StartChild(o)
  \/ \E o \in Ops : StartParent(o)
  \/ \E o \in Ops : EndBody(o)
  \/ \E o \in Ops : Prove(o)
  \/ LoseGate
  \/ Close
  \/ Release
  \/ Done

\* Promise reactions run and bodies end: every step of an admitted operation,
\* and the release once the queues are empty, happens in the end.  Nobody has
\* to call an operation or to close the owner.
CoordinatorFairness ==
  (\A o \in Ops : WF_coordinatorVars(Advance(o))) /\ WF_coordinatorVars(Release)

CoordinatorSpec == CoordinatorInit /\ [][CoordinatorNext]_coordinatorVars /\ CoordinatorFairness

-----------------------------------------------------------------------------
CoordinatorTypeOK ==
  /\ inner \in Plans
  /\ pc \in [Ops -> {"idle", "queued", "body", "waiting", "proving", "settled"}]
  /\ result \in [Ops -> {"none", "value", "closed", "lost"}]
  /\ context \in [Ops -> [parent : Ops \union {None}, child : Ops \union {None}]]
  /\ parentQueue \in Seq(Parents) /\ childQueue \in Seq(Children)
  /\ closing \in BOOLEAN /\ owned \in BOOLEAN
  /\ lease \in {"held", "released"}

(* No operation is at work once the kernel lease is given back: another     *)
(* process may hold it by then.  The close must wait for both queues, and   *)
(* the operations that run outside them must end inside one that is queued. *)
LeaseCoversWork ==
  lease = "released" => \A o \in Ops : pc[o] \notin {"queued", "body", "waiting", "proving"}

(* Work a child started is fenced by the close: after it no child body and  *)
(* no parent operation queued by a child begins, so a snapshot read before  *)
(* the close is not delivered after it.                                     *)
StaleIsFenced ==
  [][\A o \in Ops : closing /\ pc[o] = "queued" /\ context[o].child # None
                      => pc'[o] \in {"queued", "settled"} /\ result'[o] # "value"]_coordinatorVars

(* The two ways in which operations wait for one another for good, with or     *)
(* without a close.  The bodies at the heads of the two queues call across:    *)
(* each awaits an operation queued behind the other (child admission `tail`,   *)
(* owner `tail`).                                                            *)
QueuesCross ==
  /\ parentQueue # <<>> /\ childQueue # <<>>
  /\ \A o \in {Head(parentQueue), Head(childQueue)} :
       pc[o] = "waiting" /\ pc[inner[o]] = "queued"

(* Or a child is called on behalf of a child, which stays at the head of the   *)
(* queue the called one waits in.                                           *)
ChildBehindItsCaller ==
  \E o \in Children : pc[o] = "queued" /\ \E k \in Children : CalledIn(o).child = k /\ Active(k)

WaitForGood == QueuesCross \/ ChildBehindItsCaller

(* A close that was asked for ends: the queues drain and the lease is given    *)
(* back, unless the operations it drains wait for one another in one of those  *)
(* two ways, and in no other.                                               *)
CloseEnds == closing ~> (lease = "released" \/ WaitForGood)
=============================================================================
