---------------------------- MODULE OneBotEngine ----------------------------
(***************************************************************************)
(* The reply engine: AstrBotOneBotEngine over the reverse WebSocket of      *)
(* OneBotReverseWebSocketTransport, one engine and its transport.           *)
(*                                                                          *)
(* The process is single-threaded.  Events of the socket and timers are     *)
(* tasks; what follows an await is a microtask, and every microtask runs    *)
(* before the next task: the tasks below wait for it.  A caller may call *)
(* from a task or from a microtask, so its calls fall anywhere.             *)
(* Texts, time stamps and the reason shown by getStatus are left out; a     *)
(* call that is refused and changes nothing is no action.                   *)
(***************************************************************************)
EXTENDS Integers, Sequences

CONSTANTS
  AskedTriggers,        \* what the engine may be asked to answer
  Texts,           \* the replies a peer may give
  Echoes,          \* the names a peer may give its commands
  RememberedEchoes,\* MAX_REMEMBERED_ECHOS
  MaxAsks,         \* bound: calls of generate that are taken
  MaxLeases        \* bound: calls of start that connect

ASSUME OneBotBounds ==
  /\ RememberedEchoes \in Nat \ {0}
  /\ MaxAsks \in Nat
  /\ MaxLeases \in Nat

VARIABLES
  state,      \* what getStatus shows
  closing,    \* close was called
  closer,     \* "no", or how far closeInternal is
  lease,      \* the number of the last ConnectionLease
  current,    \* whether it is the currentLease
  leasePhase,      \* its phase
  stopping,   \* its disconnectPromise: "no", "waiting" or "settled"
  failing,    \* the connect of start was rejected, start has not resumed yet
  pendingReply,    \* the PendingReply, or NoPending
  asks,       \* for each generate its trigger, lease and answer
  unsent,     \* the generates whose send was rejected and that have not resumed
  completing, \* the completeDelivery that awaits its send, or NoCompletion
  seenEchoes,       \* seenEchoOrder
  inbox,      \* the message in the messageChain, or NoMessage
  told,       \* for each ask, what the peer heard of the command accepted for it
  socket,     \* the state of the transport
  dialing,    \* the promise of connect is not settled, its timer is armed
  closeWaiter \* disconnect waits for the close of the socket

engineVars == <<state, closing, closer, lease, current, leasePhase, stopping, failing>>
workVars == <<pendingReply, asks, unsent, completing, seenEchoes, inbox, told>>
transportVars == <<socket, dialing, closeWaiter>>
engineAllVars == <<engineVars, workVars, transportVars>>

NoPending == [stage |-> "none"]
NoCompletion == [ask |-> 0]
NoText == [text |-> 0]
NoMessage == [lease |-> 0]

(* Where a generate stands: unanswered, refused, or its reply. *)
Unanswered == [is |-> "waiting"]
Refused == [is |-> "refused"]
Reply(text) == [is |-> "reply", text |-> text]

(* What the peer can send: a command that is well-formed or not, for the    *)
(* bound contact and identity or for another, with a text or none.          *)
Commands == [form : {"private"}, ours : BOOLEAN, echo : Echoes,
             trigger : AskedTriggers, text : Texts \union {NoText}]
              \union {[form |-> "group"], [form |-> "malformed"]}

(* What deriveReplyDeliveryKey tells apart; the contact is the engine's.    *)
DeliveryKey(trigger, text) == <<trigger, text>>
Receipts == [trigger : AskedTriggers, key : AskedTriggers \X Texts,
             status : {"verified", "uncertain", "failed"}]

EngineInit ==
  /\ state = "stopped" /\ closing = FALSE /\ closer = "no"
  /\ lease = 0 /\ current = FALSE /\ leasePhase = "disconnected"
  /\ stopping = "no" /\ failing = FALSE
  /\ pendingReply = NoPending /\ asks = <<>> /\ unsent = {}
  /\ completing = NoCompletion /\ seenEchoes = <<>> /\ inbox = NoMessage
  /\ told = <<>>
  /\ socket = "idle" /\ dialing = FALSE /\ closeWaiter = FALSE

-----------------------------------------------------------------------------
(* isCurrentLease and isCurrentLeaseInPhase *)
IsCurrent(l) == ~closing /\ current /\ lease = l
IsReady(l) == IsCurrent(l) /\ leasePhase = "ready"

(* send of the transport; on an open socket it may fail as well. *)
CanSend == socket = "open"

(* No microtask is left: the next event or timer may be taken. *)
NoMicrotask ==
  /\ ~failing /\ unsent = {} /\ inbox = NoMessage
  /\ completing = NoCompletion
  /\ stopping # "settled"
  /\ ~(closer = "stopping" /\ ~current)

(* The promise of a generate takes its first value only. *)
WithAnswer(n, answer) ==
  IF asks[n].answer = Unanswered
    THEN [asks EXCEPT ![n].answer = answer]
    ELSE asks

(* clearPendingForLease: the asker is refused unless it has its reply. *)
ClearPendingReply ==
  /\ pendingReply' = NoPending
  /\ asks' = IF pendingReply.stage = "awaiting-command"
               THEN WithAnswer(pendingReply.ask, Refused) ELSE asks

(* invalidateLease of the current lease *)
InvalidateLease ==
  /\ leasePhase' = "disconnected"
  /\ state' = "degraded"
  /\ ClearPendingReply

-----------------------------------------------------------------------------
(* The transport takes no second connection; createSocket may throw. *)
Connect ==
  \/ /\ socket = "idle"
     /\ socket' = "connecting" /\ dialing' = TRUE /\ failing' = FALSE
  \/ /\ failing' = TRUE
     /\ UNCHANGED <<socket, dialing>>

StartEngine ==
  /\ ~closing /\ state = "stopped" /\ ~current
  /\ lease < MaxLeases
  /\ lease' = lease + 1
  /\ current' = TRUE
  /\ leasePhase' = "connecting"
  /\ state' = "starting"
  /\ Connect
  /\ UNCHANGED <<closing, closer, stopping, workVars, closeWaiter>>

(* The catch of start, a microtask after connect was rejected. *)
StartFails ==
  /\ failing
  /\ failing' = FALSE
  /\ IF IsCurrent(lease) /\ leasePhase \in {"connecting", "ready"}
       THEN InvalidateLease
       ELSE UNCHANGED <<leasePhase, state, pendingReply, asks>>
  /\ UNCHANGED <<closing, closer, lease, current, stopping,
                 unsent, completing, seenEchoes, inbox, told, transportVars>>

(* socket.onopen, which also a socket that disconnect closes may still fire; *)
(* the engine's onOpen heeds it only while its lease connects.               *)
SocketOpens ==
  /\ NoMicrotask
  /\ dialing
  /\ dialing' = FALSE
  /\ socket' = "open"
  /\ IF IsCurrent(lease) /\ leasePhase = "connecting"
       THEN leasePhase' = "ready" /\ state' = "ready"
       ELSE UNCHANGED <<leasePhase, state>>
  /\ UNCHANGED <<closing, closer, lease, current, stopping, failing,
                 workVars, closeWaiter>>

(* The timer of connect, or socket.onerror before the socket is open: the   *)
(* socket is let go without a word to the engine's onClose.                 *)
ConnectFails ==
  /\ NoMicrotask
  /\ dialing
  /\ dialing' = FALSE
  /\ socket' = "idle"
  /\ failing' = TRUE
  /\ UNCHANGED <<state, closing, closer, lease, current, leasePhase, stopping,
                 workVars, closeWaiter>>

(* handleClose: a lease that disconnects is done, one at work is lost. *)
EngineHearsClose ==
  IF IsCurrent(lease) /\ leasePhase \in {"connecting", "ready"}
    THEN InvalidateLease
    ELSE /\ leasePhase' = IF IsCurrent(lease) THEN "disconnected" ELSE leasePhase
         /\ UNCHANGED <<state, pendingReply, asks>>

(* socket.onclose with handleSocketClose: whoever waits for it goes on. *)
SocketCloses ==
  /\ NoMicrotask
  /\ socket \in {"connecting", "open", "closing"}
  /\ socket' = "idle"
  /\ dialing' = FALSE
  /\ failing' = dialing
  /\ closeWaiter' = FALSE
  /\ stopping' = IF closeWaiter THEN "settled" ELSE stopping
  /\ EngineHearsClose
  /\ UNCHANGED <<closing, closer, lease, current,
                 unsent, completing, seenEchoes, inbox, told>>

(* The timer of disconnect.  The timer of connect is as long and was armed  *)
(* before it, so that connect is settled by then.                           *)
DisconnectTimesOut ==
  /\ NoMicrotask
  /\ closeWaiter /\ ~dialing
  /\ closeWaiter' = FALSE
  /\ socket' = "idle"
  /\ stopping' = "settled"
  /\ UNCHANGED <<state, closing, closer, lease, current, leasePhase, failing,
                 workVars, dialing>>

-----------------------------------------------------------------------------
(* disconnect of the transport, called once for a lease *)
Disconnect ==
  IF socket \in {"connecting", "open"}
    THEN /\ socket' = "closing"
         /\ closeWaiter' = TRUE
         /\ stopping' = "waiting"
    ELSE /\ stopping' = "settled"
         /\ UNCHANGED <<socket, closeWaiter>>

(* The peer whose reply is under way hears ENGINE_STOPPED, if it still can; *)
(* not when the engine closes.                                              *)
NotifyStopped(heard) ==
  \/ UNCHANGED told
  \/ /\ heard /\ pendingReply.stage = "awaiting-delivery" /\ CanSend
     /\ told' = [told EXCEPT ![pendingReply.ask] = Append(@, "stopped")]

(* stopLease: at once the lease is left and its asker refused. *)
StopLease(heard) ==
  /\ leasePhase' = "disconnecting"
  /\ NotifyStopped(heard)
  /\ ClearPendingReply
  /\ Disconnect

StopEngine ==
  /\ ~closing /\ current /\ stopping = "no"
  /\ StopLease(TRUE)
  /\ UNCHANGED <<state, closing, closer, lease, current, failing,
                 unsent, completing, seenEchoes, inbox, dialing>>

(* finalizeStoppedLease, when the disconnect has settled either way. *)
StopEnds ==
  /\ stopping = "settled"
  /\ stopping' = "no"
  /\ current' = FALSE
  /\ leasePhase' = "disconnected"
  /\ failing' = FALSE
  /\ state' = IF closing THEN state ELSE "stopped"
  /\ UNCHANGED <<closing, closer, lease, workVars, transportVars>>

(* close joins a stop that is under way. *)
CloseEngine ==
  /\ ~closing
  /\ closing' = TRUE
  /\ closer' = "stopping"
  /\ IF current /\ stopping = "no"
       THEN StopLease(FALSE)
       ELSE UNCHANGED <<leasePhase, told, pendingReply, asks,
                        stopping, socket, closeWaiter>>
  /\ UNCHANGED <<state, lease, current, failing,
                 unsent, completing, seenEchoes, inbox, dialing>>

(* The rest of closeInternal: after the stop the transport is closed, which *)
(* on an idle transport takes no time (QuietTransport).                     *)
CloseEnds ==
  /\ closer = "stopping" /\ ~current
  /\ closer' = "closed"
  /\ state' = "closed"
  /\ socket' = "closed"
  /\ ClearPendingReply
  /\ UNCHANGED <<closing, lease, current, leasePhase, stopping, failing,
                 unsent, completing, seenEchoes, inbox, told, dialing, closeWaiter>>

-----------------------------------------------------------------------------
(* generate, when it is not refused: the event goes out or its send fails.  *)
Generate(trigger) ==
  /\ IsReady(lease) /\ state = "ready" /\ pendingReply = NoPending
  /\ Len(asks) < MaxAsks
  /\ asks' = Append(asks, [trigger |-> trigger, lease |-> lease,
                           answer |-> Unanswered])
  /\ told' = Append(told, <<>>)
  /\ pendingReply' = [stage |-> "awaiting-command", ask |-> Len(asks) + 1,
                 lease |-> lease, trigger |-> trigger]
  /\ state' = "processing"
  /\ \/ CanSend /\ UNCHANGED unsent
     \/ unsent' = unsent \union {Len(asks) + 1}
  /\ UNCHANGED <<closing, closer, lease, current, leasePhase, stopping, failing,
                 completing, seenEchoes, inbox, transportVars>>

(* The catch of generate: what is pending now may be a later ask of the     *)
(* same trigger.                                                            *)
GenerateFails(n) ==
  /\ n \in unsent
  /\ unsent' = unsent \ {n}
  /\ IF /\ IsReady(asks[n].lease)
        /\ pendingReply # NoPending /\ pendingReply.trigger = asks[n].trigger
       THEN ClearPendingReply /\ state' = "degraded"
       ELSE UNCHANGED <<pendingReply, asks, state>>
  /\ UNCHANGED <<closing, closer, lease, current, leasePhase, stopping, failing,
                 completing, seenEchoes, inbox, told, transportVars>>

(* A variant that refuses the asker and leaves what is pending *)
ResponseTimesOutPending ==
  /\ NoMicrotask
  /\ pendingReply.stage = "awaiting-command"
  /\ IsReady(pendingReply.lease)
  /\ asks' = WithAnswer(pendingReply.ask, Refused)
  /\ UNCHANGED <<engineVars, pendingReply, unsent, completing, seenEchoes, inbox, told,
                 transportVars>>

(* The timer of generate, armed while its command is awaited. *)
ResponseTimesOut ==
  /\ NoMicrotask
  /\ pendingReply.stage = "awaiting-command"
  /\ IsReady(pendingReply.lease)
  /\ ClearPendingReply
  /\ state' = "ready"
  /\ UNCHANGED <<closing, closer, lease, current, leasePhase, stopping, failing,
                 unsent, completing, seenEchoes, inbox, told, transportVars>>

(* socket.onmessage; what cannot be parsed only closes the socket. *)
Receive(command) ==
  /\ NoMicrotask
  /\ socket = "open"
  /\ inbox' = [lease |-> lease, command |-> command]
  /\ UNCHANGED <<engineVars, pendingReply, asks, unsent, completing, seenEchoes, told,
                 transportVars>>

(* What handleMessage demands of a command before it takes it as the reply. *)
Acceptable(command) ==
  /\ command.form = "private"
  /\ \A i \in 1..Len(seenEchoes) : seenEchoes[i] # command.echo
  /\ command.ours
  /\ pendingReply.stage = "awaiting-command"
  /\ pendingReply.lease = lease
  /\ command.trigger = pendingReply.trigger
  /\ command.text # NoText

RememberEcho(echo) ==
  LET all == Append(seenEchoes, echo)
  IN  seenEchoes' = IF Len(all) <= RememberedEchoes THEN all ELSE Tail(all)

Accept(command) ==
  /\ RememberEcho(command.echo)
  /\ pendingReply' = [stage |-> "awaiting-delivery", ask |-> pendingReply.ask,
                 lease |-> pendingReply.lease, trigger |-> pendingReply.trigger,
                 key |-> DeliveryKey(pendingReply.trigger, command.text)]
  /\ asks' = WithAnswer(pendingReply.ask, Reply(command.text))
  /\ state' = "processing"

(* handleMessage: a message that comes too late for its lease is dropped, a *)
(* malformed one degrades the engine, any other that does not fit is        *)
(* answered with a failure; that the answer cannot be sent closes the       *)
(* socket, which may close at any time.                                     *)
HandleMessage ==
  /\ inbox # NoMessage
  /\ inbox' = NoMessage
  /\ LET command == inbox.command
         heard == IsReady(inbox.lease)
     IN  \/ /\ heard /\ Acceptable(command)
            /\ Accept(command)
         \/ /\ heard /\ command.form = "malformed"
            /\ state' = "degraded"
            /\ UNCHANGED <<pendingReply, asks, seenEchoes>>
         \/ /\ ~(heard /\ (Acceptable(command) \/ command.form = "malformed"))
            /\ UNCHANGED <<state, pendingReply, asks, seenEchoes>>
  /\ UNCHANGED <<closing, closer, lease, current, leasePhase, stopping, failing,
                 unsent, completing, told, transportVars>>

-----------------------------------------------------------------------------
AnswerFor(status) == IF status = "verified" THEN "ok" ELSE status

(* completeDelivery up to its await: only the receipt of the reply that is  *)
(* pending, and of the text that was accepted, is passed on.                *)
CompleteDelivery(receipt) ==
  /\ completing = NoCompletion
  /\ IsReady(lease)
  /\ pendingReply.stage = "awaiting-delivery" /\ pendingReply.lease = lease
  /\ pendingReply.trigger = receipt.trigger
  /\ pendingReply.key = receipt.key
  /\ \/ /\ CanSend
        /\ told' = [told EXCEPT ![pendingReply.ask] = Append(@, AnswerFor(receipt.status))]
        /\ completing' = [ask |-> pendingReply.ask, lease |-> lease, sent |-> TRUE]
     \/ /\ completing' = [ask |-> pendingReply.ask, lease |-> lease, sent |-> FALSE]
        /\ UNCHANGED told
  /\ UNCHANGED <<engineVars, pendingReply, asks, unsent, seenEchoes, inbox,
                 transportVars>>

(* Its rest: what was pending may be gone, or the lease, or the engine. *)
CompletionEnds ==
  /\ completing # NoCompletion
  /\ completing' = NoCompletion
  /\ IF /\ IsReady(completing.lease)
        /\ pendingReply # NoPending /\ pendingReply.ask = completing.ask
       THEN /\ pendingReply' = NoPending
            /\ state' = IF completing.sent THEN "ready" ELSE "degraded"
       ELSE UNCHANGED <<pendingReply, state>>
  /\ UNCHANGED <<closing, closer, lease, current, leasePhase, stopping, failing,
                 asks, unsent, seenEchoes, inbox, told, transportVars>>

-----------------------------------------------------------------------------
Microtask ==
  \/ StartFails \/ StopEnds \/ CloseEnds \/ HandleMessage \/ CompletionEnds
  \/ \E n \in unsent : GenerateFails(n)

Timer == ConnectFails \/ DisconnectTimesOut \/ ResponseTimesOut

Peer ==
  \/ SocketOpens \/ SocketCloses
  \/ \E command \in Commands : Receive(command)

Caller ==
  \/ StartEngine \/ StopEngine \/ CloseEngine
  \/ \E trigger \in AskedTriggers : Generate(trigger)
  \/ \E receipt \in Receipts : CompleteDelivery(receipt)

EngineNext == Microtask \/ Timer \/ Peer \/ Caller

EngineSpec == EngineInit /\ [][EngineNext]_engineAllVars

-----------------------------------------------------------------------------
(* Nobody is forgotten: a generate without an answer is the one pending,    *)
(* with its timer armed, through every loss, stop and close that clears     *)
(* what is pending, and what is pending is of the lease at work.            *)
NoAskForgotten ==
  /\ \A n \in 1..Len(asks) : asks[n].answer = Unanswered =>
       pendingReply.stage = "awaiting-command" /\ pendingReply.ask = n
  /\ pendingReply # NoPending => IsReady(pendingReply.lease)

(* A command is accepted only for an asker that gets that very reply: no    *)
(* peer is told to wait for the delivery of a text nobody has.              *)
AcceptedIsTold ==
  pendingReply.stage = "awaiting-delivery" =>
    LET ask == asks[pendingReply.ask]
    IN  /\ ask.answer.is = "reply"
        /\ pendingReply.key = DeliveryKey(ask.trigger, ask.answer.text)

(* The peer hears one outcome of its accepted reply, and none after it was  *)
(* told that the engine stopped; that it is told so after the outcome, by a *)
(* stop that falls into the await of completeDelivery, is possible.         *)
OutcomeIsFinal ==
  \A n \in 1..Len(told) :
    /\ \A i \in 1..Len(told[n]) : told[n][i] # "stopped" => i = 1
    /\ Len(told[n]) <= 2
    /\ told[n] # <<>> => asks[n].answer.is = "reply"

(* The status is true: an engine that shows ready takes work over an open   *)
(* socket, one that shows processing has something pending.                 *)
StatusIsTrue ==
  ~closing =>
    /\ state \in {"ready", "processing"} /\ stopping = "no" =>
         IsReady(lease) /\ socket = "open"
    /\ state = "ready" => pendingReply = NoPending
    /\ state = "processing" /\ stopping = "no" => pendingReply # NoPending

(* A lease that is given up leaves nothing behind: the next start and the   *)
(* end of close find a transport that is idle, without timers.              *)
QuietTransport ==
  ~current => socket \in {"idle", "closed"} /\ ~dialing /\ ~closeWaiter

(* Everybody hears one end of what they asked for, over a transport that is   *)
(* what the status says, however starts, stops, closes, lost sockets and late *)
(* messages interleave.                                                     *)
EngineKeepsFaith ==
  NoAskForgotten /\ AcceptedIsTold /\ OutcomeIsFinal /\ StatusIsTrue /\ QuietTransport

=============================================================================
