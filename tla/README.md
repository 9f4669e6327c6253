# A verification of the WeChat assistant

TLA+ models of this repository's program, the TLC runs that check them on small
instances, and theorems about them that TLAPS proves for every instance. Paths
are relative to the repository root (`src/...` here is the repository's `src/`).

The program answers WeChat messages for its owner. One supervisor process on a
Mac polls the chats of enrolled contacts through screen OCR, buffers what a
contact writes, asks an external engine for a reply, and types the reply into
the real WeChat window. It may do so **once**: a message cannot be unsent, and
there is no API that says whether it was sent. Everything hard in this code
follows from that: a durable fence before the key press, a ledger that must
survive crashes, several tasks that may each deliver, and a single dispatcher
shared with the periodic "P0" cycle.

## Inventory

| component | state it keeps | operations | talks to |
|---|---|---|---|
| realtime reply ledger (`storage/repositories.ts`, `RealtimeReplyRepository`) | encrypted file: records (one per claimed burst, with a status) and at most one buffered batch per contact | append, clear, claim, compare-and-set, cancel before submit, queries | encrypted store, kernel lock |
| realtime reply service (`conversation/realtime-reply-service.ts`) | sessions, timers, poll / generation / delivery / recovery tasks, lifecycle, announcements | `runTick`, `receiveMessage`, `flushSession`, `deliverPrepared`, `runRecovery`, `createSession`, `start`, `stop` | ledger, source, engine, scheduler's P1 delivery, dispatcher |
| inbound source (`conversation/native-ocr-inbound-source.ts`, `storage/inbound-cursor-repository.ts`) | status, lifecycle; durable: a cursor per contact with the baseline of the chat, the proofs used up and the next sequence number | `start`, `poll`, `stop`, `close`; `establishBaseline`, `commitDelivered`, `refreshBaseline` | native surface, directory, coordinator (child admission), service |
| scheduler (`runtime-v2/single-scheduler.ts`) | durable: last tick key, active cycle, and per lane a failure count and the end of its circuit; P1 delivery: none of its own | `beginScheduledTick` and the completion it returns, `deliverScheduledP1`, `recoverScheduledP1` | heartbeat, dispatcher, surface, ledger |
| dispatcher admission (`runtime-v2/single-dispatcher-admission.ts`) | reservation, pending reservation with its phase, announcement counts, quarantine | `admit`, session `close`, `announcePending`, `cancelPendingAcquisition`, `quarantine` | owner factory, ledger (priority query) |
| native surface and bridge (`adapters/`, Swift bridge) | the draft it typed (`authorizedTextDraft`); a child process per command; the capabilities used | read, locate, select, focus, type, submit, read back | WeChat window |
| fixed heartbeat supervisor (`mcp/fixed-heartbeat-supervisor*.ts`) | operation tail, decision in flight, tracker of a late decision, active cycle with its close intent, shutdown | `begin-scheduled-tick`, lane commands, `close`, timer, `shutdown` | scheduler, service, dispatcher, operation quarantine |
| operation quarantine (`runtime-v2/operation-quarantine.ts`) | three files: terminal barrier, clear receipt, quarantine record | `assertClear`, `beginTerminalBarrier`, `clearTerminalBarrier`, `quarantine` | files |
| live operation coordinator (`mcp/live-operation-coordinator.ts`) | parent and child queues, generation, the kernel lease | `runExclusive` of either queue, `close` | live runtime, kernel lock |
| live runtime (`mcp/live-runtime.ts`, `mcp/live-supervisor-session.ts`, `mcp/live-server.ts`) | baseline and trigger of a chat, stop gate, claims of replies, a pending send, an abort intent, cards | read control, read target, prepare, verify draft, submit, verify send, abort, cards | repositories, surface, coordinator |
| daily care (`mcp/daily-care-*.ts`, `storage/daily-care-broadcast-repository.ts`) | the record and the claim marker of a slot; a session with a phase, a deadline and the draft its surface typed | begin, research, prepare, verify, submit, verify send, abort, close | surface, encrypted store, scheduler |
| contacts (`contacts/*.ts`, `storage/wechat-identity-enrollment-repository.ts`, `storage/contact-candidate-repository.ts`) | three encrypted files: candidates with tombstones, enrollments, the registry; claim markers | observe, confirm, update, migrate the legacy contact, resolve a target | encrypted store, surface, service |
| reply engine (`conversation/akasha-onebot-engine.ts`) | a connection lease, one pending reply, remembered echoes; the transport's socket; per process the OneBot identities in use | `start`, `generate`, `completeDelivery`, `stop`, `close`, messages and events of the socket | the peer (reverse WebSocket), service |
| comfort station (`storage/comfort-station-delivery-repository.ts`) | one encrypted file | compare-and-set style transitions | encrypted store |
| kernel lock, encrypted store (`storage/kernel-lock.ts`, `storage/encrypted-store.ts`) | gate files locked by the kernel (a native addon calls flock), a catalog of them, encrypted files | acquire, run, release; exclusive transaction | files |
| release manager (`scripts/release-manager.mjs`) | two pointers, release directories, a transaction journal, old lock files | install, roll back, recover | kernel lock, files |
| acceptance and activation (`runtime-v2/supervised-acceptance.ts`, `production-acceptance-driver.ts`, `runtime-activation*.ts`) | the evidence file: a receipt per stage; the consent | three stages, recovery of an interrupted submit, finalize | kernel lock, surface, release manager |
| clean install and upgrade (`scripts/runtime-v2-clean-install.mjs`, `-payload-container.mjs`, `-install-journal.mjs`, `-upgrade.mjs`) | install journal, payload container, the root with its catalogue and gates, release directories, one pointer, an upgrade journal and its archive | install, upgrade, roll back | kernel lock, files |
| memory, policy, artifacts, research, planner | none shared | pure transformations | external engine |

What is hard: five kinds of task interleave in one event loop at every `await`;
the bridge is a process that outlives its parent; the contact and the owner
write at any moment; every failure after the fence must end "maybe sent"; a
stop, a crash, a re-enrollment or a restart may come between any two steps; and
P0 must not start a long cycle while a reply is waiting. Every ten minutes the
heartbeat begins a cycle in one of two lanes, and must not begin one before the
last is settled: its decision may miss its deadline and go on by itself, its
timer races the client's close, and what a dead process left behind is known
only from three files. What makes each component correct is listed under "What
is checked"; `PROJECT.json` lists every hazard at its line.

## Modules

| module | models |
|---|---|
| `RealtimeReplyStore` | the ledger: records, batches, every repository call as one action |
| `RealtimeReplyService` | the service over the ledger: chat, sources, timers, polls, the three delivering tasks, the P1 delivery and native submit, recovery, sessions, process lifecycle, the P0 gate |
| `ReplyOnce` | what the service promises of a reply: none → open → fenced → verified, or dropped; one submission, only once fenced |
| `InboundSource` | the inbound source of one contact over its cursor: the pane, the proofs, the calls of the service |
| `NativeDelivery` | one reply through the window of WeChat: the P1 delivery, the surface and the bridge await by await, with owner and contact at the same window |
| `OneBotEngine` | the engine that is asked for a reply, with its transport; tasks, microtasks and timers |
| `OneBotRequest` | a request of the service with an engine of its own, and the identities in use |
| `ContactEnrollment` | candidates, enrollments, registry and directory, with any number of callers |
| `DispatcherAdmission` | the admission: every caller's path through `admit`, its awaits, the owners it acquires and closes |
| `ScheduledCycles` | the identities of heartbeat cycles, shared by the next three |
| `SingleScheduler` | the durable record of the scheduler: claims and completions as transactions |
| `TerminalBarrier` | the operation quarantine, one step per file operation |
| `FixedHeartbeat` | the supervisor over both: decisions, admission, commands, timer, closes, shutdown, restart |
| `LiveRuntime` | the live runtime under its three hosts, its ledgers, the composer, the owner and the contact |
| `LiveOperationCoordinator` | the two queues, their re-entry and the close that drains them |
| `DailyCare` | the record of one slot, the sessions that work on it and the composer they write into |
| `ReleaseTransaction` | install, rollback and recovery, one step per durable step |
| `ReleaseSwitch` | what the release manager promises: a pair of releases that changes at once, and never under a runtime |
| `SupervisedAcceptance` | the acceptance of a release: its stages, the driver over the chat, the evidence, recovery, finalize |
| `RuntimeInstall` | the first install of a root and its upgrades, one step per durable step |
| `InstalledRelease` | what these two promise: a pointer at a whole release, moved at once and never under a runtime |
| `KernelLockCatalog` | how installers set up the catalogue of locks, and the taking of one |
| `EncryptedStore` | a transaction of a ledger file by its steps |
| `AtomicStore` | what every other module takes a ledger for: a document that changes in single steps |
| `MC*` | instances for TLC |
| `*Proofs` | theorems |

`RealtimeReplyService` EXTENDS `RealtimeReplyStore` and uses its actions, so each
of its steps is a ledger call together with the synchronous code after it. It
implements `ReplyOnce` under the mapping at its end (`PhaseOf` reads the phase of
a trigger off its first record, as the code's lookup does). The P0 side of the
dispatcher appears in the service as three small actions (`P0Asks`, `P0Takes`,
`P0Releases`); its full protocol is `DispatcherAdmission`.

`FixedHeartbeat` EXTENDS `SingleScheduler` and `TerminalBarrier` and touches their
variables only through their actions, so that it uses each of them as its own
specification says holds by construction, and what is proved of them alone holds
of the files and the record under the supervisor too. There the dispatcher is
one variable, the session (`gate`); the service is one call that works or throws.

### How state and actions correspond

**Ledger.** `records` and `batches` are the document. All repository reads and
writes are exclusive transactions under one kernel lock, so a transaction is one
step, and a read is taken together with the synchronous code that uses its
answer. `findRealtimeRecord` returns the *first* record with a key, so
`StatusIs` and `CompareAndSet` speak of the first one (`IsFirst`). A trigger is
the record `Key`: contact, binding and the messages of the burst, which is what
the code hashes into `triggerId`.

**Service.** A chat is the sequence of its messages and a message is its
position; the source numbers what it delivers in that order. A binding is
`<<contact revision, source epoch>>`; a process draws a new epoch. Each task is a
`pc` in the code's order of awaits. "flush" is the buffer timer, claim,
generation and the delivery that follows; "tick" delivers the first prepared
record; "recovery" is what every heartbeat runs. `halted` is the task's abort
signal or a stale lifecycle generation. `timer[c]` holds "arming" while a
`scheduleBufferedBatch` waits for its last read and "set" once the timeout is
armed. `orphans` are submits whose process died while the bridge was pressing.

**Inbound source.** The chat only grows, and what is remembered of it are positions; the
code's hashes are `Hashes` of them, so what reads alike is alike. `task` is the start or
poll in progress: what it read, whether there was a proof, and what is `left` to hand over.
`handed` and `since` are observers.

**Window.** `operation` and `place` are the operation of the delivery and the await it is at
(`Operations`); `memory` holds what it keeps between awaits. `command` is the child of the
bridge with the capability it was given; `touched` says whether somebody used the window
after it looked. A step of the surface fails where the window is not the one it remembers.

**Engine.** A task (an event of the socket, a timer) runs when no microtask is left
(`NoMicrotask`); what follows an await is one action each. `asks` has every generate with its
answer, `told` what the peer heard of the command accepted for it. In `OneBotRequest` the
`others` are engines of requests to contacts whose identity may be the same.

**Contacts.** A contact stands for the candidate it is derived from; an enrollment is its
version and the samples seen. `confirms[p]` and `reads[r]` are calls of any process, each
between two transactions; a caller may die there.

**Admission.** Callers stand for the symbols that are the reservation tokens.
Each `await` of `admit` is a point where others run. `owners` are acquired and
not yet proven released; `overdue` is an observer: the P0 attempts during whose
course a reply was pending all along.

**Scheduler.** `scheduler` is the record; time is the index of the ten-minute
bucket, which is the tick key. A claim first settles the cycle it finds active
(`Recovered`); one that is refused throws before it saves and changes nothing.
`claim[c]` is what the completion of a cycle closes over. `misses` is an observer:
the cycles of a lane since its last success.

**Barrier.** A receipt or a barrier is "torn" between the operation that creates
or truncates it and the one that writes it: it does not decode. `call` is the
begin or clear of the closing process, `read` an `assertClear`; any step may be
followed by an error or by the end of the process. `unsettled` (barrier durable
and not yet cleared) and `seen` are observers.

**Heartbeat.** `stage[c]` is the place of a decision in `beginScheduledTickAttempt`
or in the settlement of a late one; `attempt` is `inFlightDecision`, `tracker` is
the decision `lateDecisionCleanup` waits for. `cycle` is the record of the active
cycle: the command under way (`busy`), `draftPending`, `outcomeFailed`, `expired`,
and where its close is (`pc`). `orphans` are operations given up at the deadline
that still run in their session. `runtime[c]` is "unproven" when its close threw
where the code notices, "unnoticed" where it does not: the dispatcher refused the
tick, the close of the runtime made for it threw, and line 305 swallows the error.
Nobody closes such a runtime before the process ends.

**Live runtime.** An operation (`op`) carries the steps it still has to take, in the
code's order; a step that fails replaces them by those of the code's catch.
`outgoing` holds the claims (`claimOutgoing`), `pending` the pending send, `intent` the
abort intent, `ledger` the deliveries of cards. A chat only grows; `unread` is the
mark of the conversation list. Tokens, capabilities and gate revisions are numbers
not in use. `host` is what holds the kernel lease: a session that reads the control
chat, a direct session that trusts the durable stop gate, or the tools of the MCP
server, whose client types and presses itself.

**Coordinator.** An operation is in `pc` where its promise chain is; `context` is what
AsyncLocalStorage holds in its body, `inner` the operation its body awaits. The
generation changes once, together with `closing`.

**Daily care.** `record` is the slot's record, `marker` the claim marker created before
it. `session[s]` has the phase of the runtime, that of the session in front of it
(`outer`), the operation under way (`op`, `at`) and, beside it, the place of its close
(`close`): after the deadline both run. `prepared` is the surface's `preparedDraft`,
which only a typing in the same process sets. `Set` is every change of a session: one
that has closed and has no operation left is `Gone`.

**Release manager.** A release stands for its directory and manifest. A command's `pc`
is the next durable step; `journal` is the file on disk, `memory` what the command
believes it to be. Kernel leases die with their process.

**Acceptance.** `file` is the evidence: the release it is for and a receipt per stage.
`asked` is what a command is about to do, `run` the stage under way, which has the
lease; `run.at` is its place in `execute` or `recoverSubmitted`. A chat is a sequence of
texts, and a text names the binding that sent it, or is foreign; the driver sees the
last `Window` of them, and a baseline is what it saw before the press. `orphans` are
submits that outlive their command. `landed` is an observer.

**Install and upgrade.** `CleanSteps` and `UpgradeSteps` are the durable steps in the
order of the code; `step[p]` is the next one. `install` is the last record of the
install journal, `wal` the upgrade journal (the file every live lease looks for),
`archived[p]` the archive's word on an upgrade. A payload is two halves, each of the
version the candidate directory had when it was read, so that a build in between
shows. `Caught` is where the catch of each command goes on from each step.

**Kernel lock and store.** An installer goes through the file operations of the bootstrap
of the catalogue; a file is absent, partial or whole. `call[c].at` is the place of a
transaction: the catalogue, the gate, the catalogue again, the read, the temporary file,
the rename, the close; `holder` has the gate. `AtomicStore`'s document changes where the
rename is.

### Simplifications

- Acceptance: names and texts are what they identify; the human who presses nothing is
  not modelled; a report, the release card and the control boundary are left out.
- Install: identities of files and what is hashed are outcomes, true unless a build
  came between; nobody damages a file. An upgrade leaves its pointer files behind,
  which nothing reads.
- Store: encryption is left out; a file is read whole or not at all.

- A live session's message that arrives between the press and verify-send is put in
  the vault and never evaluated, in the model as in the code (see below).
- Daily care: any invalid text may be the third one (their count is left out); the
  owner's stop is an operation that refuses at any time; the same-day context of a
  night, which production always reads as unavailable, is left out; a typing that is
  cut off by the end of the process has happened or has not.
- Release: validation of a payload is an outcome; a directory is never damaged.

- In the models of the components a ledger transaction is one step and does not fail inside a
  running process; `EncryptedStore` shows the first and has the failures.
- Consecutive reads with no effect between them are one step (`startQueuedBatch`,
  `wakeBufferedContact`, `finally` with the end of a task); the last await before
  `setTimeout` is kept.
- `releasePendingIfIdle` (`realtime-reply-service.ts:970`) is one step, its read and its
  withdrawal: between them lie only the closes of the lease's four files, in which another
  task would have to finish a whole transaction and its announcement. The operating system
  does not exclude that and the model does. `BufferedIsAnnounced` therefore says that the end
  of one contact's work, which withdraws the announcements of all, leaves no buffered batch
  of another unannounced; it does not say so of a batch appended inside that gap.
- The three identical checks of the delivery (`validate`, `beforeSubmit`,
  `beforeFence`) are one, the last: the chat only grows.
- The latest message saying "STOP" and its variants ends a delivery as
  OWNER_REPLIED too; the content of messages is abstracted, so this is left out.
- In the service the source sees the whole chat; what a pane that shows only its end does is
  `InboundSource`.
- Inbound source: the 512 proofs a cursor remembers are never exceeded; the service's own
  steps around a source (its sessions) are in `RealtimeReplyService`.
- Window: a picture is whole or not read; equal texts are not told apart, as in the code;
  the time a capability lives and the table of those used are rejected awaits and fresh
  ids; a killed child is dead at once. The row of the contact is always in the list.
- Engine: a peer's texts and echoes come from small sets; heartbeats of the socket and the
  handshake are left out.
- Contacts: names do not change, and the automatic-reply and proactive switches are left out.
- Recovery is a task per contact, run while the service runs. The start's own
  recovery pass is the same code, so it is the first of these.
- A source that cannot be closed, and a stop that times out, quarantine the
  service; neither is modelled.
- `submitUncertain` only ever accompanies `outcomeFailed` and is folded into it.
- A decision does not miss its deadline inside `assertClear` (local files), and
  there is at most one late decision at a time (`MaxLate`), where the tracker
  suffices; what a second one does is under "Disagreements".
- A claim is made in the bucket whose clock it has read, and a cycle is over
  before the bucket after the next (its limit is 90 seconds).
- The two lanes' sessions are commands that succeed, fail or hang.
- For P0 the first query's answer and the reservation becoming firm are one step
  (a pre-owner P0 reservation yields to anybody, so it holds nothing up).

## What is checked

All runs: `tlc -config X.cfg M`. Bounds are constants of the modules; in the
service `Messages` (positions the contact and the owner can write at), `MaxRevision`
(enrollments), `MaxEpoch` (starts of the process), `MaxFaults` (failed reads,
generations and surface calls), `MaxBatch` (the code's 100).

| run | instance | shows |
|---|---|---|
| `delivery` | seven scopes (`MCServiceScopes`), batch limit 1: all three tasks with 2 processes and 1 fault; a stop between 2 processes; recovery with 2 messages; a re-enrollment with 2 messages, or with the tick; the tick with 2 messages; a P0 cycle beside one message | `LedgerIsTrue` (submitted once, and verified only what was), `NoStrandedBatch`, `NothingSlipsIn`, `OwnerRepliedIsTrue` |
| `contacts` | (suite) two contacts of the service, 2 processes. Two candidates of one name and the legacy contact: 2 confirmations, room for 1 candidate, time to expire; or 2 calls of the directory beside one confirmation, the migration and 3 revisions. An engine with 2 triggers, echoes, asks and connections, 1 remembered echo. A request beside those of two more contacts, one of them with its identity | `BufferedIsAnnounced`; the service implements `ReplyOnce` (`KeepsPromise`); a contact has the identity that is enrolled for it (`ContactIsEnrolled`) and no two current targets one name (`NamesAreUnambiguous`); everybody is answered and each accepted reply told to the peer once, and status, socket and pending reply agree (`EngineKeepsFaith`); identities are given back exactly, and a reply is the request's own (`RequestIsItsOwn`) |
| `live` | two scopes, fair: the tick alone with 2 messages; recovery with 2 processes, stops, crashes and P0 cycles | every reply is settled and every batch claimed or cleared (`WorkDrains`) |
| `admission` | two P0 callers and a P1 caller, 2 announcements, fair; and the scheduler's record with 4 cycles, 7 buckets, threshold 2, circuit duration 3 buckets | one session; no reservation leaked; unproven releases quarantine; P0 yields; attempts end; an open circuit protects its lane |
| `heartbeat` | 2 cycles, 2 buckets, 2 throwing calls, 1 crash, fair | at a claim every runtime made before is closed, no operation that was given up still runs, no dispatcher session is held (`BeginsClean`), with one exception, the runtime of a refused tick whose close threw (`Unnoticed`); no runtime is forgotten; what is unsettled is on disk; cycles and shutdowns end |
| `reply_path` | (suite) the live runtime in ten budgets (`MCLiveRuntime`), each with more of a few things: messages and typing, stops and resumes, commands sent ahead, crashes, cards, each host. Two conversations with one or two messages, one delivery, 2 moves of owner, contact or WeChat anywhere, any await rejected, the signal at any moment. A source whose pane shows one message or three at every read, with a failure in a chat of two messages, a third one in the same minute, or a start or an enrollment more | nothing is sent twice (`SentOnce`), past a message (`NothingSlipsIn`) or over a stop (`StopIsHonoured`); what is sent was marked, and a refusal sent nothing (`RecordIsTrue`); what is pressed was seen, and only a new bubble verifies (`WindowIsTrusted`); a cursor counts only what was taken and passes nothing unseen but before a proved message (`CursorIsTrue`) |
| `leases` | two deliveries that call the owner beside an operation of the owner; a parent whose child calls the owner again beside others; a parent that calls a child beside a delivery that calls the owner; a delivery whose owner's operation calls a child; the gate lost and a close at any moment, fair; and calls of two processes on one ledger while installers set up the locks, with kills and failing calls | nothing is at work once the lease is given back; what a child started is fenced by the close; a close ends unless operations wait for one another in one of the two ways the code does not exclude (`WaitForGood`); a transaction is one step of `AtomicStore`; an exact catalogue stays exact |
| `daily_care` | two sessions after none, or after one that died with its draft typed; 2 attempts, one failing call, one edit of the owner, one crash, fair | a slot is broadcast at most once; nothing after a quarantine; a close leaves no draft unaccounted; the deadline closes a hung session |
| `release_life` | one command and two transactions, killed or failing twice; two commands that race; one with old lock files; from nothing, from a legacy bin, from two releases. Two acceptors of two releases, 2 failures, 2 switches. Two installs and two upgrades of one root, 3 builds, 2 mishaps | the pair of pointers changes as `ReleaseSwitch` promises (`SwitchesAtOnce`); an archived transaction never acts again; what a kill leaves a recovery accepts (`JournalIsSound`) but in three kinds of states: a stuck abort, a half-moved lock file, three moments of a legacy bin; an acceptance sends once, verifies what it sent, and consent is earned; an installed root keeps `InstalledRelease` (`PointerIsInstalled`) |
| `production_ids`, `recovered_draft`, `acceptance_recovered` | see "Disagreements found" | |

Suites: `admission`, `leases`, `release_life`, `contacts` and `reply_path` hold components that
share no variable. A variable of the MC module (`gate`, `lessee`, `subject`, `station`) says which one a
history is about; the others rest in their initial state, so the run is the union of
the separate runs.

Scopes: `delivery`, `release_life`, `contacts` and `reply_path` have a state
constraint, the union of the scopes in `MCServiceScopes`, `MCReleaseLife`, `MCContacts` and
`MCReplyPath`:
a state outside every scope is not explored further, and only safety is checked
there. In `live` (`MCServiceLive`) a history is given a scope at its start and its
steps stay in it, so that liveness is not cut short; fairness is that of the
service, the tick's and the recovery's being asked only of a scope they take part
in. In `reply_path` a history of the live runtime is given a budget, which is a variable of the module.

Why the bounds are enough: a reply's life has one trigger, and every hazard
listed needs at most one more message (what slips in, what is queued behind), one
more process (what it finds), one more revision, and one failure. Three tasks are
all the kinds there are, and the code runs at most one of each per contact. Each
run enables the dimensions its question needs and keeps the others at their
minimum, because together they do not fit in minutes. In the heartbeat a hazard is
one cycle and what the next one finds, hence two cycles; a call that throws and
the call that should record it, hence two faults; a crash between two steps,
hence one crash (after an orderly shutdown the process restarts without limit).
The circuit takes a threshold of failures, the claim it refuses and one it
accepts, in each lane. A slot of daily care needs the session that fails, the one that
follows and, for the attempts, one more; a release transaction the step it is killed
at, the recovery, and the kill of that recovery; a mixed release a build between the
halves of a copy that is itself behind an installed one, hence three versions. The pane of
the window shows three bubbles where a chat begins with one or two, so that an append and a
scrolled pane both happen; two moves are one between a look and the act that relies on it,
and one that covers it up. The pane of an inbound source is larger and smaller than its chat. Every property has a
mutant of the code that breaks it at those bounds: the interesting case occurs.

`CHECK_DEADLOCK FALSE` in the service runs: once a process has stopped for the
last time allowed by `MaxEpoch` and both parties have written their last message
nothing more happens, as in the real system; in `reply_path` and `release_life` the
budget, the messages, moves and deliveries end, and a slot of daily care is over; in
`contacts` a closed engine stops for good. `admission` and `leases` say where time
or the calls end (`TimeIsOver`, `StoreRests`) or operations wait for one another for good
(`RuntimeWaits`), and never deadlock elsewhere, nor does the heartbeat.

**Fairness** (`FairSpec` and `ScopedSpec`, in `live`): weak
fairness of each task's next step (the event loop runs every ready continuation,
a settled promise calls back), of polls, replacements and timers, of the tick
(the 3 s detector interval) and the recovery (every heartbeat), and of the end of
a P0 cycle (its deadline). No fairness for what people, crashes, stops and
restarts do. In `DispatcherAdmission` the answers of the priority query are *not*
fair: the ledger may hang, and the caller's deadline
(`CancelPendingAcquisition`) is what ends the attempt. In `FixedHeartbeat` fair are
the steps of a decision, those of a close, the timer and the shutdown's own; *not*
the end of a command, which may hang for ever (the timer is what ends the cycle,
`SupervisorEnds`), nor anything a client does. Its `ShutdownTerminates` excepts a client that
keeps beginning ticks: the supervisor would wait for each of them, and the main
module closes the transport before it asks for the shutdown. In the coordinator the
steps of an operation and the release are fair, not the calls and not the close. In
`DailyCare` fair are the steps of a close and those of begin, whose native calls have
timeouts of their own (the close waits for begin, which is queued before there is a
deadline); an operation between them may hang for ever.

Fair in `EncryptedStore` are the steps of a call, whose waits have a deadline of their own;
no run asks it for liveness, and `leases` therefore takes only the coordinator's fairness.
The components of `contacts`, `reply_path` and `release_life` are checked for safety alone:
what they wait for is people, a peer or a command that may be killed.

### Disagreements found

Each is a run TLC refutes, with the property the repository's own tests state.

1. `production_ids` – the scheduler compares a surface message id with an
   inbound-source id (`runtime-v2/single-scheduler.ts:900`); in production wiring
   they are hashes of different things, so every P1 delivery ends OWNER_REPLIED.
   All other runs set `IdsAgree = TRUE`, the behaviour the code evidently intends.
2. `recovered_draft` – a daily-care session that takes over the verified draft of a
   process that died records the submit, and its surface, which has not typed that
   draft, refuses it (`native-wechat-surface.ts:677`): the broadcast stays uncertain
   for good and was never sent. The test that says otherwise stubs the surface.

3. `acceptance_recovered` – a stage recovered from an interrupted submit is verified with
   the submit count 0 of that record (`supervised-acceptance.ts:375`), and finalize asks
   for 1: the release cannot be activated, and no command runs the stage again.

Without a run of their own, found while modelling:

*Reply service and supervisor*

- A batch restored by the next process has the old source epoch and fails as
  SOURCE_BLOCKED (`personal-account-contract.ts:450`).
- A message whose commit failed is claimed a second time under the key of a settled
  record (`repositories.ts:1498`); the new record can never be moved again and blocks
  its contact. `live` therefore has `MaxFaults = 0`.
- Decisions that miss their deadline share one tracker
  (`fixed-heartbeat-supervisor.ts:384`); when the second is settled nobody waits for
  the first, and a third claims its tick beside it.
- A barrier that was created and could not be synced is taken back in memory and stays
  on disk; every later close of the cycle fails with TERMINAL_BARRIER_ACTIVE
  (`operation-quarantine.ts:124`).
- A stop that comes while a batch is being scheduled leaves a buffer timer behind
  (`realtime-reply-service.ts:513` looks at the lifecycle before an await and not
  after it); the stopped service then claims and cancels the batch the next process
  should have found.
- A lane that is one failure short of its threshold when a process dies inside a
  cycle of that lane: each claim settles that cycle in memory, which opens the
  circuit from that moment, and throws unsaved (`single-scheduler.ts:1233`). The
  lane stays closed until the other lane claims.
- A dispatcher that refuses, and a runtime whose close then throws: the error is
  swallowed and nothing is recorded (`fixed-heartbeat-supervisor.ts:305`). The next
  tick is claimed beside a runtime that may still be open. `BeginsClean` excepts it by
  name (`Unnoticed`); without the exception TLC violates it with one throwing close.
- A quarantine record that cannot be written leaves a graceful close rejected for
  good and the cycle active (`fixed-heartbeat-supervisor.ts:506`).
- A late owner whose close *throws* does not quarantine the dispatcher
  (`single-dispatcher-admission.ts:105`), unlike every other unproven release; the
  owners wired today cannot do it. `admission` and `UnprovenQuarantines` leave
  "throws" out of `LateCloseResults`; with it `UnprovenIsQuarantined` fails.

*Inbound source*

- A cursor with an empty baseline continues in any pane: messages that scrolled out before
  the first poll are passed over. A new message in a pane full of the same text is not seen.
- A pane that shrinks (the window, a longer bubble) while the evidence of its last message is
  read for the first time delivers that message as new, though it is history or was
  delivered (`native-ocr-inbound-source.ts:257`); no property speaks of that.
- A message handed over and not committed, and another recovered after it, have one sequence
  number; a batch with both is OUT_OF_ORDER (`personal-account-contract.ts:460`).
- A reading below the confidence of 0.95 blocks a source, and nothing unblocks one but a
  new revision of the contact or a new process.

*Window and bridge*

- The last picture of a submit is not checked against the header it shows: the header is
  looked at before, and the picture compared with the one before the key
  (`native-wechat-surface.ts:493`). When the owner empties the composer before the key, and
  opens a conversation that reads like the other with the reply at its end between the two
  looks, a bubble that is not new verifies the reply, against the comment at line 459. TLC
  finds it with three moves; `VerifiedByANewBubble` therefore asks that both pictures were
  of the contact.
- A child killed after it pasted leaves its text in the composer; every later prepare finds
  it not empty, and nobody in production calls `clearAuthorizedTextDraft`: the owner must.
- What `typeText` finds different from the draft it cuts, the owner's words included.
- The last look of a submit compares the messages and not the header again: the owner who
  opens another chat with the same end between the two is not noticed.

*Engine*

- `stop` while `completeDelivery` awaits its send says ENGINE_STOPPED to the peer after the
  outcome. A malformed message degrades a ready engine until it is stopped and started. A
  close that times out replaces the reply the request had. A reply accepted and never
  completed has no timer.

*Contacts*

- A death between the claim marker of an enrollment and its write refuses that identity for
  good (WECHAT_IDENTITY_ENROLLMENT_IN_PROGRESS, `wechat-identity-enrollment-repository.ts:92`).

*Live runtime*

- A message of the contact that arrives between the press and verify-send goes into
  the vault without being evaluated, so it is never answered; so does one whose
  process dies between the append and the evaluation, or one appended by the
  preflight of an acceptance card.
- States nobody can leave: a death after the submit keeps a pending send whose token
  is lost (PENDING_SEND_EXISTS); one between `claimOutgoing` and the write of the
  pending send, or between the clear of the pending send and the release of the claim,
  keeps a claim (DUPLICATE_REPLY); a card claimed before its preflight is burned.
- A closed session is opened again by a command that was in flight when it closed:
  `execute` of `live-supervisor-session.ts` sets the phase after the close did
  (the test of that name at `live-supervisor-session.test.ts:19` waits for it).

*Coordinator*

- A parent operation that calls a child one, and meanwhile another child operation
  that calls a parent one: each waits for the other's queue and the close never ends
  (`live-operation-coordinator.ts:232`; the test at
  `live-operation-coordinator.test.ts:233` has one caller only): `QueuesCross`.
- A child operation that calls a parent operation that calls a child again: the last one
  is queued behind the child it is called for (`live-operation-coordinator.ts:186`), and
  neither ends: `ChildBehindItsCaller`.
  The product has only children that call parents. The third and fourth plan of
  `leases` have the two cases, and `CloseEnds` says that there is no other: a close
  ends, or operations wait in one of these ways. Without that alternative TLC violates it.

*Daily care*

- An operation that notices the deadline by the clock sets `deadlineReached`, and the
  timer's callback then returns without closing (`daily-care-runtime.ts:635`): the
  session stays open until its client closes it.
- A draft left in the composer by a process that died is not on record when its slot
  is then ended by the grace period, by the attempts, or by the scheduler's skip; nor
  when an operation of an earlier, given-up session skips the slot under the next one
  and that one fails to clear (`ClosedIsAccounted` excepts it).
- The claim marker is created before the record: a death between them refuses the slot
  for good (BROADCAST_CLAIM_RECORD_MISSING). A broadcast submitted and not verified
  stays uncertain. A quarantined slot still uses up attempts. The heartbeat gives a
  cycle up after 90 s, before the 180 s deadline of the session.

*Release manager*

- A terminal abort that cannot be proven "deliberately stays pending for explicit
  recovery" (`release-manager.mjs:1694`), and recovery refuses its phase (1049): no
  runtime starts any more.
- With a legacy `bin`: a recovery killed after it restored in the phases
  legacy-migrated and previous-prepared is refused when it is run again (1016-1044),
  as is a recovery after a kill right behind current-switched; one from the phase
  maintenance-staged writes `desired.current` = legacy, which no parse accepts
  (2236-2240).
- A kill between the archiving of an old lock file and its record (147-168) leaves
  both names, which is refused as ambiguous. A refused rollback (about 745) leaves its
  journal pending.
- `CrashIsRecoverable` excepts these states and no other: `AbortIsStuck`,
  `LockIsHalfMoved` (a lock file that was moved and recorded is not excepted), and
  `LegacyIsUnclear`, whose disjuncts are the moments of the second item. TLC violates the
  property when any of them is left out.

*Install and upgrade*

- A clean install never takes up what another has left: with a journal of that root the
  next one only tells whether it is sound (RECOVERY_REQUIRED) or not (STATE_INVALID), and
  it is told unsound when the kill came between an effect and its record (the container,
  the mode of the release, the pointer).
- A killed upgrade leaves `state/release-transaction.json`: from then on runtimes and
  upgrades are refused and no command of the repository takes it away.
- An upgrade whose archive was renamed and then not flushed is rolled back after its
  receipt said "installed" (`runtime-v2-upgrade.mjs:196`).

## What is proved

With TLAPS, for every value of the constants that meets the named assumptions of the
module; where a theorem needs one more, it is its hypothesis.

*Ledger and service*

- `RealtimeReplyServiceProofs`, of the ledger by itself: `StoreTyped`, `OneActive`,
  `RecordsNeverReopened`. `OneActivePerContact` is inductive only with the types; each action adds a
  record only where `HasActive` is false, and a status change keeps a record's
  key, so the set of active records of a contact can only shrink otherwise.
- Of the service, in the same module: `ServiceTyped`; `ServiceUsesStore`, that the
  service implements `StoreSpec` (each action's ledger part is a `StoreNext` step
  or a stutter, which is also what transfers the ledger's theorems):
  `ServiceOneActive`, `ServiceNeverReopens`.
- Its safety, for any contacts, tasks, restarts and enrollments:
  - `ServiceSubmitsOnce`. Inductive: `AtMostOnce`. The key of a task past the fence, or of
    a submission that outlives its task, has a fenced record and is not submitted yet, and
    no two of them share a key.
  - `ServiceLetsNothingSlipIn`, from `ChatIsClear`: what is true of a chat when a task is
    about to press stays true until the press, or the task is not at the press any more.
  - `ServiceVerifiesTheSubmitted`, from `ProvenWereSent`: a task that has proof of a
    submission holds the key of one. `ServiceAnsweredIsTrue` is its twin for the answer of
    the owner, under `IdsAgree`: the run `production_ids` refutes it without.
  - `ServiceStrandsNoBatch`, from `NeverStranded`: while the service runs, a batch without
    an active reply has a timer or a task that is `Obliged` to look at it. Each step that
    takes a timer or an obligation away hands it to somebody.
    `ServiceAnnouncesBuffered` is inductive as it stands.
  - `ServiceKeepsPromise`, the refinement of `ReplyOnce`: the phase of each reply is read
    off its record and the chat, and each action moves at most one phase.

*Admission*

- `ReplyPathProofs`: `DispatcherTyped`; the inductive invariant `AdmissionInv`
  (types, and `Ownership`: whose token the reservation is at each point of
  `admit`) gives `OwnerKeepsIt`, `OnlyOneSession`, `NoReservationForgotten`;
  `UnprovenQuarantines` from a second invariant, assuming that no late close
  throws; `P0Yields`, an action property, from the invariant that
  relates `overdue` to the answers in flight.

*Scheduler and barrier*

- `HeartbeatProofs`: `SchedulerTyped`, `OneCycle`, `FailuresCounted`,
  `CircuitHolds`, for any number of cycles and any threshold and duration. The
  invariant adds that the active cycle is the last one begun and one of its lane's
  misses (`InOrder`, `ActiveMissing`): it is not yet counted, and its settlement
  moves the end of the circuit behind the start of every other miss (`Guarded`).
  `BarrierTyped`; `UnsettledStays`, because only the clear of
  the cycle itself takes it out of one file, after it is in another;
  `PassesWhenClear`: a read that has passed a file pins down what may still be
  unsettled, so when it passes the last one there was an instant without any.
- The supervisor, in the same module: `SupervisorTyped`, and `SupervisorKeepsUnsettled`
  because each of its steps is one the record and the barrier allow (`ActsOnRecord`,
  `ActsOnBarrier`). `OpenRuntimeIsKnown` and `ClaimsBeginClean`, for any number of cycles,
  failures and crashes, with decisions late one at a time (`MaxLate <= 1`, without which TLC
  refutes them; see "Disagreements"). The invariant: a decision admitted to its claim is the
  only one (`Alone`), and finds nothing active but its own cycle (`Decided`); so the files do
  not change under the one that reads them (`Reading`), and an active cycle changes them only
  for itself (`Placed`, `Calls`). What a cycle holds is tied to its stage (`Owned`), and what
  one that is over still holds has stopped everything: nothing is active, no claim is
  admitted, and a file or the recorded error keeps it so (`LeftBehind`). The exception of
  `BeginsClean` is pinned to refused ticks (`Refused`).

*Daily care*

- `DailyCareProofs`: `DailyCareTyped`, `SlotIsBroadcastOnce`, `QuarantinedIsNeverSent`,
  `ClosedSlotIsAccounted`, for any number of sessions, attempts, faults, edits and kills.
  The deadline gives an operation up without stopping it, so the next session may work
  beside it, and a press may outlive its process: that the record excludes both is not
  inductive by itself. The invariant says of each session what it may be (`Shape`: where its
  operation, its close and its slot stand together) and what it may believe (`Fits`: the
  texts it knows are the one on record, the holder's phase agrees with the record, a submit
  under way has its fence on disk and nothing sent yet), of two sessions that beside one at
  its submit nobody has the slot (`OneHolder`), and of the sessions that they come in turn
  (`InTurn`). After a quarantine every session is at its end or cannot get beyond its first
  command (`Stuck`); a close that still holds the slot has emptied the composer or the record
  says why not (`Accounted`).

*Leases and files*

- `KernelLeaseProofs`: `StoreInvariant`, `StoreIsAtomic`. A document can change only
  at the rename of the call that holds the gate, and that call has read the document as
  it still is (the invariant: the gate's holder is the only one between read and
  rename, and its base is the file). A process that dies gives the gate up.
  `CoordinatorLeaseCoversWork` and `CoordinatorFencesStale`: the invariant places each
  operation in the queue, body or wait its program counter says, so that an empty
  coordinator is one without work.
  `CatalogStays`: nothing rewrites a catalogue that is exact.

*Contacts and engine*

- `ContactsProofs`, the enrollment: `EnrollmentIsTyped`, `ContactsAreEnrolled`,
  `DirectoryIsUnambiguous`, for any candidates, confirmations, readers and deaths. A
  confirmation that may create the contact carries the enrollment on disk, and nobody
  writes an enrollment twice: the marker that is taken before the write stays, whoever
  dies. Of the directory the invariant says what a reader beyond its look at the names may
  still believe: a contact that has appeared since, or left its pause, has the same name
  only at the price of a revision of one of them.
- The engine: `EngineIsFaithful`, for any asks, leases, texts and echoes. What is pending
  is of the lease at work (`PendingFits`), which has an open socket (`LeaseFits`: the lease,
  its phase, the stop and the transport move together through each of the sixteen steps);
  so every loss, stop and close that leaves the lease clears it, and what awaits its send
  (`CompletionFits`) recognises its ask by number.
- A request: `RequestsAreTheirOwn`, for any contacts and any hash of contacts to identities.
  Each of its steps is one of its engine or none (`RequestDrivesEngine`), so the engine's
  invariant carries over; the table counts the live engines of one binding per identity
  (`TableFits`), and after the close the engine cannot move again.

*The way of a reply*

- `ReplyPathProofs`, the delivery through the window: `RecordIsAlwaysTrue` and
  `WindowIsAlwaysTrusted`, for any conversations, panes, deliveries, moves of owner and
  contact, and rejections. What was sent has a mark and an outcome that admits it
  (`SendFits`: the delivery in progress has sent something only once it is attempted, which
  is known from the place it stands at); a command nobody touched since it looked still has
  before it what it saw, stage by stage (`Untouched`); and a first picture of the contact
  whose pane is not full shows all the proof counted (`ReadsFit`), so that one bubble more
  is a new one.
- The same module, the inbound source: `CursorIsAlwaysTrue`, for any chats, sizes of the
  pane, failures and restarts. A pane is an unbroken stretch of the chat (`PanesFit`); as long
  as a poll delivers, the cursor is that of its source and ends with the message before
  the next one to hand over, unless the end was proved, and a commit follows the
  handover of what it counts (`PollFits`). That two panes go on from each other tells the
  positions apart only while no two messages read alike, so the second half of the
  property says so; the first half holds always.

*The live runtime*

- `LiveRuntimeProofs`: `RuntimeIsSound`, `NothingEverSlipsIn`, `StopIsAlwaysHonoured`, for any
  messages, replies and budgets. `Follows` and `Recovers` say which step may come after
  which, also where a step fails, so that a place in an operation tells what it has done.
  `AnswersFit`: a trigger is the last message of the chat it was made from; a proof that
  carries the identity of the trigger on disk carries that trigger; so the check before a
  press has compared the chat with the one the client saw. `StopsFit`: the
  counter of the control chat never passes what is there, what it has passed is settled
  unless the gate is closed, and an operation on a reply that has read the
  control chat again stands exactly where it began. Every step that sends appends what it
  heard (`PressCase`), and a press that outlives its process carries it along.
- `NothingIsSentTwice` adds what may still be sent. A reply is `Clean` while no press,
  no key press that outlives its process and no call of the tools' client has used it.
  Clean are a text without a claim, a draft not verified, a send prepared but not
  consumed, and the text of an abort intent (`RepliesFit`); so an abort may give the claim
  back. Tokens are not reused (`TokensFit`), calls that wait agree with the draft they
  name (`WaitingFits`), and `OpStep` says of each step left what it may rely on: the
  draft of a `submit` is on disk, verified and clean until its press. The
  marker is not typed where it is seen, a card has its entry in the ledger before it is
  sent (`MarkersFit`, `CardsFit`).

*Releases*

- `ReleaseLifeProofs`, the acceptance: `AcceptanceSendsOnce`, `AcceptanceVerifiesTheSent`,
  `ConsentEarned`. A receipt before the fence means that nothing was sent (`ReceiptTells`),
  the stage under way agrees with its receipt (`RunFits`), and a message seen beyond the
  baseline of the window was sent by this stage: a window of any size shows at most as
  many copies as its baseline until it is.
- The transactions: `ReleaseArchivedIsOver`, `ReleaseCrashIsRecoverable`,
  `ReleaseSwitchesAtOnce` (the refinement of `ReleaseSwitch`). The invariant relates the
  journal on disk to the two pointers (`PointersFit`: the phase explains them, but for the three moments of a legacy bin;
  `RecordFits`) and the journal to the
  place of the one command that holds the gates (`CommandFits`); commands without them
  have touched nothing.
- The installs and upgrades: `InstalledPointerHolds`, the refinement of `InstalledRelease`. A
  release is sealed only at its own step and is whole then; an upgrader holds the gate of
  live operations from before it reads the pointer until after it has switched it or
  undone the switch, so no runtime is alive at the switch.

`OneCycle`, `FailuresCounted` and `PassesWhenClear` have no run of their own: they hold
for all values.

The assumptions exclude values, not behaviour: that a "nobody" is no process, that a bound
is a number, that a lane has a lane, that null is no record. Four carry a
condition of the environment and are hypotheses of their theorems: `IdsAgree`, "no late
close throws", `MaxLate <= 1`, and for `NothingIsSentTwice` that what the owner types is
not itself a reply (`Own \notin Replies`). The runtime knows its draft by the text in
the composer: after a draft was verified twice and pressed, an owner who types the very
same text lets the client press Return on it again (TLC finds that history if `Own` is a
reply).

Recursion is kept out of what is proved: what a window shows is a cardinality, and the
least or greatest number with a property comes from the well-foundedness of `<` on the
naturals (`LeastOf`, `GreatestOf`), not from an induction.

Four invariants that the runs check as one are theorems under their own names as well:
`ServiceLedgerIsTrue`, `AdmissionHolds`, `AcceptanceReceiptIsTrue`, `ReleaseJournalIsSound`.

Only model-checked: what the violation runs refute, and every liveness property (of daily care, `DeadlineCloses`): TLAPS has no
reasoning about fairness.

## Plan

1. *(done)* Ledger, service, `ReplyOnce`, admission; scheduler record, terminal
   barrier, heartbeat supervisor; their first theorems.
2. *(done)* Live runtime, coordinator, daily care, release manager with its abstract
   specification.
3. *(done)* Encrypted store and the catalogue of locks with the abstract store the other
   modules assume; acceptance and activation; clean install and upgrade.
4. *(done)* The reply engine, contacts, the way of a reply through the window, the inbound
   source and its cursor.
5. *(done)* Proofs: the safety of the service and its refinement of `ReplyOnce`, of the
   coordinator, the acceptance, the release manager, the installs, the heartbeat and daily
   care, the contacts, the engine, the delivery, the inbound source and the live runtime.
6. Failing ledger transactions inside the service and its quarantine, the lane inspection
   with its skip marks, the coordinator of the personal account contract.

## Not modelled, and why

Memory, policy, artifacts, research, the response planner and the text requests are data
transformations without shared state. The CLI, importers, configuration and keychain are I/O at the edge. The
drawing and OCR in the Swift bridge are geometry; what a submit observes and does
is modelled. Wall-clock deadlines appear as nondeterminism. Of the live runtime the
drafts to the control chat, travel demos, the consent gate, audit, owner notices and
the migrations of older states are left out; of daily care its test runtime, the text
policy, the weather and the servers in front of a session. Of the payload of a release
the build, its manifest and the smoke tests are hashing and parsing.
