---------------------------- MODULE NativeDelivery ----------------------------
(***************************************************************************)
(* One reply on its way through the window of WeChat: the P1 delivery of    *)
(* the scheduler, NativeWechatSurface and NativeBridge under it, and the    *)
(* commands of the native bridge, with the owner and the contact at work    *)
(* in the same window.                                                      *)
(*                                                                         *)
(* Deliveries come one after the other, as the dispatcher admits them.      *)
(* What runs between two awaits is one step; a command that changes the      *)
(* window is a child process and takes several.  Any await may be           *)
(* rejected: by the driver, by the picture it could not read, by a          *)
(* capability that expired, by the timer of the bridge.                     *)
(* A picture is whole or it is not read: a bubble misread by OCR is a       *)
(* rejected read here.                                                      *)
(***************************************************************************)
EXTENDS Integers, Sequences

CONSTANTS
  Contacts,
  Words,         \* what a bubble may say
  ReplyTexts,       \* what a delivery may be asked to send
  Blank,         \* an empty composer
  Mixed,         \* a text pasted into another
  Histories,     \* the conversations there may be at first
  PaneSize,      \* how many bubbles the pane shows
  MaxMoves,      \* bound: what owner, contact and WeChat do
  MaxDeliveries  \* bound: deliveries

ASSUME PaneAssumption == PaneSize \in Nat \ {0}
ASSUME DeliveryBounds == MaxMoves \in Nat /\ MaxDeliveries \in Nat
(* "none" is nobody: the contact of a job, a draft or a picture not there.    *)
ASSUME ContactsAssumption == "none" \notin Contacts
ASSUME WordsAssumption == ReplyTexts \subseteq Words /\ Blank \notin Words /\ Mixed \notin Words
(* The deliveries are counted from here: none of them sent anything yet.     *)
ASSUME HistoriesAssumption ==
  Histories \subseteq Seq([from : {"contact", "owner"}, text : Words, by : {0}])

VARIABLES
  window,    \* which main window it is: the windowID and processID
  shown,     \* the conversation it shows
  composers,  \* per conversation, what its composer holds
  conversation,      \* per conversation, its bubbles
  revisions,  \* per contact, its revision in the directory
  moves,     \* what owner, contact and WeChat did so far
  job,       \* the reply being delivered
  operation,     \* the operation of the delivery, or "idle"
  place,      \* how far it is
  memory,    \* what the operation holds between its awaits
  authorizedTextDraft,
  proof,     \* the conversationProof: the bubbles it is a hash of, and when it was
  attempted, \* submitAttempted
  aborted,   \* the signal of the delivery
  command,   \* the child that changes the window, or NoCommand
  fenced,    \* deliveries whose record is submit-started
  outcome    \* per delivery, how it ended

worldVars == <<window, shown, composers, conversation, revisions, moves>>
callVars == <<operation, place, memory>>
deliveryVars == <<job, proof, attempted, aborted, fenced, outcome>>
surfaceVars == <<worldVars, callVars, deliveryVars, authorizedTextDraft, command>>

NoJob == [contact |-> "none"]
NoTextDraft == [contact |-> "none", revision |-> 0, window |-> 0]
NoBubbles == [pane |-> <<>>, length |-> 0]
NoCommand == [stage |-> "none"]
NoPicture == [header |-> "none"]
Nothing == [window |-> 0, first |-> NoPicture, last |-> NoPicture, draft |-> NoTextDraft]

Delivery == Len(outcome)  \* the number of the delivery in progress

(* What OCR makes of a bubble: on which side it is, and what it says.       *)
Candidate(bubble) == [incoming |-> bubble.from = "contact", text |-> bubble.text]

(* parseVisibleWechatMessageCandidates: the end of the conversation.        *)
Pane(c) ==
  LET n == Len(conversation[c])
      k == IF n < PaneSize THEN n ELSE PaneSize
  IN [i \in 1 .. k |-> Candidate(conversation[c][n - k + i])]

Picture == [header |-> shown, pane |-> Pane(shown)]

Latest(pane) == pane[Len(pane)]

DeliveryInit ==
  /\ window = 1 /\ shown \in Contacts
  /\ composers = [c \in Contacts |-> Blank]
  /\ conversation \in [Contacts -> Histories]
  /\ revisions = [c \in Contacts |-> 1]
  /\ moves = 0
  /\ job = NoJob /\ operation = "idle" /\ place = 1 /\ memory = Nothing
  /\ authorizedTextDraft = NoTextDraft /\ proof = NoBubbles
  /\ attempted = FALSE /\ aborted = FALSE /\ command = NoCommand
  /\ fenced = {} /\ outcome = <<>>

-----------------------------------------------------------------------------
(* Around the delivery.  What happens while a command runs is remembered:   *)
(* the command looks, and acts on what it saw.                              *)
Move ==
  /\ moves < MaxMoves
  /\ moves' = moves + 1
  /\ command' = IF command = NoCommand THEN command ELSE [command EXCEPT !.touched = TRUE]
  /\ UNCHANGED <<callVars, deliveryVars, authorizedTextDraft>>

Adds(c, from, text) ==
  conversation' = [conversation EXCEPT ![c] =
    Append(@, [from |-> from, text |-> text, by |-> Delivery])]

(* The contact writes, or the owner does on another device.                 *)
Writes ==
  /\ \E c \in Contacts, from \in {"contact", "owner"}, w \in Words : Adds(c, from, w)
  /\ Move
  /\ UNCHANGED <<window, shown, composers, revisions>>

OwnerOpens ==
  /\ shown' \in Contacts \ {shown}
  /\ Move
  /\ UNCHANGED <<window, composers, conversation, revisions>>

OwnerEdits ==
  /\ \E w \in Words \union {Blank} : composers' = [composers EXCEPT ![shown] = w]
  /\ Move
  /\ UNCHANGED <<window, shown, conversation, revisions>>

OwnerSends ==
  /\ composers[shown] # Blank
  /\ Adds(shown, "owner", composers[shown])
  /\ composers' = [composers EXCEPT ![shown] = Blank]
  /\ Move
  /\ UNCHANGED <<window, shown, revisions>>

(* WeChat restarts: another window; drafts may be kept.                     *)
WechatRestarts ==
  /\ window' = window + 1
  /\ shown' \in Contacts
  /\ \/ UNCHANGED composers
     \/ composers' = [c \in Contacts |-> Blank]
  /\ Move
  /\ UNCHANGED <<conversation, revisions>>

(* The owner enrolls the contact again.                                     *)
Reenrolled ==
  /\ \E c \in Contacts : revisions' = [revisions EXCEPT ![c] = @ + 1]
  /\ Move
  /\ UNCHANGED <<window, shown, composers, conversation>>

AroundWindow ==
  \/ Writes
  \/ OwnerOpens
  \/ OwnerEdits
  \/ OwnerSends
  \/ WechatRestarts
  \/ Reenrolled

(* The service stops: closeOnAbort, and the signal of the submit.           *)
Aborts ==
  /\ operation # "idle" /\ ~aborted
  /\ aborted' = TRUE
  /\ UNCHANGED <<worldVars, callVars, job, proof, attempted, fenced, outcome,
                 authorizedTextDraft, command>>

-----------------------------------------------------------------------------
(* The operations of deliverScheduledP1, each by its awaits: the checks of   *)
(* validate, beforeSubmit and beforeFence read the conversation, prepare     *)
(* writes the draft, submit sends it and reads it back.                     *)
Reading == <<"target", "window", "see first", "match", "see", "match",
             "same window", "target", "judge">>

Operations ==
  [validate |-> Reading,
   prepare |-> <<"target", "window", "open?", "locate", "select", "see", "match opened",
                 "focus", "match", "header", "type", "keep">>,
   beforeSubmit |-> Reading,
   beforeFence |-> Reading,
   submit |-> <<"target", "window", "focus", "match", "header", "see first", "mark",
                "marking", "press", "target", "window", "match", "header", "see append">>]

Follows == [validate |-> "prepare", prepare |-> "beforeSubmit",
            beforeSubmit |-> "beforeFence", beforeFence |-> "submit"]

Awaits(s) == operation # "idle" /\ command = NoCommand /\ Operations[operation][place] = s
Onward == place' = place + 1 /\ UNCHANGED operation
Passes == Onward /\ UNCHANGED <<worldVars, memory, deliveryVars, authorizedTextDraft, command>>

(* The next operation begins, and its synchronous part runs: prepare and     *)
(* submit forget the draft, submit keeps it for itself.                      *)
NextOperation ==
  /\ operation' = Follows[operation]
  /\ place' = 1
  /\ memory' = [Nothing EXCEPT !.draft =
                  IF operation' = "submit" THEN authorizedTextDraft ELSE NoTextDraft]
  /\ authorizedTextDraft' = IF operation' \in {"prepare", "submit"} THEN NoTextDraft
                              ELSE authorizedTextDraft

Ends(how) ==
  /\ outcome' = [outcome EXCEPT ![Delivery] = how]
  /\ operation' = "idle" /\ place' = 1 /\ memory' = Nothing /\ command' = NoCommand
  /\ attempted' = FALSE
  /\ UNCHANGED <<worldVars, job, proof, aborted, authorizedTextDraft>>

(* A variant whose callers see every rejected submit as not attempted       *)
RejectedAsRefused == "refused"

(* What a rejected operation makes of the delivery: the submit of the P1     *)
(* operations keeps an error after the mark to itself.                      *)
Rejected == IF attempted THEN "uncertain" ELSE "refused"

(* An await is rejected; the timer or the signal kills a command where it is. *)
Fails ==
  /\ operation # "idle"
  /\ Ends(Rejected) /\ UNCHANGED fenced

(* deliver: a reply to a message the contact did write                      *)
Deliver ==
  /\ operation = "idle"
  /\ Delivery < MaxDeliveries
  /\ \E c \in Contacts, r \in ReplyTexts : \E i \in 1 .. Len(conversation[c]) :
       /\ conversation[c][i].from = "contact"
       /\ job' = [contact |-> c, revision |-> revisions[c], text |-> r,
                  trigger |-> conversation[c][i].text]
  /\ outcome' = Append(outcome, "open")
  /\ operation' = "validate" /\ place' = 1 /\ memory' = Nothing
  /\ proof' = NoBubbles /\ aborted' = FALSE
  /\ UNCHANGED <<worldVars, attempted, fenced, authorizedTextDraft, command>>

-----------------------------------------------------------------------------
(* The awaits of the surface.                                               *)

(* requireTextTarget; submit compares with the target it prepared for.      *)
RequireTextTarget ==
  /\ Awaits("target")
  /\ revisions[job.contact] = job.revision
  /\ operation = "submit" =>
       memory.draft.contact = job.contact /\ memory.draft.revision = job.revision
  /\ Passes

(* mainWindow; submit goes on in the window it prepared in.                 *)
MainWindow ==
  /\ Awaits("window")
  /\ operation = "submit" => window = memory.draft.window
  /\ memory' = [memory EXCEPT !.window = window]
  /\ Onward
  /\ UNCHANGED <<worldVars, deliveryVars, authorizedTextDraft, command>>

SameWindow ==
  /\ Awaits("same window")
  /\ window = memory.window
  /\ Passes

(* Every command names the window, and fails when it is gone.               *)
Here == window = memory.window

(* readLines: capture and OCR                                               *)
ReadLines ==
  /\ Here
  /\ \/ /\ Awaits("see first")
        /\ memory' = [memory EXCEPT !.first = Picture]
     \/ /\ Awaits("see")
        /\ memory' = [memory EXCEPT !.last = Picture]
  /\ Onward
  /\ UNCHANGED <<worldVars, deliveryVars, authorizedTextDraft, command>>

(* selectAuthorizedConversation clicks only where the header is another.    *)
LooksWhetherOpen ==
  /\ Awaits("open?") /\ Here
  /\ memory' = [memory EXCEPT !.last = Picture]
  /\ place' = IF shown = job.contact THEN place + 4 ELSE place + 1
  /\ UNCHANGED <<operation, worldVars, deliveryVars, authorizedTextDraft, command>>

(* locateAuthorizedIdentity: the row of the contact is in the list.         *)
LocateAuthorizedIdentity ==
  /\ Awaits("locate") /\ Here
  /\ Passes

(* matchAuthorizedIdentity: the selected row is the contact's; the header of *)
(* the picture taken before is compared after it.                           *)
MatchAuthorizedIdentity ==
  /\ Here /\ shown = job.contact
  /\ Awaits("match") \/ (Awaits("match opened") /\ memory.last.header = job.contact)
  /\ Passes

(* focusAuthorizedComposer clicks, and the header read of                   *)
(* assertAuthorizedCurrentConversation: neither changes what is modelled.   *)
SeesHeader ==
  /\ Awaits("focus") \/ Awaits("header")
  /\ Here /\ shown = job.contact
  /\ Passes

(* authorizedConversationSelection of both pictures,                        *)
(* assertAuthorizedLatestIncoming and assertSessionSignal                   *)
Judges ==
  /\ memory.first.header = job.contact /\ memory.last.header = job.contact
  /\ Latest(memory.last.pane) = [incoming |-> TRUE, text |-> job.trigger]
  /\ ~aborted

(* The snapshot is accepted; beforeFence makes the proof of it.             *)
AcceptsSnapshot ==
  /\ Awaits("judge") /\ Judges
  /\ NextOperation
  /\ proof' = IF operation = "beforeFence"
                THEN [pane |-> memory.last.pane, length |-> Len(conversation[job.contact])]
                ELSE proof
  /\ UNCHANGED <<worldVars, job, attempted, aborted, fenced, outcome, command>>

(* The draft is as the receipt says: prepare keeps it, verifyDraft has       *)
(* nothing to look at.                                                      *)
KeepsDraft ==
  /\ Awaits("keep")
  /\ operation' = "beforeSubmit" /\ place' = 1 /\ memory' = Nothing
  /\ authorizedTextDraft' = [contact |-> job.contact, revision |-> job.revision,
                             window |-> memory.window]
  /\ UNCHANGED <<worldVars, deliveryVars, command>>

-----------------------------------------------------------------------------
(* The bridge.  A capability is made for one command, with an id of its own; *)
(* the child acts on what it says and on nothing else.                      *)
Issued(action) ==
  [action |-> action, contact |-> job.contact, revision |-> job.revision,
   text |-> job.text, window |-> memory.window, proof |-> <<>>]

(* canonicalNativeRequestBinding: a submit is bound to the proof of the       *)
(* conversation as well.                                                    *)
BoundToProof(capability) == [capability EXCEPT !.proof = proof.pane]

DynamicCapability(action) ==
  IF action = "press" THEN BoundToProof(Issued(action)) ELSE Issued(action)

(* prepareAndConsumeDynamicMutation, and the child is spawned.              *)
Spawn(kind) ==
  /\ Awaits(kind)
  /\ command' = [kind |-> kind, stage |-> "sent", touched |-> FALSE,
                 capability |-> DynamicCapability(kind)]
  /\ UNCHANGED <<worldVars, callVars, deliveryVars, authorizedTextDraft>>

ClickWechatWindowPoint == Spawn("select")

TypeText == Spawn("type")

(* submitWechatDraft looks at the signal once more.                         *)
SubmitWechatDraft == ~aborted /\ Spawn("press")

(* throwIfAborted, and markSubmitStarted is called, between the consumption  *)
(* of the capability and the child.                                         *)
AsksForMark ==
  /\ Awaits("mark") /\ ~aborted
  /\ Passes

(* The record is submit-started.  The P1 operations hear of it, unless the   *)
(* session ended or the store failed after it wrote.                         *)
MarksSubmitStarted ==
  /\ Awaits("marking")
  /\ fenced' = fenced \union {Delivery}
  /\ \/ /\ attempted' = TRUE
        /\ Onward
        /\ UNCHANGED <<worldVars, memory, job, proof, aborted, outcome,
                       authorizedTextDraft, command>>
     \/ Ends("refused")

(* The child exited with 0.                                                 *)
Settles ==
  /\ command.stage = "done"
  /\ command.kind = "press" => ~aborted
  /\ command' = NoCommand
  /\ Onward
  /\ UNCHANGED <<worldVars, memory, deliveryVars, authorizedTextDraft>>

(* isSingleMonotonicOutgoingAppend                                          *)
IsSingleMonotonicOutgoingAppend(baseline, current, text) ==
  /\ Len(current) = Len(baseline) + 1
  /\ SubSeq(current, 1, Len(baseline)) = baseline
  /\ Latest(current) = [incoming |-> FALSE, text |-> text]

(* The last read of submit, and verifySend                                  *)
ReadsBack ==
  /\ Awaits("see append") /\ Here
  /\ IsSingleMonotonicOutgoingAppend(memory.first.pane, Picture.pane, job.text)
  /\ Ends("verified") /\ UNCHANGED fenced

-----------------------------------------------------------------------------
(* The child: it looks, and it acts.                                        *)

Ordered == command.capability
ChildAt(kind, stage) == command.stage = stage /\ command.kind = kind
Comes(stage) ==
  /\ command' = [command EXCEPT !.stage = stage]
  /\ UNCHANGED <<window, revisions, moves, callVars, deliveryVars, authorizedTextDraft>>
Sees == UNCHANGED <<shown, composers, conversation>>

(* The window of the capability, and the header where there must be one     *)
Looks ==
  /\ command.stage = "sent"
  /\ window = Ordered.window
  /\ command.kind = "select" \/ shown = Ordered.contact
  /\ command' = [command EXCEPT !.stage = "looked", !.touched = FALSE]
  /\ Sees
  /\ UNCHANGED <<window, revisions, moves, callVars, deliveryVars, authorizedTextDraft>>

(* The click falls where the row was; a list may move under it.             *)
Selects ==
  /\ ChildAt("select", "looked")
  /\ shown' \in IF command.touched THEN Contacts ELSE {Ordered.contact}
  /\ Comes("done")
  /\ UNCHANGED <<composers, conversation>>

FindsEmpty ==
  /\ ChildAt("type", "looked")
  /\ composers[shown] = Blank
  /\ Comes("empty") /\ Sees

Pastes ==
  /\ ChildAt("type", "empty")
  /\ composers' = [composers EXCEPT ![shown] = IF @ = Blank THEN Ordered.text ELSE Mixed]
  /\ Comes("typed")
  /\ UNCHANGED <<shown, conversation>>

(* What is not the draft is cut, whoever wrote it.                          *)
ReadsDraft ==
  /\ ChildAt("type", "typed")
  /\ IF composers[shown] = Ordered.text
       THEN Comes("done") /\ UNCHANGED composers
       ELSE Comes("failed") /\ composers' = [composers EXCEPT ![shown] = Blank]
  /\ UNCHANGED <<shown, conversation>>

(* A variant that presses whatever the composer holds *)
SubmitReadsNothing ==
  /\ ChildAt("press", "looked")
  /\ Comes("read") /\ Sees

SubmitReadsDraft ==
  /\ ChildAt("press", "looked")
  /\ composers[shown] = Ordered.text
  /\ Comes("read") /\ Sees

(* matchesFinalState: the messages alone; the header was seen before.       *)
MatchesFinalState ==
  /\ ChildAt("press", "read")
  /\ Pane(shown) = Ordered.proof
  /\ Comes("matched") /\ Sees

(* WechatSubmitShortcutTransaction: Return, and then Command-Return.  One of  *)
(* them sends, the other breaks the line; on an empty composer neither acts. *)
Presses ==
  \E pair \in {<<"matched", "pressed">>, <<"restored", "pressed again">>} :
    /\ ChildAt("press", pair[1])
    /\ Comes(pair[2])
    /\ \/ /\ composers[shown] # Blank
          /\ Adds(shown, "bridge", composers[shown])
          /\ composers' = [composers EXCEPT ![shown] = Blank]
       \/ UNCHANGED <<composers, conversation>>
    /\ UNCHANGED shown

(* An empty composer is success; the draft with a line more is restored.     *)
ReadsComposer ==
  \/ /\ \E stage \in {"pressed", "pressed again"} : ChildAt("press", stage)
     /\ composers[shown] = Blank
     /\ Comes("done") /\ Sees
  \/ /\ ChildAt("press", "pressed")
     /\ composers[shown] = Ordered.text
     /\ Comes("restored") /\ Sees

Child ==
  \/ Looks
  \/ Selects
  \/ FindsEmpty
  \/ Pastes
  \/ ReadsDraft
  \/ SubmitReadsDraft
  \/ MatchesFinalState
  \/ Presses
  \/ ReadsComposer

Operation ==
  \/ RequireTextTarget
  \/ MainWindow
  \/ SameWindow
  \/ ReadLines
  \/ LooksWhetherOpen
  \/ LocateAuthorizedIdentity
  \/ MatchAuthorizedIdentity
  \/ SeesHeader
  \/ AcceptsSnapshot
  \/ KeepsDraft
  \/ ClickWechatWindowPoint
  \/ TypeText
  \/ SubmitWechatDraft
  \/ AsksForMark
  \/ MarksSubmitStarted
  \/ Settles
  \/ ReadsBack
  \/ Fails

DeliveryNext ==
  \/ AroundWindow
  \/ Aborts
  \/ Deliver
  \/ Child
  \/ Operation

DeliverySpec == DeliveryInit /\ [][DeliveryNext]_surfaceVars

-----------------------------------------------------------------------------
(* The bubbles the bridge sent for a delivery                               *)
SentFor(n) ==
  {bubble \in UNION {{conversation[c][i] : i \in DOMAIN conversation[c]} : c \in Contacts} :
     bubble.from = "bridge" /\ bubble.by = n}

(* What the bridge sends belongs to a record that was submit-started before: *)
(* after a crash the recovery reads back, and never sends what may be sent   *)
(* (submitWechatDraft marks before it spawns).                              *)
MarkedBeforeSent == \A n \in 1 .. Delivery : SentFor(n) # {} => n \in fenced

(* A delivery that its callers see as not attempted has sent nothing, and     *)
(* will not: the reply may be prepared again (submit of the P1 operations).  *)
RefusedSentNothing ==
  \A n \in 1 .. Delivery : outcome[n] = "refused" => SentFor(n) = {}

(* What the record and the callers hear of a submit is true, wherever the     *)
(* mark, the child, a timer and the abort meet.                             *)
RecordIsTrue == MarkedBeforeSent /\ RefusedSentNothing

(* What the bridge sends, it sends in the window it was prepared in, to the   *)
(* contact, as it was prepared, after the messages of the proof - unless     *)
(* somebody touched the window after the command looked (submitWechatDraft   *)
(* of the bridge).                                                          *)
PressesWhatItSaw ==
  \A c \in Contacts :
    (/\ conversation'[c] # conversation[c]
     /\ Latest(conversation'[c]).from = "bridge" /\ ~command.touched) =>
      /\ c = job.contact /\ window = memory.window
      /\ Latest(conversation'[c]).text = job.text
      /\ Pane(c) = proof.pane

(* A reply is verified by a bubble that is new since the proof was taken:     *)
(* never by an older one that says the same (submitAuthorizedTextDraft) -     *)
(* unless the owner opened another conversation for one of the two pictures, *)
(* whose own headers are not compared.                                      *)
VerifiedByANewBubble ==
  (/\ outcome' # outcome /\ Len(outcome') = Len(outcome)
   /\ outcome'[Delivery] = "verified"
   /\ memory.first.header = job.contact /\ shown = job.contact) =>
    LET bubbles == conversation[job.contact] IN
      /\ Len(bubbles) > proof.length
      /\ Candidate(Latest(bubbles)) = [incoming |-> FALSE, text |-> job.text]

(* What was seen is what is pressed, and what is new is what is verified,     *)
(* while owner, contact and WeChat do as they please between any two looks.  *)
WindowIsTrusted == [][PressesWhatItSaw /\ VerifiedByANewBubble]_surfaceVars
===============================================================================
