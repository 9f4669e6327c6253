----------------------------- MODULE MCReplyPath -----------------------------
(* The ways from a message to a reply: the source that reads it, the delivery  *)
(* through the window of WeChat; and the live runtime, in which a client takes *)
(* the whole way.  They meet in the ledger of the service only, so each is    *)
(* explored while the others rest.                                          *)
(*                                                                         *)
(* The contact may have been answered with the same words before.           *)
EXTENDS MCLiveRuntime, NativeDelivery, InboundSource

CONSTANTS asks, answers
VARIABLE station

Says(who, words) == [from |-> who, text |-> words, by |-> 0]

MCHistories == {<<Says("contact", asks)>>,
                <<Says("owner", answers), Says("contact", asks)>>}
MCWords == {asks, answers}
MCReplyTexts == {answers}

runtimeVars == vars
MCVars == <<station, runtimeVars, surfaceVars, inboundVars>>

MCInit ==
  /\ Init /\ DeliveryInit /\ SourceInit
  /\ station \in {"runtime", "delivery", "source"}
  /\ station # "runtime" => budget = (CHOOSE b \in Budgets : TRUE) /\ Len(chat) = 0
  /\ station # "delivery" =>
       /\ shown = CHOOSE c \in Contacts : TRUE
       /\ conversation = [c \in Contacts |-> <<Says("contact", asks)>>]
  /\ station # "source" => said = <<>>

AtRuntime ==
  station = "runtime" /\ Next /\ UNCHANGED <<station, surfaceVars, inboundVars>>
AtDelivery ==
  station = "delivery" /\ DeliveryNext /\ UNCHANGED <<station, runtimeVars, inboundVars>>
AtSource ==
  station = "source" /\ SourceNext /\ UNCHANGED <<station, runtimeVars, surfaceVars>>

MCNext == AtRuntime \/ AtDelivery \/ AtSource

MCSpec == MCInit /\ [][MCNext]_MCVars

\* A failure in a chat of two messages; a third one in the same minute; a start
\* or an enrollment more with one message.
InScope ==
  \/ contactRevision + epoch = 2 /\ Len(said) <= 2
  \/ contactRevision + epoch = 2 /\ faults = 0 /\ Last(said).minute = 1
  \/ contactRevision + epoch = 3 /\ Len(said) <= 1
=============================================================================
