----------------------- MODULE MCRealtimeReplyService -----------------------
(* The contact and the owner write at the first MaxPosition positions of the  *)
(* chat; a bot message can come after them.  A binding is an enrollment of    *)
(* the contact with the epoch of a process.                                  *)
EXTENDS RealtimeReplyService, TLC

CONSTANT MaxPosition

MCMessages == 1 .. MaxPosition
MCBindings == (1 .. MaxRevision) \X (1 .. MaxEpoch)

=============================================================================
