--------------------------- MODULE MCLiveRuntime ---------------------------
(* The live runtime in small scopes: each lets a few things happen more than *)
(* once, and keeps the rest to the least.                                   *)
EXTENDS LiveRuntime

CONSTANTS m, wake, r, r2, own,
          Scopes    \* the names of the scopes of the run

MCMsgs == {m, wake}
MCWakes == {wake}
MCReplies == {r, r2}

Replying == {"read-control", "read-target", "prepare", "verify-draft", "submit", "abort", "verify-send"}
Tools == {"get-state", "read-chat", "prepare-draft", "verify-draft", "abort-draft", "verify-send"}

Least == [in |-> 1, owner |-> 0, typed |-> 0, faults |-> 0, starts |-> 1, tokens |-> 1, ahead |-> 0,
          unread |-> {FALSE}, begun |-> TRUE, msgs |-> {m}, texts |-> {r}, commands |-> {"stop", "resume"},
          hosts |-> {"session"}, calls |-> Replying]
Flagged == [Least EXCEPT !.unread = BOOLEAN]
Both == [Least EXCEPT !.in = 2, !.msgs = {m, wake}]

AllScopes ==
  [ typing   |-> [Both EXCEPT !.in = 3, !.typed = 2],
    stops    |-> [Flagged EXCEPT !.owner = 2, !.faults = 1],
    resumes  |-> [Flagged EXCEPT !.owner = 3, !.calls = Replying \ {"abort"}],
    ahead    |-> [Flagged EXCEPT !.owner = 1, !.ahead = 1],
    crashes  |-> [Both EXCEPT !.texts = {r, r2}, !.faults = 1, !.starts = 2, !.tokens = 2],
    cards    |-> [Both EXCEPT !.faults = 1, !.starts = 2,
                              !.calls = {"read-control", "read-target", "show-card", "accept-card"}],
    direct   |-> [Flagged EXCEPT !.owner = 1, !.faults = 1, !.starts = 2,
                                 !.hosts = {"direct"}, !.calls = Replying \cup {"read-direct"}],
    tools    |-> [Least EXCEPT !.faults = 1, !.starts = 2, !.tokens = 2,
                               !.hosts = {"tools"}, !.calls = Tools],
    hands    |-> [Least EXCEPT !.owner = 1, !.typed = 1, !.hosts = {"tools"},
                               !.calls = Tools \cup {"read-control"}],
    boundary |-> [Least EXCEPT !.in = 0, !.owner = 1, !.faults = 1, !.starts = 2, !.tokens = 2, !.begun = FALSE,
                               !.commands = {"stop", "marker"}, !.calls = {"establish", "read-control"}] ]

MCBudgets == {AllScopes[name] : name \in Scopes}
=============================================================================
