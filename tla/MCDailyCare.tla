----------------------------- MODULE MCDailyCare -----------------------------
(* The slot before anything was written, and the slot as a process left it that *)
(* died between writing the draft of its first session and proving it.          *)
EXTENDS DailyCare

Lost == [Claimed EXCEPT !.phase = "candidate-prepared", !.text = 1, !.attempts = 1]

MCSpec ==
    /\ InitAfter(1, Unclaimed, Empty) \/ InitAfter(1, Lost, 1)
    /\ [][Next]_vars
    /\ Fairness

=============================================================================
