--------------------------- MODULE MCDiffCommand ---------------------------
(* Model checking of DiffCommand: every combination of refs, facts and       *)
(* failures.                                                                 *)
EXTENDS DiffCommand

\* Nothing is left to do once the run has ended.
Stopped == pc = "done" /\ UNCHANGED commandVars
MCSpec == CommandInit /\ [][CommandNext \/ Stopped]_commandVars
=============================================================================
