----------------------------- MODULE MCAppLocks -----------------------------
(***************************************************************************)
(* Small instances of AppLocks.                                            *)
(***************************************************************************)
EXTENDS AppLocks, TLC

CONSTANTS t1, t2, t3

\* Tasks are interchangeable (used without temporal properties only).
AnyTask == Permutations(Tasks)

AllCommands == DOMAIN Scripts
=============================================================================
