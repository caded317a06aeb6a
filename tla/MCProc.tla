------------------------------- MODULE MCProc -------------------------------
(***************************************************************************)
(* A small instance of Proc.                                               *)
(***************************************************************************)
EXTENDS Proc
-----------------------------------------------------------------------------
\* wait() returns once a child is a zombie, and exit() ends.
CallsEnd == WaitReturns /\ ExitEnds
=============================================================================
