----------------------------- MODULE MCDispatch -----------------------------
(***************************************************************************)
(* Instances of Dispatch for TLC.  Runners and sessions are interchangeable *)
(* (no definition chooses among them); jobs and attempts are not, because   *)
(* Mint picks attempts with CHOOSE.                                         *)
(***************************************************************************)
EXTENDS Dispatch, TLC

Interchangeable == Permutations(Runners) \cup Permutations(Sessions)
=============================================================================
