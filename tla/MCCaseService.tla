---------------------------- MODULE MCCaseService ----------------------------
(***************************************************************************)
(* Small instances of CaseService.  Analysts, cases and handlers are       *)
(* interchangeable.                                                        *)
(***************************************************************************)
EXTENDS CaseService, TLC

MCSymmetry ==
  Permutations(Analysts) \cup Permutations(CaseIds) \cup Permutations(Threads)
=============================================================================
