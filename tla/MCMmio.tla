------------------------------- MODULE MCMmio -------------------------------
(***************************************************************************)
(* Instances of MmioScoreboard for TLC.                                    *)
(***************************************************************************)
EXTENDS MmioInvariant
=============================================================================
