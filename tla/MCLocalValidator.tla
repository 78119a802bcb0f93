-------------------------- MODULE MCLocalValidator --------------------------
(* An instance of LocalValidator for TLC.  The runs of the setup script are
   interchangeable; symmetry is sound here, no property of it being one of
   liveness. *)
EXTENDS LocalValidator, TLC

AnyRun == Permutations(Runs)
=============================================================================
