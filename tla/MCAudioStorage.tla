--------------------------- MODULE MCAudioStorage ---------------------------
(* Instances of AudioStorage for TLC. *)
EXTENDS AudioStorage, TLC

CONSTANTS k1, k2, u1, u2

UploaderSymmetry == Permutations(Uploaders)
=============================================================================
