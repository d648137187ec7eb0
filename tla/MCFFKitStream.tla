--------------------------- MODULE MCFFKitStream ---------------------------
(***************************************************************************)
(* Instances of FFKitStream for TLC.                                       *)
(***************************************************************************)
EXTENDS FFKitStream, TLC

Interchangeable ==
    Permutations(Sessions) \cup Permutations(Apps) \cup Permutations(Owners) \cup Permutations(Byte)
=============================================================================
