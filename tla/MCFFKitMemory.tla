--------------------------- MODULE MCFFKitMemory ---------------------------
(***************************************************************************)
(* Instances of FFKitMemory for TLC.                                       *)
(***************************************************************************)
EXTENDS FFKitMemory

\* What the application passes as a capacity, and what FFmpeg seeks by.
SomeArguments == {-1, 0, 1, 3, 6}
SomeOffsets == {-2, 1, MaxInt}
=============================================================================
