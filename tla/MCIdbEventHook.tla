--------------------------- MODULE MCIdbEventHook ---------------------------
(* Small instances of IdbEventHook for TLC. *)
EXTENDS IdbEventHook, TLC

\* Streams are interchangeable (safety runs only).
Symmetry == Permutations(Streams)
=============================================================================
