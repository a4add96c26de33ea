--------------------------- MODULE MCConfigStore ----------------------------
(***************************************************************************)
(* ConfigStore for TLC.  Handlers differ only in their kind, which Init    *)
(* chooses for each of them: they are interchangeable.                     *)
(***************************************************************************)
EXTENDS ConfigStore, TLC

Interchangeable == Permutations(Requests)
=============================================================================
