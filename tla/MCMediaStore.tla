---------------------------- MODULE MCMediaStore ----------------------------
(* A small instance of MediaStore: two requests at a time.                  *)
EXTENDS MediaStore, TLC

\* One request at a time copies the files of the task to a dialog, and alone: the
\* objects it makes have no rows.
Small ==
  At({"copyAll"}) # {} =>
    Cardinality(At({"copyAll"})) = 1 /\ At({"create", "next", "row", "undo", "undoFiles"}) = {}

Interchangeable == Permutations(Key) \cup Permutations(Handler)
=============================================================================
