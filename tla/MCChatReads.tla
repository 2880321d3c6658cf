---------------------------- MODULE MCChatReads -----------------------------
(* A small instance of ChatReads: a dialog of three messages.               *)
EXTENDS ChatReads, TLC

Interchangeable == Permutations(MessageId) \cup Permutations(Handler)
=============================================================================
