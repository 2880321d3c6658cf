--------------------------- MODULE MCChatMessages ---------------------------
(* A small instance of the writing in Chat: two messages, two attachments   *)
(* each, whoever reads them.                                                *)
(* Pins are tried while there is one message, that no two requests have     *)
(* been changing: those on another do not touch it.                         *)
EXTENDS Chat, TLC

ContentSpec == ChatInit /\ [][ContentStep]_<<vars, contentVars>>

Raced(kind) == \E m \in MessageId : <<kind, m>> \in contended

Unpinned ==
  /\ ~Raced("pin")
  /\ \A m \in MessageId, u \in Contents!User : pin[m][u] = "none"
  /\ \A h \in Handler : writing[h].pc # "pin"

Small == Unpinned \/ (~Raced("content") /\ \E m \in MessageId : content[m] = Contents!Absent)

Interchangeable ==
  Permutations(MessageId) \cup Permutations(Item) \cup Permutations(Handler)
=============================================================================
