--------------------------- MODULE MCApplications ---------------------------
(* A small instance of Applications: two applicants, two handlers.          *)
EXTENDS Applications, TLC

Nothing == [archived |-> Keep, private |-> Keep, template |-> Keep]

\* The flags that open and close a post and make it a template or publish it.
FlagDto ==
  {[Nothing EXCEPT !.archived = TRUE], [Nothing EXCEPT !.private = FALSE],
   [Nothing EXCEPT !.template = TRUE], [Nothing EXCEPT !.template = FALSE]}

Interchangeable ==
  Permutations(Applicant) \cup Permutations(TaskId) \cup Permutations(Handler)
=============================================================================
