----------------------------- MODULE MCSessions -----------------------------
(* A small instance of Sessions: three sessions of the account's own        *)
(* profile, or two while it has, or has used, another one.                  *)
EXTENDS Sessions, TLC

OwnOnly ==
  /\ membership = {Own}
  /\ \A s \in Issued : session[s].profile = Own
  /\ \A h \in Issuing : handler[h].on.profile = Own

Small == OwnOnly \/ Cardinality(Issued) <= 2

Interchangeable == Permutations(SessionId) \cup Permutations(Handler)
=============================================================================
