---------------------------- MODULE MCMemberships ----------------------------
(* A small instance of the invites of Accounts: an owner, a manager and a   *)
(* partner.  No session is opened meanwhile.                                *)
(* Once there are two invites the process no longer dies and the            *)
(* subscription, never taken out or active, is no longer written, though it *)
(* runs out: neither has to do with there being two.  No more invites are   *)
(* being made than there are rows left for.                                 *)
EXTENDS Accounts, TLC

InviteSpec == AccountsInit /\ [][InviteStep]_<<vars, inviteVars>>

Unused == {i \in InviteId : invite[i] = Invites!Absent}

Small ==
  /\ Cardinality({h \in Handler : inviting[h].pc \in Invites!Inviting}) <= Cardinality(Unused)
  /\ Unused = {} =>
       /\ ~died
       /\ prime.status \in {"NONE", "ACTIVE"}
       /\ \A h \in Handler : inviting[h].pc # "subscribe"

Interchangeable == Permutations(InviteId) \cup Permutations(Handler)
=============================================================================
