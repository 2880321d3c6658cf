------------------------------ MODULE Accounts ------------------------------
(***************************************************************************)
(* Access, put together: the refresh sessions of one account (Sessions)    *)
(* and who has access to one company profile (Memberships).  The requests  *)
(* are those of one service, the rows are not shared: Sessions has the     *)
(* memberships of its account come and go at any time.                     *)
(***************************************************************************)
EXTENDS Sessions

CONSTANTS Owner, Manager, Partner, InviteId \* see Memberships

VARIABLES registered, member, invite, prime, inviting, mailed, paired, died

inviteVars == <<registered, member, invite, prime, inviting, mailed, paired, died>>

Invites ==
  INSTANCE Memberships
    WITH handler <- inviting, raced <- paired, interrupted <- died

ASSUME AccountAssumption ==
  /\ Owner \notin Manager \cup Partner
  /\ Manager \cap Partner = {}
-----------------------------------------------------------------------------
AccountsInit == Init /\ Invites!Init

SessionStep == Next /\ UNCHANGED inviteVars

InviteStep == Invites!Next /\ UNCHANGED vars

AccountsSpec ==
  AccountsInit /\ [][SessionStep \/ InviteStep]_<<vars, inviteVars>>
-----------------------------------------------------------------------------
\* An account has one invite at a time that it may accept (Memberships).
OneOpenInvite == Invites!OneOpenInvite

\* Access is given by an open invite alone (Memberships).
OpenInviteGrants == Invites!OpenInviteGrants
=============================================================================
