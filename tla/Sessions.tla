------------------------------ MODULE Sessions ------------------------------
(***************************************************************************)
(* The refresh sessions of one account (src/src/auth/auth.service.ts): the *)
(* RefreshSession rows, the profiles the account is a member of, and       *)
(* the resets of its password.                                             *)
(*                                                                         *)
(* A handler is cut at its awaits.  A request that is refused changes      *)
(* nothing and is no action.  A JWT is modelled by the row it names: who   *)
(* holds the refresh token of a session may present it for ever, revoked   *)
(* or expired as the row may be.                                           *)
(*                                                                         *)
(* A definition marked "mutant" is one below it with a mistake in it: it   *)
(* is used nowhere, and shows that the properties tell the two apart.      *)
(***************************************************************************)
EXTENDS Naturals, FiniteSets

CONSTANTS
  Own,        \* the profile made at registration, whose membership is OWNER
  Other,      \* profiles the account may be invited to
  SessionId,  \* uuids for session rows: bounds how many are issued
  Handler,    \* requests in flight: bounds the concurrency
  None        \* undefined

VARIABLES
  membership, \* the profiles with an AccountMembership of this account
  session,    \* the RefreshSession rows
  handler,    \* the local state of each request in flight
  older,      \* history: the sessions that go back to an older password
  interrupted \* history: the process has died with requests in flight

vars == <<membership, session, handler, older, interrupted>>
-----------------------------------------------------------------------------
Profile == {Own} \cup Other

\* "live", or what made the row dead first: its replacement, or the end of it
\* (a logout or a reset set revokedAt, or expiresAt passed).
SessionStatus == {"live", "replaced", "ended"}

\* What a request may have overlapped with: another one with the same cookie
\* or the end of its session; a reset of the password (or, its session having
\* died before, an access token alone let it in).
Overlap == {"cookie", "reset"}

(* What all the handlers that issue a session carry to that point: how the  *)
(* client was authenticated, for which profile, the session it replaces,    *)
(* and what it has overlapped with (history).                               *)
Issuer == [by: {"login", "refresh", "switch"}, profile: Profile,
           parent: SessionId \cup {None}, raced: SUBSET Overlap]

SessionRow ==
  [status: SessionStatus, by: {"login", "refresh", "switch"}, profile: Profile,
   parent: SessionId \cup {None}, raced: SUBSET Overlap]

Absent == [status |-> "absent"]

Idle == [pc |-> "idle"]

HandlerState ==
  {Idle} \cup [pc: {"revokeAll"}]
    \cup [pc: {"membership", "revoke", "issue"}, on: Issuer]

ASSUME OwnAssumption == Own \notin Other
ASSUME NoneAssumption == None \notin SessionId

Issued == {s \in SessionId : session[s] # Absent}
Busy == {h \in Handler : handler[h] # Idle}
Issuing == {h \in Handler : handler[h].pc \in {"membership", "revoke", "issue"}}
Resetting == {h \in Handler : handler[h].pc = "revokeAll"}
Sharing(s) == {h \in Issuing : s # None /\ handler[h].on.parent = s}

\* The handlers when the ones in hs are marked with what they overlapped.
Marked(hs, overlap) ==
  [h \in Handler |-> IF h \in hs
                     THEN [handler[h] EXCEPT !.on.raced = @ \cup {overlap}]
                     ELSE handler[h]]

Goto(h, local) == handler' = [handler EXCEPT ![h] = local]

\* A request that will issue a session is admitted at its first read.
Enter(h, pc, issuer) ==
  /\ handler[h] = Idle
  /\ handler' =
       [Marked(Sharing(issuer.parent), "cookie") EXCEPT
          ![h] = [pc |-> pc,
                  on |-> [issuer EXCEPT !.raced =
                            {o \in Overlap :
                               \/ o \in issuer.raced
                               \/ o = "cookie" /\ Sharing(issuer.parent) # {}
                               \/ o = "reset" /\ Resetting # {}}]]]
-----------------------------------------------------------------------------
Init ==
  /\ membership \in {m \in SUBSET Profile : Own \in m}
  /\ session = [s \in SessionId |-> Absent]
  /\ handler = [h \in Handler |-> Idle]
  /\ older = {}
  /\ interrupted = FALSE
-----------------------------------------------------------------------------
(* POST /auth/login, and the end of the three registrations.                *)

\* The password is compared with the hash read first.  getDefaultProfile
\* takes the oldest membership, which is the one made at registration.
Login(h) ==
  /\ Enter(h, "issue", [by |-> "login", profile |-> Own, parent |-> None,
                        raced |-> {}])
  /\ UNCHANGED <<membership, session, older, interrupted>>
-----------------------------------------------------------------------------
(* POST /auth/refresh                                                       *)

\* revokeRefreshSession: the row if it is not revoked yet; the count of rows
\* the update found is not read.
Dead(row, reason) ==
  IF row.status = "live" THEN [row EXCEPT !.status = reason] ELSE row

MayRefreshReplaced(s) == session[s].status \in {"live", "replaced"}  \* mutant

MayRefresh(s) == session[s].status = "live"

\* What is known of the credentials a session stands for.
Lineage(s) == session[s].raced \cap {"reset"}

Refresh(h, s) ==
  /\ s \in Issued
  /\ MayRefresh(s)
  /\ Enter(h, "membership",
           [by |-> "refresh", profile |-> session[s].profile, parent |-> s,
            raced |-> Lineage(s)])
  /\ UNCHANGED <<membership, session, older, interrupted>>

RefusalRevokes(h) ==  \* mutant
  /\ handler[h].pc = "membership"
  /\ IF handler[h].on.profile \in membership
     THEN /\ Goto(h, [handler[h] EXCEPT !.pc = "revoke"])
          /\ UNCHANGED session
     ELSE /\ Goto(h, Idle)
          /\ session' = [session EXCEPT ![handler[h].on.parent] = Dead(@, "replaced")]
  /\ UNCHANGED <<membership, older, interrupted>>

\* getMembership; without one the request is refused and the session stays.
ReadMembership(h) ==
  /\ handler[h].pc = "membership"
  /\ IF handler[h].on.profile \in membership
     THEN Goto(h, [handler[h] EXCEPT !.pc = "revoke"])
     ELSE Goto(h, Idle)
  /\ UNCHANGED <<membership, session, older, interrupted>>
-----------------------------------------------------------------------------
(* POST /auth/switch-profile, with the access token and the refresh token   *)
(* of session s.  The access token is checked by its signature alone, and   *)
(* parseJtiFromRefreshToken reads neither revokedAt nor the expiry.         *)
(* Without the refresh cookie, which may be missing (auth.service.ts:740),  *)
(* the request revokes nothing and opens a session as Login does: that is   *)
(* left to Login.                                                           *)

SwitchProfile(h, s, p) ==
  /\ s \in Issued
  /\ p \in membership
  /\ Enter(h, "revoke",
           [by |-> "switch", profile |-> p, parent |-> s,
            raced |-> Lineage(s)
                        \cup (IF session[s].status = "live" THEN {} ELSE {"reset"})])
  /\ UNCHANGED <<membership, session, older, interrupted>>
-----------------------------------------------------------------------------
(* buildAuthResponse                                                        *)

RevokeNothing(h) == session  \* mutant

RevokeParent(h) ==
  [session EXCEPT ![handler[h].on.parent] = Dead(@, "replaced")]

Revoke(h) ==
  /\ handler[h].pc = "revoke"
  /\ session' = RevokeParent(h)
  /\ Goto(h, [handler[h] EXCEPT !.pc = "issue"])
  /\ UNCHANGED <<membership, older, interrupted>>

NewRow(l) == [status |-> "live", by |-> l.by, profile |-> l.profile,
              parent |-> l.parent, raced |-> l.raced]

\* issueTokens: the row, then the two tokens that name it.
Issue(h, n) ==
  /\ handler[h].pc = "issue"
  /\ session[n] = Absent
  /\ session' = [session EXCEPT ![n] = NewRow(handler[h].on)]
  /\ older' = older \cup {s \in {n} : handler[h].on.parent \in older}
  /\ Goto(h, Idle)
  /\ UNCHANGED <<membership, interrupted>>
-----------------------------------------------------------------------------
(* POST /auth/logout: one update, with any token ever issued; or expiresAt  *)
(* passes.                                                                  *)

End(s) ==
  /\ s \in Issued
  /\ session' = [session EXCEPT ![s] = Dead(@, "ended")]
  /\ handler' = Marked(Sharing(s), "cookie")
  /\ UNCHANGED <<membership, older, interrupted>>
-----------------------------------------------------------------------------
(* POST /auth/reset-password.  The token is a JWT that names the account:   *)
(* nothing marks it used.                                                   *)

\* updatePassword
ResetPassword(h) ==
  /\ handler[h] = Idle
  /\ older' = Issued
  /\ handler' = [Marked(Issuing, "reset") EXCEPT ![h] = [pc |-> "revokeAll"]]
  /\ UNCHANGED <<membership, session, interrupted>>

RevokeOwnProfile ==  \* mutant
  [s \in SessionId |->
     IF session[s] # Absent /\ session[s].profile = Own
     THEN Dead(session[s], "ended") ELSE session[s]]

\* revokeAllRefreshSessionsForAccount: whichever profile they are for.
AllRevoked ==
  [s \in SessionId |->
     IF session[s] = Absent THEN Absent ELSE Dead(session[s], "ended")]

RevokeAll(h) ==
  /\ handler[h].pc = "revokeAll"
  /\ session' = AllRevoked
  /\ handler' = [Marked({g \in Issuing : handler[g].on.parent # None}, "cookie")
                   EXCEPT ![h] = Idle]
  /\ UNCHANGED <<membership, older, interrupted>>
-----------------------------------------------------------------------------
(* The memberships: acceptInvite adds one, revokeMembership deletes one     *)
(* that is not OWNER; neither touches a session.                            *)

GrantMembership(p) ==
  /\ membership' = membership \cup {p}
  /\ UNCHANGED <<session, handler, older, interrupted>>

RevokeMembership(p) ==
  /\ p \in membership \ {Own}
  /\ membership' = membership \ {p}
  /\ UNCHANGED <<session, handler, older, interrupted>>
-----------------------------------------------------------------------------
(* The process dies with what was in flight.                                *)

Crash ==
  /\ Busy # {}
  /\ handler' = [h \in Handler |-> Idle]
  /\ interrupted' = TRUE
  /\ UNCHANGED <<membership, session, older>>

Next ==
  \/ \E h \in Handler :
       \/ Login(h) \/ ReadMembership(h) \/ Revoke(h)
       \/ ResetPassword(h) \/ RevokeAll(h)
       \/ \E s \in SessionId :
            \/ Refresh(h, s) \/ Issue(h, s)
            \/ \E p \in Profile : SwitchProfile(h, s, p)
  \/ \E s \in SessionId : End(s)
  \/ \E p \in Other : GrantMembership(p)
  \/ \E p \in Profile : RevokeMembership(p)
  \/ Crash

Spec == Init /\ [][Next]_vars
-----------------------------------------------------------------------------
(* Rows, handlers and history have their types; the account keeps its own   *)
(* profile.                                                                 *)
TypeOK ==
  /\ membership \subseteq Profile
  /\ Own \in membership
  /\ session \in [SessionId -> SessionRow \cup {Absent}]
  /\ handler \in [Handler -> HandlerState]
  /\ older \subseteq SessionId
  /\ interrupted \in BOOLEAN

Children(s) == {c \in Issued : session[c].parent = s}

\* buildAuthResponse: whatever the overlaps, a session that another one was
\* issued in place of is never live.
ReplacedIsDead ==
  \A c \in Issued : session[c].parent # None => session[session[c].parent].status # "live"

\* refresh: one refresh token buys one session, unless two requests with it
\* overlapped (both then read it before either revokes it).
RefreshedOnce ==
  \A s \in Issued :
    Cardinality({c \in Children(s) : session[c].by = "refresh"
                                       /\ "cookie" \notin session[c].raced}) <= 1

\* buildAuthResponse: a session is given up only for the one that follows it,
\* unless the process died in between.
GivenUpForSuccessor ==
  \A s \in Issued :
    session[s].status = "replaced" =>
      Children(s) # {} \/ Sharing(s) # {} \/ interrupted

\* resetPassword: after a reset no session survives that goes back to an
\* older password, unless it was being issued while the reset ran, the process
\* died in the middle of the reset, or an access token that outlived its
\* session was used to switch profiles.
ResetEndsSessions ==
  \A s \in older :
    session[s].status = "live" =>
      \/ Resetting # {}
      \/ interrupted
      \/ "reset" \in session[s].raced
=============================================================================
