--------------------------- MODULE AccountsProofs ---------------------------
(* The replacement of sessions, for every set of profiles, sessions and      *)
(* handlers: a session that was replaced is dead, one that is given up has   *)
(* its successor or is about to (Inv), a refresh token buys one session, and *)
(* a reset of the password ends the sessions before it (HistoryInv).  The    *)
(* invites to a company profile follow.                                      *)
EXTENDS Accounts, TLAPS, FiniteSetTheorems

\* Handler h holds the token of session s, and has revoked it on its way to a
\* session in its place.
Presents(h, s) == h \in Issuing /\ handler[h].on.parent = s
Replaces(h, s) == handler[h].pc = "issue" /\ handler[h].on.parent = s

\* What requests in flight, and rows, refer to is in the table.
NothingDangles ==
  /\ \A h \in Handler, s \in SessionId : Presents(h, s) => s \in Issued
  /\ \A c \in Issued : session[c].parent # None => session[c].parent \in Issued

\* A handler that goes to issue a session has seen to the one it replaces.
RevokedFirst ==
  \A h \in Handler, s \in SessionId : Replaces(h, s) => session[s].status # "live"

\* Who gave a session up owes it a successor: a handler past the revocation,
\* not just any that holds the token, since that one may yet be refused.
SuccessorOwed ==
  \A s \in Issued : session[s].status = "replaced" =>
    \/ \E c \in Issued : session[c].parent = s
    \/ \E h \in Handler : Replaces(h, s)
    \/ interrupted

Inv == TypeOK /\ NothingDangles /\ RevokedFirst /\ ReplacedIsDead /\ SuccessorOwed
-----------------------------------------------------------------------------
(* Lemmas on the operators.                                                  *)

IssuingPc == {"membership", "revoke", "issue"}

\* A handler that will issue a session carries what it knows of the client.
LEMMA IssuingShape ==
  ASSUME NEW l \in HandlerState, l.pc \in IssuingPc
  PROVE  l.on \in Issuer /\ l = [pc |-> l.pc, on |-> l.on]
  BY DEF HandlerState, IssuingPc, Idle

\* A row that is there is of the type of a row.
LEMMA IssuedRow ==
  ASSUME TypeOK, NEW s \in Issued
  PROVE  s \in SessionId /\ session[s] \in SessionRow
  BY DEF TypeOK, Issued

\* A row dies without changing otherwise, and one that is dead stays as it is.
LEMMA DeadRow ==
  ASSUME NEW row \in SessionRow, NEW reason \in {"replaced", "ended"}
  PROVE  /\ Dead(row, reason) \in SessionRow
         /\ Dead(row, reason).parent = row.parent
         /\ Dead(row, reason).by = row.by
         /\ Dead(row, reason).raced = row.raced
         /\ Dead(row, reason).status # "live"
         /\ Dead(row, reason).status \in {row.status, reason}
         /\ row.status # "live" => Dead(row, reason) = row
  BY DEF Dead, SessionRow, SessionStatus

\* Marking a handler with what it overlapped leaves what it is about.
LEMMA MarkedKeeps ==
  ASSUME TypeOK, NEW hs \in SUBSET Issuing, NEW overlap \in Overlap
  PROVE  /\ Marked(hs, overlap) \in [Handler -> HandlerState]
         /\ \A h \in Handler :
              /\ Marked(hs, overlap)[h].pc = handler[h].pc
              /\ handler[h].pc \in IssuingPc =>
                   Marked(hs, overlap)[h].on.parent = handler[h].on.parent
<1> DEFINE mark(g) == [handler[g] EXCEPT !.on.raced = @ \cup {overlap}]
<1>1. ASSUME NEW g \in hs
      PROVE  /\ mark(g) \in HandlerState /\ mark(g).pc = handler[g].pc
             /\ mark(g).on.parent = handler[g].on.parent
  <2>1. handler[g] \in HandlerState /\ handler[g].pc \in IssuingPc
    BY DEF TypeOK, Issuing, IssuingPc
  <2>2. handler[g].on \in Issuer /\ handler[g] = [pc |-> handler[g].pc, on |-> handler[g].on]
    BY <2>1, IssuingShape
  <2> DEFINE on == [handler[g].on EXCEPT !.raced = @ \cup {overlap}]
  <2>3. on \in Issuer /\ on.parent = handler[g].on.parent
    BY <2>2 DEF Issuer
  <2>4. mark(g) = [pc |-> handler[g].pc, on |-> on]
    BY <2>2
  <2> HIDE DEF on, mark
  <2> QED
    BY <2>1, <2>3, <2>4 DEF HandlerState, IssuingPc
<1> HIDE DEF mark
<1>2. Marked(hs, overlap) = [g \in Handler |-> IF g \in hs THEN mark(g) ELSE handler[g]]
  BY DEF Marked, mark
<1>3. hs \subseteq Handler
  BY DEF Issuing
<1> QED
  BY <1>1, <1>2, <1>3 DEF TypeOK

\* The handlers that share a token are among those that will issue.
LEMMA SharingIssues == \A s : Sharing(s) \subseteq Issuing
  BY DEF Sharing
-----------------------------------------------------------------------------
(* Steps that issue no session.                                              *)

\* No row comes, goes or is revived.
OnlyDie ==
  \A s \in SessionId :
    /\ session'[s] = Absent <=> session[s] = Absent
    /\ session[s] # Absent =>
         /\ session'[s].parent = session[s].parent
         /\ session'[s].status = "live" => session[s].status = "live"

\* Such a step keeps Inv if no handler drops a token it owes a successor for,
\* and none comes to owe one before the token is dead.
LEMMA DeathStep ==
  ASSUME Inv, TypeOK', OnlyDie,
         \A h \in Handler, s \in SessionId : Presents(h, s)' => s \in Issued,
         \A h \in Handler, s \in SessionId :
           Replaces(h, s)' => Replaces(h, s) \/ session'[s].status # "live",
         \A s \in Issued : session'[s].status = "replaced" =>
           session[s].status = "replaced" \/ \E h \in Handler : Replaces(h, s)',
         interrupted => interrupted',
         ~interrupted' => \A h \in Handler, s \in SessionId :
                            Replaces(h, s) => Replaces(h, s)'
  PROVE  Inv'
<1>1. Issued' = Issued
  BY DEF OnlyDie, Issued
<1>2. \A c \in Issued : session'[c].parent = session[c].parent
  BY DEF OnlyDie, Issued
<1>3. \A s \in Issued : session[s].status # "live" => session'[s].status # "live"
  BY DEF OnlyDie, Issued
<1>4. \A c \in Issued : c \in SessionId /\ session[c].parent \in SessionId \cup {None}
  BY IssuedRow DEF Inv, SessionRow
<1>5. NothingDangles'
  BY <1>1, <1>2 DEF Inv, NothingDangles
<1>6. RevokedFirst'
  <2> SUFFICES ASSUME NEW h \in Handler, NEW s \in SessionId, Replaces(h, s)'
               PROVE  session'[s].status # "live"
    BY DEF RevokedFirst
  <2>1. CASE Replaces(h, s)
    <3>1. session[s].status # "live"
      BY <2>1 DEF Inv, RevokedFirst
    <3>2. s \in Issued
      BY <2>1 DEF Inv, NothingDangles, Replaces, Presents, Issuing
    <3> QED
      BY <3>1, <3>2, <1>3
  <2> QED
    BY <2>1
<1>7. ReplacedIsDead'
  BY <1>1, <1>2, <1>3 DEF Inv, ReplacedIsDead, NothingDangles
<1>8. SuccessorOwed'
  <2> SUFFICES ASSUME NEW s \in Issued, session'[s].status = "replaced", ~interrupted'
               PROVE  \/ \E c \in Issued : session'[c].parent = s
                      \/ \E h \in Handler : Replaces(h, s)'
    BY <1>1 DEF SuccessorOwed
  <2>1. CASE session[s].status = "replaced"
    <3>1. (\E c \in Issued : session[c].parent = s) \/ (\E h \in Handler : Replaces(h, s))
      BY <2>1 DEF Inv, SuccessorOwed
    <3> QED
      BY <3>1, <1>2, <1>4
  <2> QED
    BY <2>1
<1> QED
  BY <1>5, <1>6, <1>7, <1>8 DEF Inv

\* What a handler is about, the token it holds and how far it is with it.
SameErrand(g) ==
  /\ handler'[g].pc = handler[g].pc
  /\ handler[g].pc \in IssuingPc => handler'[g].on.parent = handler[g].on.parent

\* A handler on the same errand presents, and replaces, what it did before.
LEMMA ErrandKept ==
  ASSUME NEW g \in Handler, SameErrand(g)
  PROVE  \A s : (Presents(g, s)' <=> Presents(g, s)) /\ (Replaces(g, s)' <=> Replaces(g, s))
  BY DEF SameErrand, Presents, Replaces, Issuing, IssuingPc

\* A step of one handler that leaves the rows alone and neither takes up nor
\* drops a replacement.
LEMMA QuietStep ==
  ASSUME Inv, NEW h \in Handler,
         handler' \in [Handler -> HandlerState],
         \A g \in Handler \ {h} : SameErrand(g),
         \A s \in SessionId : Presents(h, s)' => s \in Issued,
         \A s \in SessionId : Replaces(h, s)' <=> Replaces(h, s),
         older' \in SUBSET SessionId,
         UNCHANGED <<membership, session, interrupted>>
  PROVE  Inv'
<1>1. TypeOK'
  BY DEF Inv, TypeOK
<1>2. OnlyDie
  BY DEF OnlyDie
<1>3. \A g \in Handler, s \in SessionId :
        (Presents(g, s)' => s \in Issued) /\ (Replaces(g, s)' <=> Replaces(g, s))
  BY ErrandKept DEF Inv, NothingDangles
<1> QED
  BY <1>1, <1>2, <1>3, DeathStep

\* Admitting a request marks those that share its token, and no more.
LEMMA EnterKeeps ==
  ASSUME Inv, NEW h \in Handler, NEW pc \in IssuingPc, NEW issuer \in Issuer,
         Enter(h, pc, issuer)
  PROVE  /\ handler' \in [Handler -> HandlerState]
         /\ handler'[h].pc = pc /\ handler'[h].on.parent = issuer.parent
         /\ handler[h].pc = "idle"
         /\ \A g \in Handler \ {h} : SameErrand(g)
<1> DEFINE raced == {o \in Overlap :
                       \/ o \in issuer.raced
                       \/ o = "cookie" /\ Sharing(issuer.parent) # {}
                       \/ o = "reset" /\ Resetting # {}}
           on == [issuer EXCEPT !.raced = raced]
           others == Marked(Sharing(issuer.parent), "cookie")
<1>1. on \in Issuer /\ on.parent = issuer.parent
  BY DEF Issuer
<1>2. handler' = [others EXCEPT ![h] = [pc |-> pc, on |-> on]]
  BY DEF Enter
<1> HIDE DEF on
<1>3. [pc |-> pc, on |-> on] \in HandlerState
  BY <1>1 DEF HandlerState, IssuingPc
<1>4. /\ others \in [Handler -> HandlerState]
      /\ \A g \in Handler :
           /\ others[g].pc = handler[g].pc
           /\ handler[g].pc \in IssuingPc => others[g].on.parent = handler[g].on.parent
  BY MarkedKeeps, SharingIssues DEF Inv, Overlap
<1> HIDE DEF others
<1>5. handler[h].pc = "idle"
  BY DEF Enter, Idle
<1> QED
  BY <1>1, <1>2, <1>3, <1>4, <1>5 DEF SameErrand

\* A login holds no token.
LEMMA LoginInv ==
  ASSUME Inv, NEW h \in Handler, Login(h)
  PROVE  Inv'
<1> DEFINE issuer == [by |-> "login", profile |-> Own, parent |-> None, raced |-> {}]
<1>1. issuer \in Issuer /\ issuer.parent = None
  BY DEF Issuer, Profile
<1>2. Enter(h, "issue", issuer) /\ UNCHANGED <<membership, session, older, interrupted>>
  BY DEF Login
<1> HIDE DEF issuer
<1>3. \A s \in SessionId : ~Presents(h, s)' /\ ~Replaces(h, s)' /\ ~Replaces(h, s)
  BY <1>1, <1>2, EnterKeeps, NoneAssumption DEF IssuingPc, Presents, Replaces
<1>4. older' \in SUBSET SessionId
  BY <1>2 DEF Inv, TypeOK
<1> QED
  BY <1>1, <1>2, <1>3, <1>4, EnterKeeps, QuietStep DEF IssuingPc

\* A refresh and a switch come in with a token, still to be revoked.
LEMMA PresentedInv ==
  ASSUME Inv, NEW h \in Handler, NEW pc \in {"membership", "revoke"},
         NEW issuer \in Issuer, issuer.parent \in Issued, Enter(h, pc, issuer),
         UNCHANGED <<membership, session, older, interrupted>>
  PROVE  Inv'
<1>1. \A s \in SessionId :
        (Presents(h, s)' => s \in Issued) /\ ~Replaces(h, s)' /\ ~Replaces(h, s)
  BY EnterKeeps DEF IssuingPc, Presents, Replaces
<1>2. older' \in SUBSET SessionId
  BY DEF Inv, TypeOK
<1> QED
  BY <1>1, <1>2, EnterKeeps, QuietStep DEF IssuingPc

\* What a session passes on to its successor is of its type.
LEMMA LineageType ==
  ASSUME TypeOK, NEW s \in Issued
  PROVE  Lineage(s) \in SUBSET Overlap
  BY DEF Lineage, Overlap

\* A refresh presents a session that is in the table.
LEMMA RefreshInv ==
  ASSUME Inv, NEW h \in Handler, NEW s \in SessionId, Refresh(h, s)
  PROVE  Inv'
<1> DEFINE issuer == [by |-> "refresh", profile |-> session[s].profile, parent |-> s,
                      raced |-> Lineage(s)]
<1>1. s \in Issued
  BY DEF Refresh
<1>2. issuer \in Issuer /\ issuer.parent = s
  BY <1>1, IssuedRow, LineageType DEF Issuer, SessionRow, Inv
<1>3. Enter(h, "membership", issuer)
  BY DEF Refresh
<1> HIDE DEF issuer
<1> QED
  BY <1>1, <1>2, <1>3, PresentedInv DEF Refresh

\* So does a switch, though it may be a dead one.
LEMMA SwitchProfileInv ==
  ASSUME Inv, NEW h \in Handler, NEW s \in SessionId, NEW p \in Profile,
         SwitchProfile(h, s, p)
  PROVE  Inv'
<1> DEFINE issuer ==
      [by |-> "switch", profile |-> p, parent |-> s,
       raced |-> Lineage(s) \cup (IF session[s].status = "live" THEN {} ELSE {"reset"})]
<1>1. s \in Issued
  BY DEF SwitchProfile
<1>2. issuer \in Issuer /\ issuer.parent = s
  BY <1>1, LineageType DEF Issuer, Overlap, Inv
<1>3. Enter(h, "revoke", issuer)
  BY DEF SwitchProfile
<1> HIDE DEF issuer
<1> QED
  BY <1>1, <1>2, <1>3, PresentedInv DEF SwitchProfile

\* A refusal drops a token that was not revoked by it, so it owes nothing.
LEMMA ReadMembershipInv ==
  ASSUME Inv, NEW h \in Handler, ReadMembership(h)
  PROVE  Inv'
<1> DEFINE on == handler[h].on
<1>1. handler[h] \in HandlerState /\ handler[h].pc = "membership"
  BY DEF ReadMembership, Inv, TypeOK
<1>2. on \in Issuer /\ handler[h] = [pc |-> "membership", on |-> on]
  BY <1>1, IssuingShape DEF IssuingPc
<1>3. [handler[h] EXCEPT !.pc = "revoke"] = [pc |-> "revoke", on |-> on]
  BY <1>2
<1>4. PICK l \in {[pc |-> "revoke", on |-> on], Idle} : handler' = [handler EXCEPT ![h] = l]
  BY <1>3 DEF ReadMembership, Goto
<1> HIDE DEF on
<1>5. l \in HandlerState /\ ((l.pc = "revoke" /\ l.on = on) \/ l.pc = "idle")
  BY <1>2 DEF HandlerState, Idle
<1>6. /\ handler' \in [Handler -> HandlerState] /\ handler'[h] = l
      /\ \A g \in Handler \ {h} : handler'[g] = handler[g]
  BY <1>4, <1>5 DEF Inv, TypeOK
<1>7. \A s \in SessionId : Presents(h, s)' => Presents(h, s)
  BY <1>1, <1>5, <1>6 DEF Presents, Issuing, on
<1>8. \A s \in SessionId : ~Replaces(h, s)' /\ ~Replaces(h, s)
  BY <1>1, <1>5, <1>6 DEF Replaces
<1>9. older' \in SUBSET SessionId /\ \A s \in SessionId : Presents(h, s)' => s \in Issued
  BY <1>7 DEF Inv, TypeOK, NothingDangles, ReadMembership
<1>10. UNCHANGED <<membership, session, interrupted>> /\ \A g \in Handler \ {h} : SameErrand(g)
  BY <1>6 DEF ReadMembership, SameErrand
<1> QED
  BY <1>6, <1>8, <1>9, <1>10, QuietStep

\* A reset only marks the handlers it overlaps.
LEMMA ResetPasswordInv ==
  ASSUME Inv, NEW h \in Handler, ResetPassword(h)
  PROVE  Inv'
<1> DEFINE others == Marked(Issuing, "reset")
<1>1. handler' = [others EXCEPT ![h] = [pc |-> "revokeAll"]] /\ handler[h].pc = "idle"
  BY DEF ResetPassword, Idle
<1>2. /\ others \in [Handler -> HandlerState]
      /\ \A g \in Handler :
           /\ others[g].pc = handler[g].pc
           /\ handler[g].pc \in IssuingPc => others[g].on.parent = handler[g].on.parent
  BY MarkedKeeps DEF Inv, Overlap
<1> HIDE DEF others
<1>3. [pc |-> "revokeAll"] \in HandlerState
  BY DEF HandlerState
<1>4. handler' \in [Handler -> HandlerState] /\ \A g \in Handler \ {h} : SameErrand(g)
  BY <1>1, <1>2, <1>3 DEF SameErrand
<1>5. handler'[h].pc = "revokeAll"
  BY <1>1, <1>2
<1>6. \A s \in SessionId : ~Presents(h, s)' /\ ~Replaces(h, s)' /\ ~Replaces(h, s)
  BY <1>1, <1>5 DEF Presents, Replaces, Issuing
<1>7. older' \in SUBSET SessionId /\ UNCHANGED <<membership, session, interrupted>>
  BY DEF ResetPassword, Issued
<1> QED
  BY <1>4, <1>6, <1>7, QuietStep

\* What comes and goes without a request: memberships, and the process.
LEMMA MembershipInv ==
  ASSUME Inv, NEW p \in Profile, (p \in Other /\ GrantMembership(p)) \/ RevokeMembership(p)
  PROVE  Inv'
<1>1. TypeOK'
  BY DEF Inv, TypeOK, GrantMembership, RevokeMembership, Profile
<1>2. UNCHANGED <<session, handler, interrupted>>
  BY DEF GrantMembership, RevokeMembership
<1> QED
  BY <1>1, <1>2 DEF Inv, NothingDangles, RevokedFirst, ReplacedIsDead, SuccessorOwed,
                    Presents, Replaces, Issuing, Issued

\* A crash drops everything, and says so.
LEMMA CrashInv ==
  ASSUME Inv, Crash
  PROVE  Inv'
<1>1. TypeOK'
  BY DEF Inv, TypeOK, Crash, HandlerState
<1>2. OnlyDie /\ interrupted'
  BY DEF OnlyDie, Crash
<1>3. \A h \in Handler, s \in SessionId : ~Presents(h, s)' /\ ~Replaces(h, s)'
  BY DEF Crash, Idle, Presents, Replaces, Issuing
<1>4. \A s \in Issued : session'[s].status = "replaced" => session[s].status = "replaced"
  BY DEF Crash
<1> QED
  BY <1>1, <1>2, <1>3, <1>4, DeathStep
-----------------------------------------------------------------------------
(* Steps in which sessions die.                                              *)

\* Logging out, or the passing of expiresAt.
LEMMA EndInv ==
  ASSUME Inv, NEW s \in SessionId, End(s)
  PROVE  Inv'
<1>1. s \in Issued /\ session[s] \in SessionRow
  BY IssuedRow DEF End, Inv
<1> DEFINE row == Dead(session[s], "ended")
<1>2. session' = [session EXCEPT ![s] = row]
  BY DEF End
<1>3. /\ row \in SessionRow /\ row.parent = session[s].parent /\ row.status # "live"
      /\ row.status \in {session[s].status, "ended"}
  BY <1>1, DeadRow
<1> HIDE DEF row
<1>4. handler' \in [Handler -> HandlerState] /\ \A g \in Handler : SameErrand(g)
  BY MarkedKeeps, SharingIssues DEF End, Inv, Overlap, SameErrand
<1>5. TypeOK'
  BY <1>2, <1>3, <1>4 DEF Inv, TypeOK, End
<1>6. row # Absent
  BY <1>3 DEF SessionRow, Absent, SessionStatus
<1>7. OnlyDie
  BY <1>1, <1>2, <1>3, <1>6 DEF OnlyDie, Inv, TypeOK, Issued
<1>8. \A t \in Issued : session'[t].status = "replaced" => session[t].status = "replaced"
  BY <1>1, <1>2, <1>3 DEF Inv, TypeOK, Issued
<1>9. \A g \in Handler, t \in SessionId :
        (Presents(g, t)' => t \in Issued) /\ (Replaces(g, t)' <=> Replaces(g, t))
  BY <1>4, ErrandKept DEF Inv, NothingDangles
<1>10. interrupted' = interrupted
  BY DEF End
<1> QED
  BY <1>5, <1>7, <1>8, <1>9, <1>10, DeathStep

\* The end of a reset.
LEMMA RevokeAllInv ==
  ASSUME Inv, NEW h \in Handler, RevokeAll(h)
  PROVE  Inv'
<1> DEFINE others == Marked({g \in Issuing : handler[g].on.parent # None}, "cookie")
<1>1. /\ others \in [Handler -> HandlerState]
      /\ \A g \in Handler :
           /\ others[g].pc = handler[g].pc
           /\ handler[g].pc \in IssuingPc => others[g].on.parent = handler[g].on.parent
  BY MarkedKeeps DEF Inv, Overlap
<1>2. handler' = [others EXCEPT ![h] = Idle] /\ handler[h].pc = "revokeAll"
  BY DEF RevokeAll
<1> HIDE DEF others
<1>3. /\ handler' \in [Handler -> HandlerState] /\ handler'[h] = Idle
      /\ \A g \in Handler \ {h} : SameErrand(g)
  BY <1>1, <1>2 DEF SameErrand, HandlerState
<1>4. \A s \in SessionId :
        session'[s] = IF session[s] = Absent THEN Absent ELSE Dead(session[s], "ended")
  BY DEF RevokeAll, AllRevoked
<1>5. ASSUME NEW s \in SessionId
      PROVE  /\ session'[s] \in SessionRow \cup {Absent}
             /\ session'[s] = Absent <=> session[s] = Absent
             /\ session[s] # Absent =>
                  /\ session'[s].parent = session[s].parent
                  /\ session'[s].status # "live"
                  /\ session'[s].status \in {session[s].status, "ended"}
  <2>1. CASE session[s] = Absent
    BY <1>4, <2>1
  <2>2. CASE session[s] # Absent
    <3>1. session[s] \in SessionRow
      BY <2>2, IssuedRow DEF Inv, Issued
    <3>2. session'[s] = Dead(session[s], "ended")
      BY <1>4, <2>2
    <3>3. Dead(session[s], "ended") # Absent
      BY <3>1, DeadRow DEF SessionRow, Absent, SessionStatus
    <3> QED
      BY <2>2, <3>1, <3>2, <3>3, DeadRow
  <2> QED
    BY <2>1, <2>2
<1>6. TypeOK'
  <2>1. session' \in [SessionId -> SessionRow \cup {Absent}]
    BY <1>5 DEF RevokeAll, AllRevoked
  <2> QED
    BY <1>3, <2>1 DEF Inv, TypeOK, RevokeAll
<1>7. OnlyDie
  BY <1>5 DEF OnlyDie
<1>8. \A s \in Issued : session'[s].status = "replaced" => session[s].status = "replaced"
  BY <1>5 DEF Issued
<1>9. \A g \in Handler, s \in SessionId :
        (Presents(g, s)' => s \in Issued) /\ (Replaces(g, s)' <=> Replaces(g, s))
  <2> SUFFICES ASSUME NEW g \in Handler, NEW s \in SessionId
               PROVE  (Presents(g, s)' => s \in Issued) /\ (Replaces(g, s)' <=> Replaces(g, s))
    OBVIOUS
  <2>1. CASE g = h
    BY <2>1, <1>2, <1>3 DEF Presents, Replaces, Issuing, Idle
  <2>2. CASE g # h
    BY <2>2, <1>3, ErrandKept DEF Inv, NothingDangles
  <2> QED
    BY <2>1, <2>2
<1>10. interrupted' = interrupted
  BY DEF RevokeAll
<1> QED
  BY <1>6, <1>7, <1>8, <1>9, <1>10, DeathStep

\* The session that is given up dies in the step in which its successor
\* becomes owed.
LEMMA RevokeInv ==
  ASSUME Inv, NEW h \in Handler, Revoke(h)
  PROVE  Inv'
<1> DEFINE on == handler[h].on
           p == on.parent
           row == Dead(session[p], "replaced")
<1>1. on \in Issuer /\ handler[h] = [pc |-> "revoke", on |-> on]
  BY IssuingShape DEF Revoke, Inv, TypeOK, IssuingPc
<1>2. handler' = [handler EXCEPT ![h] = [pc |-> "issue", on |-> on]]
  <2>1. [handler[h] EXCEPT !.pc = "issue"] = [pc |-> "issue", on |-> on]
    BY <1>1
  <2> HIDE DEF on
  <2> QED
    BY <2>1 DEF Revoke, Goto
<1>3. [pc |-> "issue", on |-> on] \in HandlerState
  BY <1>1 DEF HandlerState
<1>4. /\ handler' \in [Handler -> HandlerState] /\ handler'[h] = [pc |-> "issue", on |-> on]
      /\ \A g \in Handler \ {h} : SameErrand(g)
  BY <1>2, <1>3 DEF Inv, TypeOK, SameErrand
<1>5. session' = [session EXCEPT ![p] = row]
  BY DEF Revoke, RevokeParent
<1>6. p \in SessionId => p \in Issued /\ session[p] \in SessionRow
  BY <1>1, IssuedRow DEF Inv, NothingDangles, Presents, Issuing
<1>7. p \in SessionId =>
        /\ row \in SessionRow /\ row # Absent
        /\ row.parent = session[p].parent /\ row.status # "live"
  <2> SUFFICES ASSUME p \in SessionId
               PROVE  /\ row \in SessionRow /\ row # Absent
                      /\ row.parent = session[p].parent /\ row.status # "live"
    OBVIOUS
  <2>1. row \in SessionRow /\ row.parent = session[p].parent /\ row.status # "live"
    BY <1>6, DeadRow
  <2> HIDE DEF row
  <2> QED
    BY <2>1 DEF SessionRow, Absent, SessionStatus
<1>8. p \in SessionId \cup {None}
  BY <1>1 DEF Issuer
<1> HIDE DEF on, p, row
<1>9. session' \in [SessionId -> SessionRow \cup {Absent}]
      /\ \A s \in SessionId : session'[s] = IF s = p THEN row ELSE session[s]
  BY <1>5, <1>7 DEF Inv, TypeOK
<1>10. TypeOK'
  BY <1>4, <1>9 DEF Inv, TypeOK, Revoke
<1>11. OnlyDie
  BY <1>6, <1>7, <1>9 DEF OnlyDie, Issued
<1>12. \A s \in SessionId : (Replaces(h, s)' <=> s = p) /\ (Presents(h, s)' <=> s = p)
  BY <1>4 DEF Replaces, Presents, Issuing, p
<1>13. \A s \in SessionId : ~Replaces(h, s)
  BY <1>1 DEF Replaces
<1>14. \A g \in Handler, s \in SessionId : Presents(g, s)' => s \in Issued
  BY <1>4, <1>6, <1>12, ErrandKept DEF Inv, NothingDangles
<1>15. \A g \in Handler, s \in SessionId :
         Replaces(g, s)' => Replaces(g, s) \/ session'[s].status # "live"
  BY <1>4, <1>7, <1>9, <1>12, ErrandKept
<1>16. \A s \in Issued : session'[s].status = "replaced" =>
         session[s].status = "replaced" \/ \E g \in Handler : Replaces(g, s)'
  BY <1>9, <1>12 DEF Issued
<1>17. /\ interrupted' = interrupted
       /\ \A g \in Handler, s \in SessionId : Replaces(g, s) => Replaces(g, s)'
  BY <1>4, <1>13, ErrandKept DEF Revoke
<1> QED
  BY <1>10, <1>11, <1>14, <1>15, <1>16, <1>17, DeathStep
-----------------------------------------------------------------------------
(* The step that issues a session, the invariant and the theorems.           *)

\* The new session is the successor its handler owed, and nobody refers to it yet.
LEMMA IssueInv ==
  ASSUME Inv, NEW h \in Handler, NEW n \in SessionId, Issue(h, n)
  PROVE  Inv'
<1> DEFINE on == handler[h].on
           row == NewRow(on)
<1>1. on \in Issuer /\ handler[h] = [pc |-> "issue", on |-> on]
  BY IssuingShape DEF Issue, Inv, TypeOK, IssuingPc
<1>2. row \in SessionRow /\ row.status = "live" /\ row.parent = on.parent
  BY <1>1 DEF NewRow, Issuer, SessionRow, SessionStatus
<1>3. session' = [session EXCEPT ![n] = row] /\ n \notin Issued
  BY DEF Issue, Issued
<1>4. \A s \in SessionId : Replaces(h, s) <=> s = on.parent
  BY <1>1 DEF Replaces
<1>5. on.parent \in SessionId => on.parent \in Issued /\ session[on.parent].status # "live"
  BY <1>1, <1>4 DEF Inv, NothingDangles, RevokedFirst, Presents, Issuing
<1>6. on.parent \in SessionId \cup {None}
  BY <1>1 DEF Issuer
<1> HIDE DEF row, on
<1>7. handler' \in [Handler -> HandlerState] /\ handler' = [handler EXCEPT ![h] = Idle]
  BY DEF Issue, Goto, Inv, TypeOK, HandlerState
<1>8. \A g \in Handler, s \in SessionId :
        /\ Presents(g, s)' => Presents(g, s)
        /\ Replaces(g, s)' => Replaces(g, s)
        /\ g # h => (Replaces(g, s) => Replaces(g, s)')
  BY <1>7 DEF Presents, Replaces, Issuing, Idle, Inv, TypeOK
<1>9. row # Absent
  BY <1>2 DEF SessionRow, Absent, SessionStatus
<1>10. /\ \A s \in SessionId : session'[s] = IF s = n THEN row ELSE session[s]
       /\ Issued' = Issued \cup {n}
  BY <1>3, <1>9 DEF Inv, TypeOK, Issued
<1>11. TypeOK'
  BY <1>2, <1>3, <1>7 DEF Inv, TypeOK, Issue
<1>12. \A s \in Issued : s \in SessionId /\ s # n /\ session'[s] = session[s]
  BY <1>3, <1>10 DEF Issued
<1>13. session'[n] = row
  BY <1>10
<1>14. NothingDangles'
  BY <1>2, <1>5, <1>6, <1>8, <1>10, <1>12, <1>13 DEF Inv, NothingDangles
<1>15. RevokedFirst'
  <2> SUFFICES ASSUME NEW g \in Handler, NEW s \in SessionId, Replaces(g, s)'
               PROVE  session'[s].status # "live"
    BY DEF RevokedFirst
  <2>1. Replaces(g, s) /\ s \in Issued
    BY <1>8 DEF Inv, NothingDangles, Replaces, Presents, Issuing
  <2> QED
    BY <2>1, <1>12 DEF Inv, RevokedFirst
<1>16. ReplacedIsDead'
  <2> SUFFICES ASSUME NEW c \in Issued \cup {n}, session'[c].parent # None
               PROVE  session'[session'[c].parent].status # "live"
    BY <1>10 DEF ReplacedIsDead
  <2>1. CASE c = n
    BY <2>1, <1>2, <1>5, <1>6, <1>12, <1>13
  <2>2. CASE c # n
    BY <2>2, <1>12 DEF Inv, ReplacedIsDead, NothingDangles
  <2> QED
    BY <2>1, <2>2
<1>17. SuccessorOwed'
  <2> SUFFICES ASSUME NEW s \in Issued \cup {n}, session'[s].status = "replaced",
                      ~interrupted'
               PROVE  \/ \E c \in Issued \cup {n} : session'[c].parent = s
                      \/ \E g \in Handler : Replaces(g, s)'
    BY <1>10 DEF SuccessorOwed
  <2>1. s \in Issued /\ session[s].status = "replaced" /\ ~interrupted
    BY <1>2, <1>12, <1>13 DEF Issue
  <2>2. CASE \E c \in Issued : session[c].parent = s
    BY <2>2, <1>12
  <2>3. ASSUME NEW g \in Handler, Replaces(g, s)
        PROVE  \/ \E c \in Issued \cup {n} : session'[c].parent = s
               \/ \E f \in Handler : Replaces(f, s)'
    <3>1. CASE g = h
      BY <2>1, <2>3, <3>1, <1>2, <1>4, <1>12, <1>13
    <3>2. CASE g # h
      BY <2>1, <2>3, <3>2, <1>8, <1>12
    <3> QED
      BY <3>1, <3>2
  <2> QED
    BY <2>1, <2>2, <2>3 DEF Inv, SuccessorOwed
<1> QED
  BY <1>11, <1>14, <1>15, <1>16, <1>17 DEF Inv

\* In the beginning there is neither a session nor a request.
LEMMA InitInv == Init => Inv
<1> SUFFICES ASSUME Init PROVE Inv
  OBVIOUS
<1>1. TypeOK
  BY DEF Init, TypeOK, HandlerState
<1>2. Issued = {} /\ \A h \in Handler : handler[h].pc = "idle"
  BY DEF Init, Issued, Idle
<1> QED
  BY <1>1, <1>2 DEF Inv, NothingDangles, RevokedFirst, ReplacedIsDead, SuccessorOwed,
                    Presents, Replaces, Issuing

\* Each action keeps Inv.
LEMMA NextInv == Inv /\ [Next]_vars => Inv'
<1> SUFFICES ASSUME Inv, [Next]_vars PROVE Inv'
  OBVIOUS
<1>1. ASSUME NEW h \in Handler,
             \/ Login(h) \/ ReadMembership(h) \/ Revoke(h)
             \/ ResetPassword(h) \/ RevokeAll(h)
      PROVE  Inv'
  BY <1>1, LoginInv, ReadMembershipInv, RevokeInv, ResetPasswordInv, RevokeAllInv
<1>2. ASSUME NEW h \in Handler, NEW s \in SessionId,
             Refresh(h, s) \/ Issue(h, s) \/ \E p \in Profile : SwitchProfile(h, s, p)
      PROVE  Inv'
  BY <1>2, RefreshInv, IssueInv, SwitchProfileInv
<1>3. ASSUME NEW s \in SessionId, End(s) PROVE Inv'
  BY <1>3, EndInv
<1>4. ASSUME NEW p \in Profile, (p \in Other /\ GrantMembership(p)) \/ RevokeMembership(p)
      PROVE  Inv'
  BY <1>4, MembershipInv
<1>5. CASE Crash
  BY <1>5, CrashInv
<1>6. CASE UNCHANGED vars
  BY <1>6 DEF vars, Inv, TypeOK, NothingDangles, RevokedFirst, ReplacedIsDead,
              SuccessorOwed, Presents, Replaces, Issuing, Issued
<1>7. \A p \in Other : p \in Profile
  BY DEF Profile
<1> QED
  BY <1>1, <1>2, <1>3, <1>4, <1>5, <1>6, <1>7 DEF Next

\* Inv holds in every reachable state.
THEOREM Invariance == Spec => []Inv
  BY InitInv, NextInv, PTL DEF Spec

\* The variables keep their types and the account its own profile.
THEOREM TypeCorrect == Spec => []TypeOK
<1>1. Inv => TypeOK
  BY DEF Inv
<1> QED
  BY Invariance, <1>1, PTL

\* However requests overlap and wherever the process dies, a session that
\* another one was issued in place of is never live (buildAuthResponse).
THEOREM ReplacedStaysDead == Spec => []ReplacedIsDead
<1>1. Inv => ReplacedIsDead
  BY DEF Inv
<1> QED
  BY Invariance, <1>1, PTL

\* A session is given up only for one that is there or under way, unless the
\* process has died (buildAuthResponse).
THEOREM SuccessorFollows == Spec => []GivenUpForSuccessor
<1>1. Inv => GivenUpForSuccessor
  <2> SUFFICES ASSUME Inv, NEW s \in Issued, session[s].status = "replaced", ~interrupted
               PROVE  Children(s) # {} \/ Sharing(s) # {}
    BY DEF GivenUpForSuccessor
  <2>1. s # None
    BY NoneAssumption DEF Issued
  <2>2. CASE \E c \in Issued : session[c].parent = s
    BY <2>2 DEF Children
  <2>3. CASE \E h \in Handler : Replaces(h, s)
    BY <2>1, <2>3 DEF Sharing, Replaces, Issuing
  <2> QED
    BY <2>2, <2>3 DEF Inv, SuccessorOwed
<1> QED
  BY Invariance, <1>1, PTL
-----------------------------------------------------------------------------
(* What requests have overlapped with.                                       *)

\* A refresh that had the token to itself.
Clean(l) == l.by = "refresh" /\ "cookie" \notin l.raced

\* While such a refresh holds a token no other request does, and nothing was
\* issued in place of its session yet.
CleanAlone ==
  \A h \in Handler, s \in SessionId :
    Presents(h, s) /\ Clean(handler[h].on) =>
      /\ \A g \in Handler : Presents(g, s) => g = h
      /\ \A c \in Issued : session[c].parent # s

\* So no two of them were issued in place of one session.
OneClean ==
  \A c, d \in Issued :
    /\ session[c].parent \in SessionId /\ session[c].parent = session[d].parent
    /\ Clean(session[c]) /\ Clean(session[d])
    => c = d

OlderIsIssued == older \subseteq Issued

\* A request with the token of an older session has met the reset.
HolderHasMet ==
  \A h \in Handler : \A s \in older :
    Presents(h, s) => "reset" \in handler[h].on.raced \/ interrupted

HistoryInv == CleanAlone /\ OneClean /\ OlderIsIssued /\ HolderHasMet /\ ResetEndsSessions

\* Marking a handler only adds to what it overlapped with.
LEMMA MarkedAdds ==
  ASSUME TypeOK, NEW hs \in SUBSET Issuing, NEW overlap \in Overlap, NEW g \in Issuing
  PROVE  /\ Marked(hs, overlap)[g].on.by = handler[g].on.by
         /\ handler[g].on.raced \subseteq Marked(hs, overlap)[g].on.raced
         /\ g \in hs => overlap \in Marked(hs, overlap)[g].on.raced
<1>1. g \in Handler /\ handler[g] \in HandlerState /\ handler[g].pc \in IssuingPc
  BY DEF TypeOK, Issuing, IssuingPc
<1>2. handler[g].on \in Issuer /\ handler[g] = [pc |-> handler[g].pc, on |-> handler[g].on]
  BY <1>1, IssuingShape
<1> DEFINE on == [handler[g].on EXCEPT !.raced = @ \cup {overlap}]
<1>3. on.by = handler[g].on.by /\ on.raced = handler[g].on.raced \cup {overlap}
  BY <1>2 DEF Issuer
<1>4. [handler[g] EXCEPT !.on.raced = @ \cup {overlap}].on = on
  BY <1>2
<1>5. Marked(hs, overlap)[g] = IF g \in hs
                               THEN [handler[g] EXCEPT !.on.raced = @ \cup {overlap}]
                               ELSE handler[g]
  BY <1>1 DEF Marked
<1> HIDE DEF on
<1> QED
  BY <1>3, <1>4, <1>5

\* What was issued stays as it was, and no session is revived.
RowsStay ==
  /\ Issued' = Issued
  /\ \A s \in Issued :
       /\ session'[s].parent = session[s].parent
       /\ session'[s].by = session[s].by
       /\ session'[s].raced = session[s].raced
       /\ session'[s].status = "live" => session[s].status = "live"

\* A handler that holds a token held it before, and forgets nothing.
Follows(g) ==
  \A s \in SessionId :
    Presents(g, s)' =>
      /\ Presents(g, s)
      /\ handler'[g].on.by = handler[g].on.by
      /\ handler[g].on.raced \subseteq handler'[g].on.raced

\* A step that admits and issues nothing, and ends no reset but with the
\* sessions it is to end, keeps HistoryInv.
LEMMA FollowStep ==
  ASSUME Inv, HistoryInv, RowsStay, \A g \in Handler : Follows(g),
         older' = older, interrupted => interrupted',
         \/ Resetting \subseteq Resetting'
         \/ interrupted'
         \/ \A s \in Issued : session'[s].status # "live"
  PROVE  HistoryInv'
<1>1. \A s \in SessionId, g \in Handler :
        Presents(g, s)' /\ Clean(handler'[g].on) => Presents(g, s) /\ Clean(handler[g].on)
  BY DEF Follows, Clean
<1>2. \A g \in Handler, s \in SessionId : Presents(g, s)' => Presents(g, s)
  BY DEF Follows
<1>3. CleanAlone'
  BY <1>1, <1>2 DEF HistoryInv, CleanAlone, RowsStay
<1>4. OneClean'
  BY DEF HistoryInv, OneClean, RowsStay, Clean
<1>5. OlderIsIssued'
  BY DEF HistoryInv, OlderIsIssued, RowsStay
<1>6. HolderHasMet'
  <2> SUFFICES ASSUME NEW h \in Handler, NEW s \in older, Presents(h, s)'
               PROVE  "reset" \in handler'[h].on.raced \/ interrupted'
    BY DEF HolderHasMet
  <2>1. s \in SessionId
    BY DEF Inv, TypeOK
  <2> QED
    BY <2>1 DEF HistoryInv, HolderHasMet, Follows
<1>7. ResetEndsSessions'
  <2> SUFFICES ASSUME NEW s \in older, session'[s].status = "live", ~interrupted',
                      "reset" \notin session'[s].raced
               PROVE  Resetting' # {}
    BY DEF ResetEndsSessions
  <2>1. s \in Issued
    BY DEF HistoryInv, OlderIsIssued
  <2>2. Resetting # {}
    BY <2>1 DEF HistoryInv, ResetEndsSessions, RowsStay
  <2> QED
    BY <2>1, <2>2
<1> QED
  BY <1>3, <1>4, <1>5, <1>6, <1>7 DEF HistoryInv

\* A handler that is left as it was follows.
LEMMA SameFollows ==
  ASSUME NEW g \in Handler, handler'[g] = handler[g]
  PROVE  Follows(g)
  BY DEF Follows, Presents, Issuing

\* So does one that is marked, and one that no longer issues.
LEMMA MarkedFollows ==
  ASSUME TypeOK, NEW hs \in SUBSET Issuing, NEW overlap \in Overlap, NEW g \in Handler,
         handler'[g] = Marked(hs, overlap)[g]
  PROVE  Follows(g)
<1>1. /\ handler'[g].pc = handler[g].pc
      /\ handler[g].pc \in IssuingPc => handler'[g].on.parent = handler[g].on.parent
  BY MarkedKeeps
<1>2. g \in Issuing => /\ handler'[g].on.by = handler[g].on.by
                       /\ handler[g].on.raced \subseteq handler'[g].on.raced
  BY MarkedAdds
<1> QED
  BY <1>1, <1>2 DEF Follows, Presents, Issuing, IssuingPc

\* What admitting a request adds: each of those that share a token knows of it,
\* and the newcomer of a reset under way.
LEMMA EnterAdds ==
  ASSUME Inv, NEW h \in Handler, NEW pc \in IssuingPc, NEW issuer \in Issuer,
         Enter(h, pc, issuer)
  PROVE  /\ handler'[h].on.by = issuer.by
         /\ issuer.raced \subseteq handler'[h].on.raced
         /\ Sharing(issuer.parent) # {} => "cookie" \in handler'[h].on.raced
         /\ Resetting # {} => "reset" \in handler'[h].on.raced
         /\ \A g \in Handler \ {h} : Follows(g)
         /\ \A g \in Sharing(issuer.parent) : "cookie" \in handler'[g].on.raced
         /\ Resetting' = Resetting
<1> DEFINE raced == {o \in Overlap :
                       \/ o \in issuer.raced
                       \/ o = "cookie" /\ Sharing(issuer.parent) # {}
                       \/ o = "reset" /\ Resetting # {}}
           on == [issuer EXCEPT !.raced = raced]
           others == Marked(Sharing(issuer.parent), "cookie")
<1>1. on.by = issuer.by /\ on.raced = raced
  BY DEF Issuer
<1>2. handler' = [others EXCEPT ![h] = [pc |-> pc, on |-> on]]
  BY DEF Enter
<1>3. /\ issuer.raced \subseteq raced
      /\ Sharing(issuer.parent) # {} => "cookie" \in raced
      /\ Resetting # {} => "reset" \in raced
  BY DEF Issuer, Overlap
<1> HIDE DEF on, raced
<1>4. DOMAIN others = Handler
  BY DEF Marked
<1> HIDE DEF others
<1>5. handler'[h] = [pc |-> pc, on |-> on] /\ \A g \in Handler \ {h} : handler'[g] = others[g]
  BY <1>2, <1>4
<1>6. \A g \in Handler \ {h} : Follows(g)
  BY <1>5, MarkedFollows, SharingIssues DEF Inv, Overlap, others
<1>7. h \notin Issuing
  BY EnterKeeps DEF Issuing
<1>8. \A g \in Sharing(issuer.parent) : "cookie" \in handler'[g].on.raced
  <2> SUFFICES ASSUME NEW g \in Sharing(issuer.parent)
               PROVE  "cookie" \in handler'[g].on.raced
    OBVIOUS
  <2>1. g \in Issuing /\ g \in Handler \ {h}
    BY <1>7, SharingIssues DEF Issuing
  <2>2. "cookie" \in others[g].on.raced
    BY <2>1, MarkedAdds, SharingIssues DEF Inv, Overlap, others
  <2> QED
    BY <2>1, <2>2, <1>5
<1>9. Resetting' = Resetting
  BY EnterKeeps DEF Resetting, SameErrand, IssuingPc
<1> QED
  BY <1>1, <1>3, <1>5, <1>6, <1>8, <1>9

\* A request is admitted with a token that nothing was issued in place of, if
\* it is a refresh, and knowing of the reset that made its session an older one.
LEMMA EnterHistory ==
  ASSUME Inv, HistoryInv, NEW h \in Handler, NEW pc \in IssuingPc, NEW issuer \in Issuer,
         Enter(h, pc, issuer), UNCHANGED <<session, older, interrupted>>,
         issuer.by = "refresh" => session[issuer.parent].status = "live",
         issuer.parent \in older => "reset" \in issuer.raced \/ interrupted \/ Resetting # {}
  PROVE  HistoryInv'
<1>1. \A s \in SessionId : Presents(h, s)' => s = issuer.parent
  BY EnterKeeps DEF Presents
<1>2. \A g \in Handler, s \in SessionId : Presents(g, s) => g \in Sharing(s)
  BY NoneAssumption DEF Presents, Sharing
<1>3. \A g \in Handler \ {h}, s \in SessionId :
        /\ Presents(g, s)' => Presents(g, s)
        /\ Presents(g, s)' /\ Clean(handler'[g].on) => Clean(handler[g].on)
  BY EnterAdds DEF Follows, Clean
<1>4. Issued' = Issued
  BY DEF Issued
<1>5. CleanAlone'
  <2> SUFFICES ASSUME NEW g \in Handler, NEW s \in SessionId,
                      Presents(g, s)', Clean(handler'[g].on)
               PROVE  /\ \A f \in Handler : Presents(f, s)' => f = g
                      /\ \A c \in Issued : session[c].parent # s
    BY <1>4 DEF CleanAlone
  <2>1. CASE g = h
    <3>1. s = issuer.parent /\ Sharing(s) = {} /\ issuer.by = "refresh"
      BY <2>1, <1>1, EnterAdds DEF Clean
    <3>2. \A f \in Handler : Presents(f, s)' => f = h
      BY <3>1, <1>2, <1>3
    <3>3. \A c \in Issued : session[c].parent # s
      BY <3>1, NoneAssumption DEF Inv, ReplacedIsDead
    <3> QED
      BY <2>1, <3>2, <3>3
  <2>2. CASE g # h
    <3>1. Presents(g, s) /\ Clean(handler[g].on)
      BY <2>2, <1>3
    <3>2. ~Presents(h, s)'
      BY <3>1, <1>1, <1>2, EnterAdds DEF Clean
    <3> QED
      BY <3>1, <3>2, <1>3 DEF HistoryInv, CleanAlone
  <2> QED
    BY <2>1, <2>2
<1>6. OneClean'
  BY <1>4 DEF HistoryInv, OneClean, Clean
<1>7. OlderIsIssued'
  BY <1>4 DEF HistoryInv, OlderIsIssued
<1>8. HolderHasMet'
  <2> SUFFICES ASSUME NEW g \in Handler, NEW s \in older, Presents(g, s)', ~interrupted
               PROVE  "reset" \in handler'[g].on.raced
    BY DEF HolderHasMet
  <2>1. s \in SessionId
    BY DEF Inv, TypeOK
  <2>2. CASE g = h
    BY <2>1, <2>2, <1>1, EnterAdds
  <2>3. CASE g # h
    BY <2>1, <2>3, EnterAdds DEF Follows, HistoryInv, HolderHasMet
  <2> QED
    BY <2>2, <2>3
<1>9. ResetEndsSessions'
  BY EnterAdds DEF HistoryInv, ResetEndsSessions
<1> QED
  BY <1>5, <1>6, <1>7, <1>8, <1>9 DEF HistoryInv

\* A refresh is let in with a live session, which passes on that it survived.
LEMMA RefreshHistory ==
  ASSUME Inv, HistoryInv, NEW h \in Handler, NEW s \in SessionId, Refresh(h, s)
  PROVE  HistoryInv'
<1> DEFINE issuer == [by |-> "refresh", profile |-> session[s].profile, parent |-> s,
                      raced |-> Lineage(s)]
<1>1. s \in Issued /\ session[s].status = "live"
  BY DEF Refresh, MayRefresh
<1>2. issuer \in Issuer /\ issuer.parent = s /\ issuer.raced = Lineage(s)
  BY <1>1, IssuedRow, LineageType DEF Issuer, SessionRow, Inv
<1>3. Enter(h, "membership", issuer)
  BY DEF Refresh
<1> HIDE DEF issuer
<1>4. s \in older => "reset" \in Lineage(s) \/ interrupted \/ Resetting # {}
  BY <1>1 DEF HistoryInv, ResetEndsSessions, Lineage
<1> QED
  BY <1>1, <1>2, <1>3, <1>4, EnterHistory DEF Refresh, IssuingPc

\* A switch with a dead session is marked as such.
LEMMA SwitchProfileHistory ==
  ASSUME Inv, HistoryInv, NEW h \in Handler, NEW s \in SessionId, NEW p \in Profile,
         SwitchProfile(h, s, p)
  PROVE  HistoryInv'
<1> DEFINE issuer ==
      [by |-> "switch", profile |-> p, parent |-> s,
       raced |-> Lineage(s) \cup (IF session[s].status = "live" THEN {} ELSE {"reset"})]
<1>1. s \in Issued
  BY DEF SwitchProfile
<1>2. issuer \in Issuer /\ issuer.parent = s /\ issuer.by = "switch"
  BY <1>1, LineageType DEF Issuer, Overlap, Inv
<1>3. s \in older => "reset" \in issuer.raced \/ interrupted \/ Resetting # {}
  BY <1>1 DEF HistoryInv, ResetEndsSessions, Lineage
<1>4. Enter(h, "revoke", issuer)
  BY DEF SwitchProfile
<1> HIDE DEF issuer
<1> QED
  BY <1>2, <1>3, <1>4, EnterHistory DEF SwitchProfile, IssuingPc

\* A login holds no token, and replaces none.
LEMMA LoginHistory ==
  ASSUME Inv, HistoryInv, NEW h \in Handler, Login(h)
  PROVE  HistoryInv'
<1> DEFINE issuer == [by |-> "login", profile |-> Own, parent |-> None, raced |-> {}]
<1>1. issuer \in Issuer /\ issuer.parent = None /\ issuer.by = "login"
  BY DEF Issuer, Profile
<1>2. Enter(h, "issue", issuer) /\ UNCHANGED <<membership, session, older, interrupted>>
  BY DEF Login
<1> HIDE DEF issuer
<1>3. None \notin older
  BY NoneAssumption DEF Inv, TypeOK
<1> QED
  BY <1>1, <1>2, <1>3, EnterHistory DEF IssuingPc

\* The new session is the one its clean handler had to itself, or is not clean;
\* and it has met the reset that made the session it follows an older one.
LEMMA IssueHistory ==
  ASSUME Inv, HistoryInv, NEW h \in Handler, NEW n \in SessionId, Issue(h, n)
  PROVE  HistoryInv'
<1> DEFINE on == handler[h].on
           row == NewRow(on)
<1>1. handler[h].pc = "issue" /\ n \notin Issued
  BY DEF Issue, Issued
<1>2. /\ row.parent = on.parent /\ row.by = on.by /\ row.raced = on.raced
      /\ row.status = "live" /\ row # Absent
  BY DEF NewRow, Absent
<1>3. /\ handler'[h] = Idle
      /\ \A g \in Handler \ {h} : handler'[g] = handler[g]
  BY DEF Issue, Goto, Inv, TypeOK
<1>4. /\ session'[n] = row /\ \A s \in Issued : session'[s] = session[s] /\ s # n
      /\ Issued' = Issued \cup {n}
  BY <1>1, <1>2 DEF Issue, Inv, TypeOK, Issued
<1>5. older' = older \cup {s \in {n} : on.parent \in older} /\ interrupted' = interrupted
  BY DEF Issue
<1>6. \A s \in SessionId : Presents(h, s) <=> s = on.parent
  BY <1>1 DEF Presents, Issuing
<1> HIDE DEF on, row
<1>7. \A g \in Handler, s \in SessionId :
        Presents(g, s)' => g # h /\ Presents(g, s) /\ handler'[g] = handler[g]
  BY <1>3 DEF Presents, Issuing, Idle
<1>8. Clean(row) => Clean(on)
  BY <1>2 DEF Clean
<1>9. CleanAlone'
  <2> SUFFICES ASSUME NEW g \in Handler, NEW s \in SessionId,
                      Presents(g, s)', Clean(handler'[g].on)
               PROVE  /\ \A f \in Handler : Presents(f, s)' => f = g
                      /\ \A c \in Issued \cup {n} : session'[c].parent # s
    BY <1>4 DEF CleanAlone
  <2>1. g # h /\ Presents(g, s) /\ Clean(handler[g].on)
    BY <1>7
  <2>2. ~Presents(h, s) /\ \A c \in Issued : session[c].parent # s
    BY <2>1 DEF HistoryInv, CleanAlone
  <2>3. \A f \in Handler : Presents(f, s)' => f = g
    BY <2>1, <1>7 DEF HistoryInv, CleanAlone
  <2> QED
    BY <2>2, <2>3, <1>2, <1>4, <1>6
<1>10. OneClean'
  <2>1. \A c \in Issued :
          session[c].parent = on.parent /\ on.parent \in SessionId => ~Clean(row)
    BY <1>6, <1>8 DEF HistoryInv, CleanAlone, on
  <2> SUFFICES ASSUME NEW c \in Issued \cup {n}, NEW d \in Issued \cup {n},
                      session'[c].parent \in SessionId,
                      session'[c].parent = session'[d].parent,
                      Clean(session'[c]), Clean(session'[d])
               PROVE  c = d
    BY <1>4 DEF OneClean
  <2>2. CASE c \in Issued /\ d \in Issued
    BY <2>2, <1>4 DEF HistoryInv, OneClean
  <2>3. CASE c = n /\ d \in Issued
    BY <2>1, <2>3, <1>2, <1>4
  <2>4. CASE c \in Issued /\ d = n
    BY <2>1, <2>4, <1>2, <1>4
  <2> QED
    BY <2>2, <2>3, <2>4
<1>11. OlderIsIssued'
  BY <1>4, <1>5 DEF HistoryInv, OlderIsIssued
<1>12. on.parent \in older => "reset" \in row.raced \/ interrupted
  BY <1>2, <1>6 DEF HistoryInv, HolderHasMet, on, Inv, TypeOK
<1>13. HolderHasMet'
  <2> SUFFICES ASSUME NEW g \in Handler, NEW s \in older', Presents(g, s)'
               PROVE  "reset" \in handler'[g].on.raced \/ interrupted'
    BY DEF HolderHasMet
  <2>1. s \in SessionId /\ s \in older \cup {n}
    BY <1>5 DEF Inv, TypeOK
  <2>2. Presents(g, s) /\ handler'[g] = handler[g]
    BY <2>1, <1>7
  <2>3. s \in older
    BY <2>1, <2>2, <1>1 DEF Inv, NothingDangles
  <2> QED
    BY <2>2, <2>3, <1>5 DEF HistoryInv, HolderHasMet
<1>14. Resetting' = Resetting
  BY <1>1, <1>3 DEF Resetting, Idle
<1>15. ResetEndsSessions'
  <2> SUFFICES ASSUME NEW s \in older', session'[s].status = "live"
               PROVE  Resetting' # {} \/ interrupted' \/ "reset" \in session'[s].raced
    BY DEF ResetEndsSessions
  <2>1. CASE s \in older
    <3>1. s \in Issued
      BY <2>1 DEF HistoryInv, OlderIsIssued
    <3> QED
      BY <2>1, <3>1, <1>4, <1>5, <1>14 DEF HistoryInv, ResetEndsSessions
  <2>2. CASE s = n /\ on.parent \in older
    BY <2>2, <1>4, <1>5, <1>12
  <2> QED
    BY <2>1, <2>2, <1>5
<1> QED
  BY <1>9, <1>10, <1>11, <1>13, <1>15 DEF HistoryInv

\* The reset makes all that is there older, and all that are to issue know of it.
LEMMA ResetPasswordHistory ==
  ASSUME Inv, HistoryInv, NEW h \in Handler, ResetPassword(h)
  PROVE  HistoryInv'
<1> DEFINE others == Marked(Issuing, "reset")
<1>1. handler' = [others EXCEPT ![h] = [pc |-> "revokeAll"]] /\ DOMAIN others = Handler
  BY DEF ResetPassword, Marked
<1> HIDE DEF others
<1>2. /\ handler'[h].pc = "revokeAll"
      /\ \A g \in Handler \ {h} : handler'[g] = others[g]
  BY <1>1
<1>3. \A g \in Handler \ {h} : Follows(g)
  BY <1>2, MarkedFollows DEF Inv, Overlap, others
<1>4. Follows(h) /\ \A s \in SessionId : ~Presents(h, s)'
  BY <1>2 DEF Follows, Presents, Issuing
<1>5. \A g \in Handler, s \in SessionId :
        Presents(g, s)' => Presents(g, s) /\ "reset" \in handler'[g].on.raced
  <2> SUFFICES ASSUME NEW g \in Handler, NEW s \in SessionId, Presents(g, s)'
               PROVE  Presents(g, s) /\ "reset" \in handler'[g].on.raced
    OBVIOUS
  <2>1. g # h /\ Presents(g, s)
    BY <1>3, <1>4 DEF Follows
  <2>2. "reset" \in others[g].on.raced
    BY <2>1, MarkedAdds DEF Inv, Presents, Overlap, others
  <2> QED
    BY <2>1, <2>2, <1>2
<1>6. \A g \in Handler, s \in SessionId :
        Presents(g, s)' /\ Clean(handler'[g].on) => Clean(handler[g].on)
  BY <1>3, <1>4 DEF Follows, Clean
<1>7. UNCHANGED <<session, interrupted>> /\ older' = Issued /\ Issued' = Issued
  BY DEF ResetPassword, Issued
<1>8. CleanAlone' /\ OneClean' /\ OlderIsIssued'
  BY <1>5, <1>6, <1>7 DEF HistoryInv, CleanAlone, OneClean, OlderIsIssued, Clean
<1>9. HolderHasMet'
  BY <1>5, <1>7 DEF HolderHasMet, Issued
<1>10. ResetEndsSessions'
  BY <1>2 DEF ResetEndsSessions, Resetting
<1> QED
  BY <1>8, <1>9, <1>10 DEF HistoryInv

\* Rows that only die stay otherwise.
LEMMA DeathStays ==
  ASSUME Inv,
         \A s \in SessionId :
           \/ session'[s] = session[s]
           \/ s \in Issued /\ \E reason \in {"replaced", "ended"} :
                                session'[s] = Dead(session[s], reason)
  PROVE  RowsStay
<1>1. ASSUME NEW s \in Issued
      PROVE  /\ session'[s] # Absent
             /\ session'[s].parent = session[s].parent
             /\ session'[s].by = session[s].by
             /\ session'[s].raced = session[s].raced
             /\ session'[s].status = "live" => session[s].status = "live"
  <2>1. s \in SessionId /\ session[s] \in SessionRow
    BY IssuedRow DEF Inv
  <2>2. session[s] # Absent
    BY DEF Issued
  <2>3. CASE session'[s] = session[s]
    BY <2>2, <2>3
  <2>4. ASSUME NEW reason \in {"replaced", "ended"}, session'[s] = Dead(session[s], reason)
        PROVE  /\ session'[s] # Absent
               /\ session'[s].parent = session[s].parent
               /\ session'[s].by = session[s].by
               /\ session'[s].raced = session[s].raced
               /\ session'[s].status # "live"
    <3>1. Dead(session[s], reason) # Absent
      BY <2>1, DeadRow DEF SessionRow, Absent, SessionStatus
    <3> QED
      BY <2>1, <2>4, <3>1, DeadRow
  <2> QED
    BY <2>1, <2>3, <2>4
<1>2. Issued' = Issued
  BY <1>1 DEF Issued
<1> QED
  BY <1>1, <1>2 DEF RowsStay

\* A refusal, and the reading of the membership.
LEMMA ReadMembershipHistory ==
  ASSUME Inv, HistoryInv, NEW h \in Handler, ReadMembership(h)
  PROVE  HistoryInv'
<1> DEFINE on == handler[h].on
<1>1. on \in Issuer /\ handler[h] = [pc |-> "membership", on |-> on]
  BY IssuingShape DEF ReadMembership, Inv, TypeOK, IssuingPc
<1>2. [handler[h] EXCEPT !.pc = "revoke"] = [pc |-> "revoke", on |-> on]
  BY <1>1
<1>3. handler' \in {[handler EXCEPT ![h] = [pc |-> "revoke", on |-> on]],
                    [handler EXCEPT ![h] = Idle]}
  BY <1>2 DEF ReadMembership, Goto
<1>4. on.by = handler[h].on.by /\ on.raced = handler[h].on.raced
      /\ on.parent = handler[h].on.parent
  BY DEF on
<1> HIDE DEF on
<1>5. /\ handler'[h] \in {[pc |-> "revoke", on |-> on], Idle}
      /\ \A g \in Handler \ {h} : handler'[g] = handler[g]
  BY <1>3 DEF Inv, TypeOK
<1>6. Follows(h)
  BY <1>1, <1>4, <1>5 DEF Follows, Presents, Issuing, Idle
<1>7. \A g \in Handler : Follows(g)
  BY <1>5, <1>6, SameFollows
<1>8. Resetting \subseteq Resetting'
  BY <1>1, <1>5 DEF Resetting
<1>9. RowsStay /\ older' = older /\ interrupted' = interrupted
  BY DEF ReadMembership, RowsStay, Issued
<1> QED
  BY <1>7, <1>8, <1>9, FollowStep

\* The revocation of what a handler replaces.
LEMMA RevokeHistory ==
  ASSUME Inv, HistoryInv, NEW h \in Handler, Revoke(h)
  PROVE  HistoryInv'
<1> DEFINE on == handler[h].on
           p == on.parent
<1>1. on \in Issuer /\ handler[h] = [pc |-> "revoke", on |-> on]
  BY IssuingShape DEF Revoke, Inv, TypeOK, IssuingPc
<1>2. [handler[h] EXCEPT !.pc = "issue"] = [pc |-> "issue", on |-> on]
  BY <1>1
<1>3. handler' = [handler EXCEPT ![h] = [pc |-> "issue", on |-> on]]
  BY <1>2 DEF Revoke, Goto
<1>4. on = handler[h].on
  BY DEF on
<1>5. session' = [session EXCEPT ![p] = Dead(session[p], "replaced")]
  BY DEF Revoke, RevokeParent
<1>6. p \in SessionId => p \in Issued
  BY <1>1 DEF Inv, NothingDangles, Presents, Issuing
<1> HIDE DEF on, p
<1>7. RowsStay
  BY <1>5, <1>6, DeathStays DEF Inv, TypeOK
<1>8. /\ handler'[h] = [pc |-> "issue", on |-> on]
      /\ \A g \in Handler \ {h} : handler'[g] = handler[g]
  BY <1>3 DEF Inv, TypeOK
<1>9. Follows(h)
  BY <1>1, <1>4, <1>8 DEF Follows, Presents, Issuing
<1>10. \A g \in Handler : Follows(g)
  BY <1>8, <1>9, SameFollows
<1>11. Resetting \subseteq Resetting'
  BY <1>1, <1>8 DEF Resetting
<1>12. older' = older /\ interrupted' = interrupted
  BY DEF Revoke
<1> QED
  BY <1>7, <1>10, <1>11, <1>12, FollowStep

\* The end of one session.
LEMMA EndHistory ==
  ASSUME Inv, HistoryInv, NEW s \in SessionId, End(s)
  PROVE  HistoryInv'
<1>1. RowsStay
  BY DeathStays DEF End, Inv, TypeOK
<1>2. \A g \in Handler : Follows(g)
  BY MarkedFollows, SharingIssues DEF End, Inv, Overlap
<1>3. \A g \in Handler : handler'[g].pc = handler[g].pc
  BY MarkedKeeps, SharingIssues DEF End, Inv, Overlap
<1>4. Resetting' = Resetting /\ older' = older /\ interrupted' = interrupted
  BY <1>3 DEF Resetting, End
<1> QED
  BY <1>1, <1>2, <1>4, FollowStep

\* The end of a reset ends all sessions.
LEMMA RevokeAllHistory ==
  ASSUME Inv, HistoryInv, NEW h \in Handler, RevokeAll(h)
  PROVE  HistoryInv'
<1> DEFINE holders == {g \in Issuing : handler[g].on.parent # None}
           others == Marked(holders, "cookie")
<1>1. handler' = [others EXCEPT ![h] = Idle] /\ DOMAIN others = Handler
  BY DEF RevokeAll, Marked
<1> HIDE DEF others
<1>2. handler'[h] = Idle /\ \A g \in Handler \ {h} : handler'[g] = others[g]
  BY <1>1
<1>3. Follows(h)
  BY <1>2 DEF Follows, Presents, Issuing, Idle
<1>4. \A g \in Handler \ {h} : Follows(g)
  BY <1>2, MarkedFollows DEF Inv, Overlap, others
<1>5. \A s \in SessionId :
        session'[s] = IF session[s] = Absent THEN Absent ELSE Dead(session[s], "ended")
  BY DEF RevokeAll, AllRevoked
<1>6. RowsStay
  BY <1>5, DeathStays DEF Issued
<1>7. \A s \in Issued : session'[s].status # "live"
  BY <1>5, IssuedRow, DeadRow DEF Inv, Issued
<1>8. older' = older /\ interrupted' = interrupted
  BY DEF RevokeAll
<1> QED
  BY <1>3, <1>4, <1>6, <1>7, <1>8, FollowStep

\* What happens without a request, and a step of something else.
LEMMA OutsideHistory ==
  ASSUME Inv, HistoryInv,
         \/ \E p \in Profile : GrantMembership(p) \/ RevokeMembership(p)
         \/ UNCHANGED vars
  PROVE  HistoryInv'
<1>1. UNCHANGED <<session, handler, older, interrupted>>
  BY DEF GrantMembership, RevokeMembership, vars
<1>2. RowsStay /\ (\A g \in Handler : Follows(g)) /\ Resetting' = Resetting
  BY <1>1, SameFollows DEF RowsStay, Issued, Resetting
<1> QED
  BY <1>1, <1>2, FollowStep

\* A crash drops the requests, and says so.
LEMMA CrashHistory ==
  ASSUME Inv, HistoryInv, Crash
  PROVE  HistoryInv'
<1>1. RowsStay /\ (\A g \in Handler : Follows(g)) /\ older' = older /\ interrupted'
  BY DEF Crash, RowsStay, Issued, Follows, Presents, Issuing, Idle
<1> QED
  BY <1>1, FollowStep

LEMMA InitHistory == Init => HistoryInv
<1> SUFFICES ASSUME Init PROVE HistoryInv
  OBVIOUS
<1>1. Issued = {} /\ Issuing = {} /\ older = {}
  BY DEF Init, Issued, Issuing, Idle
<1> QED
  BY <1>1 DEF HistoryInv, CleanAlone, OneClean, OlderIsIssued, HolderHasMet,
              ResetEndsSessions, Presents

LEMMA NextHistory == Inv /\ HistoryInv /\ [Next]_vars => HistoryInv'
<1> SUFFICES ASSUME Inv, HistoryInv, [Next]_vars PROVE HistoryInv'
  OBVIOUS
<1>1. ASSUME NEW h \in Handler,
             \/ Login(h) \/ ReadMembership(h) \/ Revoke(h)
             \/ ResetPassword(h) \/ RevokeAll(h)
      PROVE  HistoryInv'
  BY <1>1, LoginHistory, ReadMembershipHistory, RevokeHistory, ResetPasswordHistory,
     RevokeAllHistory
<1>2. ASSUME NEW h \in Handler, NEW s \in SessionId,
             Refresh(h, s) \/ Issue(h, s) \/ \E p \in Profile : SwitchProfile(h, s, p)
      PROVE  HistoryInv'
  BY <1>2, RefreshHistory, IssueHistory, SwitchProfileHistory
<1>3. ASSUME NEW s \in SessionId, End(s) PROVE HistoryInv'
  BY <1>3, EndHistory
<1>4. ASSUME NEW p \in Profile, GrantMembership(p) \/ RevokeMembership(p) PROVE HistoryInv'
  BY <1>4, OutsideHistory
<1>5. CASE Crash
  BY <1>5, CrashHistory
<1>6. CASE UNCHANGED vars
  BY <1>6, OutsideHistory
<1>7. \A p \in Other : p \in Profile
  BY DEF Profile
<1> QED
  BY <1>1, <1>2, <1>3, <1>4, <1>5, <1>6, <1>7 DEF Next

\* HistoryInv holds in every reachable state.
THEOREM HistoryInvariance == Spec => []HistoryInv
  BY Invariance, InitHistory, NextHistory, PTL DEF Spec

\* A set whose members are all one has one member at most.
LEMMA OneAtMost ==
  ASSUME NEW S, \A x, y \in S : x = y
  PROVE  IsFiniteSet(S) /\ Cardinality(S) <= 1
<1>1. CASE S = {}
  BY <1>1, FS_EmptySet
<1>2. ASSUME NEW x \in S PROVE IsFiniteSet(S) /\ Cardinality(S) = 1
  <2>1. S = {x}
    BY <1>2
  <2> QED
    BY <2>1, FS_Singleton
<1> QED
  BY <1>1, <1>2

\* One refresh token buys one session, for any number of requests, unless two
\* of them overlapped (refresh).
THEOREM RefreshBuysOne == Spec => []RefreshedOnce
<1>1. TypeOK /\ OneClean => RefreshedOnce
  <2> SUFFICES ASSUME TypeOK, OneClean, NEW s \in Issued
               PROVE  Cardinality({c \in Children(s) :
                                     session[c].by = "refresh"
                                       /\ "cookie" \notin session[c].raced}) <= 1
    BY DEF RefreshedOnce
  <2>1. s \in SessionId
    BY DEF Issued
  <2>2. \A c, d \in {c \in Children(s) : session[c].by = "refresh"
                                           /\ "cookie" \notin session[c].raced} : c = d
    BY <2>1 DEF OneClean, Clean, Children
  <2> QED
    BY <2>2, OneAtMost
<1>2. Inv => TypeOK
  BY DEF Inv
<1>3. HistoryInv => OneClean
  BY DEF HistoryInv
<1> QED
  BY Invariance, HistoryInvariance, <1>1, <1>2, <1>3, PTL

\* After a reset of the password no older session is live, nor one that was
\* issued in place of it by whoever held its token, but for what had met the
\* reset (resetPassword).
THEOREM ResetEndsThem == Spec => []ResetEndsSessions
<1>1. HistoryInv => ResetEndsSessions
  BY DEF HistoryInv
<1> QED
  BY HistoryInvariance, <1>1, PTL
-----------------------------------------------------------------------------
(* The invites to a company profile, for any number of accounts, invites and *)
(* requests in flight: what a request found, when it looked, is so when it   *)
(* writes, or the history says why not.                                      *)

InviteTypeOK ==
  /\ member \in [Invites!Account -> {"OWNER", "ADMIN", "none"}]
  /\ member[Owner] = "OWNER"
  /\ invite \in [InviteId -> Invites!InviteRow \cup {Invites!Absent, Invites!Deleted}]
  /\ prime \in Invites!PrimeRow
  /\ inviting \in [Handler -> Invites!HandlerState]
  /\ mailed \subseteq Invites!Rows

Sending == {"mail", "delete"}

\* The invites an account may accept, of whichever kind.
Open(a) == Invites!Pending(a, "TEAM")

Makes(l, a) == l.pc \in Invites!Inviting /\ l.to = a

\* Nobody else makes an invite for an account, and who is about to has found none,
\* unless two were being made at once.
MakesOne ==
  \A a \in Invites!Account \ paired :
    /\ \A g, h \in Handler : Makes(inviting[g], a) /\ Makes(inviting[h], a) => g = h
    /\ \A h \in Handler : Makes(inviting[h], a) /\ inviting[h].pc = "insert" => Open(a) = {}
    /\ \A i, j \in Open(a) : i = j

\* Whose letter is to be queued has not been sent, and is in one pair of hands.
SendsOne ==
  /\ \A h \in Handler : inviting[h].pc \in Sending => inviting[h].invite \in Invites!Rows \ mailed
  /\ \A g, h \in Handler :
       /\ inviting[g].pc \in Sending /\ inviting[h].pc \in Sending
       /\ inviting[g].invite = inviting[h].invite
       => g = h

\* What was checked of an invite that is being accepted.
Grants(l) ==
  /\ l.invite \in mailed
  /\ Invites!KindMatches(invite[l.invite].kind, invite[l.invite].to)
  /\ l.changed \/ (~invite[l.invite].accepted /\ ~invite[l.invite].expired)
  /\ l.pc # "acceptPrime" /\ invite[l.invite].kind = "TEAM" =>
       l.turned \/ Invites!IsPrimeActive

Accepts(l) == l.pc \in Invites!Accepting => Grants(l)

InviteInv ==
  /\ InviteTypeOK
  /\ MakesOne
  /\ SendsOne
  /\ \A h \in Handler : Accepts(inviting[h])

\* The shapes of a request's local state.
LEMMA InvitingShapes ==
  ASSUME NEW l \in Invites!HandlerState
  PROVE  /\ l.pc \in Invites!Inviting => l.to \in Invites!Account /\ l.kind \in Invites!InviteKind
         /\ l.pc \in Sending => l.invite \in InviteId
         /\ l.pc \in Invites!Accepting =>
              l.invite \in InviteId /\ l.changed \in BOOLEAN /\ l.turned \in BOOLEAN
         /\ l.pc = "subscribe" => l.row \in Invites!PrimeRow
  BY DEF Invites!HandlerState, Invites!Inviting, Invites!Accepting, Sending, Invites!Idle

LEMMA InvitingStates ==
  /\ Invites!Idle \in Invites!HandlerState /\ Invites!Idle.pc = "idle"
  /\ [pc |-> "expire"] \in Invites!HandlerState
  /\ \A r \in Invites!PrimeRow : [pc |-> "subscribe", row |-> r] \in Invites!HandlerState
  /\ \A p \in Invites!Inviting, a \in Invites!Account, k \in Invites!InviteKind :
       [pc |-> p, to |-> a, kind |-> k] \in Invites!HandlerState
  /\ \A p \in Sending, i \in InviteId : [pc |-> p, invite |-> i] \in Invites!HandlerState
  /\ \A p \in Invites!Accepting, i \in InviteId, c, t \in BOOLEAN :
       [pc |-> p, invite |-> i, changed |-> c, turned |-> t] \in Invites!HandlerState
  BY DEF Invites!HandlerState, Invites!Inviting, Invites!Accepting, Sending, Invites!Idle

\* A request that goes on keeps the rest of its local state.
LEMMA GoesOn ==
  ASSUME NEW l \in Invites!HandlerState
  PROVE  /\ \A p \in Invites!Inviting : l.pc \in Invites!Inviting =>
              [l EXCEPT !.pc = p] = [pc |-> p, to |-> l.to, kind |-> l.kind]
         /\ \A p \in Sending : l.pc \in Sending => [l EXCEPT !.pc = p] = [pc |-> p, invite |-> l.invite]
         /\ \A p \in Invites!Accepting : l.pc \in Invites!Accepting =>
              [l EXCEPT !.pc = p]
                = [pc |-> p, invite |-> l.invite, changed |-> l.changed, turned |-> l.turned]
         /\ l.pc \in Invites!Accepting =>
              /\ [l EXCEPT !.changed = TRUE]
                   = [pc |-> l.pc, invite |-> l.invite, changed |-> TRUE, turned |-> l.turned]
              /\ [l EXCEPT !.turned = TRUE]
                   = [pc |-> l.pc, invite |-> l.invite, changed |-> l.changed, turned |-> TRUE]
<1>1. \A p \in Invites!Inviting : l.pc \in Invites!Inviting =>
        [l EXCEPT !.pc = p] = [pc |-> p, to |-> l.to, kind |-> l.kind]
  BY DEF Invites!HandlerState, Invites!Inviting, Invites!Idle
<1>2. \A p \in Sending : l.pc \in Sending => [l EXCEPT !.pc = p] = [pc |-> p, invite |-> l.invite]
  BY DEF Invites!HandlerState, Sending, Invites!Idle
<1>3. l.pc \in Invites!Accepting =>
        l = [pc |-> l.pc, invite |-> l.invite, changed |-> l.changed, turned |-> l.turned]
  BY DEF Invites!HandlerState, Invites!Accepting, Invites!Idle
<1>4. ASSUME l.pc \in Invites!Accepting, NEW b
      PROVE  /\ [l EXCEPT !.pc = b]
                  = [pc |-> b, invite |-> l.invite, changed |-> l.changed, turned |-> l.turned]
             /\ [l EXCEPT !.changed = b]
                  = [pc |-> l.pc, invite |-> l.invite, changed |-> b, turned |-> l.turned]
             /\ [l EXCEPT !.turned = b]
                  = [pc |-> l.pc, invite |-> l.invite, changed |-> l.changed, turned |-> b]
  BY <1>3, <1>4
<1> QED
  BY <1>1, <1>2, <1>4, Zenon

LEMMA InviteRowShape ==
  ASSUME NEW r \in Invites!InviteRow
  PROVE  /\ r # Invites!Absent /\ r # Invites!Deleted
         /\ r.to \in Invites!Account /\ r.kind \in Invites!InviteKind
         /\ r.accepted \in BOOLEAN /\ r.expired \in BOOLEAN
         /\ [r EXCEPT !.accepted = TRUE]
              = [to |-> r.to, kind |-> r.kind, accepted |-> TRUE, expired |-> r.expired]
         /\ [r EXCEPT !.expired = TRUE]
              = [to |-> r.to, kind |-> r.kind, accepted |-> r.accepted, expired |-> TRUE]
<1>1. DOMAIN r = {"to", "kind", "accepted", "expired"}
  BY DEF Invites!InviteRow
<1>2. DOMAIN Invites!Absent = {"to"} /\ DOMAIN Invites!Deleted = {"to"}
  BY DEF Invites!Absent, Invites!Deleted
<1>3. "kind" \in DOMAIN r /\ "kind" \notin DOMAIN Invites!Absent /\ "kind" \notin DOMAIN Invites!Deleted
  BY <1>1, <1>2
<1>4. r # Invites!Absent /\ r # Invites!Deleted
  BY <1>3
<1>5. /\ r.to \in Invites!Account /\ r.kind \in Invites!InviteKind
      /\ r.accepted \in BOOLEAN /\ r.expired \in BOOLEAN
  BY DEF Invites!InviteRow
<1>6. r = [to |-> r.to, kind |-> r.kind, accepted |-> r.accepted, expired |-> r.expired]
  BY DEF Invites!InviteRow
<1>7. ASSUME NEW b
      PROVE  /\ [r EXCEPT !.accepted = b]
                  = [to |-> r.to, kind |-> r.kind, accepted |-> b, expired |-> r.expired]
             /\ [r EXCEPT !.expired = b]
                  = [to |-> r.to, kind |-> r.kind, accepted |-> r.accepted, expired |-> b]
  BY <1>6
<1> QED
  BY <1>4, <1>5, <1>7, Zenon

LEMMA RowsAre ==
  ASSUME InviteTypeOK
  PROVE  /\ Invites!Rows \subseteq InviteId
         /\ \A i \in InviteId : i \in Invites!Rows <=> invite[i] \in Invites!InviteRow
  BY InviteRowShape DEF InviteTypeOK, Invites!Rows

LEMMA OpenIs ==
  ASSUME NEW a, NEW k
  PROVE  Invites!Pending(a, k) = Open(a)
  BY DEF Open, Invites!Pending
-----------------------------------------------------------------------------
(* What a step keeps of each part.                                           *)

\* A request goes on, or ends, and others are marked.
Makers ==
  \A g \in Handler :
    inviting'[g].pc \in Invites!Inviting =>
      /\ inviting[g].pc \in Invites!Inviting /\ inviting'[g].to = inviting[g].to
      /\ inviting'[g].pc = "insert" =>
           inviting[g].pc = "insert" \/ Open(inviting[g].to) = {}

LEMMA MakesStays ==
  ASSUME MakesOne, Makers, paired' = paired, \A a \in Invites!Account : Open(a)' \subseteq Open(a)
  PROVE  MakesOne'
<1> SUFFICES ASSUME NEW a \in Invites!Account \ paired
             PROVE  /\ \A g, h \in Handler :
                         Makes(inviting'[g], a) /\ Makes(inviting'[h], a) => g = h
                    /\ \A h \in Handler :
                         Makes(inviting'[h], a) /\ inviting'[h].pc = "insert" => Open(a)' = {}
                    /\ \A i, j \in Open(a)' : i = j
  BY DEF MakesOne, Makes, Invites!Inviting, Invites!Account
<1>1. \A g \in Handler : Makes(inviting'[g], a) => Makes(inviting[g], a)
  BY DEF Makers, Makes
<1>2. \A g, h \in Handler : Makes(inviting[g], a) /\ Makes(inviting[h], a) => g = h
  BY DEF MakesOne
<1>3. Open(a)' \subseteq Open(a) /\ \A i, j \in Open(a) : i = j
  BY DEF MakesOne
<1>4. ASSUME NEW h \in Handler, Makes(inviting'[h], a), inviting'[h].pc = "insert"
      PROVE  Open(a) = {}
  BY <1>1, <1>4 DEF Makers, Makes, MakesOne
<1> QED
  BY <1>1, <1>2, <1>3, <1>4

Senders ==
  \A g \in Handler :
    inviting'[g].pc \in Sending =>
      /\ inviting[g].pc \in Sending /\ inviting'[g].invite = inviting[g].invite
      /\ inviting[g].invite \in Invites!Rows' \ mailed'

LEMMA SendsStays ==
  ASSUME SendsOne, Senders
  PROVE  SendsOne'
<1>1. \A h \in Handler : inviting'[h].pc \in Sending => inviting'[h].invite \in Invites!Rows' \ mailed'
  BY DEF Senders
<1>2. ASSUME NEW g \in Handler, NEW h \in Handler, inviting'[g].pc \in Sending,
             inviting'[h].pc \in Sending, inviting'[g].invite = inviting'[h].invite
      PROVE  g = h
  BY <1>2 DEF Senders, SendsOne
<1> QED
  BY <1>1, <1>2 DEF SendsOne, Sending

\* A step of one request that changes no row.
LEMMA OneGoes ==
  ASSUME InviteInv, NEW h \in Handler, NEW l \in Invites!HandlerState,
         inviting' = [inviting EXCEPT ![h] = l],
         UNCHANGED <<member, invite, prime, mailed, paired>>,
         l.pc \in Invites!Inviting =>
           /\ inviting[h].pc \in Invites!Inviting /\ l.to = inviting[h].to
           /\ l.pc = "insert" => inviting[h].pc = "insert" \/ Open(inviting[h].to) = {},
         l.pc \in Sending => inviting[h].pc \in Sending /\ l.invite = inviting[h].invite,
         Accepts(l)
  PROVE  InviteInv'
<1>1. inviting'[h] = l /\ \A g \in Handler \ {h} : inviting'[g] = inviting[g]
  BY DEF InviteInv, InviteTypeOK
<1>2. UNCHANGED Invites!Rows /\ \A a : Open(a)' = Open(a)
  BY DEF Invites!Rows, Open, Invites!Pending
<1>3. InviteTypeOK'
  <2>1. inviting' \in [Handler -> Invites!HandlerState]
    BY DEF InviteInv, InviteTypeOK
  <2> QED
    BY <1>2, <2>1 DEF InviteInv, InviteTypeOK, Invites!Account
<1>4. Makers
  BY <1>1 DEF Makers
<1>5. Senders
  BY <1>1, <1>2 DEF Senders, InviteInv, SendsOne
<1>6. \A k \in Invites!HandlerState : Accepts(k) => Accepts(k)'
  BY DEF Accepts, Grants, Invites!KindMatches, Invites!IsPrimeActive, Invites!Accepting
<1>7. ASSUME NEW g \in Handler PROVE Accepts(inviting[g])'
  <2>1. Accepts(inviting'[g]) /\ inviting'[g] \in Invites!HandlerState
    BY <1>1, <1>3 DEF InviteInv, InviteTypeOK
  <2> QED
    BY <2>1 DEF Accepts, Grants, Invites!KindMatches, Invites!IsPrimeActive, Invites!Accepting
<1> QED
  BY <1>2, <1>3, <1>4, <1>5, <1>7, MakesStays, SendsStays DEF InviteInv
-----------------------------------------------------------------------------
(* Each action keeps the invariant.                                          *)

LEMMA EndsQuietly ==
  ASSUME InviteInv, NEW h \in Handler,
         inviting' = [inviting EXCEPT ![h] = Invites!Idle],
         UNCHANGED <<member, invite, prime, mailed, paired>>
  PROVE  InviteInv'
<1>1. /\ Invites!Idle \in Invites!HandlerState
      /\ Invites!Idle.pc \notin Invites!Inviting \cup Sending \cup Invites!Accepting
  BY InvitingStates DEF Invites!Inviting, Sending, Invites!Accepting
<1>2. Accepts(Invites!Idle)
  BY <1>1 DEF Accepts
<1>3. PICK l : l = Invites!Idle
  OBVIOUS
<1> QED
  BY <1>1, <1>2, <1>3, OneGoes

\* A request that finds the subscription over writes so.
LEMMA ExpiresQuietly ==
  ASSUME InviteInv, NEW h \in Handler,
         inviting' = [inviting EXCEPT ![h] = [pc |-> "expire"]],
         UNCHANGED <<member, invite, prime, mailed, paired>>
  PROVE  InviteInv'
<1>1. PICK l : l = [pc |-> "expire"]
  OBVIOUS
<1>2. /\ l \in Invites!HandlerState
      /\ l.pc \notin Invites!Inviting \cup Sending \cup Invites!Accepting
  BY <1>1, InvitingStates DEF Invites!Inviting, Sending, Invites!Accepting
<1>3. Accepts(l)
  BY <1>2 DEF Accepts
<1> QED
  BY <1>1, <1>2, <1>3, OneGoes

LEMMA SubscribeInv ==
  ASSUME InviteInv, NEW h \in Handler, NEW a \in Invites!Account,
         Invites!ActivateStub(h, a) \/ Invites!DeactivateStub(h, a)
  PROVE  InviteInv'
<1>1. PICK r \in Invites!PrimeRow : Invites!Subscribe(h, a, r)
  BY DEF Invites!ActivateStub, Invites!DeactivateStub, Invites!PrimeRow
<1>2. PICK l : l = [pc |-> "subscribe", row |-> r]
  OBVIOUS
<1>3. /\ l \in Invites!HandlerState
      /\ l.pc \notin Invites!Inviting \cup Sending \cup Invites!Accepting
  BY <1>2, InvitingStates DEF Invites!Inviting, Sending, Invites!Accepting
<1>4. Accepts(l)
  BY <1>3 DEF Accepts
<1> QED
  BY <1>1, <1>2, <1>3, <1>4, OneGoes DEF Invites!Subscribe, Invites!Goto

\* createInvite, from one check to the next.
LEMMA MakerGoes ==
  ASSUME InviteInv, NEW h \in Handler, inviting[h].pc \in Invites!Inviting,
         NEW p \in {"invitee", "pending", "insert"},
         inviting' = [inviting EXCEPT ![h] = [inviting[h] EXCEPT !.pc = p]],
         p = "insert" => Open(inviting[h].to) = {},
         UNCHANGED <<member, invite, prime, mailed, paired>>
  PROVE  InviteInv'
<1>1. inviting[h] \in Invites!HandlerState
  BY DEF InviteInv, InviteTypeOK
<1>2. PICK l : l = [pc |-> p, to |-> inviting[h].to, kind |-> inviting[h].kind]
  OBVIOUS
<1>3. p \in Invites!Inviting
  BY DEF Invites!Inviting
<1>4. [inviting[h] EXCEPT !.pc = p] = l
  BY <1>1, <1>2, <1>3, GoesOn
<1>5. l \in Invites!HandlerState /\ l.pc = p /\ l.to = inviting[h].to
  BY <1>1, <1>2, <1>3, InvitingShapes, InvitingStates
<1>6. Accepts(l)
  BY <1>5 DEF Accepts, Invites!Accepting
<1> QED
  BY <1>4, <1>5, <1>6, OneGoes DEF Sending

LEMMA AssertPrimeInv ==
  ASSUME InviteInv, NEW h \in Handler, Invites!AssertPrime(h)
  PROVE  InviteInv'
<1>1. inviting[h].pc \in Invites!Inviting
  BY DEF Invites!AssertPrime, Invites!Inviting
<1>2. UNCHANGED <<member, invite, prime, mailed, paired>>
  BY DEF Invites!AssertPrime, Invites!WithPrime
<1>3. CASE Invites!IsPrimeActive
  BY <1>1, <1>2, <1>3, MakerGoes DEF Invites!AssertPrime, Invites!WithPrime, Invites!Goto
<1>4. CASE ~Invites!IsPrimeActive /\ Invites!HasRunOut
  BY <1>2, <1>4, ExpiresQuietly DEF Invites!AssertPrime, Invites!WithPrime, Invites!Goto
<1>5. CASE ~Invites!IsPrimeActive /\ ~Invites!HasRunOut
  BY <1>2, <1>5, EndsQuietly DEF Invites!AssertPrime, Invites!WithPrime, Invites!Goto
<1> QED
  BY <1>3, <1>4, <1>5

LEMMA CheckInviteeInv ==
  ASSUME InviteInv, NEW h \in Handler, Invites!CheckInvitee(h)
  PROVE  InviteInv'
<1>1. inviting[h].pc \in Invites!Inviting
  BY DEF Invites!CheckInvitee, Invites!Inviting
<1>2. UNCHANGED <<member, invite, prime, mailed, paired>>
  BY DEF Invites!CheckInvitee
<1>3. \/ inviting' = [inviting EXCEPT ![h] = [inviting[h] EXCEPT !.pc = "pending"]]
      \/ inviting' = [inviting EXCEPT ![h] = Invites!Idle]
  BY DEF Invites!CheckInvitee, Invites!Goto, Invites!Done
<1> QED
  BY <1>1, <1>2, <1>3, MakerGoes, EndsQuietly

LEMMA CheckPendingInv ==
  ASSUME InviteInv, NEW h \in Handler, Invites!CheckPending(h)
  PROVE  InviteInv'
<1>1. inviting[h].pc \in Invites!Inviting
  BY DEF Invites!CheckPending, Invites!Inviting
<1>2. UNCHANGED <<member, invite, prime, mailed, paired>>
  BY DEF Invites!CheckPending
<1>3. PICK a, k : a = inviting[h].to /\ k = inviting[h].kind
  OBVIOUS
<1>4. \/ /\ inviting' = [inviting EXCEPT ![h] = [inviting[h] EXCEPT !.pc = "insert"]]
         /\ Invites!Pending(a, k) = {}
      \/ inviting' = [inviting EXCEPT ![h] = Invites!Idle]
  BY <1>3 DEF Invites!CheckPending, Invites!Goto, Invites!Done
<1>5. Invites!Pending(a, k) = Open(a)
  BY OpenIs
<1>6. CASE inviting' = [inviting EXCEPT ![h] = Invites!Idle]
  BY <1>2, <1>6, EndsQuietly
<1>7. CASE /\ inviting' = [inviting EXCEPT ![h] = [inviting[h] EXCEPT !.pc = "insert"]]
           /\ Invites!Pending(a, k) = {}
  BY <1>1, <1>2, <1>3, <1>5, <1>7, MakerGoes
<1> QED
  BY <1>4, <1>6, <1>7

\* createInvite begins: alone for the account, or the account is among the paired.
LEMMA CreateInviteInv ==
  ASSUME InviteInv, NEW h \in Handler, NEW a \in Invites!Account, NEW to \in Invites!Account,
         NEW kind \in Invites!InviteKind, Invites!CreateInvite(h, a, to, kind)
  PROVE  InviteInv'
<1>1. UNCHANGED <<member, invite, prime, mailed>>
  BY DEF Invites!CreateInvite
<1>2. PICK p \in {"prime", "invitee"} :
        inviting' = [inviting EXCEPT ![h] = [pc |-> p, to |-> to, kind |-> kind]]
  BY DEF Invites!CreateInvite, Invites!Goto
<1>3. PICK l : l = [pc |-> p, to |-> to, kind |-> kind]
  OBVIOUS
<1>4. l \in Invites!HandlerState /\ l.pc = p /\ l.to = to
  BY <1>3, InvitingStates DEF Invites!Inviting
<1>5. inviting'[h] = l /\ \A g \in Handler \ {h} : inviting'[g] = inviting[g]
  BY <1>2, <1>3 DEF InviteInv, InviteTypeOK
<1>6. UNCHANGED Invites!Rows /\ \A b : Open(b)' = Open(b)
  BY <1>1 DEF Invites!Rows, Open, Invites!Pending
<1>7. InviteTypeOK'
  <2>1. inviting' \in [Handler -> Invites!HandlerState]
    BY <1>2, <1>3, <1>4 DEF InviteInv, InviteTypeOK
  <2> QED
    BY <1>1, <1>6, <2>1 DEF InviteInv, InviteTypeOK, Invites!Account
<1>8. /\ paired \subseteq paired'
      /\ \A g \in Handler : Makes(inviting[g], to) => to \in paired'
  BY DEF Invites!CreateInvite, Makes
<1>9. MakesOne'
  <2> SUFFICES ASSUME NEW b \in Invites!Account \ paired'
               PROVE  /\ \A f, g \in Handler :
                           Makes(inviting'[f], b) /\ Makes(inviting'[g], b) => f = g
                      /\ \A g \in Handler :
                           Makes(inviting'[g], b) /\ inviting'[g].pc = "insert" => Open(b)' = {}
                      /\ \A i, j \in Open(b)' : i = j
    BY DEF MakesOne, Makes, Invites!Inviting, Invites!Account
  <2>1. /\ \A f, g \in Handler : Makes(inviting[f], b) /\ Makes(inviting[g], b) => f = g
        /\ \A g \in Handler : Makes(inviting[g], b) /\ inviting[g].pc = "insert" => Open(b) = {}
        /\ \A i, j \in Open(b) : i = j
    BY <1>8 DEF MakesOne, InviteInv
  <2>2. \A g \in Handler : Makes(inviting'[g], b) => (g = h /\ b = to) \/ Makes(inviting[g], b)
    BY <1>4, <1>5 DEF Makes
  <2>3. b = to => \A g \in Handler : ~Makes(inviting[g], b)
    BY <1>8
  <2>4. inviting[h].pc \notin Invites!Inviting
    BY InvitingStates DEF Invites!CreateInvite, Invites!Inviting
  <2>5. \A f, g \in Handler : Makes(inviting'[f], b) /\ Makes(inviting'[g], b) => f = g
    BY <2>1, <2>2, <2>3
  <2>6. \A g \in Handler : Makes(inviting'[g], b) /\ inviting'[g].pc = "insert" => Open(b) = {}
    BY <1>4, <1>5, <2>1
  <2> QED
    BY <1>6, <2>1, <2>5, <2>6
<1>10. Senders
  BY <1>1, <1>4, <1>5, <1>6 DEF Senders, InviteInv, SendsOne, Sending
<1>11. ASSUME NEW g \in Handler PROVE Accepts(inviting[g])'
  <2>1. inviting'[g].pc \in Invites!Accepting => g # h
    BY <1>4, <1>5 DEF Invites!Accepting
  <2>2. Accepts(inviting[g]) /\ (g # h => inviting'[g] = inviting[g])
    BY <1>5 DEF InviteInv
  <2> QED
    BY <1>1, <2>1, <2>2
    DEF Accepts, Grants, Invites!KindMatches, Invites!IsPrimeActive, Invites!Accepting
<1> QED
  BY <1>7, <1>9, <1>10, <1>11, SendsStays DEF InviteInv

\* createInvite inserts the row: where it found none, there is one.
LEMMA InsertInviteInv ==
  ASSUME InviteInv, NEW h \in Handler, NEW i \in InviteId, Invites!InsertInvite(h, i)
  PROVE  InviteInv'
<1> PICK t, k : t = inviting[h].to /\ k = inviting[h].kind
  OBVIOUS
<1> PICK r : r = [to |-> t, kind |-> k, accepted |-> FALSE, expired |-> FALSE]
  OBVIOUS
<1> PICK l : l = [pc |-> "mail", invite |-> i]
  OBVIOUS
<1>1. /\ inviting[h].pc = "insert" /\ invite[i] = Invites!Absent
      /\ invite' = [invite EXCEPT ![i] = r]
      /\ inviting' = [inviting EXCEPT ![h] = l]
      /\ UNCHANGED <<member, prime, mailed, paired>>
  BY DEF Invites!InsertInvite, Invites!Goto
<1>2. inviting[h].pc \in Invites!Inviting /\ inviting[h] \in Invites!HandlerState
  BY <1>1 DEF Invites!Inviting, InviteInv, InviteTypeOK
<1>3. t \in Invites!Account /\ k \in Invites!InviteKind
  BY <1>2, InvitingShapes
<1>4. r \in Invites!InviteRow /\ r.to = t
  BY <1>3 DEF Invites!InviteRow
<1>5. l \in Invites!HandlerState /\ l.pc = "mail" /\ l.invite = i
  BY InvitingStates DEF Sending
<1>6. inviting'[h] = l /\ \A g \in Handler \ {h} : inviting'[g] = inviting[g]
  BY <1>1 DEF InviteInv, InviteTypeOK
<1>7. invite'[i] = r /\ \A j \in InviteId \ {i} : invite'[j] = invite[j]
  BY <1>1 DEF InviteInv, InviteTypeOK
<1>8. i \notin Invites!Rows /\ Invites!Rows' = Invites!Rows \cup {i}
  <2>1. r \notin {Invites!Absent, Invites!Deleted}
    BY <1>4, InviteRowShape
  <2> QED
    BY <1>1, <1>7, <2>1 DEF Invites!Rows, Invites!Absent, Invites!Deleted
<1>9. InviteTypeOK'
  <2>1. inviting' \in [Handler -> Invites!HandlerState]
    BY <1>1, <1>5 DEF InviteInv, InviteTypeOK
  <2>2. invite' \in [InviteId -> Invites!InviteRow \cup {Invites!Absent, Invites!Deleted}]
    BY <1>1, <1>4 DEF InviteInv, InviteTypeOK
  <2> QED
    BY <1>1, <1>8, <2>1, <2>2
    DEF InviteInv, InviteTypeOK, Invites!Account, Invites!InviteRow, Invites!InviteKind,
        Invites!Absent, Invites!Deleted
<1>10. \A a : Open(a)' \subseteq (IF a = t THEN Open(a) \cup {i} ELSE Open(a))
  BY <1>4, <1>7, <1>8 DEF Open, Invites!Pending, Invites!Rows
<1>11. MakesOne'
  <2> SUFFICES ASSUME NEW b \in Invites!Account \ paired
               PROVE  /\ \A f, g \in Handler :
                           Makes(inviting'[f], b) /\ Makes(inviting'[g], b) => f = g
                      /\ \A g \in Handler :
                           Makes(inviting'[g], b) /\ inviting'[g].pc = "insert" => Open(b)' = {}
                      /\ \A x, y \in Open(b)' : x = y
    BY <1>1 DEF MakesOne, Makes, Invites!Inviting, Invites!Account
  <2>1. /\ \A f, g \in Handler : Makes(inviting[f], b) /\ Makes(inviting[g], b) => f = g
        /\ \A g \in Handler : Makes(inviting[g], b) /\ inviting[g].pc = "insert" => Open(b) = {}
        /\ \A x, y \in Open(b) : x = y
    BY DEF MakesOne, InviteInv
  <2>2. \A g \in Handler : Makes(inviting'[g], b) => g # h /\ Makes(inviting[g], b)
    BY <1>5, <1>6 DEF Makes, Invites!Inviting
  <2>3. CASE b = t
    <3>1. Makes(inviting[h], b)
      BY <1>2, <2>3 DEF Makes
    <3>2. \A g \in Handler : ~Makes(inviting'[g], b)
      BY <2>1, <2>2, <3>1
    <3>3. Open(b)' \subseteq {i}
      BY <1>1, <1>10, <2>1, <2>3, <3>1
    <3> QED
      BY <3>2, <3>3
  <2>4. CASE b # t
    <3>1. Open(b)' \subseteq Open(b)
      BY <1>10, <2>4
    <3>2. \A g \in Handler : Makes(inviting'[g], b) => inviting'[g] = inviting[g]
      BY <1>6, <2>2
    <3> QED
      BY <2>1, <2>2, <3>1, <3>2
  <2> QED
    BY <2>3, <2>4
<1>12. SendsOne'
  <2>1. \A g \in Handler \ {h} : inviting[g].pc \in Sending =>
          inviting[g].invite \in Invites!Rows' \ mailed' /\ inviting[g].invite # i
    BY <1>1, <1>8 DEF InviteInv, SendsOne
  <2>2. i \in Invites!Rows' \ mailed'
    BY <1>1, <1>8 DEF InviteInv, InviteTypeOK
  <2>3. \A g \in Handler : inviting'[g].pc \in Sending =>
          inviting'[g].invite \in Invites!Rows' \ mailed'
    BY <1>5, <1>6, <2>1, <2>2
  <2>4. ASSUME NEW f \in Handler, NEW g \in Handler, inviting'[f].pc \in Sending,
               inviting'[g].pc \in Sending, inviting'[f].invite = inviting'[g].invite
        PROVE  f = g
    BY <1>5, <1>6, <2>1, <2>4 DEF InviteInv, SendsOne
  <2> QED
    BY <2>3, <2>4 DEF SendsOne, Sending
<1>13. ASSUME NEW g \in Handler PROVE Accepts(inviting[g])'
  <2>1. SUFFICES ASSUME inviting'[g].pc \in Invites!Accepting PROVE Grants(inviting[g])'
    BY DEF Accepts, Invites!Accepting
  <2>2. inviting'[g] = inviting[g] /\ Grants(inviting[g])
    BY <1>5, <1>6, <2>1 DEF InviteInv, Accepts, Invites!Accepting
  <2>3. inviting[g].invite \in mailed /\ inviting[g].invite \in InviteId /\ inviting[g].invite # i
    BY <1>8, <2>2, RowsAre DEF Grants, InviteInv, InviteTypeOK
  <2>4. invite'[inviting[g].invite] = invite[inviting[g].invite]
    BY <1>7, <2>3
  <2> QED
    BY <1>1, <2>2, <2>4 DEF Grants, Invites!KindMatches, Invites!IsPrimeActive
<1> QED
  BY <1>9, <1>11, <1>12, <1>13 DEF InviteInv

\* The letter is queued.
LEMMA MailedInv ==
  ASSUME InviteInv, NEW h \in Handler, inviting[h].pc = "mail",
         mailed' = mailed \cup {inviting[h].invite},
         inviting' = [inviting EXCEPT ![h] = Invites!Idle],
         UNCHANGED <<member, invite, prime, paired>>
  PROVE  InviteInv'
<1>1. /\ inviting'[h] = Invites!Idle
      /\ \A g \in Handler \ {h} : inviting'[g] = inviting[g]
  BY DEF InviteInv, InviteTypeOK
<1>2. UNCHANGED Invites!Rows /\ \A a : Open(a)' = Open(a)
  BY DEF Invites!Rows, Open, Invites!Pending
<1>3. inviting[h].pc \in Sending /\ inviting[h].invite \in Invites!Rows \ mailed
  BY DEF InviteInv, SendsOne, Sending
<1>4. Invites!Idle.pc \notin Invites!Inviting \cup Sending \cup Invites!Accepting
  BY InvitingStates DEF Invites!Inviting, Sending, Invites!Accepting
<1>5. InviteTypeOK'
  <2>1. inviting' \in [Handler -> Invites!HandlerState]
    BY InvitingStates DEF InviteInv, InviteTypeOK
  <2> QED
    BY <1>2, <1>3, <2>1 DEF InviteInv, InviteTypeOK, Invites!Account
<1>6. Makers
  BY <1>1, <1>4 DEF Makers
<1>7. Senders
  <2> SUFFICES ASSUME NEW g \in Handler, inviting'[g].pc \in Sending
               PROVE  /\ inviting[g].pc \in Sending /\ inviting'[g].invite = inviting[g].invite
                      /\ inviting[g].invite \in Invites!Rows' \ mailed'
    BY DEF Senders
  <2>1. g # h /\ inviting'[g] = inviting[g]
    BY <1>1, <1>4
  <2>2. inviting[g].invite # inviting[h].invite
    BY <1>3, <2>1 DEF InviteInv, SendsOne
  <2> QED
    BY <1>2, <2>1, <2>2 DEF InviteInv, SendsOne
<1>8. ASSUME NEW g \in Handler PROVE Accepts(inviting[g])'
  <2>1. SUFFICES ASSUME inviting'[g].pc \in Invites!Accepting PROVE Grants(inviting[g])'
    BY DEF Accepts, Invites!Accepting
  <2>2. inviting'[g] = inviting[g] /\ Grants(inviting[g])
    BY <1>1, <1>4, <2>1 DEF InviteInv, Accepts
  <2> QED
    BY <2>2 DEF Grants, Invites!KindMatches, Invites!IsPrimeActive
<1> QED
  BY <1>2, <1>5, <1>6, <1>7, <1>8, MakesStays, SendsStays DEF InviteInv

\* It is not, and the invite is to go.
LEMMA MailInviteInv ==
  ASSUME InviteInv, NEW h \in Handler, Invites!MailInvite(h)
  PROVE  InviteInv'
<1>1. inviting[h].pc = "mail" /\ UNCHANGED <<member, invite, prime, paired>>
  BY DEF Invites!MailInvite
<1>2. \/ /\ mailed' = mailed \cup {inviting[h].invite}
         /\ inviting' = [inviting EXCEPT ![h] = Invites!Idle]
      \/ /\ inviting' = [inviting EXCEPT ![h] = [inviting[h] EXCEPT !.pc = "delete"]]
         /\ UNCHANGED mailed
  BY DEF Invites!MailInvite, Invites!Goto, Invites!Done
<1>3. CASE /\ inviting' = [inviting EXCEPT ![h] = [inviting[h] EXCEPT !.pc = "delete"]]
           /\ UNCHANGED mailed
  <2>1. PICK l : l = [pc |-> "delete", invite |-> inviting[h].invite]
    OBVIOUS
  <2>2. inviting[h] \in Invites!HandlerState /\ inviting[h].pc \in Sending /\ "delete" \in Sending
    BY <1>1 DEF InviteInv, InviteTypeOK, Sending
  <2>3. [inviting[h] EXCEPT !.pc = "delete"] = l
    BY <2>1, <2>2, GoesOn
  <2>4. l \in Invites!HandlerState /\ l.pc = "delete" /\ l.invite = inviting[h].invite
    BY <2>1, <2>2, InvitingShapes, InvitingStates
  <2>5. l.pc \notin Invites!Inviting \cup Invites!Accepting
    BY <2>4 DEF Invites!Inviting, Invites!Accepting
  <2>6. Accepts(l)
    BY <2>5 DEF Accepts
  <2> QED
    BY <1>1, <1>3, <2>2, <2>3, <2>4, <2>5, <2>6, OneGoes
<1> QED
  BY <1>1, <1>2, <1>3, MailedInv
-----------------------------------------------------------------------------
(* Changes of an invite, of the subscription and of the members.             *)

\* What the requests are after a change of invite i: who accepts it knows.
LEMMA ChangedIs ==
  ASSUME InviteTypeOK, NEW i, NEW g \in Handler
  PROVE  /\ Invites!Changed(i)[g] \in Invites!HandlerState
         /\ Invites!Changed(i)[g].pc = inviting[g].pc
         /\ inviting[g].pc \notin Invites!Accepting => Invites!Changed(i)[g] = inviting[g]
         /\ inviting[g].pc \in Invites!Accepting =>
              /\ Invites!Changed(i)[g].invite = inviting[g].invite
              /\ inviting[g].changed \/ inviting[g].invite = i => Invites!Changed(i)[g].changed
              /\ inviting[g].turned => Invites!Changed(i)[g].turned
<1> PICK l : l = inviting[g]
  OBVIOUS
<1>1. l \in Invites!HandlerState
  BY DEF InviteTypeOK
<1>2. CASE l.pc \in Invites!Accepting /\ l.invite = i
  <2>1. Invites!Changed(i)[g]
          = [pc |-> l.pc, invite |-> l.invite, changed |-> TRUE, turned |-> l.turned]
    BY <1>1, <1>2, GoesOn DEF Invites!Changed
  <2> PICK b \in {TRUE} : TRUE
    OBVIOUS
  <2>2. PICK c : /\ c = Invites!Changed(i)[g]
                 /\ c = [pc |-> l.pc, invite |-> l.invite, changed |-> b, turned |-> l.turned]
    BY <2>1, Zenon
  <2>3. /\ l.pc \in Invites!Accepting /\ l.invite \in InviteId
        /\ l.changed \in BOOLEAN /\ l.turned \in BOOLEAN /\ b \in BOOLEAN
    BY <1>1, <1>2, InvitingShapes
  <2>4. c \in Invites!HandlerState
    BY <2>2, <2>3, InvitingStates
  <2>5. c.pc = l.pc /\ c.invite = l.invite /\ c.changed = b /\ c.turned = l.turned
    BY <2>2
  <2>6. b
    OBVIOUS
  <2> QED
    BY <2>2, <2>3, <2>4, <2>5, <2>6, Zenon
<1>3. CASE ~(l.pc \in Invites!Accepting /\ l.invite = i)
  BY <1>1, <1>3 DEF Invites!Changed
<1> QED
  BY <1>2, <1>3

LEMMA TurnedIs ==
  ASSUME InviteTypeOK, NEW g \in Handler
  PROVE  /\ Invites!Turned[g] \in Invites!HandlerState
         /\ Invites!Turned[g].pc = inviting[g].pc
         /\ inviting[g].pc \notin Invites!Accepting => Invites!Turned[g] = inviting[g]
         /\ inviting[g].pc \in Invites!Accepting =>
              /\ Invites!Turned[g].invite = inviting[g].invite
              /\ inviting[g].changed => Invites!Turned[g].changed
              /\ inviting[g].pc # "acceptPrime" => Invites!Turned[g].turned
<1> PICK l : l = inviting[g]
  OBVIOUS
<1>1. l \in Invites!HandlerState
  BY DEF InviteTypeOK
<1>2. CASE l.pc \in {"acceptCheck", "accept"}
  <2>1. Invites!Turned[g]
          = [pc |-> l.pc, invite |-> l.invite, changed |-> l.changed, turned |-> TRUE]
    BY <1>1, <1>2, GoesOn DEF Invites!Turned, Invites!Accepting
  <2> PICK b \in {TRUE} : TRUE
    OBVIOUS
  <2>2. PICK c : /\ c = Invites!Turned[g]
                 /\ c = [pc |-> l.pc, invite |-> l.invite, changed |-> l.changed, turned |-> b]
    BY <2>1, Zenon
  <2>3. /\ l.pc \in Invites!Accepting /\ l.invite \in InviteId
        /\ l.changed \in BOOLEAN /\ l.turned \in BOOLEAN /\ b \in BOOLEAN
    BY <1>1, <1>2, InvitingShapes DEF Invites!Accepting
  <2>4. c \in Invites!HandlerState
    BY <2>2, <2>3, InvitingStates
  <2>5. c.pc = l.pc /\ c.invite = l.invite /\ c.changed = l.changed /\ c.turned = b
    BY <2>2
  <2>6. b
    OBVIOUS
  <2> QED
    BY <2>2, <2>3, <2>4, <2>5, <2>6, Zenon
<1>3. CASE l.pc \notin {"acceptCheck", "accept"}
  BY <1>1, <1>3 DEF Invites!Turned, Invites!Accepting
<1> QED
  BY <1>2, <1>3

LEMMA InviteChanges ==
  ASSUME InviteInv, NEW i \in Invites!Rows,
         NEW r \in Invites!InviteRow \cup {Invites!Deleted},
         invite' = [invite EXCEPT ![i] = r],
         r = Invites!Deleted =>
           /\ i \notin mailed
           /\ \A g \in Handler : inviting'[g].pc \in Sending => inviting'[g].invite # i,
         r # Invites!Deleted =>
           /\ r.to = invite[i].to /\ r.kind = invite[i].kind
           /\ invite[i].accepted => r.accepted
           /\ invite[i].expired => r.expired,
         UNCHANGED <<prime, mailed, paired>>,
         member' \in [Invites!Account -> {"OWNER", "ADMIN", "none"}], member'[Owner] = "OWNER",
         inviting' \in [Handler -> Invites!HandlerState],
         \A g \in Handler :
           inviting'[g] = Invites!Idle \/ inviting'[g] = Invites!Changed(i)[g]
  PROVE  InviteInv'
<1>1. i \in InviteId /\ invite[i] \in Invites!InviteRow
  BY RowsAre DEF InviteInv
<1>2. invite'[i] = r /\ \A j \in InviteId \ {i} : invite'[j] = invite[j]
  BY <1>1 DEF InviteInv, InviteTypeOK
<1>3. \A r0 \in Invites!InviteRow : r0 # Invites!Absent /\ r0 # Invites!Deleted
  BY InviteRowShape
<1>4. Invites!Rows' = IF r = Invites!Deleted THEN Invites!Rows \ {i} ELSE Invites!Rows
  BY <1>1, <1>2, <1>3 DEF Invites!Rows, Invites!Absent, Invites!Deleted
<1>5. InviteTypeOK'
  <2>1. invite' \in [InviteId -> Invites!InviteRow \cup {Invites!Absent, Invites!Deleted}]
    BY <1>1 DEF InviteInv, InviteTypeOK
  <2>2. mailed' \subseteq Invites!Rows'
    BY <1>4 DEF InviteInv, InviteTypeOK
  <2> QED
    BY <2>1, <2>2
    DEF InviteInv, InviteTypeOK, Invites!Account, Invites!InviteRow, Invites!InviteKind,
        Invites!Absent, Invites!Deleted, Invites!PrimeRow, Invites!HandlerState
<1>6. \A a : Open(a)' \subseteq Open(a)
  BY <1>1, <1>2, <1>4 DEF Open, Invites!Pending
<1>7. ASSUME NEW g \in Handler
      PROVE  /\ inviting'[g].pc \in Invites!Inviting => inviting'[g] = inviting[g]
             /\ inviting'[g].pc \in Sending => inviting'[g] = inviting[g]
  <2>1. Invites!Idle.pc \notin Invites!Inviting \cup Sending
    BY InvitingStates DEF Invites!Inviting, Sending
  <2>2. \A p \in Invites!Inviting \cup Sending : p \notin Invites!Accepting
    BY DEF Invites!Inviting, Sending, Invites!Accepting
  <2> QED
    BY <2>1, <2>2, ChangedIs DEF InviteInv
<1>8. Makers
  BY <1>7 DEF Makers
<1>9. Senders
  BY <1>4, <1>7 DEF Senders, InviteInv, SendsOne
<1>10. ASSUME NEW g \in Handler PROVE Accepts(inviting[g])'
  <2>1. SUFFICES ASSUME inviting'[g].pc \in Invites!Accepting PROVE Grants(inviting[g])'
    BY DEF Accepts, Invites!Accepting
  <2>2. Invites!Idle.pc \notin Invites!Accepting
    BY InvitingStates DEF Invites!Accepting
  <2> PICK k, l : k = inviting[g] /\ l = inviting'[g]
    OBVIOUS
  <2>3. /\ k.pc = l.pc /\ k.invite = l.invite
        /\ k.changed \/ k.invite = i => l.changed
        /\ k.turned => l.turned
        /\ Grants(k)
    BY <2>1, <2>2, ChangedIs DEF InviteInv, Accepts
  <2>4. k.invite \in mailed /\ k.invite \in InviteId /\ (r = Invites!Deleted => k.invite # i)
    BY <2>3, RowsAre DEF Grants, InviteInv, InviteTypeOK
  <2>5. /\ invite'[k.invite].to = invite[k.invite].to
        /\ invite'[k.invite].kind = invite[k.invite].kind
        /\ k.invite # i => invite'[k.invite] = invite[k.invite]
    BY <1>2, <2>4
  <2>6. l.changed \/ (~invite'[l.invite].accepted /\ ~invite'[l.invite].expired)
    BY <2>3, <2>5 DEF Grants
  <2>7. Invites!KindMatches(invite'[l.invite].kind, invite'[l.invite].to)
    BY <2>3, <2>5 DEF Grants
  <2>8. l.pc # "acceptPrime" /\ invite'[l.invite].kind = "TEAM" => l.turned \/ Invites!IsPrimeActive
    BY <2>3, <2>5 DEF Grants
  <2> QED
    BY <2>3, <2>6, <2>7, <2>8 DEF Grants, Invites!KindMatches, Invites!IsPrimeActive
<1> QED
  BY <1>5, <1>6, <1>8, <1>9, <1>10, MakesStays, SendsStays DEF InviteInv

LEMMA PrimeChanges ==
  ASSUME InviteInv, prime' \in Invites!PrimeRow,
         UNCHANGED <<member, invite, mailed, paired>>,
         inviting' \in [Handler -> Invites!HandlerState],
         \A g \in Handler : inviting'[g] = Invites!Idle \/ inviting'[g] = Invites!Turned[g]
  PROVE  InviteInv'
<1>1. UNCHANGED Invites!Rows /\ \A a : Open(a)' = Open(a)
  BY DEF Invites!Rows, Open, Invites!Pending
<1>2. InviteTypeOK'
  BY <1>1 DEF InviteInv, InviteTypeOK, Invites!Account, Invites!PrimeRow, Invites!HandlerState
<1>3. ASSUME NEW g \in Handler
      PROVE  /\ inviting'[g].pc \in Invites!Inviting => inviting'[g] = inviting[g]
             /\ inviting'[g].pc \in Sending => inviting'[g] = inviting[g]
  <2>1. Invites!Idle.pc \notin Invites!Inviting \cup Sending
    BY InvitingStates DEF Invites!Inviting, Sending
  <2>2. \A p \in Invites!Inviting \cup Sending : p \notin Invites!Accepting
    BY DEF Invites!Inviting, Sending, Invites!Accepting
  <2> QED
    BY <2>1, <2>2, TurnedIs DEF InviteInv
<1>4. Makers
  BY <1>3 DEF Makers
<1>5. Senders
  BY <1>1, <1>3 DEF Senders, InviteInv, SendsOne
<1>6. ASSUME NEW g \in Handler PROVE Accepts(inviting[g])'
  <2>1. SUFFICES ASSUME inviting'[g].pc \in Invites!Accepting PROVE Grants(inviting[g])'
    BY DEF Accepts, Invites!Accepting
  <2>2. Invites!Idle.pc \notin Invites!Accepting
    BY InvitingStates DEF Invites!Accepting
  <2> PICK k, l : k = inviting[g] /\ l = inviting'[g]
    OBVIOUS
  <2>3. /\ k.pc = l.pc /\ k.invite = l.invite
        /\ k.changed => l.changed
        /\ k.pc # "acceptPrime" => l.turned
        /\ Grants(k)
    BY <2>1, <2>2, TurnedIs DEF InviteInv, Accepts
  <2> QED
    BY <2>3 DEF Grants, Invites!KindMatches, Invites!IsPrimeActive
<1> QED
  BY <1>1, <1>2, <1>4, <1>5, <1>6, MakesStays, SendsStays DEF InviteInv

\* A step that changes the members, if anything.
LEMMA MembersChange ==
  ASSUME InviteInv, UNCHANGED <<invite, prime, mailed, paired, inviting>>,
         member' \in [Invites!Account -> {"OWNER", "ADMIN", "none"}], member'[Owner] = "OWNER"
  PROVE  InviteInv'
<1>1. UNCHANGED Invites!Rows /\ \A a : Open(a)' = Open(a)
  BY DEF Invites!Rows, Open, Invites!Pending
<1>2. InviteTypeOK'
  BY <1>1 DEF InviteInv, InviteTypeOK, Invites!Account
<1>3. MakesOne' /\ SendsOne'
  BY <1>1 DEF InviteInv, MakesOne, SendsOne, Makes, Invites!Inviting, Sending, Invites!Account
<1>4. \A g \in Handler : Accepts(inviting[g])'
  BY DEF InviteInv, Accepts, Grants, Invites!KindMatches, Invites!IsPrimeActive, Invites!Accepting
<1> QED
  BY <1>2, <1>3, <1>4 DEF InviteInv
-----------------------------------------------------------------------------

LEMMA DeleteInviteInv ==
  ASSUME InviteInv, NEW h \in Handler, Invites!DeleteInvite(h)
  PROVE  InviteInv'
<1> PICK i : i = inviting[h].invite
  OBVIOUS
<1> PICK r : r = Invites!Deleted
  OBVIOUS
<1>1. inviting[h].pc \in Sending /\ i \in Invites!Rows \ mailed
  BY DEF Invites!DeleteInvite, InviteInv, SendsOne, Sending
<1>2. /\ inviting' = [Invites!Changed(i) EXCEPT ![h] = Invites!Idle]
      /\ invite' = [invite EXCEPT ![i] = r]
      /\ UNCHANGED <<member, prime, mailed, paired>>
  BY DEF Invites!DeleteInvite
<1>3. /\ inviting' \in [Handler -> Invites!HandlerState]
      /\ inviting'[h] = Invites!Idle
      /\ \A g \in Handler \ {h} : inviting'[g] = Invites!Changed(i)[g]
  <2>1. \A g \in Handler : Invites!Changed(i)[g] \in Invites!HandlerState
    BY ChangedIs DEF InviteInv
  <2>2. Invites!Changed(i) = [g \in Handler |-> Invites!Changed(i)[g]]
    BY DEF Invites!Changed
  <2>3. PICK f : f = Invites!Changed(i)
    OBVIOUS
  <2> QED
    BY <1>2, <2>1, <2>2, <2>3, InvitingStates
<1>4. ASSUME NEW g \in Handler, inviting'[g].pc \in Sending PROVE inviting'[g].invite # i
  <2>1. g # h
    BY <1>3, <1>4, InvitingStates DEF Sending
  <2>2. inviting'[g] = inviting[g] /\ inviting[g].pc \in Sending
    BY <1>3, <1>4, <2>1, ChangedIs DEF InviteInv, Sending, Invites!Accepting
  <2> QED
    BY <1>1, <2>1, <2>2 DEF InviteInv, SendsOne
<1>5. r \notin Invites!InviteRow /\ r \in Invites!InviteRow \cup {Invites!Deleted}
  BY InviteRowShape
<1> QED
  BY <1>1, <1>2, <1>3, <1>4, <1>5, InviteChanges DEF InviteInv, InviteTypeOK

LEMMA InviteExpiresInv ==
  ASSUME InviteInv, NEW i \in InviteId, Invites!InviteExpires(i)
  PROVE  InviteInv'
<1> PICK e : e = invite[i]
  OBVIOUS
<1> PICK r : r = [to |-> e.to, kind |-> e.kind, accepted |-> e.accepted, expired |-> TRUE]
  OBVIOUS
<1>1. i \in Invites!Rows /\ e \in Invites!InviteRow
  BY RowsAre DEF Invites!InviteExpires, InviteInv
<1>2. r \in Invites!InviteRow /\ r = [e EXCEPT !.expired = TRUE]
  BY <1>1, InviteRowShape DEF Invites!InviteRow
<1>3. /\ invite' = [invite EXCEPT ![i] = r]
      /\ inviting' = Invites!Changed(i)
      /\ UNCHANGED <<member, prime, mailed, paired>>
  BY <1>2 DEF Invites!InviteExpires
<1>4. inviting' \in [Handler -> Invites!HandlerState]
  <2>1. Invites!Changed(i) = [g \in Handler |-> Invites!Changed(i)[g]]
    BY DEF Invites!Changed
  <2>2. \A g \in Handler : Invites!Changed(i)[g] \in Invites!HandlerState
    BY ChangedIs DEF InviteInv
  <2> QED
    BY <1>3, <2>1, <2>2
<1>5. r # Invites!Deleted
  BY <1>2, InviteRowShape
<1> QED
  BY <1>1, <1>2, <1>3, <1>4, <1>5, InviteChanges DEF InviteInv, InviteTypeOK

\* acceptInvite, from one check to the next.
LEMMA AcceptorGoes ==
  ASSUME InviteInv, NEW h \in Handler, inviting[h].pc \in Invites!Accepting,
         NEW p \in {"acceptCheck", "accept"},
         inviting' = [inviting EXCEPT ![h] = [inviting[h] EXCEPT !.pc = p]],
         \/ inviting[h].pc # "acceptPrime"
         \/ invite[inviting[h].invite].kind = "TEAM" => Invites!IsPrimeActive,
         UNCHANGED <<member, invite, prime, mailed, paired>>
  PROVE  InviteInv'
<1> PICK k : k = inviting[h]
  OBVIOUS
<1> PICK l : l = [pc |-> p, invite |-> k.invite, changed |-> k.changed, turned |-> k.turned]
  OBVIOUS
<1>1. k \in Invites!HandlerState /\ p \in Invites!Accepting
  BY DEF InviteInv, InviteTypeOK, Invites!Accepting
<1>2. l = [inviting[h] EXCEPT !.pc = p]
  BY <1>1, GoesOn
<1>3. k.changed \in BOOLEAN /\ k.turned \in BOOLEAN /\ k.invite \in InviteId
  BY <1>1, InvitingShapes
<1>4. l \in Invites!HandlerState
  BY <1>1, <1>3, InvitingStates
<1>5. l.pc = p /\ l.invite = k.invite /\ (k.changed => l.changed) /\ (k.turned => l.turned)
  OBVIOUS
<1>6. Grants(k)
  BY DEF InviteInv, Accepts
<1>7. Accepts(l)
  BY <1>5, <1>6 DEF Accepts, Grants
<1>8. l.pc \notin Invites!Inviting \cup Sending
  BY <1>5 DEF Invites!Inviting, Sending
<1> QED
  BY <1>2, <1>4, <1>7, <1>8, OneGoes

LEMMA AcceptInviteInv ==
  ASSUME InviteInv, NEW h \in Handler, NEW a \in Invites!Account, NEW i \in InviteId,
         Invites!AcceptInvite(h, a, i)
  PROVE  InviteInv'
<1> PICK l : l = [pc |-> "acceptPrime", invite |-> i, changed |-> FALSE, turned |-> FALSE]
  OBVIOUS
<1>1. l \in Invites!HandlerState
  BY InvitingStates DEF Invites!Accepting
<1>2. /\ inviting' = [inviting EXCEPT ![h] = l]
      /\ UNCHANGED <<member, invite, prime, mailed, paired>>
  BY DEF Invites!AcceptInvite, Invites!Goto
<1>3. l.pc = "acceptPrime" /\ l.invite = i
  OBVIOUS
<1>4. Accepts(l)
  BY <1>3 DEF Accepts, Grants, Invites!AcceptInvite, Invites!MayAccept
<1> QED
  BY <1>1, <1>2, <1>3, <1>4, OneGoes DEF Invites!Inviting, Sending

LEMMA AcceptPrimeInv ==
  ASSUME InviteInv, NEW h \in Handler, Invites!AcceptPrime(h)
  PROVE  InviteInv'
<1>1. inviting[h].pc \in Invites!Accepting
  BY DEF Invites!AcceptPrime, Invites!Accepting
<1>2. UNCHANGED <<member, invite, prime, mailed, paired>>
  BY DEF Invites!AcceptPrime, Invites!WithPrime
<1>3. CASE ~Invites!NeedsPrime(inviting[h].invite) \/ Invites!IsPrimeActive
  <2>1. inviting' = [inviting EXCEPT ![h] = [inviting[h] EXCEPT !.pc = "acceptCheck"]]
    BY <1>3 DEF Invites!AcceptPrime, Invites!WithPrime, Invites!Goto
  <2> QED
    BY <1>1, <1>2, <1>3, <2>1, AcceptorGoes DEF Invites!NeedsPrime
<1>4. CASE Invites!NeedsPrime(inviting[h].invite) /\ ~Invites!IsPrimeActive /\ Invites!HasRunOut
  <2>1. inviting' = [inviting EXCEPT ![h] = [pc |-> "expire"]]
    BY <1>4 DEF Invites!AcceptPrime, Invites!WithPrime, Invites!Goto
  <2> QED
    BY <1>2, <2>1, ExpiresQuietly
<1>5. CASE Invites!NeedsPrime(inviting[h].invite) /\ ~Invites!IsPrimeActive /\ ~Invites!HasRunOut
  <2>1. inviting' = [inviting EXCEPT ![h] = Invites!Idle]
    BY <1>5 DEF Invites!AcceptPrime, Invites!WithPrime, Invites!Goto
  <2> QED
    BY <1>2, <2>1, EndsQuietly
<1> QED
  BY <1>3, <1>4, <1>5

LEMMA AcceptCheckInv ==
  ASSUME InviteInv, NEW h \in Handler, Invites!AcceptCheck(h)
  PROVE  InviteInv'
<1>1. inviting[h].pc \in Invites!Accepting /\ inviting[h].pc # "acceptPrime"
  BY DEF Invites!AcceptCheck, Invites!Accepting
<1>2. UNCHANGED <<member, invite, prime, mailed, paired>>
  BY DEF Invites!AcceptCheck
<1>3. \/ inviting' = [inviting EXCEPT ![h] = [inviting[h] EXCEPT !.pc = "accept"]]
      \/ inviting' = [inviting EXCEPT ![h] = Invites!Idle]
  BY DEF Invites!AcceptCheck, Invites!Goto, Invites!Done
<1> QED
  BY <1>1, <1>2, <1>3, AcceptorGoes, EndsQuietly

LEMMA WriteAcceptedInv ==
  ASSUME InviteInv, NEW h \in Handler, Invites!WriteAccepted(h)
  PROVE  InviteInv'
<1> PICK i : i = inviting[h].invite
  OBVIOUS
<1> PICK e : e = invite[i]
  OBVIOUS
<1> PICK r : r = [to |-> e.to, kind |-> e.kind, accepted |-> TRUE, expired |-> e.expired]
  OBVIOUS
<1>1. i \in mailed /\ i \in Invites!Rows /\ e \in Invites!InviteRow
  BY RowsAre DEF Invites!WriteAccepted, InviteInv, Accepts, Grants, Invites!Accepting, InviteTypeOK
<1>2. r \in Invites!InviteRow /\ r = [e EXCEPT !.accepted = TRUE]
  BY <1>1, InviteRowShape DEF Invites!InviteRow
<1>3. UNCHANGED <<prime, mailed, paired>>
  BY DEF Invites!WriteAccepted
<1>4. CASE member[e.to] = "none"
  <2>1. /\ member' = [member EXCEPT ![e.to] = "ADMIN"]
        /\ invite' = [invite EXCEPT ![i] = r]
        /\ inviting' = [Invites!Changed(i) EXCEPT ![h] = Invites!Idle]
    BY <1>2, <1>4 DEF Invites!WriteAccepted
  <2>2. /\ member' \in [Invites!Account -> {"OWNER", "ADMIN", "none"}]
        /\ member'[Owner] = "OWNER"
    BY <1>4, <2>1 DEF InviteInv, InviteTypeOK, Invites!Account
  <2>3. /\ inviting' \in [Handler -> Invites!HandlerState]
        /\ \A g \in Handler :
             inviting'[g] = Invites!Idle \/ inviting'[g] = Invites!Changed(i)[g]
    <3>1. \A g \in Handler : Invites!Changed(i)[g] \in Invites!HandlerState
      BY ChangedIs DEF InviteInv
    <3>2. Invites!Changed(i) = [g \in Handler |-> Invites!Changed(i)[g]]
      BY DEF Invites!Changed
    <3>3. PICK f : f = Invites!Changed(i)
      OBVIOUS
    <3> QED
      BY <2>1, <3>1, <3>2, <3>3, InvitingStates
  <2>4. r # Invites!Deleted
    BY <1>2, InviteRowShape
  <2> QED
    BY <1>1, <1>2, <1>3, <2>1, <2>2, <2>3, <2>4, InviteChanges
<1>5. CASE member[e.to] # "none"
  <2>1. inviting' = [inviting EXCEPT ![h] = Invites!Idle] /\ UNCHANGED <<member, invite>>
    BY <1>5 DEF Invites!WriteAccepted, Invites!Done, Invites!Goto
  <2> QED
    BY <1>3, <2>1, EndsQuietly
<1> QED
  BY <1>4, <1>5

\* The subscription, from whichever action.
LEMMA PrimeInv ==
  ASSUME InviteInv,
         \/ \E h \in Handler : Invites!WriteExpired(h) \/ Invites!WriteSubscription(h)
         \/ Invites!PrimeRunsOut
  PROVE  InviteInv'
<1>1. \A g \in Handler : Invites!Turned[g] \in Invites!HandlerState
  BY TurnedIs DEF InviteInv
<1>2. Invites!Turned = [g \in Handler |-> Invites!Turned[g]]
  BY DEF Invites!Turned
<1>3. PICK f : f = Invites!Turned
  OBVIOUS
<1>4. prime \in Invites!PrimeRow /\ inviting \in [Handler -> Invites!HandlerState]
  BY DEF InviteInv, InviteTypeOK
<1>5. ASSUME NEW h \in Handler, Invites!WriteExpired(h) PROVE InviteInv'
  <2>1. prime' \in Invites!PrimeRow
    BY <1>4, <1>5 DEF Invites!WriteExpired, Invites!PrimeRow
  <2>2. /\ inviting' \in [Handler -> Invites!HandlerState]
        /\ \A g \in Handler : inviting'[g] = Invites!Idle \/ inviting'[g] = Invites!Turned[g]
    BY <1>1, <1>2, <1>3, <1>5, InvitingStates DEF Invites!WriteExpired
  <2> QED
    BY <1>5, <2>1, <2>2, PrimeChanges DEF Invites!WriteExpired
<1>6. ASSUME NEW h \in Handler, Invites!WriteSubscription(h) PROVE InviteInv'
  <2>1. prime' \in Invites!PrimeRow
    BY <1>4, <1>6, InvitingShapes DEF Invites!WriteSubscription
  <2>2. /\ inviting' \in [Handler -> Invites!HandlerState]
        /\ \A g \in Handler : inviting'[g] = Invites!Idle \/ inviting'[g] = Invites!Turned[g]
    BY <1>1, <1>2, <1>3, <1>6, InvitingStates DEF Invites!WriteSubscription
  <2> QED
    BY <1>6, <2>1, <2>2, PrimeChanges DEF Invites!WriteSubscription
<1>7. ASSUME Invites!PrimeRunsOut PROVE InviteInv'
  <2>1. prime' \in Invites!PrimeRow
    BY <1>4, <1>7 DEF Invites!PrimeRunsOut, Invites!PrimeRow
  <2> QED
    BY <1>1, <1>2, <1>7, <2>1, PrimeChanges DEF Invites!PrimeRunsOut
<1> QED
  BY <1>5, <1>6, <1>7

LEMMA OthersInv ==
  ASSUME InviteInv,
         \/ \E a \in Invites!Account : \/ Invites!RegisterManager(a) \/ Invites!RegisterOther(a)
                                       \/ \E b \in Invites!Account : Invites!RevokeMembership(a, b)
         \/ UNCHANGED inviteVars
  PROVE  InviteInv'
<1>1. CASE \E a \in Invites!Account : Invites!RegisterManager(a) \/ Invites!RegisterOther(a)
  BY <1>1, MembersChange
  DEF Invites!RegisterManager, Invites!RegisterOther, Invites!Register, InviteInv, InviteTypeOK
<1>2. ASSUME NEW a \in Invites!Account, NEW b \in Invites!Account, Invites!RevokeMembership(a, b)
      PROVE  InviteInv'
  <2>1. /\ member' \in [Invites!Account -> {"OWNER", "ADMIN", "none"}]
        /\ member'[Owner] = "OWNER"
    BY <1>2 DEF Invites!RevokeMembership, Invites!MayRevoke, InviteInv, InviteTypeOK, Invites!Account
  <2> QED
    BY <1>2, <2>1, MembersChange DEF Invites!RevokeMembership
<1>3. CASE UNCHANGED inviteVars
  BY <1>3, MembersChange DEF inviteVars, InviteInv, InviteTypeOK
<1> QED
  BY <1>1, <1>2, <1>3

LEMMA InviteCrashInv ==
  ASSUME InviteInv, Invites!Crash
  PROVE  InviteInv'
<1>1. /\ inviting' = [h \in Handler |-> Invites!Idle]
      /\ UNCHANGED <<member, invite, prime, mailed, paired>>
  BY DEF Invites!Crash
<1>2. UNCHANGED Invites!Rows /\ \A a : Open(a)' = Open(a)
  BY <1>1 DEF Invites!Rows, Open, Invites!Pending
<1>3. \A h \in Handler :
        inviting'[h].pc \notin Invites!Inviting \cup Sending \cup Invites!Accepting
  BY <1>1, InvitingStates DEF Invites!Inviting, Sending, Invites!Accepting
<1>4. InviteTypeOK'
  BY <1>1, <1>2, InvitingStates
  DEF InviteInv, InviteTypeOK, Invites!Account, Invites!PrimeRow, Invites!HandlerState
<1>5. Makers /\ Senders
  BY <1>3 DEF Makers, Senders
<1>6. \A h \in Handler : Accepts(inviting[h])'
  BY <1>3 DEF Accepts, Invites!Accepting
<1> QED
  BY <1>1, <1>2, <1>4, <1>5, <1>6, MakesStays, SendsStays DEF InviteInv

LEMMA InitInviteInv == Invites!Init => InviteInv
<1> SUFFICES ASSUME Invites!Init PROVE InviteInv
  OBVIOUS
<1>1. \A h \in Handler :
        /\ inviting[h] = Invites!Idle
        /\ inviting[h].pc \notin Invites!Inviting \cup Sending \cup Invites!Accepting
  BY InvitingStates DEF Invites!Init, Invites!Inviting, Sending, Invites!Accepting
<1>2. Invites!Rows = {} /\ \A a : Open(a) = {}
  BY DEF Invites!Init, Invites!Rows, Open, Invites!Pending
<1>3. InviteTypeOK
  BY <1>2, InvitingStates DEF Invites!Init, InviteTypeOK, Invites!Account, Invites!PrimeRow
<1>4. MakesOne /\ SendsOne
  BY <1>1, <1>2 DEF MakesOne, SendsOne, Makes
<1> QED
  BY <1>1, <1>3, <1>4 DEF InviteInv, Accepts

LEMMA NextInviteInv ==
  InviteInv /\ [SessionStep \/ InviteStep]_<<vars, inviteVars>> => InviteInv'
<1> SUFFICES ASSUME InviteInv, [SessionStep \/ InviteStep]_<<vars, inviteVars>>
             PROVE  InviteInv'
  OBVIOUS
<1>1. CASE UNCHANGED inviteVars
  BY <1>1, OthersInv
<1>2. CASE Invites!Next
  <2>1. ASSUME NEW h \in Handler, Invites!GetSubscription(h) PROVE InviteInv'
    BY <2>1, ExpiresQuietly DEF Invites!GetSubscription, Invites!Goto
  <2>2. ASSUME NEW h \in Handler, NEW a \in Invites!Account,
               Invites!ActivateStub(h, a) \/ Invites!DeactivateStub(h, a)
        PROVE  InviteInv'
    BY <2>2, SubscribeInv
  <2>3. ASSUME NEW h \in Handler,
               \/ Invites!AssertPrime(h) \/ Invites!CheckInvitee(h) \/ Invites!CheckPending(h)
               \/ Invites!MailInvite(h) \/ Invites!DeleteInvite(h)
        PROVE  InviteInv'
    BY <2>3, AssertPrimeInv, CheckInviteeInv, CheckPendingInv, MailInviteInv, DeleteInviteInv
  <2>4. ASSUME NEW h \in Handler,
               Invites!AcceptPrime(h) \/ Invites!AcceptCheck(h) \/ Invites!WriteAccepted(h)
        PROVE  InviteInv'
    BY <2>4, AcceptPrimeInv, AcceptCheckInv, WriteAcceptedInv
  <2> QED
    BY <1>2, <2>1, <2>2, <2>3, <2>4, InsertInviteInv, CreateInviteInv, AcceptInviteInv,
       PrimeInv, OthersInv, InviteExpiresInv, InviteCrashInv
    DEF Invites!Next
<1> QED
  BY <1>1, <1>2 DEF SessionStep, InviteStep

\* The invariant holds in every reachable state.
THEOREM InviteInvariance == AccountsSpec => []InviteInv
<1>1. AccountsInit => InviteInv
  BY InitInviteInv DEF AccountsInit
<1> QED
  BY <1>1, NextInviteInv, PTL DEF AccountsSpec

\* Beside the invites, the sessions behave as they do by themselves.
LEMMA SessionsByThemselves == AccountsSpec => Spec
<1>1. AccountsInit => Init
  BY DEF AccountsInit
<1>2. [SessionStep \/ InviteStep]_<<vars, inviteVars>> => [Next]_vars
  BY DEF SessionStep, InviteStep
<1> QED
  BY <1>1, <1>2, PTL DEF AccountsSpec, Spec

\* So whatever was proved of the sessions holds beside the invites too: a replaced
\* session is dead, nothing is given up but for its successor, a token buys one
\* session, and a reset ends those before it.
THEOREM SessionsAreSafe ==
  AccountsSpec =>
    [](ReplacedIsDead /\ GivenUpForSuccessor /\ RefreshedOnce /\ ResetEndsSessions)
BY SessionsByThemselves, ReplacedStaysDead, SuccessorFollows, RefreshBuysOne, ResetEndsThem, PTL

LEMMA InvitesCountAlike == \A S : Invites!Cardinality(S) = Cardinality(S)
  BY DEF Invites!Cardinality, Cardinality

\* createInvite: an account has at most one invite that it may accept, of whichever
\* kind, unless two were being made for it at once.
THEOREM OneInviteIsOpen == AccountsSpec => []OneOpenInvite
<1>1. InviteInv => OneOpenInvite
  <2> SUFFICES ASSUME InviteInv, NEW a \in Invites!Account \ paired
               PROVE  Cardinality(Invites!Pending(a, "TEAM") \cup Invites!Pending(a, "CROSS")) <= 1
    BY InvitesCountAlike DEF OneOpenInvite, Invites!OneOpenInvite
  <2>1. Invites!Pending(a, "TEAM") \cup Invites!Pending(a, "CROSS") = Open(a)
    BY OpenIs
  <2>2. \A i, j \in Open(a) : i = j
    BY DEF InviteInv, MakesOne
  <2>3. Open(a) = {} \/ \E i : Open(a) = {i}
    BY <2>2
  <2>4. Cardinality(Open(a)) <= 1
    BY <2>3, FS_EmptySet, FS_Singleton
  <2> QED
    BY <2>1, <2>4
<1> QED
  BY <1>1, InviteInvariance, PTL

\* acceptInvite, revokeMembership: whoever comes to have access has it by an invite
\* that was sent to it, is of its kind and open, and with Prime where it takes Prime,
\* but for what changed while it was being accepted.
THEOREM AccessIsGranted == AccountsSpec => OpenInviteGrants
<1> DEFINE Given(a) ==
      \E h \in Handler :
        /\ inviting[h].pc = "accept" /\ inviting'[h] = Invites!Idle
        /\ LET i == inviting[h].invite
           IN  /\ i \in mailed /\ invite[i].to = a
               /\ a \in IF invite[i].kind = "TEAM" THEN Invites!Team' ELSE Invites!CrossPartners'
               /\ inviting[h].changed \/ (~invite[i].accepted /\ ~invite[i].expired)
               /\ inviting[h].turned \/ invite[i].kind = "CROSS" \/ Invites!IsPrimeActive
<1>1. ASSUME InviteInv, [SessionStep \/ InviteStep]_<<vars, inviteVars>>,
             NEW a \in Invites!Account, member[a] = "none", member'[a] # "none"
      PROVE  Given(a)
  <2>1. \/ \E h \in Handler : Invites!WriteAccepted(h)
        \/ \E b, c \in Invites!Account : Invites!RevokeMembership(b, c)
    BY <1>1
    DEF SessionStep, InviteStep, inviteVars, Invites!Next, Invites!GetSubscription,
        Invites!WriteExpired, Invites!WriteSubscription, Invites!AssertPrime,
        Invites!WithPrime, Invites!CheckInvitee, Invites!CheckPending, Invites!MailInvite,
        Invites!DeleteInvite, Invites!AcceptPrime, Invites!AcceptCheck, Invites!InsertInvite,
        Invites!ActivateStub, Invites!DeactivateStub, Invites!Subscribe, Invites!CreateInvite,
        Invites!AcceptInvite, Invites!RegisterManager, Invites!RegisterOther, Invites!Register,
        Invites!InviteExpires, Invites!PrimeRunsOut, Invites!Crash
  <2>2. PICK h \in Handler : Invites!WriteAccepted(h)
    BY <1>1, <2>1 DEF Invites!RevokeMembership, InviteInv, InviteTypeOK
  <2> PICK i : i = inviting[h].invite
    OBVIOUS
  <2>3. Grants(inviting[h]) /\ inviting[h].pc = "accept"
    BY <1>1, <2>2 DEF Invites!WriteAccepted, InviteInv, Accepts, Invites!Accepting
  <2>4. i \in Invites!Rows /\ invite[i] \in Invites!InviteRow
    BY <1>1, <2>3, RowsAre DEF Grants, InviteInv, InviteTypeOK
  <2>5. invite[i].to = a /\ member' = [member EXCEPT ![a] = "ADMIN"]
    BY <1>1, <2>2 DEF Invites!WriteAccepted, InviteInv, InviteTypeOK
  <2>6. inviting'[h] = Invites!Idle
    BY <2>2, <2>5, <1>1 DEF Invites!WriteAccepted, Invites!Changed, Invites!Done, Invites!Goto,
       InviteInv, InviteTypeOK
  <2>7. member'[a] = "ADMIN" /\ a # Owner
    BY <1>1, <2>5 DEF InviteInv, InviteTypeOK
  <2>8. a \in IF invite[i].kind = "TEAM" THEN Invites!Team' ELSE Invites!CrossPartners'
    BY <2>3, <2>5, <2>7
    DEF Grants, Invites!KindMatches, Invites!Team, Invites!CrossPartners, Invites!Admins
  <2>9. invite[i].kind \in {"TEAM", "CROSS"}
    BY <2>4, InviteRowShape DEF Invites!InviteKind
  <2>10. inviting[h].turned \/ invite[i].kind = "CROSS" \/ Invites!IsPrimeActive
    BY <2>3, <2>9 DEF Grants
  <2>11. inviting[h].changed \/ (~invite[i].accepted /\ ~invite[i].expired)
    BY <2>3 DEF Grants
  <2>12. i \in mailed
    BY <2>3 DEF Grants
  <2> QED
    BY <2>3, <2>5, <2>6, <2>8, <2>10, <2>11, <2>12
<1>2. InviteInv /\ [SessionStep \/ InviteStep]_<<vars, inviteVars>> =>
        [\A a \in Invites!Account : member[a] = "none" /\ member'[a] # "none" => Given(a)]_(Invites!vars)
  BY <1>1
<1> QED
  BY <1>2, InviteInvariance, PTL DEF AccountsSpec, OpenInviteGrants, Invites!OpenInviteGrants
=============================================================================
