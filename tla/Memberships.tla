----------------------------- MODULE Memberships -----------------------------
(***************************************************************************)
(* Who has access to one company profile: its memberships and the invites  *)
(* they come from (src/src/auth/invites.service.ts,                        *)
(* src/src/accounts/account-membership.service.ts), and the Prime          *)
(* subscription that a team needs                                          *)
(* (src/src/billing/prime-subscription.service.ts).                        *)
(*                                                                         *)
(* A handler is cut at its awaits; a transaction is one step; a request    *)
(* that is refused changes nothing and is no action.  Time is what it      *)
(* changes: an invite expires, a subscription runs out.                    *)
(*                                                                         *)
(* A definition marked "mutant" is one below it with a mistake in it: it   *)
(* is used nowhere, and shows that the properties tell the two apart.      *)
(***************************************************************************)
EXTENDS Naturals, FiniteSets

CONSTANTS
  Owner,    \* the account the profile was registered with
  Manager,  \* accounts whose own profile is a manager's
  Partner,  \* accounts whose own profile is another company's or a creator's
  InviteId, \* uuids for invites: bounds how many are made
  Handler   \* requests in flight: bounds the concurrency

VARIABLES
  registered,  \* the Account rows; an account is also its e-mail address
  member,      \* the AccountMembership rows of the profile
  invite,      \* the AccountInvite rows of the profile
  prime,       \* the columns of the subscription in the profile's User row
  handler,     \* the local state of each request in flight
  mailed,      \* history: the invites whose letter has been queued
  raced,       \* history: accounts for which two invites were made at once
  interrupted  \* history: the process has died with requests in flight

vars == <<registered, member, invite, prime, handler, mailed, raced, interrupted>>
-----------------------------------------------------------------------------
Account == {Owner} \cup Manager \cup Partner

MembershipRole == {"OWNER", "ADMIN"}

InviteKind == {"TEAM", "CROSS"}

InviteRow == [to: Account, kind: InviteKind, accepted: BOOLEAN, expired: BOOLEAN]

Absent == [to |-> "absent"]
Deleted == [to |-> "deleted"]

\* expiresAt: null, ahead or past.
PrimeRow == [status: {"NONE", "ACTIVE", "EXPIRED", "CANCELED"},
             expiresAt: {"null", "ahead", "past"}]

Idle == [pc |-> "idle"]

\* For the history, a handler carries whether the invite, or the subscription,
\* has changed since it read it.
HandlerState ==
  {Idle}
    \cup [pc: {"prime", "invitee", "pending", "insert"}, to: Account, kind: InviteKind]
    \cup [pc: {"mail", "delete"}, invite: InviteId]
    \cup [pc: {"acceptPrime", "acceptCheck", "accept"}, invite: InviteId,
          changed: BOOLEAN, turned: BOOLEAN]
    \cup [pc: {"subscribe"}, row: PrimeRow]
    \cup [pc: {"expire"}]

Rows == {i \in InviteId : invite[i] \notin {Absent, Deleted}}

Members == {a \in Account : member[a] # "none"}

Admins == {a \in Account : member[a] = "ADMIN"}

Goto(h, local) == handler' = [handler EXCEPT ![h] = local]
Done(h) == Goto(h, Idle)

Inviting == {"prime", "invitee", "pending", "insert"}
Accepting == {"acceptPrime", "acceptCheck", "accept"}

\* The handlers after a change of the invite, and after one of the subscription.
Changed(i) ==
  [h \in Handler |-> IF handler[h].pc \in Accepting /\ handler[h].invite = i
                     THEN [handler[h] EXCEPT !.changed = TRUE] ELSE handler[h]]

Turned ==
  [h \in Handler |-> IF handler[h].pc \in {"acceptCheck", "accept"}
                     THEN [handler[h] EXCEPT !.turned = TRUE] ELSE handler[h]]
-----------------------------------------------------------------------------
(* Reading the memberships.                                                 *)

\* listProfileMembers: managers who have been given access.
Team == Admins \cap Manager

\* listOutgoingCrossPartners: companies and creators who have.
CrossPartners == Admins \cap Partner

\* assertCanInvite, assertCanManageMembers, assertCanManageSubscription.
CanManage(a) == member[a] \in MembershipRole

\* assertInviteKindMatchesAccount
KindMatches(kind, a) ==
  IF kind = "TEAM" THEN a \in Manager ELSE a \in Partner \cup {Owner}
-----------------------------------------------------------------------------
(* The subscription.                                                        *)

IsPrimeActive == prime.status = "ACTIVE" /\ prime.expiresAt # "past"

\* syncAndMap writes EXPIRED when it reads this.
HasRunOut == prime.status = "ACTIVE" /\ prime.expiresAt = "past"

\* getSubscription, from whichever handler asks.
GetSubscription(h) ==
  /\ handler[h] = Idle
  /\ HasRunOut
  /\ Goto(h, [pc |-> "expire"])
  /\ UNCHANGED <<registered, member, invite, prime, mailed, raced, interrupted>>

\* The update names the row by its id alone.
WriteExpired(h) ==
  /\ handler[h].pc = "expire"
  /\ prime' = [prime EXCEPT !.status = "EXPIRED"]
  /\ handler' = [Turned EXCEPT ![h] = Idle]
  /\ UNCHANGED <<registered, member, invite, mailed, raced, interrupted>>

Subscribe(h, a, row) ==
  /\ CanManage(a)
  /\ handler[h] = Idle
  /\ Goto(h, [pc |-> "subscribe", row |-> row])
  /\ UNCHANGED <<registered, member, invite, prime, mailed, raced, interrupted>>

ActivateStub(h, a) ==
  \E expiresAt \in {"null", "ahead"} :
    Subscribe(h, a, [status |-> "ACTIVE", expiresAt |-> expiresAt])

DeactivateStub(h, a) ==
  Subscribe(h, a, [status |-> "CANCELED", expiresAt |-> "past"])

WriteSubscription(h) ==
  /\ handler[h].pc = "subscribe"
  /\ prime' = handler[h].row
  /\ handler' = [Turned EXCEPT ![h] = Idle]
  /\ UNCHANGED <<registered, member, invite, mailed, raced, interrupted>>

\* Where a handler asks for the subscription: it goes on only with Prime.
WithPrime(h, next) ==
  /\ Goto(h, IF IsPrimeActive THEN next
             ELSE IF HasRunOut THEN [pc |-> "expire"] ELSE Idle)
  /\ UNCHANGED <<registered, member, invite, prime, mailed, raced, interrupted>>
-----------------------------------------------------------------------------
Init ==
  /\ registered = {Owner}
  /\ member = [a \in Account |-> IF a = Owner THEN "OWNER" ELSE "none"]
  /\ invite = [i \in InviteId |-> Absent]
  /\ prime = [status |-> "NONE", expiresAt |-> "null"]
  /\ handler = [h \in Handler |-> Idle]
  /\ mailed = {}
  /\ raced = {}
  /\ interrupted = FALSE

\* An account is made with the profile of its own that says what it is.
Register(a) ==
  /\ registered' = registered \cup {a}
  /\ UNCHANGED <<member, invite, prime, handler, mailed, raced, interrupted>>

RegisterManager(a) == a \in Manager \ registered /\ Register(a)
RegisterOther(a) == a \in Partner \ registered /\ Register(a)
-----------------------------------------------------------------------------
(* createInvite                                                             *)

\* The addressee may have no account yet.
CreateInvite(h, a, to, kind) ==
  /\ CanManage(a)
  /\ handler[h] = Idle
  /\ Goto(h, [pc |-> IF kind = "TEAM" THEN "prime" ELSE "invitee", to |-> to, kind |-> kind])
  /\ raced' = raced \cup {handler[g].to : g \in {g \in Handler :
                            handler[g].pc \in Inviting /\ handler[g].to = to}}
  /\ UNCHANGED <<registered, member, invite, prime, mailed, interrupted>>

AssertPrime(h) ==
  handler[h].pc = "prime" /\ WithPrime(h, [handler[h] EXCEPT !.pc = "invitee"])

CheckInvitee(h) ==
  /\ handler[h].pc = "invitee"
  /\ LET to == handler[h].to
     IN IF /\ to \in registered => KindMatches(handler[h].kind, to)
           /\ member[to] = "none"
        THEN Goto(h, [handler[h] EXCEPT !.pc = "pending"]) ELSE Done(h)
  /\ UNCHANGED <<registered, member, invite, prime, mailed, raced, interrupted>>

PendingOfKind(to, kind) ==  \* mutant
  {i \in Rows : /\ invite[i].to = to /\ invite[i].kind = kind
                /\ ~invite[i].accepted /\ ~invite[i].expired}

Pending(to, kind) ==
  {i \in Rows : invite[i].to = to /\ ~invite[i].accepted /\ ~invite[i].expired}

CheckPending(h) ==
  /\ handler[h].pc = "pending"
  /\ IF Pending(handler[h].to, handler[h].kind) = {}
     THEN Goto(h, [handler[h] EXCEPT !.pc = "insert"]) ELSE Done(h)
  /\ UNCHANGED <<registered, member, invite, prime, mailed, raced, interrupted>>

InsertInvite(h, i) ==
  /\ handler[h].pc = "insert"
  /\ invite[i] = Absent
  /\ invite' = [invite EXCEPT ![i] = [to |-> handler[h].to, kind |-> handler[h].kind,
                                      accepted |-> FALSE, expired |-> FALSE]]
  /\ Goto(h, [pc |-> "mail", invite |-> i])
  /\ UNCHANGED <<registered, member, prime, mailed, raced, interrupted>>

\* The letter is queued, or it is not and the invite goes.
MailInvite(h) ==
  /\ handler[h].pc = "mail"
  /\ \/ mailed' = mailed \cup {handler[h].invite} /\ Done(h)
     \/ Goto(h, [handler[h] EXCEPT !.pc = "delete"]) /\ UNCHANGED mailed
  /\ UNCHANGED <<registered, member, invite, prime, raced, interrupted>>

DeleteInvite(h) ==
  /\ handler[h].pc = "delete"
  /\ invite' = [invite EXCEPT ![handler[h].invite] = Deleted]
  /\ handler' = [Changed(handler[h].invite) EXCEPT ![h] = Idle]
  /\ UNCHANGED <<registered, member, prime, mailed, raced, interrupted>>
-----------------------------------------------------------------------------
(* acceptInvite: with the token in the letter.                              *)

MayAcceptAgain(a, i) == ~invite[i].expired /\ invite[i].to = a  \* mutant

MayAccept(a, i) ==
  ~invite[i].accepted /\ ~invite[i].expired /\ invite[i].to = a

AcceptInvite(h, a, i) ==
  /\ a \in registered
  /\ i \in Rows \cap mailed
  /\ MayAccept(a, i)
  /\ KindMatches(invite[i].kind, a)
  /\ handler[h] = Idle
  /\ Goto(h, [pc |-> "acceptPrime", invite |-> i, changed |-> FALSE, turned |-> FALSE])
  /\ UNCHANGED <<registered, member, invite, prime, mailed, raced, interrupted>>

NeedsPrime(i) == invite[i].kind = "TEAM"

AcceptPrime(h) ==
  /\ handler[h].pc = "acceptPrime"
  /\ LET next == [handler[h] EXCEPT !.pc = "acceptCheck"]
     IN IF NeedsPrime(handler[h].invite) THEN WithPrime(h, next)
        ELSE /\ Goto(h, next)
             /\ UNCHANGED <<registered, member, invite, prime, mailed, raced, interrupted>>

AcceptCheck(h) ==
  /\ handler[h].pc = "acceptCheck"
  /\ IF member[invite[handler[h].invite].to] = "none"
     THEN Goto(h, [handler[h] EXCEPT !.pc = "accept"]) ELSE Done(h)
  /\ UNCHANGED <<registered, member, invite, prime, mailed, raced, interrupted>>

\* The transaction fails on a second membership of one account; whether the
\* invite is still open it does not ask.
WriteAccepted(h) ==
  /\ handler[h].pc = "accept"
  /\ LET i == handler[h].invite
         a == invite[i].to
     IN IF member[a] = "none"
        THEN /\ member' = [member EXCEPT ![a] = "ADMIN"]
             /\ invite' = [invite EXCEPT ![i].accepted = TRUE]
             /\ handler' = [Changed(i) EXCEPT ![h] = Idle]
        ELSE Done(h) /\ UNCHANGED <<member, invite>>
  /\ UNCHANGED <<registered, prime, mailed, raced, interrupted>>
-----------------------------------------------------------------------------

\* assertCanRevokeMembership: by the owner, and not the owner's own.
MayRevoke(a, b) == member[a] = "OWNER" /\ member[b] # "OWNER"

\* What is checked before the row is deleted never changes while it is there.
RevokeMembership(a, b) ==
  /\ b \in Members
  /\ MayRevoke(a, b)
  /\ member' = [member EXCEPT ![b] = "none"]
  /\ UNCHANGED <<registered, invite, prime, handler, mailed, raced, interrupted>>

InviteExpires(i) ==
  /\ i \in Rows
  /\ ~invite[i].expired
  /\ invite' = [invite EXCEPT ![i].expired = TRUE]
  /\ handler' = Changed(i)
  /\ UNCHANGED <<registered, member, prime, mailed, raced, interrupted>>

PrimeRunsOut ==
  /\ prime.expiresAt = "ahead"
  /\ prime' = [prime EXCEPT !.expiresAt = "past"]
  /\ handler' = Turned
  /\ UNCHANGED <<registered, member, invite, mailed, raced, interrupted>>

\* The process dies with what was in flight.
Crash ==
  /\ \E h \in Handler : handler[h] # Idle
  /\ handler' = [h \in Handler |-> Idle]
  /\ interrupted' = TRUE
  /\ UNCHANGED <<registered, member, invite, prime, mailed, raced>>

Next ==
  \/ \E h \in Handler :
       \/ GetSubscription(h) \/ WriteExpired(h) \/ WriteSubscription(h)
       \/ AssertPrime(h) \/ CheckInvitee(h) \/ CheckPending(h)
       \/ MailInvite(h) \/ DeleteInvite(h)
       \/ AcceptPrime(h) \/ AcceptCheck(h) \/ WriteAccepted(h)
       \/ \E i \in InviteId : InsertInvite(h, i)
       \/ \E a \in Account :
            \/ ActivateStub(h, a) \/ DeactivateStub(h, a)
            \/ \E to \in Account, kind \in InviteKind : CreateInvite(h, a, to, kind)
            \/ \E i \in InviteId : AcceptInvite(h, a, i)
  \/ \E a \in Account :
       \/ RegisterManager(a) \/ RegisterOther(a)
       \/ \E b \in Account : RevokeMembership(a, b)
  \/ \E i \in InviteId : InviteExpires(i)
  \/ PrimeRunsOut
  \/ Crash

Spec == Init /\ [][Next]_vars
-----------------------------------------------------------------------------
\* createInvite ("the invite has been sent already"): nobody has two invites
\* that may be accepted, unless two were being made at the same time.
OneOpenInvite ==
  \A a \in Account \ raced : Cardinality(Pending(a, "TEAM") \cup Pending(a, "CROSS")) <= 1

\* acceptInvite: access is given by an invite that was sent to the account's address
\* and is open, and to a manager while the company has Prime, unless the invite or the
\* subscription changed while it was being accepted; and whoever is let in is listed
\* as what it was invited as.  One invite gives access once: whoever is revoked needs
\* another one.
OpenInviteGrants ==
  [][\A a \in Account : member[a] = "none" /\ member'[a] # "none" =>
       \E h \in Handler :
         /\ handler[h].pc = "accept" /\ handler'[h] = Idle
         /\ LET i == handler[h].invite
            IN  /\ i \in mailed /\ invite[i].to = a
                /\ a \in IF invite[i].kind = "TEAM" THEN Team' ELSE CrossPartners'
                /\ handler[h].changed \/ (~invite[i].accepted /\ ~invite[i].expired)
                /\ handler[h].turned \/ invite[i].kind = "CROSS" \/ IsPrimeActive]_vars
=============================================================================
