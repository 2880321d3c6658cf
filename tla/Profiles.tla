------------------------------ MODULE Profiles ------------------------------
(***************************************************************************)
(* A profile that is edited while its address is being confirmed           *)
(* (src/src/users/users.service.ts, src/src/auth/auth.service.ts).         *)
(*                                                                         *)
(* An update reads the row, compares the address given with the one read,  *)
(* merges what it is given of `person` with what was read, and writes;     *)
(* confirming reads the row, and writes.  Nothing keeps two of them apart. *)
(*                                                                         *)
(* An address stands for all its spellings.  The columns that are written  *)
(* as they are given are left out, and with them the refusal to clear a    *)
(* name or to give a manager one.                                          *)
(*                                                                         *)
(* A definition marked "mutant" is one below it with a mistake in it; it   *)
(* is used nowhere.                                                        *)
(***************************************************************************)
EXTENDS Naturals, FiniteSets

CONSTANTS
  Address,
  Key,      \* of person
  Value,
  None,     \* null, and a key that is not there
  NotGiven, \* a field the request does not have
  Handler   \* requests in flight: bounds the concurrency

VARIABLES
  profile, \* the User row
  issued,  \* a letter with a token has gone out that has not expired
  said,    \* of each key, what the last update that named it said
  since,   \* a token was used since the address changed
  raced,   \* the columns somebody wrote between the look and the write of another
  handler  \* the local state of each request in flight

vars == <<profile, issued, said, since, raced, handler>>
-----------------------------------------------------------------------------
Nobody == [k \in {} |-> None]  \* person: null

Idle == [pc |-> "idle"]

\* The requests after a write of these columns by h, which is done.
Done(h, columns) ==
  handler' = [g \in Handler |->
                IF g = h THEN Idle
                ELSE IF handler[g] = Idle THEN handler[g]
                ELSE [handler[g] EXCEPT !.stale = @ \cup columns]]

Look(h, pc) ==
  /\ handler[h] = Idle
  /\ handler' = [handler EXCEPT ![h] = [pc |-> pc, read |-> profile, stale |-> {}]]
  /\ UNCHANGED <<profile, issued, said, since, raced>>

\* createCreator, createCompany
Init ==
  /\ profile \in [email: Address, confirmed: {FALSE}, person: {Nobody}]
  /\ issued = FALSE
  /\ said = [k \in Key |-> None]
  /\ since = FALSE
  /\ raced = {}
  /\ handler = [h \in Handler |-> Idle]
-----------------------------------------------------------------------------
(* update                                                                   *)

Update(h) == Look(h, "update")

\* A person of one key or more, or none: parsePerson of what is stored gives the same.
Patch == UNION {[ks -> Value \cup {None}] : ks \in SUBSET Key}

\* mergePerson
MergePerson(existing, incoming) ==
  LET merged(k) == IF k \in DOMAIN incoming THEN incoming[k] ELSE existing[k]
  IN  [k \in {j \in DOMAIN existing \cup DOMAIN incoming : merged(j) # None} |-> merged(k)]

PersonAfter(read, incoming) ==
  CASE incoming = NotGiven -> profile.person
    [] incoming = None     -> Nobody
    [] OTHER               -> MergePerson(read.person, incoming)

SaidAfter(incoming) ==
  CASE incoming = NotGiven -> said
    [] incoming = None     -> [k \in Key |-> None]
    [] OTHER               -> [k \in Key |-> IF k \in DOMAIN incoming THEN incoming[k] ELSE said[k]]

EmailStays(read, email) == FALSE  \* mutant

\* emailChanged
EmailChanged(read, email) == email # NotGiven /\ email # read.email

\* updateUser, and the same for the columns a manager has.
WriteUser(h, email, incoming) ==
  /\ handler[h].pc = "update"
  /\ LET read == handler[h].read
         changed == EmailChanged(read, email)
         address == IF email = NotGiven THEN profile.email ELSE email
         columns == (IF email = NotGiven THEN {} ELSE {"email"})
                      \cup (IF incoming = NotGiven THEN {} ELSE {"person"})
         settled == (IF changed THEN {"email"} ELSE {})
                      \cup (IF incoming = None THEN {"person"} ELSE {})
     IN  /\ profile' = [email |-> address,
                        confirmed |-> profile.confirmed /\ ~changed,
                        person |-> PersonAfter(read, incoming)]
         /\ said' = SaidAfter(incoming)
         /\ since' = (since /\ address = profile.email)
         /\ raced' = (raced \cup (columns \cap handler[h].stale)) \ settled
         /\ Done(h, columns)
  /\ UNCHANGED issued
-----------------------------------------------------------------------------
(* Confirming the address                                                   *)

SendConfirmEmail ==
  /\ ~profile.confirmed
  /\ issued' = TRUE
  /\ UNCHANGED <<profile, said, since, raced, handler>>

TokensExpire ==
  /\ issued
  /\ issued' = FALSE
  /\ UNCHANGED <<profile, said, since, raced, handler>>

\* The token names the profile, not the address.
ConfirmEmail(h) == issued /\ ~profile.confirmed /\ Look(h, "confirm")

WriteConfirmed(h) ==
  /\ handler[h].pc = "confirm"
  /\ profile' = [profile EXCEPT !.confirmed = TRUE]
  /\ since' = (since \/ "email" \notin handler[h].stale)
  /\ raced' = raced \cup ({"email"} \cap handler[h].stale)
  /\ Done(h, {})
  /\ UNCHANGED <<issued, said>>

Next ==
  \/ SendConfirmEmail \/ TokensExpire
  \/ \E h \in Handler :
       \/ Update(h) \/ ConfirmEmail(h) \/ WriteConfirmed(h)
       \/ \E email \in Address \cup {NotGiven}, incoming \in Patch \cup {None, NotGiven} :
            WriteUser(h, email, incoming)

Spec == Init /\ [][Next]_vars
-----------------------------------------------------------------------------
(* Properties                                                               *)

\* A profile counts as confirmed only if a token was used since its address changed
\* (update-user dto: "a change resets the confirmation"), and every key of its person
\* is as the last update that named it left it (users.controller.ts: person is
\* merged), unless somebody wrote the column between the look and the write.
UpdatesAddUp ==
  /\ profile.confirmed => since \/ "email" \in raced
  /\ \/ "person" \in raced
     \/ profile.person = [k \in {j \in Key : said[j] # None} |-> said[k]]
=============================================================================
