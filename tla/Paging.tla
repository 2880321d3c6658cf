------------------------------- MODULE Paging -------------------------------
(***************************************************************************)
(* Scrolling through the messages of one dialog (listMessages of           *)
(* src/src/chat/chat.service.ts), while messages come and go.              *)
(*                                                                         *)
(* The client is not in the repository.  It asks for the last page or for  *)
(* one around a message, and goes on from the first and the last message   *)
(* it shows for as long as the answers say that there are more.            *)
(*                                                                         *)
(* A definition marked "mutant" is one below it with a mistake in it; it   *)
(* is used nowhere.                                                        *)
(***************************************************************************)
EXTENDS Naturals, FiniteSets

CONSTANTS
  Message, \* numbers, for the order of the uuids
  Instant, \* what createdAt may be
  Limit,   \* messages on a page
  Side     \* messages before and after the one asked for

VARIABLES
  createdAt, \* of the messages there are or were; 0 for none yet
  removed,   \* deleted for all
  hiddenFor, \* hidden for the reader
  scroll     \* what the client has: the messages, and whether there are more

vars == <<createdAt, removed, hiddenFor, scroll>>

NoScroll == [open |-> FALSE]

Init ==
  /\ createdAt = [m \in Message |-> 0]
  /\ removed = {}
  /\ hiddenFor = {}
  /\ scroll = NoScroll
-----------------------------------------------------------------------------
Exists(m) == createdAt[m] # 0 /\ m \notin removed

\* baseWhere
Visible == {m \in Message : Exists(m) /\ m \notin hiddenFor}

Precedes(n, m) == createdAt[n] < createdAt[m] \/ (createdAt[n] = createdAt[m] /\ n < m)

EarlierThan(m) == {n \in Visible : createdAt[n] < createdAt[m]}  \* mutant

OlderThan(m) == {n \in Visible : Precedes(n, m)}
NewerThan(m) == {n \in Visible : Precedes(m, n)}

\* orderBy desc and asc with take
Last(found, k) == {m \in found : Cardinality(found \cap NewerThan(m)) < k}
First(found, k) == {m \in found : Cardinality(found \cap OlderThan(m)) < k}

\* One more than wanted is asked for, to know that there is one more.
MoreThan(found, k) == Cardinality(Last(found, k + 1)) > k
-----------------------------------------------------------------------------
(* listMessages                                                             *)

\* The messages the scroll can be expected to show: those it found, while they stay.
Open(items, hasOlder, hasNewer) ==
  scroll' = [open |-> TRUE, shown |-> items, again |-> FALSE, there |-> Visible,
             hasOlder |-> hasOlder, hasNewer |-> hasNewer]

LastPage ==
  /\ ~scroll.open
  /\ Visible # {}
  /\ Open(Last(Visible, Limit), MoreThan(Visible, Limit), FALSE)
  /\ UNCHANGED <<createdAt, removed, hiddenFor>>

Around(m) ==
  /\ ~scroll.open
  /\ m \in Visible
  /\ Open(Last(OlderThan(m), Side) \cup {m} \cup First(NewerThan(m), Side),
          MoreThan(OlderThan(m), Side), MoreThan(NewerThan(m), Side))
  /\ UNCHANGED <<createdAt, removed, hiddenFor>>

Oldest == CHOOSE m \in scroll.shown : \A n \in scroll.shown : ~Precedes(n, m)
Newest == CHOOSE m \in scroll.shown : \A n \in scroll.shown : ~Precedes(m, n)

Show(items) == [scroll EXCEPT !.shown = @ \cup items,
                              !.again = @ \/ scroll.shown \cap items # {}]

\* cursor: a message that is hidden by now will do, one that is deleted will not.
Older ==
  /\ scroll.open /\ scroll.hasOlder
  /\ scroll' = IF ~Exists(Oldest) THEN NoScroll
               ELSE [Show(Last(OlderThan(Oldest), Limit)) EXCEPT
                       !.hasOlder = MoreThan(OlderThan(Oldest), Limit)]
  /\ UNCHANGED <<createdAt, removed, hiddenFor>>

\* after
Newer ==
  /\ scroll.open /\ scroll.hasNewer
  /\ scroll' = IF ~Exists(Newest) THEN NoScroll
               ELSE [Show(First(NewerThan(Newest), Limit)) EXCEPT
                       !.hasNewer = MoreThan(NewerThan(Newest), Limit)]
  /\ UNCHANGED <<createdAt, removed, hiddenFor>>

Leave ==
  /\ scroll.open
  /\ scroll' = NoScroll
  /\ UNCHANGED <<createdAt, removed, hiddenFor>>
-----------------------------------------------------------------------------
(* Meanwhile                                                                *)

NoLongerThere(m) == IF scroll.open THEN [scroll EXCEPT !.there = @ \ {m}] ELSE scroll

\* createdAt is that of the insert: what is committed later may be the earlier one.
CreateMessage(m, t) ==
  /\ createdAt[m] = 0
  /\ createdAt' = [createdAt EXCEPT ![m] = t]
  /\ UNCHANGED <<removed, hiddenFor, scroll>>

RemoveMessage(m) ==
  /\ Exists(m)
  /\ removed' = removed \cup {m}
  /\ scroll' = NoLongerThere(m)
  /\ UNCHANGED <<createdAt, hiddenFor>>

HideMessage(m) ==
  /\ m \in Visible
  /\ hiddenFor' = hiddenFor \cup {m}
  /\ scroll' = NoLongerThere(m)
  /\ UNCHANGED <<createdAt, removed>>

Next ==
  \/ LastPage \/ Older \/ Newer \/ Leave
  \/ \E m \in Message :
       \/ Around(m) \/ RemoveMessage(m) \/ HideMessage(m)
       \/ \E t \in Instant : CreateMessage(m, t)

Spec == Init /\ [][Next]_vars
-----------------------------------------------------------------------------
(* Properties                                                               *)

\* Of the messages that were there when the scroll began and still are, none is left
\* out between the first and the last one shown, none before the first once the
\* answer says that nothing is older, none after the last once it says that nothing
\* is newer; and no message is shown twice.  Messages of one instant, messages that
\* come late, and a first or last one that is hidden meanwhile make no difference.
ScrollIsComplete ==
  scroll.open =>
    /\ ~scroll.again
    /\ \A m \in scroll.there \ scroll.shown :
         \/ m \in OlderThan(Oldest) /\ scroll.hasOlder
         \/ m \in NewerThan(Newest) /\ scroll.hasNewer
=============================================================================
