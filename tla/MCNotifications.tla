--------------------------- MODULE MCNotifications ---------------------------
(* A small instance of Notifications.                                       *)
EXTENDS Notifications

\* What the parts have begun.  They share the processes and no variable: one of them
\* is looked at in a behaviour.
NoticesBegun == clock > 0 \/ \E m \in Message : call[m].pc # "new"
LettersBegun == \E l \in Letter : job[l].state # "none"
RemindersBegun ==
  \/ ~open \/ log # {} \/ lost # {} \/ off # {}
  \/ \E s \in Server : run[s].pc # "idle"
  \/ \E r \in Recipient : bell[r] > 0
LinksBegun == \E t \in Token : token[t] # None

OneAtATime ==
  /\ NoticesBegun => ~LettersBegun /\ ~RemindersBegun /\ ~LinksBegun
  /\ LettersBegun => ~RemindersBegun /\ ~LinksBegun
  /\ RemindersBegun => ~LinksBegun

\* Bounds the reminders made again, to one; one recipient at a time has them off.
FewReminders ==
  /\ \A r \in Recipient : bell[r] <= 2
  /\ Cardinality({r \in Recipient : bell[r] = 2}) <= 1
  /\ Cardinality(off) <= 1

\* Messages are told in the order of their numbers, the first by a process that is
\* named: nothing tells them, or the processes, apart.
InOrder ==
  /\ \A m, n \in Message : m < n /\ call[n].pc # "new" => call[m].pc # "new"
  /\ call[1].pc \in {"askMail", "askMessenger"} => call[1].at = CHOOSE s \in Server : TRUE

Small == OneAtATime /\ FewReminders /\ InOrder
=============================================================================
