---------------------------- MODULE TaskContract ----------------------------
(***************************************************************************)
(* What the two sides of a task may rely on, whatever the service does to  *)
(* keep it: a task is annulled, and its deadline moved against the owner's *)
(* word, only by the answer of one side to what the other one has asked.   *)
(* It says nothing of handlers, of rows that are read before they are      *)
(* written, or of how many requests are open at a time.                    *)
(***************************************************************************)
EXTENDS Naturals

CONSTANTS
  User,
  Ask,      \* the requests ever made
  Date,
  NoDate,
  Nobody,
  Unasked   \* a request that has not been made

VARIABLES
  annulled,
  deadline,
  ask,      \* who asked for what, and who answered last
  word      \* the deadlines the owner is giving at the moment

vars == <<annulled, deadline, ask, word>>
-----------------------------------------------------------------------------
Subject == {"annulment", "extension"}

Made == [subject: Subject, by: User, date: Date \cup {NoDate},
         answer: {"none", "yes", "no"}, answeredBy: User \cup {Nobody}]

Init ==
  /\ annulled \in BOOLEAN
  /\ deadline \in Date \cup {NoDate}
  /\ ask = [i \in Ask |-> Unasked]
  /\ word = {}

Request(i) ==
  /\ ask[i] = Unasked
  /\ \E r \in Made : /\ r.answer = "none" /\ r.answeredBy = Nobody
                     /\ ask' = [ask EXCEPT ![i] = r]
  /\ UNCHANGED <<annulled, deadline, word>>

\* Only the other side answers; an answer may be given again.
Answer(i, u, a) ==
  /\ ask[i] # Unasked
  /\ u # ask[i].by
  /\ ask' = [ask EXCEPT ![i].answer = a, ![i].answeredBy = u]

Agree(i, u) ==
  /\ Answer(i, u, "yes")
  /\ IF ask[i].subject = "annulment"
     THEN annulled' = TRUE /\ UNCHANGED deadline
     ELSE deadline' = ask[i].date /\ UNCHANGED annulled
  /\ UNCHANGED word

Decline(i, u) ==
  /\ Answer(i, u, "no")
  /\ UNCHANGED <<annulled, deadline, word>>

\* The owner says a new deadline, or falls silent.
Say ==
  /\ word' \in SUBSET (Date \cup {NoDate})
  /\ UNCHANGED <<annulled, deadline, ask>>

\* An update: a deadline the owner has said, and possibly another status.
Change ==
  /\ deadline' \in {deadline} \cup word
  /\ annulled' \in {annulled, FALSE}
  /\ word' \in SUBSET word
  /\ UNCHANGED ask

Next ==
  \/ \E i \in Ask : Request(i)
  \/ \E i \in Ask, u \in User : Agree(i, u) \/ Decline(i, u)
  \/ Say
  \/ Change

Spec == Init /\ [][Next]_vars
=============================================================================
