---------------------------- MODULE Notifications ----------------------------
(***************************************************************************)
(* The notifications of the back end put together: the notices of a chat,  *)
(* the queue their letters go to, the daily reminders, and the messengers. *)
(* They share the processes: what a process was doing dies with it.        *)
(***************************************************************************)
EXTENDS Naturals, FiniteSets

CONSTANTS Message, Server, Window, End, Never,  \* see ChatNotices
          Letter, Attempts,                     \* see MailQueue
          Recipient,                            \* see Reminders
          User, Chat, Token, Call, None         \* see MessengerLinks

ASSUME WindowAssumption == Window \in Nat \ {0}
ASSUME EndAssumption == End \in Nat
ASSUME NeverAssumption == Never \notin Nat
ASSUME KeeperAssumption == "redis" \notin Server
ASSUME AttemptsAssumption == Attempts \in Nat \ {0}

VARIABLES
  clock, entry, call, sent, refused,
  job, adrift, copies, cut,
  open, log, run, off, bell, silent, lost,
  token, connection, request, brought, given

chatVars == <<clock, entry, call, sent, refused>>
mailVars == <<job, adrift, copies, cut>>
cronVars == <<open, log, run, off, bell, silent, lost>>
linkVars == <<token, connection, request, brought, given>>
vars == <<chatVars, mailVars, cronVars, linkVars>>

Notices == INSTANCE ChatNotices
Mail == INSTANCE MailQueue
Cron == INSTANCE Reminders
Links == INSTANCE MessengerLinks WITH call <- request

ASSUME NoneAssumption == None \notin Links!Row \cup Links!TokenRow
-----------------------------------------------------------------------------
Init == Notices!Init /\ Mail!Init /\ Cron!Init /\ Links!Init

NoticeStep ==
  /\ (\E m \in Message : Notices!Continue(m)) \/ Notices!Tick
  /\ UNCHANGED <<mailVars, cronVars, linkVars>>

MailStep(l) ==
  /\ Mail!Enqueue(l) \/ Mail!Worker(l) \/ Mail!Network(l)
  /\ UNCHANGED <<chatVars, cronVars, linkVars>>

CronStep ==
  /\ \/ Cron!Close
     \/ \E r \in Recipient : Cron!Update(r)
     \/ \E s \in Server : Cron!Step(s)
  /\ UNCHANGED <<chatVars, mailVars, linkVars>>

LinkStep ==
  /\ Links!Next
  /\ UNCHANGED <<chatVars, mailVars, cronVars>>

\* The worker of the queue runs in the same processes: one of the letters under way
\* may have been its.
Crash(s) ==
  /\ Notices!Crash(s)
  /\ Cron!Crash(s)
  /\ UNCHANGED mailVars \/ \E l \in Letter : Mail!Stall(l)
  /\ UNCHANGED linkVars

Next ==
  \/ NoticeStep
  \/ \E l \in Letter : MailStep(l)
  \/ CronStep
  \/ LinkStep
  \/ \E s \in Server : Crash(s)

Spec == Init /\ [][Next]_vars

\* The queue goes on, and its timer ends an attempt that nobody answers.  The mail
\* server owes nothing.
FairSpec ==
  /\ Spec
  /\ \A l \in Letter :
       WF_vars(MailStep(l) /\ Mail!Process(l)) /\ WF_vars(MailStep(l) /\ Mail!SmtpTimeout(l))
-----------------------------------------------------------------------------
NoticesApart == Notices!NoticesApart
DigestCountsRefused == Notices!DigestCountsRefused
CopiesExplained == Mail!CopiesExplained
LettersSettle == Mail!LettersSettle
ClaimMeansReminded == Cron!ClaimMeansReminded
ChatServesOneUser == Links!ChatServesOneUser
=============================================================================
