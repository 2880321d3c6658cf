------------------------------ MODULE Reminders ------------------------------
(***************************************************************************)
(* The daily reminder of a deadline                                        *)
(* (src/src/notifications/deadline-reminder.service.ts).  Every process    *)
(* runs the job; a row of the log, unique for task, recipient, kind and    *)
(* deadline, is taken before the notice is made and given back when that   *)
(* fails.  Who has switched the reminders off in the application gets none *)
(* there, and the row is kept all the same.  One task whose deadline is in *)
(* one of the windows.                                                     *)
(***************************************************************************)
(* A definition marked "mutant" is the one below it with a mistake in it;  *)
(* it is used nowhere.                                                     *)
EXTENDS Naturals

CONSTANTS
  Recipient,  \* the owner and the executor of the task
  Server      \* processes of the back end

VARIABLES
  open,   \* the task is in no terminal status
  log,    \* the recipients a row of DeadlineReminderLog is there for
  run,    \* the job of each process
  off,    \* the recipients whose inAppNotificationTypes leave the reminders out
  bell,   \* how many reminders a recipient has in the application
  silent, \* history: the recipients notify passed over, having found them switched off
  lost    \* history: the recipients whose row was not given back

vars == <<open, log, run, off, bell, silent, lost>>
history == <<silent, lost>>
-----------------------------------------------------------------------------
Idle == [pc |-> "idle"]

Run ==
  {Idle}
    \cup [pc: {"next"}, left: SUBSET Recipient]
    \cup [pc: {"ask", "notify", "rest", "undo"}, left: SUBSET Recipient, who: Recipient]

Goto(s, local) == run' = [run EXCEPT ![s] = local]

Init ==
  /\ open = TRUE
  /\ log = {}
  /\ run = [s \in Server |-> Idle]
  /\ off = {}
  /\ bell = [r \in Recipient |-> 0]
  /\ silent = {}
  /\ lost = {}
-----------------------------------------------------------------------------
\* The list is read at the start, and the flag admits one job per process.
HandleDailyCron(s) ==
  /\ run[s] = Idle
  /\ Goto(s, [pc |-> "next", left |-> IF open THEN Recipient ELSE {}])
  /\ UNCHANGED <<open, log, off, bell, history>>

\* A row that is there already means that the reminder is somebody else's.
Claim(s, r) ==
  /\ run[s].pc = "next"
  /\ r \in run[s].left
  /\ Goto(s, IF r \in log THEN [run[s] EXCEPT !.left = @ \ {r}]
             ELSE [pc |-> "ask", left |-> run[s].left \ {r}, who |-> r])
  /\ log' = log \cup {r}
  /\ UNCHANGED <<open, off, bell, history>>

\* notify asks for the setting first, and leaves the notice out by the answer.
IsInAppEnabled(s) ==
  /\ run[s].pc = "ask"
  /\ LET r == run[s].who IN
     \/ /\ r \notin off
        /\ Goto(s, [run[s] EXCEPT !.pc = "notify"])
        /\ UNCHANGED silent
     \/ /\ r \in off
        /\ Goto(s, [run[s] EXCEPT !.pc = "rest"])
        /\ silent' = silent \cup {r}
  /\ UNCHANGED <<open, log, off, bell, lost>>

InsertNotice(s) ==
  /\ run[s].pc = "notify"
  /\ bell' = [bell EXCEPT ![run[s].who] = @ + 1]
  /\ Goto(s, [run[s] EXCEPT !.pc = "rest"])
  /\ UNCHANGED <<open, log, off, history>>

\* The rest of notify: the number of the unread, then the other channels.
Notified(s) ==
  /\ run[s].pc = "rest"
  /\ Goto(s, [pc |-> "next", left |-> run[s].left])
  /\ UNCHANGED <<open, log, off, bell, history>>

NotifyFails(s) ==
  /\ run[s].pc \in {"ask", "notify", "rest"}
  /\ Goto(s, [run[s] EXCEPT !.pc = "undo"])
  /\ UNCHANGED <<open, log, off, bell, history>>

KeepRow(s) ==  \* mutant
  /\ run[s].pc = "undo"
  /\ Goto(s, Idle)
  /\ UNCHANGED <<open, log, off, bell, history>>

\* The row is given back and the error ends the job: nobody else is reminded.
GiveBack(s) ==
  /\ run[s].pc = "undo"
  /\ log' = log \ {run[s].who}
  /\ silent' = silent \ {run[s].who}
  /\ Goto(s, Idle)
  /\ UNCHANGED <<open, off, bell, lost>>

GiveBackFails(s) ==
  /\ run[s].pc = "undo"
  /\ lost' = lost \cup {run[s].who}
  /\ Goto(s, Idle)
  /\ UNCHANGED <<open, log, off, bell, silent>>

Ends(s) ==
  /\ run[s].pc = "next"
  /\ run[s].left = {}
  /\ Goto(s, Idle)
  /\ UNCHANGED <<open, log, off, bell, history>>

\* A process that dies leaves the row of the reminder it was about to make.
Crash(s) ==
  /\ lost' = IF run[s].pc \in {"ask", "notify", "undo"} THEN lost \cup {run[s].who} ELSE lost
  /\ Goto(s, Idle)
  /\ UNCHANGED <<open, log, off, bell, silent>>

\* The task is completed or annulled meanwhile.
Close ==
  /\ open
  /\ open' = FALSE
  /\ UNCHANGED <<log, run, off, bell, history>>

\* update: a user switches his reminders in the application on or off.
Update(r) ==
  /\ off' = IF r \in off THEN off \ {r} ELSE off \cup {r}
  /\ UNCHANGED <<open, log, run, bell, history>>

Step(s) ==
  \/ HandleDailyCron(s)
  \/ \E r \in Recipient : Claim(s, r)
  \/ IsInAppEnabled(s) \/ InsertNotice(s) \/ Notified(s) \/ NotifyFails(s)
  \/ GiveBack(s) \/ GiveBackFails(s)
  \/ Ends(s)
-----------------------------------------------------------------------------
(* Properties                                                               *)

\* Every variable keeps its type.
TypeOK ==
  /\ open \in BOOLEAN
  /\ log \subseteq Recipient
  /\ run \in [Server -> Run]
  /\ off \subseteq Recipient
  /\ bell \in [Recipient -> Nat]
  /\ silent \subseteq Recipient
  /\ lost \subseteq Recipient

\* A row of the log stands for a reminder in the application, made or in the making,
\* or for one its recipient had switched off when notify asked
\* (notifications.service.ts:53), unless a process died between the row and the notice
\* or could not give the row back (deadline-reminder.service.ts:168, 213).
ClaimMeansReminded ==
  \A r \in log :
    \/ bell[r] > 0
    \/ r \in silent
    \/ r \in lost
    \/ \E s \in Server : run[s].pc \in {"ask", "notify", "undo"} /\ run[s].who = r
=============================================================================
