------------------------------ MODULE MailQueue ------------------------------
(***************************************************************************)
(* The queue of letters (src/src/mail/mail.service.ts, mail.processor.ts): *)
(* a job is tried up to three times, an attempt is given up after twelve   *)
(* seconds, and the server it spoke to may have taken the letter all the   *)
(* same.  The queue itself is BullMQ's: a job whose worker died is taken   *)
(* up again once, and fails the second time.                               *)
(***************************************************************************)
(* A definition marked "mutant" is the one below it with a mistake in it;  *)
(* it is used nowhere.                                                     *)
EXTENDS Naturals

CONSTANTS
  Letter,
  Attempts  \* DEFAULT_JOB_OPTIONS.attempts

VARIABLES
  job,      \* the state of each letter's job
  adrift,   \* letters whose attempt was given up while it was under way
  copies,   \* history: how often the letter was delivered
  cut       \* history: how many attempts were given up while under way

vars == <<job, adrift, copies, cut>>
-----------------------------------------------------------------------------
Job == [state: {"none", "waiting", "sending", "sent", "failed"},
        failures: 0 .. Attempts, stalls: 0 .. 2]

NoJob == [state |-> "none", failures |-> 0, stalls |-> 0]

Init ==
  /\ job = [l \in Letter |-> NoJob]
  /\ adrift = [l \in Letter |-> 0]
  /\ copies = [l \in Letter |-> 0]
  /\ cut = [l \in Letter |-> 0]

Become(l, state) == job' = [job EXCEPT ![l].state = state]

\* An attempt that failed: again after the backoff, or not any more.
AttemptFailed(l) ==
  job' = [job EXCEPT ![l].failures = @ + 1,
                     ![l].state = IF job[l].failures + 1 < Attempts THEN "waiting"
                                  ELSE "failed"]

GoAdrift(l) ==
  /\ adrift' = [adrift EXCEPT ![l] = @ + 1]
  /\ cut' = [cut EXCEPT ![l] = @ + 1]
-----------------------------------------------------------------------------
Enqueue(l) ==
  /\ job[l] = NoJob
  /\ Become(l, "waiting")
  /\ UNCHANGED <<adrift, copies, cut>>

Process(l) ==
  /\ job[l].state = "waiting"
  /\ Become(l, "sending")
  /\ UNCHANGED <<adrift, copies, cut>>

DeliverUnnoticed(l) ==  \* mutant
  /\ job[l].state = "sending"
  /\ AttemptFailed(l)
  /\ copies' = [copies EXCEPT ![l] = @ + 1]
  /\ UNCHANGED <<adrift, cut>>

Deliver(l) ==
  /\ job[l].state = "sending"
  /\ Become(l, "sent")
  /\ copies' = [copies EXCEPT ![l] = @ + 1]
  /\ UNCHANGED <<adrift, cut>>

SmtpRefuses(l) ==
  /\ job[l].state = "sending"
  /\ AttemptFailed(l)
  /\ UNCHANGED <<adrift, copies, cut>>

WaitOn(l) ==  \* mutant
  /\ job[l].state = "sending"
  /\ UNCHANGED vars

\* The race against the timer is lost.
SmtpTimeout(l) ==
  /\ job[l].state = "sending"
  /\ AttemptFailed(l)
  /\ GoAdrift(l)
  /\ UNCHANGED copies

\* What was given up arrives, or does not.
LateDelivery(l) ==
  /\ adrift[l] > 0
  /\ adrift' = [adrift EXCEPT ![l] = @ - 1]
  /\ copies' = [copies EXCEPT ![l] = @ + 1]
  /\ UNCHANGED <<job, cut>>

NeverArrives(l) ==
  /\ adrift[l] > 0
  /\ adrift' = [adrift EXCEPT ![l] = @ - 1]
  /\ UNCHANGED <<job, copies, cut>>

\* The worker dies with its process, its letter may be on the way.
Stall(l) ==
  /\ job[l].state = "sending"
  /\ job' = [job EXCEPT ![l].stalls = @ + 1,
                        ![l].state = IF job[l].stalls = 0 THEN "waiting" ELSE "failed"]
  /\ GoAdrift(l)
  /\ UNCHANGED copies

\* An attempt ends: the server answers or the timer does.
Attempt(l) == Deliver(l) \/ SmtpRefuses(l) \/ SmtpTimeout(l)

Worker(l) == Process(l) \/ Attempt(l)

Network(l) == LateDelivery(l) \/ NeverArrives(l)
-----------------------------------------------------------------------------
(* Properties                                                               *)

\* Every variable keeps its type.
TypeOK ==
  /\ job \in [Letter -> Job]
  /\ adrift \in [Letter -> Nat]
  /\ copies \in [Letter -> Nat]
  /\ cut \in [Letter -> Nat]

\* A letter arrives more than once, or after its job has failed, only where an
\* attempt was cut off while it was under way (mail.service.ts:193).
CopiesExplained ==
  \A l \in Letter :
    copies[l] + adrift[l] <= cut[l] + (IF job[l].state = "sent" THEN 1 ELSE 0)

\* A queued letter is sent or given up in the end, whatever the mail server does:
\* the timer of deliverMail ends an attempt nobody answers (mail.service.ts:202).
LettersSettle ==
  \A l \in Letter :
    job[l].state = "waiting" ~> job[l].state \in {"sent", "failed"}
=============================================================================
