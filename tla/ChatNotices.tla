----------------------------- MODULE ChatNotices -----------------------------
(***************************************************************************)
(* A chat message is told to a recipient who is not online by letter and   *)
(* by messenger, both through the throttle                                 *)
(* (src/src/notifications/notifications.service.ts, notify, and            *)
(* chat-email-throttle.service.ts).  One recipient, one conversation.      *)
(*                                                                         *)
(* The throttle keeps its window in Redis, and in the memory of the        *)
(* process when a call to Redis fails: a keeper is either of these.        *)
(* What a letter does after it was queued is in MailQueue.                 *)
(***************************************************************************)
(* A definition marked "mutant" is the one below it with a mistake in it;  *)
(* it is used nowhere.                                                     *)
EXTENDS Naturals, FiniteSets

CONSTANTS
  Message,  \* messages of the other side: bounds the notices
  Server,   \* processes of the back end
  Window,   \* CHAT_EMAIL_THROTTLE_MS, in ticks
  End,      \* bounds the clock
  Never     \* no letter has been sent

VARIABLES
  clock,
  entry,    \* what each keeper remembers
  call,     \* the state of notify for each message
  sent,     \* history: the notices the throttle let through
  refused   \* history: the messages each keeper refused since it last let one through

vars == <<clock, entry, call, sent, refused>>
throttle == <<entry, sent, refused>>
-----------------------------------------------------------------------------
Keeper == {"redis"} \cup Server
Time == 0 .. End
Channel == {"email", "messenger"}

Unused == [last |-> Never, pending |-> 0, since |-> 0]
Entry == [last: Time \cup {Never}, pending: Nat, since: Time]

Notice == [msg: Message, channel: Channel, by: Keeper, at: Time, count: Nat,
           missed: Nat, lapsed: BOOLEAN]

CallState ==
  [pc: {"new", "done"}]
    \cup [pc: {"askMail", "askMessenger"}, at: Server]

Goto(m, pc) == call' = [call EXCEPT ![m].pc = pc]
Done(m) == call' = [call EXCEPT ![m] = [pc |-> "done"]]

Init ==
  /\ clock = 0
  /\ entry = [k \in Keeper |-> Unused]
  /\ call = [m \in Message |-> [pc |-> "new"]]
  /\ sent = {}
  /\ refused = [k \in Keeper |-> {}]
-----------------------------------------------------------------------------
(* The throttle.                                                            *)

\* The count in Redis expires two windows after it was last raised.
Lapsed(k) == k = "redis" /\ clock >= entry[k].since + 2 * Window

Owed(k) == IF Lapsed(k) THEN 0 ELSE entry[k].pending

Early(k) ==
  /\ entry[k].last # Never
  /\ clock < entry[k].last + Window

RefuseForgetful(m, k) ==  \* mutant
  /\ entry' = [entry EXCEPT ![k].pending = 1, ![k].since = clock]
  /\ refused' = [refused EXCEPT ![k] = @ \cup {m}]
  /\ UNCHANGED sent

Refuse(m, k) ==
  /\ entry' = [entry EXCEPT ![k].pending = Owed(k) + 1, ![k].since = clock]
  /\ refused' = [refused EXCEPT ![k] = @ \cup {m}]
  /\ UNCHANGED sent

LetThroughUnmarked(m, k, channel) ==  \* mutant
  /\ entry' = [entry EXCEPT ![k].pending = 0]
  /\ sent' = sent \cup {[msg |-> m, channel |-> channel, by |-> k, at |-> clock,
                         count |-> Owed(k) + 1,
                         missed |-> Cardinality(refused[k] \ {m}),
                         lapsed |-> Lapsed(k)]}
  /\ refused' = [refused EXCEPT ![k] = {}]

LetThrough(m, k, channel) ==
  /\ entry' = [entry EXCEPT ![k].last = clock, ![k].pending = 0]
  /\ sent' = sent \cup {[msg |-> m, channel |-> channel, by |-> k, at |-> clock,
                         count |-> Owed(k) + 1,
                         missed |-> Cardinality(refused[k] \ {m}),
                         lapsed |-> Lapsed(k)]}
  /\ refused' = [refused EXCEPT ![k] = {}]

\* A call to Redis that fails is decided by the memory of the process, and leaves
\* Redis as it was: one that took effect without an answer is left out.
Decide(m, channel) ==
  \E k \in {"redis", call[m].at} :
    IF Early(k) THEN Refuse(m, k) ELSE LetThrough(m, k, channel)
-----------------------------------------------------------------------------
(* notify.  The settings, the sockets of the recipient and Redis are read  *)
(* anew each time and change meanwhile: what is read is any value.         *)

\* The notice in the application comes first: when it fails nothing follows.
Notify(m, s) ==
  /\ call[m] = [pc |-> "new"]
  /\ \E pc \in {"askMail", "askMessenger"} :
       call' = [call EXCEPT ![m] = [pc |-> pc, at |-> s]]
  /\ UNCHANGED <<clock, throttle>>

NotifyFails(m) ==
  /\ call[m] = [pc |-> "new"]
  /\ Done(m)
  /\ UNCHANGED <<clock, throttle>>

\* The recipient is online, and is sent no letter.
SkipMail(m) ==
  /\ call[m].pc = "askMail"
  /\ Goto(m, "askMessenger")
  /\ UNCHANGED <<clock, throttle>>

\* A letter that is let through is queued; a failure to is only logged.
AskMail(m) ==
  /\ call[m].pc = "askMail"
  /\ Decide(m, "email")
  /\ Goto(m, "askMessenger")
  /\ UNCHANGED clock

SkipMessenger(m) ==
  /\ call[m].pc = "askMessenger"
  /\ Done(m)
  /\ UNCHANGED <<clock, throttle>>

\* The throttle is asked again, whatever the messengers are set to; they and the
\* push come last, each with its failure swallowed.
AskMessenger(m) ==
  /\ call[m].pc = "askMessenger"
  /\ Decide(m, "messenger")
  /\ Done(m)
  /\ UNCHANGED clock
-----------------------------------------------------------------------------
Tick ==
  /\ clock < End
  /\ clock' = clock + 1
  /\ UNCHANGED <<entry, call, sent, refused>>

\* The calls of a process die with it, and so does its memory.
Crash(s) ==
  /\ call' = [m \in Message |->
                IF call[m].pc \notin {"new", "done"} /\ call[m].at = s
                THEN [pc |-> "done"] ELSE call[m]]
  /\ entry' = [entry EXCEPT ![s] = Unused]
  /\ sent' = {n \in sent : n.by # s}
  /\ refused' = [refused EXCEPT ![s] = {}]
  /\ UNCHANGED clock

Continue(m) ==
  \/ \E s \in Server : Notify(m, s)
  \/ NotifyFails(m)
  \/ SkipMail(m) \/ AskMail(m)
  \/ SkipMessenger(m) \/ AskMessenger(m)
-----------------------------------------------------------------------------
(* Properties                                                               *)

\* Every variable keeps its type.
TypeOK ==
  /\ clock \in Time
  /\ entry \in [Keeper -> Entry]
  /\ call \in [Message -> CallState]
  /\ sent \subseteq Notice
  /\ refused \in [Keeper -> SUBSET Message]

\* One keeper lets one notice through per window, the letter and the messengers
\* of the same message included (chat-email-throttle.service.ts:41, :120): the
\* messengers only get the message a letter went out for if the keeper has changed.
NoticesApart ==
  \A a, b \in sent :
    a # b /\ a.by = b.by => a.at + Window <= b.at \/ b.at + Window <= a.at

\* The number a digest states covers every message refused since the last notice,
\* unless Redis let the count lapse, and it is at most twice too high, the price of
\* asking twice (notifications.service.ts:244).
DigestCountsRefused ==
  \A n \in sent :
    /\ ~n.lapsed => n.missed + 1 <= n.count
    /\ n.count <= 2 * n.missed + 2

=============================================================================
