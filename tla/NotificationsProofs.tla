------------------------- MODULE NotificationsProofs -------------------------
(* Safety of the notifications, for any number of messages, letters,         *)
(* recipients, users, chats and processes.  The parts share no variable: each*)
(* has an invariant of its own, and a step of one is none of the others.     *)
EXTENDS Notifications, FiniteSetTheorems, TLAPS
-----------------------------------------------------------------------------
(* The messengers.                                                           *)

\* What a request has read of a row that is never deleted.
CallIsBound(h) ==
  /\ request[h].pc = "bind" => token[request[h].token] # None
  /\ request[h].pc = "unlink" => connection[request[h].user] # None
  /\ request[h].pc = "send" => <<request[h].user, request[h].chat>> \in brought

LinkInv ==
  /\ Links!TypeOK
  /\ given \subseteq brought
  /\ \A h \in Call : CallIsBound(h)
  /\ \A u \in User : connection[u] # None => <<u, connection[u].chat>> \in brought
  /\ \A u, v \in User :
       u # v /\ connection[u] # None /\ connection[v] # None
         => connection[u].chat # connection[v].chat

LEMMA CallShape ==
  ASSUME NEW c \in Links!CallState
  PROVE  /\ c.pc = "bind" => c.token \in Token /\ c.user \in User /\ c.chat \in Chat
         /\ c.pc = "unlink" => c.user \in User
         /\ c.pc = "send" => c.user \in User /\ c.chat \in Chat
  BY DEF Links!CallState, Links!Idle

\* A request that ends or goes on to something it may, with no row changed.
LEMMA LinkQuiet ==
  ASSUME LinkInv, NEW h \in Call, NEW c \in Links!CallState, Links!Goto(h, c),
         c.pc = "bind" => token[c.token] # None,
         c.pc = "unlink" => connection[c.user] # None,
         c.pc = "send" => <<c.user, c.chat>> \in brought,
         UNCHANGED <<token, connection, brought, given>>
  PROVE  LinkInv'
<1>1. /\ request' \in [Call -> Links!CallState] /\ request'[h] = c
      /\ \A g \in Call \ {h} : request'[g] = request[g]
  BY DEF LinkInv, Links!TypeOK, Links!Goto
<1>2. \A g \in Call : CallIsBound(g)'
  BY <1>1 DEF LinkInv, CallIsBound
<1> QED
  BY <1>1, <1>2 DEF LinkInv, Links!TypeOK

\* A chat that another row has is refused.
LEMMA BindInv ==
  ASSUME LinkInv, NEW h \in Call, Links!Bind(h)
  PROVE  LinkInv'
<1> DEFINE u == request[h].user
           c == request[h].chat
           row == [chat |-> c, active |-> TRUE]
<1>1. u \in User /\ c \in Chat /\ request[h].token \in Token
  BY CallShape DEF Links!Bind, LinkInv, Links!TypeOK
<1>2. /\ connection' = [connection EXCEPT ![u] = row]
      /\ brought' = brought \cup {<<u, c>>} /\ UNCHANGED given
      /\ token' = [token EXCEPT ![request[h].token].state = "used"]
      /\ \A v \in User \ {u} : connection[v] # None => connection[v].chat # c
  BY DEF Links!Bind, Links!Holder
<1>3. /\ request' \in [Call -> Links!CallState] /\ request'[h] = Links!Idle
      /\ \A g \in Call \ {h} : request'[g] = request[g]
  BY DEF LinkInv, Links!TypeOK, Links!Bind, Links!Done, Links!Goto, Links!CallState
<1>4. row \in Links!Row /\ row.chat = c
  BY <1>1 DEF Links!Row
<1>5. row # None /\ token[request[h].token] \in Links!TokenRow
  BY <1>1, <1>4, NoneAssumption
  DEF Links!Bind, LinkInv, Links!TypeOK, CallIsBound
<1> HIDE DEF u, c, row
<1>6. connection'[u] = row /\ \A v \in User \ {u} : connection'[v] = connection[v]
  BY <1>1, <1>2 DEF LinkInv, Links!TypeOK
<1>7. Links!TypeOK'
  <2>1. token' \in [Token -> Links!TokenRow \cup {None}]
    BY <1>1, <1>2, <1>5 DEF LinkInv, Links!TypeOK, Links!TokenRow
  <2> QED
    BY <1>1, <1>2, <1>3, <1>4, <2>1 DEF LinkInv, Links!TypeOK
<1>8. ASSUME NEW g \in Call PROVE CallIsBound(g)'
  <2>1. ASSUME NEW t \in Token, token[t] # None PROVE token'[t] # None
    <3>1. token[t] \in Links!TokenRow
      BY <2>1 DEF LinkInv, Links!TypeOK
    <3>2. token'[t] \in Links!TokenRow
      BY <1>1, <1>2, <3>1 DEF LinkInv, Links!TypeOK, Links!TokenRow
    <3> QED
      BY <3>2, NoneAssumption
  <2>2. CASE g = h
    BY <1>3, <2>2 DEF CallIsBound, Links!Idle
  <2>3. CASE g # h
    <3>1. request'[g] = request[g] /\ request[g] \in Links!CallState /\ CallIsBound(g)
      BY <1>3, <2>3 DEF LinkInv, Links!TypeOK
    <3>2. request[g].pc = "bind" => request[g].token \in Token
      BY <3>1, CallShape
    <3> QED
      BY <1>2, <1>5, <1>6, <2>1, <3>1, <3>2 DEF CallIsBound
  <2> QED
    BY <2>2, <2>3
<1> QED
  BY <1>2, <1>4, <1>6, <1>7, <1>8 DEF LinkInv

\* A link is made or runs out, and stays a row.
LEMMA TokenInv ==
  ASSUME LinkInv, NEW t \in Token, NEW row \in Links!TokenRow,
         token' = [token EXCEPT ![t] = row],
         UNCHANGED <<connection, request, brought, given>>
  PROVE  LinkInv'
<1>1. token' \in [Token -> Links!TokenRow \cup {None}]
      /\ \A s \in Token : token[s] # None => token'[s] # None
  BY NoneAssumption DEF LinkInv, Links!TypeOK
<1>2. ASSUME NEW h \in Call PROVE CallIsBound(h)'
  <2>1. request[h].pc = "bind" => request[h].token \in Token
    BY CallShape DEF LinkInv, Links!TypeOK
  <2> QED
    BY <1>1, <2>1 DEF LinkInv, CallIsBound
<1> QED
  BY <1>1, <1>2 DEF LinkInv, Links!TypeOK

\* The row is revoked, and keeps its chat.
LEMMA RevokeInv ==
  ASSUME LinkInv, NEW h \in Call, Links!Revoke(h)
  PROVE  LinkInv'
<1> DEFINE u == request[h].user
           row == [connection[u] EXCEPT !.active = FALSE]
<1>1. u \in User /\ connection[u] \in Links!Row
  BY CallShape DEF Links!Revoke, LinkInv, Links!TypeOK, CallIsBound
<1>2. row \in Links!Row /\ row # None /\ row.chat = connection[u].chat
  BY <1>1, NoneAssumption DEF Links!Row
<1>3. connection' = [connection EXCEPT ![u] = row] /\ UNCHANGED <<token, brought, given>>
  BY <1>1 DEF Links!Revoke, LinkInv, Links!TypeOK
<1>4. /\ request' \in [Call -> Links!CallState] /\ request'[h] = Links!Idle
      /\ \A g \in Call \ {h} : request'[g] = request[g]
  BY DEF LinkInv, Links!TypeOK, Links!Revoke, Links!Done, Links!Goto, Links!CallState
<1>5. connection[u] # None
  BY <1>1, NoneAssumption
<1> HIDE DEF u, row
<1>6. connection'[u] = row /\ \A v \in User \ {u} : connection'[v] = connection[v]
  BY <1>1, <1>3 DEF LinkInv, Links!TypeOK
<1>7. Links!TypeOK'
  BY <1>1, <1>2, <1>3, <1>4 DEF LinkInv, Links!TypeOK
<1>8. \A g \in Call : CallIsBound(g)'
  BY <1>2, <1>3, <1>4, <1>6 DEF LinkInv, CallIsBound, Links!Idle
<1>9. \A v \in User : /\ connection'[v] # None <=> connection[v] # None
                      /\ connection[v] # None => connection'[v].chat = connection[v].chat
  BY <1>2, <1>5, <1>6
<1> QED
  BY <1>3, <1>7, <1>8, <1>9 DEF LinkInv

\* A notice goes to the chat that was read.
LEMMA SendToChatInv ==
  ASSUME LinkInv, NEW h \in Call, Links!SendToChat(h)
  PROVE  LinkInv'
<1> DEFINE sent_to == <<request[h].user, request[h].chat>>
<1>1. sent_to \in brought /\ sent_to \in User \X Chat
  BY CallShape DEF Links!SendToChat, LinkInv, Links!TypeOK, CallIsBound
<1>2. given' = given \cup {sent_to} /\ UNCHANGED <<token, connection, brought>>
  BY DEF Links!SendToChat
<1>3. /\ request' \in [Call -> Links!CallState] /\ request'[h] = Links!Idle
      /\ \A g \in Call \ {h} : request'[g] = request[g]
  BY DEF LinkInv, Links!TypeOK, Links!SendToChat, Links!Done, Links!Goto, Links!CallState
<1> HIDE DEF sent_to
<1>4. \A g \in Call : CallIsBound(g)'
  BY <1>2, <1>3 DEF LinkInv, CallIsBound, Links!Idle
<1> QED
  BY <1>1, <1>2, <1>3, <1>4 DEF LinkInv, Links!TypeOK

LEMMA LinkStepInv == ASSUME LinkInv, Links!Next PROVE LinkInv'
<1>1. ASSUME NEW u \in User, NEW t \in Token, Links!CreateLink(u, t) PROVE LinkInv'
  BY <1>1, TokenInv DEF Links!CreateLink, Links!TokenRow
<1>2. ASSUME NEW t \in Token, Links!Expire(t) PROVE LinkInv'
  <2> DEFINE row == [token[t] EXCEPT !.state = "expired"]
  <2>1. row \in Links!TokenRow
    BY <1>2 DEF Links!Expire, LinkInv, Links!TypeOK, Links!TokenRow
  <2>2. token' = [token EXCEPT ![t] = row]
    BY <1>2 DEF Links!Expire, LinkInv, Links!TypeOK
  <2> HIDE DEF row
  <2> QED
    BY <1>2, <2>1, <2>2, TokenInv DEF Links!Expire
<1>3. ASSUME NEW h \in Call, NEW t \in Token, NEW c \in Chat, Links!ReadToken(h, t, c)
      PROVE  LinkInv'
  <2>1. token[t].user \in User
    BY <1>3 DEF Links!ReadToken, LinkInv, Links!TypeOK, Links!TokenRow
  <2>2. [pc |-> "bind", token |-> t, user |-> token[t].user, chat |-> c] \in Links!CallState
    BY <2>1 DEF Links!CallState
  <2> QED
    BY <1>3, <2>2, LinkQuiet DEF Links!ReadToken
<1>4. ASSUME NEW h \in Call, Links!BindRefused(h) \/ Links!Fail(h) PROVE LinkInv'
  <2>1. Links!Idle \in Links!CallState /\ Links!Idle.pc = "idle"
    BY DEF Links!CallState, Links!Idle
  <2> QED
    BY <1>4, <2>1, LinkQuiet DEF Links!BindRefused, Links!Fail, Links!Done
<1>5. ASSUME NEW h \in Call, NEW u \in User, Links!Unlink(h, u) PROVE LinkInv'
  BY <1>5, LinkQuiet DEF Links!Unlink, Links!Active, Links!CallState
<1>6. ASSUME NEW h \in Call, NEW u \in User, Links!SendToUser(h, u) PROVE LinkInv'
  <2>1. connection[u] # None /\ connection[u].chat \in Chat
    BY <1>6 DEF Links!SendToUser, Links!Active, LinkInv, Links!TypeOK, Links!Row
  <2>2. [pc |-> "send", user |-> u, chat |-> connection[u].chat] \in Links!CallState
    BY <2>1 DEF Links!CallState
  <2>3. <<u, connection[u].chat>> \in brought
    BY <2>1 DEF LinkInv
  <2> QED
    BY <1>6, <2>2, <2>3, LinkQuiet DEF Links!SendToUser
<1> QED
  BY <1>1, <1>2, <1>3, <1>4, <1>5, <1>6, BindInv, RevokeInv, SendToChatInv
  DEF Links!Next, Links!Step
-----------------------------------------------------------------------------
(* The queue of letters.                                                     *)

\* A job that is not over has attempts left, and its worker died at most once.
JobGoesOn(j) ==
  j.state \in {"waiting", "sending"} => j.failures < Attempts /\ j.stalls < 2

MailInv ==
  /\ Mail!TypeOK
  /\ \A l \in Letter : JobGoesOn(job[l])
  /\ Mail!CopiesExplained

\* One letter's job, and its three counts, move together.
LEMMA LetterStep ==
  ASSUME MailInv, NEW l \in Letter, NEW j \in Mail!Job,
         NEW a \in Nat, NEW c \in Nat, NEW d \in Nat,
         JobGoesOn(j), c + a <= d + (IF j.state = "sent" THEN 1 ELSE 0),
         job' = [job EXCEPT ![l] = j], adrift' = [adrift EXCEPT ![l] = a],
         copies' = [copies EXCEPT ![l] = c], cut' = [cut EXCEPT ![l] = d]
  PROVE  MailInv'
<1>1. Mail!TypeOK'
  BY DEF MailInv, Mail!TypeOK
<1>2. \A k \in Letter : JobGoesOn(job'[k])
  BY DEF MailInv, Mail!TypeOK
<1>3. ASSUME NEW k \in Letter
      PROVE  copies'[k] + adrift'[k] <= cut'[k] + (IF job'[k].state = "sent" THEN 1 ELSE 0)
  <2>1. CASE k = l
    BY <2>1 DEF MailInv, Mail!TypeOK
  <2>2. CASE k # l
    <3>1. /\ copies'[k] = copies[k] /\ adrift'[k] = adrift[k]
          /\ cut'[k] = cut[k] /\ job'[k] = job[k]
      BY <2>2 DEF MailInv, Mail!TypeOK
    <3> QED
      BY <3>1 DEF MailInv, Mail!CopiesExplained
  <2> QED
    BY <2>1, <2>2
<1> QED
  BY <1>1, <1>2, <1>3 DEF MailInv, Mail!CopiesExplained

LEMMA MailStepInv ==
  ASSUME MailInv, NEW l \in Letter,
         Mail!Enqueue(l) \/ Mail!Worker(l) \/ Mail!Network(l) \/ Mail!Stall(l)
  PROVE  MailInv'
<1> DEFINE a == adrift[l]
           c == copies[l]
           d == cut[l]
           Sent(j) == IF j.state = "sent" THEN 1 ELSE 0
<1>1. /\ job[l] \in Mail!Job /\ a \in Nat /\ c \in Nat /\ d \in Nat
      /\ JobGoesOn(job[l]) /\ c + a <= d + Sent(job[l])
      /\ job = [job EXCEPT ![l] = job[l]] /\ adrift = [adrift EXCEPT ![l] = a]
      /\ copies = [copies EXCEPT ![l] = c] /\ cut = [cut EXCEPT ![l] = d]
  BY DEF MailInv, Mail!TypeOK, Mail!CopiesExplained
<1>2. ASSUME NEW state \in {"waiting", "sending", "sent"},
             state \in {"waiting", "sending"} => job[l] = Mail!NoJob \/ job[l].state = "waiting",
             Mail!Become(l, state)
      PROVE  \E j \in Mail!Job : /\ job' = [job EXCEPT ![l] = j]
                                 /\ j.state = state /\ JobGoesOn(j)
  <2> DEFINE j == [job[l] EXCEPT !.state = state]
  <2>1. j \in Mail!Job /\ j.state = state /\ j.failures = job[l].failures
        /\ j.stalls = job[l].stalls
    BY <1>1 DEF Mail!Job
  <2>2. job' = [job EXCEPT ![l] = j]
    BY <1>2 DEF Mail!Become, MailInv, Mail!TypeOK
  <2>3. JobGoesOn(j)
    BY <1>1, <1>2, <2>1, AttemptsAssumption DEF JobGoesOn, Mail!NoJob
  <2> QED
    BY <2>1, <2>2, <2>3
<1>3. ASSUME job[l].state = "sending", Mail!AttemptFailed(l)
      PROVE  \E j \in Mail!Job : /\ job' = [job EXCEPT ![l] = j]
                                 /\ j.state # "sent" /\ JobGoesOn(j)
  <2> DEFINE state == IF job[l].failures + 1 < Attempts THEN "waiting" ELSE "failed"
             j == [job[l] EXCEPT !.failures = @ + 1, !.state = state]
  <2>1. job[l].failures \in Nat /\ job[l].failures < Attempts /\ job[l].stalls < 2
        /\ job[l].failures + 1 \in 0 .. Attempts
    BY <1>1, <1>3, AttemptsAssumption DEF Mail!Job, JobGoesOn
  <2>2. j \in Mail!Job /\ j.state = state /\ j.failures = job[l].failures + 1
        /\ j.stalls = job[l].stalls
    BY <1>1, <2>1 DEF Mail!Job
  <2>3. job' = [job EXCEPT ![l] = j]
    BY <1>1, <1>3 DEF Mail!AttemptFailed, MailInv, Mail!TypeOK, Mail!Job
  <2>4. JobGoesOn(j) /\ j.state # "sent"
    BY <2>1, <2>2 DEF JobGoesOn
  <2> HIDE DEF j
  <2> QED
    BY <2>2, <2>3, <2>4
<1> HIDE DEF a, c, d
<1>4. CASE Mail!Enqueue(l)
  BY <1>1, <1>2, <1>4, LetterStep DEF Mail!Enqueue, Mail!NoJob
<1>5. CASE Mail!Process(l)
  BY <1>1, <1>2, <1>5, LetterStep DEF Mail!Process
<1>6. CASE Mail!Deliver(l)
  <2>1. copies' = [copies EXCEPT ![l] = c + 1] /\ c + 1 \in Nat /\ Mail!Become(l, "sent")
        /\ job[l].state = "sending" /\ UNCHANGED <<adrift, cut>>
    BY <1>1, <1>6 DEF Mail!Deliver, c
  <2>2. PICK j \in Mail!Job : /\ job' = [job EXCEPT ![l] = j]
                              /\ j.state = "sent" /\ JobGoesOn(j)
    BY <1>2, <2>1
  <2>3. c + 1 + a <= d + Sent(j)
    BY <1>1, <2>1, <2>2
  <2> QED
    BY <1>1, <2>1, <2>2, <2>3, LetterStep
<1>7. CASE Mail!SmtpRefuses(l)
  BY <1>1, <1>3, <1>7, LetterStep DEF Mail!SmtpRefuses
<1>8. ASSUME NEW j \in Mail!Job, JobGoesOn(j), j.state # "sent",
             job' = [job EXCEPT ![l] = j], job[l].state = "sending",
             Mail!GoAdrift(l), UNCHANGED copies
      PROVE  MailInv'
  <2>1. adrift' = [adrift EXCEPT ![l] = a + 1] /\ cut' = [cut EXCEPT ![l] = d + 1]
        /\ a + 1 \in Nat /\ d + 1 \in Nat /\ c + (a + 1) <= (d + 1) + Sent(j)
    BY <1>1, <1>8 DEF Mail!GoAdrift, a, d
  <2> QED
    BY <1>1, <1>8, <2>1, LetterStep
<1>9. CASE Mail!SmtpTimeout(l)
  BY <1>3, <1>8, <1>9 DEF Mail!SmtpTimeout
<1>10. CASE Mail!Stall(l)
  <2> DEFINE state == IF job[l].stalls = 0 THEN "waiting" ELSE "failed"
             j == [job[l] EXCEPT !.stalls = @ + 1, !.state = state]
  <2>1. /\ job[l].stalls \in {0, 1} /\ job[l].stalls + 1 \in 0 .. 2
        /\ job[l].failures < Attempts /\ state \in {"waiting", "failed"}
    BY <1>1, <1>10 DEF Mail!Stall, JobGoesOn, Mail!Job
  <2>2. /\ j \in Mail!Job /\ j.state = state /\ j.failures = job[l].failures
        /\ j.stalls = job[l].stalls + 1
    <3> HIDE DEF state
    <3> QED
      BY <1>1, <2>1 DEF Mail!Job
  <2>3. job' = [job EXCEPT ![l] = j]
    BY <1>1, <1>10 DEF Mail!Stall, MailInv, Mail!TypeOK, Mail!Job
  <2>4. JobGoesOn(j) /\ j.state # "sent"
    BY <2>1, <2>2 DEF JobGoesOn
  <2> HIDE DEF j
  <2> QED
    BY <1>8, <1>10, <2>2, <2>3, <2>4 DEF Mail!Stall
<1>11. CASE Mail!LateDelivery(l)
  <2>1. /\ adrift' = [adrift EXCEPT ![l] = a - 1] /\ copies' = [copies EXCEPT ![l] = c + 1]
        /\ a - 1 \in Nat /\ c + 1 \in Nat /\ (c + 1) + (a - 1) <= d + Sent(job[l])
        /\ UNCHANGED <<job, cut>>
    BY <1>1, <1>11 DEF Mail!LateDelivery, a, c
  <2> QED
    BY <1>1, <2>1, LetterStep
<1>12. CASE Mail!NeverArrives(l)
  <2>1. /\ adrift' = [adrift EXCEPT ![l] = a - 1]
        /\ a - 1 \in Nat /\ c + (a - 1) <= d + Sent(job[l])
        /\ UNCHANGED <<job, copies, cut>>
    BY <1>1, <1>12 DEF Mail!NeverArrives, a
  <2> QED
    BY <1>1, <2>1, LetterStep
<1> QED
  BY <1>4, <1>5, <1>6, <1>7, <1>9, <1>10, <1>11, <1>12
  DEF Mail!Worker, Mail!Attempt, Mail!Network
-----------------------------------------------------------------------------
(* The reminders.                                                            *)

\* A row of the log is accounted for: the reminder is made, switched off, given up for
\* lost, or in the hands of a process.
Accounted(r) ==
  \/ bell[r] > 0
  \/ r \in silent
  \/ r \in lost
  \/ \E s \in Server : run[s].pc \in {"ask", "notify", "undo"} /\ run[s].who = r

CronInv == Cron!TypeOK /\ \A r \in log : Accounted(r)

LEMMA RunShape ==
  ASSUME NEW r \in Cron!Run
  PROVE  /\ r.pc = "next" => r.left \in SUBSET Recipient
         /\ r.pc \in {"ask", "notify", "rest", "undo"} =>
              /\ r.left \in SUBSET Recipient /\ r.who \in Recipient
              /\ r = [pc |-> r.pc, left |-> r.left, who |-> r.who]
  BY DEF Cron!Run, Cron!Idle

LEMMA RunShapes ==
  /\ Cron!Idle \in Cron!Run /\ Cron!Idle.pc = "idle"
  /\ \A left \in SUBSET Recipient : [pc |-> "next", left |-> left] \in Cron!Run
  /\ \A pc \in {"ask", "notify", "rest", "undo"}, left \in SUBSET Recipient, r \in Recipient :
       [pc |-> pc, left |-> left, who |-> r] \in Cron!Run
  BY DEF Cron!Run, Cron!Idle

\* A process goes on to something else: what is said of the other rows stays true, and
\* the row in its hands, if there is one, needs a reason.
LEMMA RunStep ==
  ASSUME CronInv, NEW s \in Server, NEW next \in Cron!Run, Cron!Goto(s, next),
         open' \in BOOLEAN, log' \subseteq Recipient,
         off' \subseteq Recipient, silent' \subseteq Recipient,
         bell' \in [Recipient -> Nat], lost' \subseteq Recipient,
         \A r \in Recipient : bell'[r] >= bell[r], lost \subseteq lost',
         \A r \in log' : r \in silent => r \in silent',
         \A r \in log' :
           \/ r \in log /\ ~(run[s].pc \in {"ask", "notify", "undo"} /\ run[s].who = r)
           \/ bell'[r] > 0 \/ r \in silent' \/ r \in lost'
           \/ next.pc \in {"ask", "notify", "undo"} /\ next.who = r
  PROVE  CronInv'
<1>1. /\ run' \in [Server -> Cron!Run] /\ run'[s] = next
      /\ \A t \in Server \ {s} : run'[t] = run[t]
  BY DEF CronInv, Cron!TypeOK, Cron!Goto
<1>2. ASSUME NEW r \in log' PROVE Accounted(r)'
  <2>1. CASE r \in log /\ ~(run[s].pc \in {"ask", "notify", "undo"} /\ run[s].who = r)
    <3>1. Accounted(r) /\ bell[r] \in Nat /\ bell'[r] \in Nat
      BY <2>1 DEF CronInv, Cron!TypeOK
    <3>2. \A t \in Server : run[t].pc \in {"ask", "notify", "undo"} /\ run[t].who = r
             => run'[t] = run[t]
      BY <1>1, <2>1
    <3> QED
      BY <3>1, <3>2 DEF Accounted
  <2>2. CASE \/ bell'[r] > 0 \/ r \in silent' \/ r \in lost'
             \/ (next.pc \in {"ask", "notify", "undo"} /\ next.who = r)
    BY <1>1, <2>2 DEF Accounted
  <2> QED
    BY <2>1, <2>2
<1> QED
  BY <1>1, <1>2 DEF CronInv, Cron!TypeOK

LEMMA CronStepInv ==
  ASSUME CronInv, NEW s \in Server, Cron!Step(s)
  PROVE  CronInv'
<1> DEFINE here == run[s]
<1>1. here \in Cron!Run /\ Cron!TypeOK
  BY DEF CronInv, Cron!TypeOK
<1>2. \A r \in Recipient : bell[r] >= bell[r]
  BY DEF CronInv, Cron!TypeOK
<1>3. CASE Cron!HandleDailyCron(s)
  BY <1>1, <1>2, <1>3, RunShapes, RunStep
  DEF Cron!HandleDailyCron, Cron!history, Cron!TypeOK
<1>4. ASSUME NEW r \in Recipient, Cron!Claim(s, r) PROVE CronInv'
  <2>1. here.left \in SUBSET Recipient /\ here.pc = "next"
    BY <1>1, <1>4, RunShape DEF Cron!Claim
  <2>2. log' = log \cup {r} /\ UNCHANGED <<open, off, bell, silent, lost>>
    BY <1>4 DEF Cron!Claim, Cron!history
  <2>3. CASE r \in log
    <3> DEFINE next == [here EXCEPT !.left = @ \ {r}]
    <3>1. next \in Cron!Run
      BY <1>1, <2>1 DEF Cron!Run, Cron!Idle
    <3>2. Cron!Goto(s, next)
      BY <1>4, <2>3 DEF Cron!Claim
    <3> HIDE DEF next
    <3> QED
      BY <1>1, <1>2, <2>1, <2>2, <2>3, <3>1, <3>2, RunStep DEF Cron!TypeOK
  <2>4. CASE r \notin log
    <3> DEFINE next == [pc |-> "ask", left |-> here.left \ {r}, who |-> r]
    <3>1. next \in Cron!Run /\ next.pc = "ask" /\ next.who = r
      BY <2>1, RunShapes
    <3>2. Cron!Goto(s, next)
      BY <1>4, <2>4 DEF Cron!Claim
    <3> HIDE DEF next
    <3> QED
      BY <1>1, <1>2, <2>1, <2>2, <3>1, <3>2, RunStep DEF Cron!TypeOK
  <2> QED
    BY <2>3, <2>4
<1>5. CASE Cron!InsertNotice(s)
  <2> DEFINE next == [here EXCEPT !.pc = "rest"]
  <2>1. here.who \in Recipient /\ here.pc = "notify" /\ next \in Cron!Run
    BY <1>1, <1>5, RunShape DEF Cron!InsertNotice, Cron!Run, Cron!Idle
  <2>2. /\ bell' = [bell EXCEPT ![here.who] = bell[here.who] + 1]
        /\ Cron!Goto(s, next) /\ UNCHANGED <<open, log, off, silent, lost>>
    BY <1>5, <2>1 DEF Cron!InsertNotice, Cron!history
  <2> HIDE DEF next
  <2>3. /\ bell' \in [Recipient -> Nat] /\ bell'[here.who] > 0
        /\ \A r \in Recipient : bell'[r] >= bell[r]
    BY <1>1, <2>1, <2>2 DEF Cron!TypeOK
  <2> QED
    BY <1>1, <2>1, <2>2, <2>3, RunStep DEF Cron!TypeOK
<1>6. CASE Cron!Notified(s)
  <2>1. here.left \in SUBSET Recipient /\ here.pc = "rest"
    BY <1>1, <1>6, RunShape DEF Cron!Notified
  <2> QED
    BY <1>1, <1>2, <1>6, <2>1, RunShapes, RunStep DEF Cron!Notified, Cron!history, Cron!TypeOK
<1>7. CASE Cron!NotifyFails(s)
  <2> DEFINE next == [here EXCEPT !.pc = "undo"]
  <2>1. here.who \in Recipient /\ next \in Cron!Run /\ next.pc = "undo" /\ next.who = here.who
    BY <1>1, <1>7, RunShape DEF Cron!NotifyFails, Cron!Run, Cron!Idle
  <2>2. Cron!Goto(s, next) /\ UNCHANGED <<open, log, off, bell, silent, lost>>
    BY <1>7 DEF Cron!NotifyFails, Cron!history
  <2> HIDE DEF next
  <2> QED
    BY <1>1, <1>2, <2>1, <2>2, RunStep DEF Cron!TypeOK
<1>8. CASE Cron!GiveBack(s)
  <2>1. /\ log' = log \ {here.who} /\ silent' = silent \ {here.who}
        /\ Cron!Goto(s, Cron!Idle) /\ UNCHANGED <<open, off, bell, lost>>
    BY <1>8 DEF Cron!GiveBack
  <2> QED
    BY <1>1, <1>2, <2>1, RunShapes, RunStep DEF Cron!TypeOK
<1>9. CASE Cron!GiveBackFails(s)
  <2>1. here.who \in Recipient
    BY <1>1, <1>9, RunShape DEF Cron!GiveBackFails
  <2>2. /\ lost' = lost \cup {here.who} /\ Cron!Goto(s, Cron!Idle)
        /\ UNCHANGED <<open, log, off, bell, silent>>
    BY <1>9 DEF Cron!GiveBackFails
  <2> QED
    BY <1>1, <1>2, <2>1, <2>2, RunShapes, RunStep DEF Cron!TypeOK
<1>10. CASE Cron!Ends(s)
  <2>1. here.pc = "next" /\ Cron!Goto(s, Cron!Idle) /\ UNCHANGED <<open, log, off, bell, silent, lost>>
    BY <1>10 DEF Cron!Ends, Cron!history
  <2> QED
    BY <1>1, <1>2, <2>1, RunShapes, RunStep DEF Cron!TypeOK
<1>11. CASE Cron!IsInAppEnabled(s)
  <2>1. here.pc = "ask" /\ here.who \in Recipient /\ here.left \in SUBSET Recipient
    BY <1>1, <1>11, RunShape DEF Cron!IsInAppEnabled
  <2>2. PICK pc \in {"notify", "rest"} :
          /\ Cron!Goto(s, [here EXCEPT !.pc = pc])
          /\ silent' = IF pc = "rest" THEN silent \cup {here.who} ELSE silent
    BY <1>11 DEF Cron!IsInAppEnabled
  <2> DEFINE next == [here EXCEPT !.pc = pc]
  <2>3. next \in Cron!Run /\ next.pc = pc /\ next.who = here.who
    BY <1>1, <2>1 DEF Cron!Run, Cron!Idle
  <2>4. UNCHANGED <<open, log, off, bell, lost>>
    BY <1>11 DEF Cron!IsInAppEnabled
  <2> HIDE DEF next
  <2> QED
    BY <1>1, <1>2, <2>1, <2>2, <2>3, <2>4, RunStep DEF Cron!TypeOK, next
<1> QED
  BY <1>3, <1>4, <1>5, <1>6, <1>7, <1>8, <1>9, <1>10, <1>11 DEF Cron!Step

\* The row a process takes with it is counted as lost.
LEMMA CronCrashInv ==
  ASSUME CronInv, NEW s \in Server, Cron!Crash(s)
  PROVE  CronInv'
<1>1. run[s] \in Cron!Run /\ Cron!TypeOK
  BY DEF CronInv, Cron!TypeOK
<1>2. run[s].pc \in {"ask", "notify", "undo"} => run[s].who \in Recipient
  BY <1>1, RunShape
<1>3. /\ Cron!Goto(s, Cron!Idle) /\ UNCHANGED <<open, log, off, bell, silent>>
      /\ lost \subseteq lost' /\ lost' \subseteq Recipient
      /\ run[s].pc \in {"ask", "notify", "undo"} => run[s].who \in lost'
  BY <1>1, <1>2 DEF Cron!Crash, Cron!TypeOK
<1>4. \A r \in Recipient : bell[r] >= bell[r]
  BY <1>1 DEF Cron!TypeOK
<1> QED
  BY <1>1, <1>3, <1>4, RunShapes, RunStep DEF Cron!TypeOK
-----------------------------------------------------------------------------
(* The notices of a chat.                                                    *)

\* Messages a keeper refused a letter for and is still to be asked about.
Asking(k) == {m \in refused[k] : call[m].pc = "askMessenger"}

\* What a keeper remembers of what it refused: nothing it refused has lapsed as long as
\* it refuses, and no message counts more often than it asks.
KeeperInv(k) ==
  /\ IsFiniteSet(refused[k])
  /\ entry[k].last # Never => entry[k].last <= clock
  /\ refused[k] # {} => entry[k].last # Never /\ entry[k].since >= entry[k].last
  /\ \A m \in refused[k] : call[m].pc \notin {"new", "askMail"}
  /\ Cardinality(refused[k]) <= entry[k].pending
  /\ entry[k].pending + Cardinality(Asking(k)) <= 2 * Cardinality(refused[k])

\* The last notice of a keeper is the one it remembers.
SentInv ==
  \A n \in sent : entry[n.by].last # Never /\ n.at <= entry[n.by].last

ChatInv ==
  /\ Notices!TypeOK
  /\ \A k \in Notices!Keeper : KeeperInv(k)
  /\ SentInv
  /\ Notices!NoticesApart
  /\ Notices!DigestCountsRefused

\* The types of what is counted.
LEMMA EntryTypes ==
  ASSUME Notices!TypeOK, NEW k \in Notices!Keeper
  PROVE  /\ clock \in Nat /\ Window \in Nat \ {0}
         /\ entry[k].pending \in Nat /\ entry[k].since \in Nat
         /\ entry[k].last \in Nat \cup {Never}
         /\ entry[k] \in Notices!Entry
  BY EndAssumption, WindowAssumption DEF Notices!TypeOK, Notices!Entry, Notices!Time

LEMMA AskingIsFinite ==
  ASSUME NEW k, IsFiniteSet(refused[k])
  PROVE  /\ IsFiniteSet(Asking(k))
         /\ Cardinality(Asking(k)) \in Nat /\ Cardinality(refused[k]) \in Nat
         /\ Cardinality(Asking(k)) <= Cardinality(refused[k])
<1>1. Asking(k) \subseteq refused[k]
  BY DEF Asking
<1> QED
  BY <1>1, FS_Subset, FS_CardinalityType

\* A keeper that is not asked sees the calls go on, and none come back to it.
LEMMA CallsMove ==
  ASSUME Notices!TypeOK, NEW k \in Notices!Keeper, KeeperInv(k),
         entry'[k] = entry[k], refused'[k] = refused[k], clock' \in Nat, clock <= clock',
         \A m \in Message : \/ call'[m] = call[m]
                            \/ call[m].pc \in {"new", "askMail"}
                            \/ call'[m].pc = "done"
  PROVE  KeeperInv(k)'
<1>1. refused[k] \subseteq Message
  BY DEF Notices!TypeOK
<1>2. \A m \in refused[k] : call'[m] = call[m] \/ call'[m].pc = "done"
  BY <1>1 DEF KeeperInv
<1>3. Asking(k)' \subseteq Asking(k)
  BY <1>2 DEF Asking
<1>4. IsFiniteSet(refused[k]) /\ IsFiniteSet(refused[k])' /\ Asking(k)' \subseteq Asking(k)
  BY <1>3 DEF KeeperInv
<1>5. /\ Cardinality(Asking(k))' \in Nat /\ Cardinality(Asking(k)) \in Nat
      /\ Cardinality(refused[k]) \in Nat
      /\ Cardinality(Asking(k))' <= Cardinality(Asking(k))
  BY <1>4, AskingIsFinite, FS_Subset, FS_CardinalityType
<1> QED
  BY <1>2, <1>4, <1>5, EntryTypes DEF KeeperInv

\* A message is past a question to the throttle: the call goes on.
Asked(m, c) ==
  /\ c \in Notices!CallState
  /\ \/ call[m].pc = "askMail" /\ c.pc = "askMessenger"
     \/ call[m].pc = "askMessenger" /\ c.pc = "done"
  /\ call' = [call EXCEPT ![m] = c]

LEMMA OthersWait ==
  ASSUME ChatInv, NEW m \in Message, NEW c, Asked(m, c), UNCHANGED clock,
         NEW k \in Notices!Keeper, entry'[k] = entry[k], refused'[k] = refused[k]
  PROVE  KeeperInv(k)'
<1>1. Notices!TypeOK /\ KeeperInv(k) /\ clock' \in Nat /\ clock <= clock'
  BY EntryTypes DEF ChatInv
<1>2. ASSUME NEW n \in Message
      PROVE  call'[n] = call[n] \/ call[n].pc \in {"new", "askMail"} \/ call'[n].pc = "done"
  BY DEF Asked, ChatInv, Notices!TypeOK
<1> QED
  BY <1>1, <1>2, CallsMove

\* A message refused for the first time is one more, and one to be asked about again if
\* it was the letter's turn; one refused again is asked about no more.
LEMMA RefuseInv ==
  ASSUME ChatInv, NEW m \in Message, NEW c, Asked(m, c), UNCHANGED clock,
         NEW k \in Notices!Keeper, Notices!Early(k), Notices!Refuse(m, k)
  PROVE  ChatInv'
<1> DEFINE p == entry[k].pending
           last == entry[k].last
           next == [entry[k] EXCEPT !.pending = p + 1, !.since = clock]
           R == refused[k]
           A == Asking(k)
<1>1. /\ p \in Nat /\ last \in Nat /\ clock \in Notices!Time /\ clock \in Nat
      /\ entry[k] \in Notices!Entry /\ last <= clock /\ last # Never
  BY EntryTypes, NeverAssumption DEF ChatInv, Notices!Early, Notices!TypeOK, KeeperInv
<1>2. IsFiniteSet(R) /\ Cardinality(R) \in Nat
      /\ IsFiniteSet(A) /\ Cardinality(A) \in Nat /\ Cardinality(A) <= Cardinality(R)
      /\ Cardinality(R) <= p /\ p + Cardinality(A) <= 2 * Cardinality(R)
  BY AskingIsFinite DEF ChatInv, KeeperInv
<1>3. Notices!Owed(k) = p
  <2>1. CASE R = {}
    <3>1. Cardinality(R) = 0
      BY <2>1, FS_EmptySet
    <3>2. p = 0
      BY <1>1, <1>2, <3>1
    <3> QED
      BY <3>2 DEF Notices!Owed
  <2>2. CASE R # {}
    <3>1. entry[k].since >= last /\ entry[k].since \in Nat /\ Window \in Nat
      BY <2>2, EntryTypes DEF ChatInv, KeeperInv
    <3>2. ~Notices!Lapsed(k)
      BY <1>1, <3>1 DEF Notices!Early, Notices!Lapsed
    <3> QED
      BY <3>2 DEF Notices!Owed
  <2> QED
    BY <2>1, <2>2
<1>0. p + 1 \in Nat
  BY <1>1
<1>4. next \in Notices!Entry /\ next.last = last /\ next.pending = p + 1 /\ next.since = clock
  <2> HIDE DEF p
  <2> DEFINE e == entry[k]
             q == p + 1
  <2>1. e \in Notices!Entry /\ q \in Nat /\ clock \in Notices!Time
    BY <1>0, <1>1
  <2> HIDE DEF e, q
  <2>2. LET n == [e EXCEPT !.pending = q, !.since = clock]
        IN  n \in Notices!Entry /\ n.last = e.last /\ n.pending = q /\ n.since = clock
    BY ONLY <2>1 DEF Notices!Entry
  <2> QED
    BY <2>2 DEF e, q
<1>5. entry' = [entry EXCEPT ![k] = next] /\ UNCHANGED sent
      /\ refused' = [refused EXCEPT ![k] = R \cup {m}]
  BY <1>3 DEF Notices!Refuse, ChatInv, Notices!TypeOK
<1> HIDE DEF next
<1>6. /\ entry'[k] = next /\ \A j \in Notices!Keeper \ {k} : entry'[j] = entry[j]
      /\ refused'[k] = R \cup {m}
      /\ \A j \in Notices!Keeper \ {k} : refused'[j] = refused[j]
      /\ call'[m] = c /\ \A n \in Message \ {m} : call'[n] = call[n]
      /\ R \subseteq Message
  BY <1>5 DEF ChatInv, Notices!TypeOK, Asked
<1>7. Notices!TypeOK'
  BY <1>4, <1>5 DEF ChatInv, Notices!TypeOK, Asked
<1>8. KeeperInv(k)'
  <2>1. \A n \in R \cup {m} : call'[n].pc \notin {"new", "askMail"}
    BY <1>6 DEF Asked, ChatInv, KeeperInv
  <2>2. IsFiniteSet(R \cup {m})
    BY <1>2, FS_AddElement
  <2>3. CASE m \notin R
    <3>1. Cardinality(R \cup {m}) = Cardinality(R) + 1
      BY <1>2, <2>3, FS_AddElement
    <3>2. Asking(k)' \subseteq A \cup {m} /\ IsFiniteSet(A \cup {m})
          /\ Cardinality(A \cup {m}) <= Cardinality(A) + 1
          /\ Cardinality(A \cup {m}) \in Nat
      <4>1. Asking(k)' \subseteq A \cup {m}
        BY <1>6 DEF Asking
      <4>2. m \notin A
        BY <2>3 DEF Asking
      <4> HIDE DEF A
      <4> QED
        BY <1>2, <4>1, <4>2, FS_AddElement
    <3>3. Cardinality(Asking(k)') <= Cardinality(A) + 1 /\ Cardinality(Asking(k)') \in Nat
      BY <1>2, <3>2, FS_Subset, FS_CardinalityType
    <3> QED
      BY <1>1, <1>2, <1>4, <1>6, <2>1, <2>2, <3>1, <3>3 DEF KeeperInv
  <2>4. CASE m \in R
    <3>1. R \cup {m} = R
      BY <2>4
    <3>2. call[m].pc = "askMessenger" /\ c.pc = "done"
      BY <2>4 DEF Asked, ChatInv, KeeperInv
    <3>3. m \in A /\ Asking(k)' = A \ {m}
      BY <1>6, <2>4, <3>2 DEF Asking
    <3>4. Cardinality(Asking(k)') = Cardinality(A) - 1
      BY <1>2, <3>3, FS_RemoveElement
    <3>5. refused'[k] = R /\ \A n \in R : call'[n].pc \notin {"new", "askMail"}
      BY <1>6, <2>1, <3>1
    <3>6. p + 1 + Cardinality(Asking(k)') <= 2 * Cardinality(R) /\ Cardinality(R) <= p + 1
      BY <1>1, <1>2, <3>4
    <3> HIDE DEF p, last, R, A
    <3> QED
      BY <1>1, <1>2, <1>4, <1>6, <3>5, <3>6 DEF KeeperInv
  <2> QED
    BY <2>3, <2>4
<1>9. \A j \in Notices!Keeper : KeeperInv(j)'
  BY <1>6, <1>8, OthersWait
<1>10. SentInv'
  <2> SUFFICES ASSUME NEW n \in sent
               PROVE  entry'[n.by].last # Never /\ n.at <= entry'[n.by].last
    BY <1>5 DEF SentInv
  <2>1. n.by \in Notices!Keeper /\ entry[n.by].last # Never /\ n.at <= entry[n.by].last
    BY DEF ChatInv, SentInv, Notices!TypeOK, Notices!Notice
  <2> QED
    BY <1>4, <1>6, <2>1
<1> QED
  BY <1>5, <1>7, <1>9, <1>10
  DEF ChatInv, Notices!NoticesApart, Notices!DigestCountsRefused

\* A notice that is let through is a window later than the last one of its keeper, and
\* tells of what the keeper refused.
LEMMA LetThroughInv ==
  ASSUME ChatInv, NEW m \in Message, NEW c, Asked(m, c), UNCHANGED clock,
         NEW k \in Notices!Keeper, NEW channel \in Notices!Channel,
         ~Notices!Early(k), Notices!LetThrough(m, k, channel)
  PROVE  ChatInv'
<1> DEFINE p == entry[k].pending
           next == [entry[k] EXCEPT !.last = clock, !.pending = 0]
           R == refused[k]
           A == Asking(k)
           missed == Cardinality(R \ {m})
           new == [msg |-> m, channel |-> channel, by |-> k, at |-> clock,
                   count |-> Notices!Owed(k) + 1, missed |-> missed,
                   lapsed |-> Notices!Lapsed(k)]
<1>1. /\ p \in Nat /\ clock \in Notices!Time /\ clock \in Nat /\ entry[k] \in Notices!Entry
      /\ entry[k].last # Never => entry[k].last \in Nat /\ entry[k].last + Window <= clock
      /\ clock # Never
  BY EntryTypes, NeverAssumption DEF ChatInv, Notices!Early, Notices!TypeOK
<1>2. IsFiniteSet(R) /\ Cardinality(R) \in Nat
      /\ IsFiniteSet(A) /\ Cardinality(A) \in Nat
      /\ Cardinality(R) <= p /\ p + Cardinality(A) <= 2 * Cardinality(R)
  BY AskingIsFinite DEF ChatInv, KeeperInv
<1>3. /\ missed \in Nat /\ missed <= p /\ p <= 2 * missed + 1
  <2>1. CASE m \notin R
    <3>1. R \ {m} = R
      BY <2>1
    <3>2. missed = Cardinality(R)
      BY <3>1
    <3> HIDE DEF p, R, A, missed
    <3> QED
      BY <1>1, <1>2, <3>2
  <2>2. CASE m \in R
    <3>1. missed = Cardinality(R) - 1 /\ missed \in Nat
      BY <1>2, <2>2, FS_RemoveElement, FS_CardinalityType
    <3>2. m \in A
      BY <2>2 DEF Asked, ChatInv, KeeperInv, Asking
    <3>3. Cardinality(A) >= 1
      <4> HIDE DEF A
      <4>1. A # {}
        BY <3>2
      <4>2. Cardinality(A) # 0
        BY <1>2, <4>1, FS_EmptySet
      <4> QED
        BY <1>2, <4>2
    <3> HIDE DEF A, missed
    <3> QED
      BY <1>1, <1>2, <3>1, <3>3
  <2> QED
    BY <2>1, <2>2
<1>4. /\ Notices!Owed(k) \in Nat /\ Notices!Owed(k) <= p
      /\ ~Notices!Lapsed(k) => Notices!Owed(k) = p
      /\ Notices!Lapsed(k) \in BOOLEAN
  BY <1>1 DEF Notices!Owed, Notices!Lapsed
<1>5. next \in Notices!Entry /\ next.last = clock /\ next.pending = 0
  <2> DEFINE e == entry[k]
  <2>1. e \in Notices!Entry /\ clock \in Notices!Time
    BY <1>1
  <2> HIDE DEF e
  <2>2. LET n == [e EXCEPT !.last = clock, !.pending = 0]
        IN  n \in Notices!Entry /\ n.last = clock /\ n.pending = 0
    BY ONLY <2>1 DEF Notices!Entry
  <2> QED
    BY <2>2 DEF e
<1>6. new \in Notices!Notice /\ new.by = k /\ new.at = clock /\ new.missed = missed
      /\ new.count = Notices!Owed(k) + 1 /\ new.lapsed = Notices!Lapsed(k)
  <2> HIDE DEF missed
  <2> QED
    BY <1>1, <1>3, <1>4 DEF Notices!Notice
<1>7. entry' = [entry EXCEPT ![k] = next] /\ sent' = sent \cup {new}
      /\ refused' = [refused EXCEPT ![k] = {}]
  <2>1. entry' = [entry EXCEPT ![k] = next] /\ refused' = [refused EXCEPT ![k] = {}]
    BY DEF Notices!LetThrough, ChatInv, Notices!TypeOK
  <2>2. missed = Notices!Cardinality(R \ {m})
    BY DEF Cardinality, Notices!Cardinality
  <2>3. sent' = sent \cup {new}
    BY <2>2 DEF Notices!LetThrough
  <2> QED
    BY <2>1, <2>3
<1> HIDE DEF next, new
<1>8. /\ entry'[k] = next /\ \A j \in Notices!Keeper \ {k} : entry'[j] = entry[j]
      /\ refused'[k] = {}
      /\ \A j \in Notices!Keeper \ {k} : refused'[j] = refused[j]
  BY <1>7 DEF ChatInv, Notices!TypeOK
<1>9. Notices!TypeOK'
  BY <1>5, <1>6, <1>7 DEF ChatInv, Notices!TypeOK, Asked
<1>10. KeeperInv(k)'
  <2>1. Asking(k)' = {} /\ IsFiniteSet({}) /\ Cardinality({}) = 0
    BY <1>8, FS_EmptySet DEF Asking
  <2> QED
    BY <1>1, <1>5, <1>8, <2>1 DEF KeeperInv
<1>11. \A j \in Notices!Keeper : KeeperInv(j)'
  BY <1>8, <1>10, OthersWait
<1>12. ASSUME NEW n \in sent
       PROVE  /\ n.by \in Notices!Keeper /\ n.at \in Nat
              /\ entry[n.by].last # Never /\ n.at <= entry[n.by].last
              /\ n.by = k => n.at + Window <= clock
  <2>1. n \in Notices!Notice /\ entry[n.by].last # Never /\ n.at <= entry[n.by].last
    BY DEF ChatInv, SentInv, Notices!TypeOK
  <2>2. n.by \in Notices!Keeper /\ n.at \in Nat
    BY <2>1, EndAssumption DEF Notices!Notice, Notices!Time
  <2> QED
    BY <1>1, <2>1, <2>2, WindowAssumption
<1>13. SentInv'
  BY <1>1, <1>5, <1>6, <1>7, <1>8, <1>12, WindowAssumption DEF SentInv
<1>14. Notices!NoticesApart'
  BY <1>6, <1>7, <1>12 DEF ChatInv, Notices!NoticesApart
<1>15. Notices!DigestCountsRefused'
  <2>1. (~new.lapsed => new.missed + 1 <= new.count) /\ new.count <= 2 * new.missed + 2
    <3> HIDE DEF missed, p
    <3> QED
      BY <1>1, <1>3, <1>4, <1>6
  <2> QED
    BY <1>7, <2>1 DEF ChatInv, Notices!DigestCountsRefused
<1> QED
  BY <1>9, <1>11, <1>13, <1>14, <1>15 DEF ChatInv

\* The calls go on, no keeper is asked.
LEMMA CallInv ==
  ASSUME ChatInv, NEW m \in Message, NEW c \in Notices!CallState,
         call' = [call EXCEPT ![m] = c],
         call[m].pc \in {"new", "askMail"} \/ c.pc = "done",
         UNCHANGED <<clock, entry, sent, refused>>
  PROVE  ChatInv'
<1>1. Notices!TypeOK /\ Notices!TypeOK'
  BY DEF ChatInv, Notices!TypeOK
<1>2. ASSUME NEW n \in Message
      PROVE  call'[n] = call[n] \/ call[n].pc \in {"new", "askMail"} \/ call'[n].pc = "done"
  BY <1>1 DEF Notices!TypeOK
<1>3. \A k \in Notices!Keeper : KeeperInv(k)'
  BY <1>1, <1>2, CallsMove, EntryTypes DEF ChatInv
<1> QED
  BY <1>1, <1>3
  DEF ChatInv, SentInv, Notices!NoticesApart, Notices!DigestCountsRefused

LEMMA CallShapes ==
  ASSUME NEW c \in Notices!CallState
  PROVE  /\ [pc |-> "done"] \in Notices!CallState
         /\ \A pc \in {"askMail", "askMessenger"}, s \in Server :
              [pc |-> pc, at |-> s] \in Notices!CallState
         /\ c.pc \in {"askMail", "askMessenger"} => c.at \in Server
         /\ c.pc = "askMail" =>
              /\ [c EXCEPT !.pc = "askMessenger"] \in Notices!CallState
              /\ [c EXCEPT !.pc = "askMessenger"].pc = "askMessenger"
  BY DEF Notices!CallState

LEMMA NoticeCallInv ==
  ASSUME ChatInv, NEW m \in Message, Notices!Continue(m)
  PROVE  ChatInv'
<1> DEFINE on == [call[m] EXCEPT !.pc = "askMessenger"]
           over == [pc |-> "done"]
<1>1. call[m] \in Notices!CallState /\ call = [call EXCEPT ![m] = call[m]]
  BY DEF ChatInv, Notices!TypeOK
<1>2. over \in Notices!CallState /\ over.pc = "done"
  BY <1>1, CallShapes
<1>3. ASSUME call[m].pc = "askMail", Notices!Goto(m, "askMessenger")
      PROVE  /\ on \in Notices!CallState /\ on.pc = "askMessenger"
             /\ call' = [call EXCEPT ![m] = on]
  BY <1>1, <1>3, CallShapes DEF Notices!Goto, ChatInv, Notices!TypeOK
<1> HIDE DEF on, over
<1>4. ASSUME NEW c, Asked(m, c), NEW channel \in Notices!Channel,
             Notices!Decide(m, channel), UNCHANGED clock
      PROVE  ChatInv'
  <2>1. call[m].at \in Server
    BY <1>1, <1>4, CallShapes DEF Asked
  <2>2. PICK k \in {"redis", call[m].at} :
          IF Notices!Early(k) THEN Notices!Refuse(m, k) ELSE Notices!LetThrough(m, k, channel)
    BY <1>4 DEF Notices!Decide
  <2>3. k \in Notices!Keeper
    BY <2>1 DEF Notices!Keeper
  <2> QED
    BY <1>4, <2>2, <2>3, RefuseInv, LetThroughInv
<1>5. ASSUME NEW s \in Server, Notices!Notify(m, s) PROVE ChatInv'
  <2>1. PICK pc \in {"askMail", "askMessenger"} : call' = [call EXCEPT ![m] = [pc |-> pc, at |-> s]]
    BY <1>5 DEF Notices!Notify
  <2>2. [pc |-> pc, at |-> s] \in Notices!CallState
    BY <1>1, CallShapes
  <2>3. call[m].pc = "new"
    BY <1>5 DEF Notices!Notify
  <2> QED
    BY <1>5, <2>1, <2>2, <2>3, CallInv DEF Notices!Notify, Notices!throttle
<1>6. CASE Notices!NotifyFails(m)
  BY <1>2, <1>6, CallInv DEF Notices!NotifyFails, Notices!Done, Notices!throttle, over
<1>7. CASE Notices!SkipMail(m)
  BY <1>3, <1>7, CallInv DEF Notices!SkipMail, Notices!throttle
<1>8. CASE Notices!AskMail(m)
  BY <1>3, <1>4, <1>8 DEF Notices!AskMail, Asked, Notices!Channel
<1>9. CASE Notices!SkipMessenger(m)
  BY <1>2, <1>9, CallInv DEF Notices!SkipMessenger, Notices!Done, Notices!throttle, over
<1>10. CASE Notices!AskMessenger(m)
  BY <1>2, <1>4, <1>10 DEF Notices!AskMessenger, Notices!Done, Asked, Notices!Channel, over
<1> QED
  BY <1>5, <1>6, <1>7, <1>8, <1>9, <1>10 DEF Notices!Continue

LEMMA TickInv == ASSUME ChatInv, Notices!Tick PROVE ChatInv'
<1>1. clock' = clock + 1 /\ clock \in Nat /\ clock' \in Notices!Time /\ clock <= clock'
      /\ clock' \in Nat /\ UNCHANGED <<entry, call, sent, refused>>
  BY EndAssumption DEF Notices!Tick, ChatInv, Notices!TypeOK, Notices!Time
<1>2. \A k \in Notices!Keeper : KeeperInv(k)'
  BY <1>1, CallsMove DEF ChatInv
<1>3. Notices!TypeOK'
  BY <1>1 DEF ChatInv, Notices!TypeOK
<1> QED
  BY <1>1, <1>2, <1>3
  DEF ChatInv, SentInv, Notices!NoticesApart, Notices!DigestCountsRefused

\* The keeper that dies has sent nothing and refused nothing; the others see calls end.
LEMMA ChatCrashInv ==
  ASSUME ChatInv, NEW s \in Server, Notices!Crash(s)
  PROVE  ChatInv'
<1>1. s \in Notices!Keeper /\ clock \in Notices!Time /\ clock \in Nat /\ clock' = clock
      /\ 0 \in Notices!Time
  BY EndAssumption
  DEF Notices!Keeper, ChatInv, Notices!TypeOK, Notices!Time, Notices!Crash
<1>2. Notices!Unused \in Notices!Entry /\ Notices!Unused.last = Never
      /\ Notices!Unused.pending = 0
  BY <1>1 DEF Notices!Unused, Notices!Entry
<1>3. entry' = [entry EXCEPT ![s] = Notices!Unused] /\ refused' = [refused EXCEPT ![s] = {}]
      /\ sent' = {n \in sent : n.by # s}
  BY DEF Notices!Crash
<1>4. ASSUME NEW m \in Message
      PROVE  call'[m] \in Notices!CallState /\ (call'[m] = call[m] \/ call'[m].pc = "done")
  BY CallShapes DEF Notices!Crash, ChatInv, Notices!TypeOK
<1>5. Notices!TypeOK'
  <2>1. call' \in [Message -> Notices!CallState]
    BY <1>4 DEF Notices!Crash
  <2> QED
    BY <1>1, <1>2, <1>3, <2>1 DEF ChatInv, Notices!TypeOK
<1>6. /\ entry'[s] = Notices!Unused /\ refused'[s] = {}
      /\ \A j \in Notices!Keeper \ {s} : entry'[j] = entry[j] /\ refused'[j] = refused[j]
  BY <1>1, <1>3 DEF ChatInv, Notices!TypeOK
<1>7. KeeperInv(s)'
  <2>1. Asking(s)' = {} /\ IsFiniteSet({}) /\ Cardinality({}) = 0
    BY <1>6, FS_EmptySet DEF Asking
  <2> QED
    BY <1>2, <1>6, <2>1 DEF KeeperInv
<1>8. ASSUME NEW k \in Notices!Keeper, k # s PROVE KeeperInv(k)'
  BY <1>1, <1>4, <1>6, <1>8, CallsMove DEF ChatInv
<1>9. SentInv'
  <2> SUFFICES ASSUME NEW n \in sent, n.by # s
               PROVE  entry'[n.by].last # Never /\ n.at <= entry'[n.by].last
    BY <1>3 DEF SentInv
  <2>1. n.by \in Notices!Keeper /\ entry[n.by].last # Never /\ n.at <= entry[n.by].last
    BY DEF ChatInv, SentInv, Notices!TypeOK, Notices!Notice
  <2> QED
    BY <1>6, <2>1
<1> QED
  BY <1>3, <1>5, <1>7, <1>8, <1>9
  DEF ChatInv, Notices!NoticesApart, Notices!DigestCountsRefused
-----------------------------------------------------------------------------
(* All of them.                                                              *)

NoticesInv == ChatInv /\ MailInv /\ CronInv /\ LinkInv

LEMMA InitInv == Init => NoticesInv
<1> SUFFICES ASSUME Init PROVE NoticesInv
  OBVIOUS
<1>1. ChatInv
  <2> USE DEF Init, Notices!Init
  <2>1. /\ 0 \in Notices!Time /\ Notices!Unused \in Notices!Entry
        /\ Notices!Unused.last = Never /\ Notices!Unused.pending = 0
        /\ [pc |-> "new"] \in Notices!CallState
    BY EndAssumption DEF Notices!Time, Notices!Unused, Notices!Entry, Notices!CallState
  <2>2. Notices!TypeOK
    BY <2>1 DEF Notices!TypeOK
  <2>3. ASSUME NEW k \in Notices!Keeper PROVE KeeperInv(k)
    <3>1. entry[k] = Notices!Unused /\ refused[k] = {}
      OBVIOUS
    <3>2. Asking(k) = {} /\ IsFiniteSet({}) /\ Cardinality({}) = 0
      BY <3>1, FS_EmptySet DEF Asking
    <3> QED
      BY <2>1, <3>1, <3>2 DEF KeeperInv
  <2> QED
    BY <2>2, <2>3
    DEF ChatInv, SentInv, Notices!NoticesApart, Notices!DigestCountsRefused
<1>2. MailInv
  BY AttemptsAssumption
  DEF Init, Mail!Init, MailInv, Mail!TypeOK, Mail!Job, Mail!NoJob, JobGoesOn,
      Mail!CopiesExplained
<1>3. CronInv
  BY RunShapes DEF Init, Cron!Init, CronInv, Cron!TypeOK
<1>4. LinkInv
  BY DEF Init, Links!Init, LinkInv, Links!TypeOK, CallIsBound, Links!CallState, Links!Idle
<1> QED
  BY <1>1, <1>2, <1>3, <1>4 DEF NoticesInv

LEMMA CloseInv == ASSUME CronInv, Cron!Close PROVE CronInv'
  BY DEF CronInv, Cron!TypeOK, Cron!Close, Cron!history, Accounted

LEMMA SettingInv == ASSUME CronInv, NEW r \in Recipient, Cron!Update(r) PROVE CronInv'
<1>1. off' \subseteq Recipient /\ UNCHANGED <<open, log, run, bell, silent, lost>>
  BY DEF CronInv, Cron!TypeOK, Cron!Update, Cron!history
<1> QED
  BY <1>1 DEF CronInv, Cron!TypeOK, Accounted

\* A part that a step does not touch keeps its invariant.
LEMMA ChatQuiet == ASSUME ChatInv, UNCHANGED chatVars PROVE ChatInv'
  BY DEF chatVars, ChatInv, Notices!TypeOK, KeeperInv, Asking, SentInv,
         Notices!NoticesApart, Notices!DigestCountsRefused

LEMMA MailQuiet == ASSUME MailInv, UNCHANGED mailVars PROVE MailInv'
  BY DEF mailVars, MailInv, Mail!TypeOK, JobGoesOn, Mail!CopiesExplained

LEMMA CronQuiet == ASSUME CronInv, UNCHANGED cronVars PROVE CronInv'
  BY DEF cronVars, CronInv, Cron!TypeOK, Accounted

LEMMA LinksQuiet == ASSUME LinkInv, UNCHANGED linkVars PROVE LinkInv'
  BY DEF linkVars, LinkInv, Links!TypeOK, CallIsBound

LEMMA NextInv == NoticesInv /\ [Next]_vars => NoticesInv'
<1> SUFFICES ASSUME NoticesInv, [Next]_vars PROVE NoticesInv'
  OBVIOUS
<1> USE DEF NoticesInv
<1>1. CASE NoticeStep
  BY <1>1, NoticeCallInv, TickInv, MailQuiet, CronQuiet, LinksQuiet DEF NoticeStep
<1>2. ASSUME NEW l \in Letter, MailStep(l) PROVE NoticesInv'
  BY <1>2, ChatQuiet, MailStepInv, CronQuiet, LinksQuiet DEF MailStep
<1>3. CASE CronStep
  BY <1>3, ChatQuiet, MailQuiet, CronStepInv, CloseInv, SettingInv, LinksQuiet DEF CronStep
<1>4. CASE LinkStep
  BY <1>4, ChatQuiet, MailQuiet, CronQuiet, LinkStepInv DEF LinkStep
<1>5. ASSUME NEW s \in Server, Crash(s) PROVE NoticesInv'
  <2>1. MailInv'
    BY <1>5, MailQuiet, MailStepInv DEF Crash
  <2> QED
    BY <1>5, <2>1, ChatCrashInv, CronCrashInv, LinksQuiet DEF Crash
<1>6. CASE UNCHANGED vars
  BY <1>6, ChatQuiet, MailQuiet, CronQuiet, LinksQuiet DEF vars
<1> QED
  BY <1>1, <1>2, <1>3, <1>4, <1>5, <1>6 DEF Next

\* The invariant holds in every state the notifications can reach.
THEOREM Invariance == Spec => []NoticesInv
  BY InitInv, NextInv, PTL DEF Spec

\* A process keeps one notice per recipient, conversation and window, however the letter
\* and the messengers of a message race (chat-email-throttle.service.ts:41): two notices
\* in one window come from two keepers.
THEOREM NoticesStayApart == Spec => []NoticesApart
  BY Invariance, PTL DEF NoticesInv, ChatInv, NoticesApart

\* A digest tells of every message that was refused, and of at most twice as many
\* (notifications.service.ts:244), for any number of them.
THEOREM DigestsCount == Spec => []DigestCountsRefused
  BY Invariance, PTL DEF NoticesInv, ChatInv, DigestCountsRefused

\* A letter has as many copies as attempts were cut off, and one more if its job was
\* done (mail.service.ts:193), for any number of attempts.
THEOREM CopiesAreExplained == Spec => []CopiesExplained
  BY Invariance, PTL DEF NoticesInv, MailInv, CopiesExplained

\* A claimed reminder is in the application or in the making, its recipient had it
\* switched off when notify asked, or it is counted as lost
\* (deadline-reminder.service.ts:168), for any number of processes and recipients.
THEOREM ClaimsAreKept == Spec => []ClaimMeansReminded
<1>1. CronInv => ClaimMeansReminded
  BY DEF CronInv, Accounted, ClaimMeansReminded, Cron!ClaimMeansReminded
<1> QED
  BY <1>1, Invariance, PTL DEF NoticesInv

\* A chat is bound to one user at a time, and is sent the notices of users that brought
\* their token back from it (integrations.service.ts:124).
THEOREM ChatsServeOneUser == Spec => []ChatServesOneUser
<1>1. LinkInv => ChatServesOneUser
  BY DEF LinkInv, ChatServesOneUser, Links!ChatServesOneUser, Links!Active
<1> QED
  BY <1>1, Invariance, PTL DEF NoticesInv
=============================================================================
