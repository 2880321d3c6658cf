---------------------------- MODULE TaskLifecycle ----------------------------
(***************************************************************************)
(* The life of one task row (src/src/tasks/tasks.service.ts) and of the    *)
(* rows that hang off it: its annulment and deadline-extension requests    *)
(* and its publication (src/src/publications/publications.service.ts).     *)
(*                                                                         *)
(* Every HTTP request runs in a handler.  A handler is a sequence of       *)
(* awaited database calls: other handlers run between two awaits, and a    *)
(* Prisma $transaction is one atomic step.  What a handler read before an  *)
(* await and uses after it is kept in its local state.                     *)
(*                                                                         *)
(* A request the code refuses (an exception thrown before any write)       *)
(* changes nothing and is not an action: its guard is simply false.  The   *)
(* texts, briefs, counters, assignee and activity log of a task are data   *)
(* no property here tells apart, and are left out.                         *)
(*                                                                         *)
(* A definition marked "mutant" is the next one with a mistake in it: it   *)
(* is used nowhere, and shows that the properties tell the two apart.      *)
(***************************************************************************)
EXTENDS Naturals, FiniteSets

CONSTANTS
  User,          \* profiles
  Owner,         \* the profile that owns the task; no handler ever changes it
  None,          \* SQL NULL for a user, and "no row" for the publication
  Post,          \* the owner's posts that are not archived
  Date,          \* deadlines, all in the future, ordered as numbers
  Handler,       \* slots for requests in flight: bounds the concurrency
  RequestId,     \* rows for annulment/extension requests: bounds their number
  Keep,          \* a DTO field the client did not send (undefined)
  OwnerDto,      \* bodies of PATCH /tasks/:id the owner's client sends
  ExecutorDto,   \* bodies the other participants' clients send
  InsertStatus,  \* statuses clients send with POST /tasks
  MayFail        \* whether a handler may die half-way (exception or crash)

VARIABLES
  task,          \* the Task row
  requests,      \* TaskAnnulmentRequest and TaskDeadlineExtensionRequest rows
  publication,   \* the Publication row of the task, or None
  handler,       \* the local state of each request in flight
  approvedBy     \* history: who last wrote isExecutorApprove = true

vars == <<task, requests, publication, handler, approvedBy>>
-----------------------------------------------------------------------------
TaskStatus == {"PREPARING", "PENDING_APPROVAL", "IN_PROGRESS", "CHECKING",
               "REVISION", "COMPLETED", "ANNULLED"}

TerminalTaskStatuses == {"COMPLETED", "ANNULLED"}

Approval == {"null", "true", "false"}

NullDate == 0

\* The two kinds of request; each has a table of its own, of the same shape.
Kind == {"annulment", "extension"}

Verdict == {"CONFIRMED", "REJECTED"}

TaskRow == [status: TaskStatus, executor: User \cup {None}, approve: Approval,
            archived: BOOLEAN, finalDate: Date \cup {NullDate}, post: Post]

Dto == [status: TaskStatus \cup {Keep}, executor: User \cup {Keep},
        approve: Approval \cup {Keep}, archived: BOOLEAN \cup {Keep},
        finalDate: Date \cup {NullDate, Keep}, post: Post \cup {Keep}]

RequestRow == [status: Verdict \cup {"PENDING"}, kind: Kind, by: User,
               date: Date \cup {NullDate}, resolver: User \cup {None}]

\* A row that has not been inserted yet.
Absent == [status |-> "absent"]

PublicationRow == [post: Post, executor: User \cup {None}]

Idle == [pc |-> "idle"]

HandlerState ==
  {Idle}
    \cup [pc: {"update"}, actor: User, patch: Dto, completes: BOOLEAN]
    \cup [pc: {"findPublication", "readCompleted"}]
    \cup [pc: {"publish"}, snapshot: PublicationRow]
    \cup [pc: {"findPending", "insert"}, actor: User, kind: Kind,
          date: Date \cup {NullDate}]
    \cup [pc: {"pick"}, actor: User, kind: Kind, verdict: Verdict]
    \cup [pc: {"resolve"}, actor: User, request: RequestId, verdict: Verdict]

ASSUME OwnerAssumption == Owner \in User /\ None \notin User
ASSUME NoneAssumption == None \notin PublicationRow
ASSUME DateAssumption == Date \subseteq Nat \ {NullDate}
ASSUME DtoAssumption == OwnerDto \subseteq Dto /\ ExecutorDto \subseteq Dto
ASSUME KeepAssumption ==
  /\ Keep \notin TaskStatus /\ Keep \notin Approval /\ Keep \notin BOOLEAN
  /\ Keep \notin User /\ Keep \notin Post /\ Keep \notin Date \cup {NullDate}
ASSUME InsertAssumption == InsertStatus \subseteq TaskStatus
-----------------------------------------------------------------------------
(* Reading the task row.                                                    *)

IsParticipant(u) == u = Owner \/ u = task.executor

CanArchive ==
  \/ task.status \in TerminalTaskStatuses
  \/ task.status = "PREPARING" /\ task.approve # "true"

MayArchive(u, dto) ==
  dto.archived = TRUE /\ ~task.archived => u = Owner /\ CanArchive

SetsAnnulled(dto) == dto.status = "ANNULLED"

\* validateExecutor, which the owner's update runs outside its transaction.
ValidExecutor(u, dto) == u = Owner => dto.executor # Owner

CompletesChecked(dto) ==  \* mutant
  dto.status = "COMPLETED" /\ task.status = "CHECKING"

\* The change of status that dispatchPublicationOnCompleted looks for.
Completes(dto) == dto.status = "COMPLETED" /\ task.status # "COMPLETED"

\* What a participant other than the owner may send (isCompanyAction, the
\* third field open to it, is data left out here).
IsExecutorDto(dto) ==
  /\ dto.status # Keep \/ dto.approve # Keep
  /\ dto.archived = Keep /\ dto.executor = Keep
  /\ dto.finalDate = Keep /\ dto.post = Keep

ResetsNothingGiven(u, dto) ==  \* mutant
  /\ u = Owner
  /\ dto.executor # Keep
  /\ dto.executor # task.executor /\ task.approve = "null"

\* The owner naming an executor clears the approval, whatever else is sent.
ResetsApproval(u, dto) ==
  /\ u = Owner
  /\ dto.executor # Keep
  /\ dto.executor # task.executor \/ task.approve # "null"

Merge(old, new) == IF new = Keep THEN old ELSE new

Patched(t, p) ==
  [status    |-> Merge(t.status, p.status),
   executor  |-> Merge(t.executor, p.executor),
   approve   |-> Merge(t.approve, p.approve),
   archived  |-> Merge(t.archived, p.archived),
   finalDate |-> Merge(t.finalDate, p.finalDate),
   post      |-> Merge(t.post, p.post)]

\* A move to another post takes an existing publication along.
MovedWith(p) ==
  IF p.post # Keep /\ publication # None
  THEN [publication EXCEPT !.post = p.post] ELSE publication

Goto(h, local) == handler' = [handler EXCEPT ![h] = local]
Done(h) == Goto(h, Idle)
-----------------------------------------------------------------------------
(* Insertion of the row: POST /tasks, or an accepted application.  Its id is *)
(* known to no other request before the insert returns.                      *)

CreatedManually ==
  /\ task \in [status: InsertStatus, executor: (User \ {Owner}) \cup {None},
               approve: {"null"}, archived: {FALSE},
               finalDate: Date \cup {NullDate}, post: Post]
  /\ approvedBy = None

CreatedFromAcceptedApplication ==
  /\ task \in [status: {"PREPARING"}, executor: User \ {Owner},
               approve: {"true"}, archived: {FALSE},
               finalDate: {NullDate}, post: Post]
  /\ approvedBy = task.executor

Init ==
  /\ CreatedManually \/ CreatedFromAcceptedApplication
  /\ requests = [i \in RequestId |-> Absent]
  /\ publication = None
  /\ handler = [h \in Handler |-> Idle]
-----------------------------------------------------------------------------
(* PATCH /tasks/:id                                                         *)

\* Everything before the transaction: the row is read once, every check and
\* the patch are computed from that reading.
UpdateRead(h, u, dto) ==
  /\ handler[h] = Idle
  /\ ~SetsAnnulled(dto)
  /\ IsParticipant(u)
  /\ MayArchive(u, dto)
  /\ dto.post # Keep => u = Owner /\ dto.post # task.post
  /\ u # Owner => IsExecutorDto(dto)
  /\ ValidExecutor(u, dto)
  /\ Goto(h, [pc |-> "update", actor |-> u,
              patch |-> IF ResetsApproval(u, dto)
                        THEN [dto EXCEPT !.approve = "null"] ELSE dto,
              completes |-> Completes(dto)])
  /\ UNCHANGED <<task, requests, publication, approvedBy>>

\* The transaction: the patch is applied to the row as it is now.
UpdateWrite(h) ==
  /\ handler[h].pc = "update"
  /\ LET p == handler[h].patch
     IN  /\ task' = Patched(task, p)
         /\ publication' = MovedWith(p)
         /\ approvedBy' = IF p.approve = "true" THEN handler[h].actor
                          ELSE approvedBy
  /\ IF handler[h].completes THEN Goto(h, [pc |-> "findPublication"]) ELSE Done(h)
  /\ UNCHANGED requests
-----------------------------------------------------------------------------
(* createFromCompletedTask, awaited by the update that completed the task.  *)

FindPublication(h) ==
  /\ handler[h].pc = "findPublication"
  /\ IF publication = None THEN Goto(h, [pc |-> "readCompleted"]) ELSE Done(h)
  /\ UNCHANGED <<task, requests, publication, approvedBy>>

ReadCompletedTask(h) ==
  /\ handler[h].pc = "readCompleted"
  /\ IF task.status = "COMPLETED"
     THEN Goto(h, [pc |-> "publish",
                   snapshot |-> [post |-> task.post, executor |-> task.executor]])
     ELSE Done(h)
  /\ UNCHANGED <<task, requests, publication, approvedBy>>

\* Publication.taskId is unique: the later of two inserts fails.
CreatePublication(h) ==
  /\ handler[h].pc = "publish"
  /\ publication' = IF publication = None THEN handler[h].snapshot ELSE publication
  /\ Done(h)
  /\ UNCHANGED <<task, requests, approvedBy>>
-----------------------------------------------------------------------------
(* Requests that need the other party: annulment and deadline extension.    *)

RequestsOfKind(k) ==  \* mutant
  {i \in RequestId : requests[i] # Absent /\ requests[i].kind = k}

PendingRequests(k) ==
  {i \in RequestId : requests[i].status = "PENDING" /\ requests[i].kind = k}

\* Bound: a request is received only while a row is left for it.
RowLeft ==
  Cardinality({g \in Handler : handler[g].pc \in {"findPending", "insert"}})
    < Cardinality({i \in RequestId : requests[i] = Absent})

\* The guards both request handlers apply to the row they read.
BeginRequest(h, u, k, d) ==
  /\ handler[h] = Idle
  /\ RowLeft
  /\ IsParticipant(u)
  /\ task.executor # None
  /\ ~task.archived
  /\ task.status \notin TerminalTaskStatuses
  /\ Goto(h, [pc |-> "findPending", actor |-> u, kind |-> k, date |-> d])
  /\ UNCHANGED <<task, requests, publication, approvedBy>>

RequestAnnulment(h, u) == BeginRequest(h, u, "annulment", NullDate)

\* The proposed date is compared with the deadline that was read (a missing
\* deadline is 0, and every Date lies in the future).
RequestDeadlineExtension(h, u, d) ==
  /\ d > task.finalDate
  /\ BeginRequest(h, u, "extension", d)

FindNoPending(h) ==
  /\ handler[h].pc = "findPending"
  /\ IF PendingRequests(handler[h].kind) = {}
     THEN Goto(h, [handler[h] EXCEPT !.pc = "insert"]) ELSE Done(h)
  /\ UNCHANGED <<task, requests, publication, approvedBy>>

InsertRequest(h) ==
  /\ handler[h].pc = "insert"
  /\ \E i \in RequestId :
       /\ requests[i] = Absent
       /\ requests' = [requests EXCEPT ![i] =
            [status |-> "PENDING", kind |-> handler[h].kind,
             by |-> handler[h].actor, date |-> handler[h].date,
             resolver |-> None]]
  /\ Done(h)
  /\ UNCHANGED <<task, publication, approvedBy>>

BeginResolve(h, u, k, v) ==
  /\ handler[h] = Idle
  /\ IsParticipant(u)
  /\ Goto(h, [pc |-> "pick", actor |-> u, kind |-> k, verdict |-> v])
  /\ UNCHANGED <<task, requests, publication, approvedBy>>

PickAnyPending(h) ==  \* mutant
  /\ handler[h].pc = "pick"
  /\ \E i \in PendingRequests(handler[h].kind) :
       Goto(h, [pc |-> "resolve", actor |-> handler[h].actor,
                request |-> i, verdict |-> handler[h].verdict])
  /\ UNCHANGED <<task, requests, publication, approvedBy>>

\* findFirst has no orderBy: any pending row may be the one returned.
PickPending(h) ==
  /\ handler[h].pc = "pick"
  /\ LET pending == PendingRequests(handler[h].kind)
     IN  \/ pending = {} /\ Done(h)
         \/ \E i \in pending :
              IF requests[i].by = handler[h].actor THEN Done(h)
              ELSE Goto(h, [pc |-> "resolve", actor |-> handler[h].actor,
                            request |-> i, verdict |-> handler[h].verdict])
  /\ UNCHANGED <<task, requests, publication, approvedBy>>

\* The update of the request row names it by id alone.
Resolved(h) ==
  [requests EXCEPT ![handler[h].request].status = handler[h].verdict,
                   ![handler[h].request].resolver = handler[h].actor]

Confirms(h, k) ==
  /\ handler[h].pc = "resolve"
  /\ handler[h].verdict = "CONFIRMED"
  /\ requests[handler[h].request].kind = k

ConfirmAnnulment(h) ==
  /\ Confirms(h, "annulment")
  /\ requests' = Resolved(h)
  /\ task' = [task EXCEPT !.status = "ANNULLED"]
  /\ Done(h)
  /\ UNCHANGED <<publication, approvedBy>>

ConfirmDeadlineExtension(h) ==
  /\ Confirms(h, "extension")
  /\ requests' = Resolved(h)
  /\ task' = [task EXCEPT !.finalDate = requests[handler[h].request].date]
  /\ Done(h)
  /\ UNCHANGED <<publication, approvedBy>>

Rejects(h, k) ==
  /\ handler[h].pc = "resolve"
  /\ handler[h].verdict = "REJECTED"
  /\ requests[handler[h].request].kind = k
  /\ requests' = Resolved(h)
  /\ Done(h)
  /\ UNCHANGED <<task, publication, approvedBy>>

RejectAnnulment(h) == Rejects(h, "annulment")
RejectDeadlineExtension(h) == Rejects(h, "extension")
-----------------------------------------------------------------------------
\* An awaited call throws, or the process crashes: the rest of the handler is
\* not run, what it committed stays.
Fail(h) ==
  /\ MayFail
  /\ handler[h] # Idle
  /\ Done(h)
  /\ UNCHANGED <<task, requests, publication, approvedBy>>

Receive(h) ==
  \E u \in User :
    \/ \E dto \in IF u = Owner THEN OwnerDto ELSE ExecutorDto : UpdateRead(h, u, dto)
    \/ RequestAnnulment(h, u)
    \/ \E d \in Date : RequestDeadlineExtension(h, u, d)
    \/ \E k \in Kind, v \in Verdict : BeginResolve(h, u, k, v)

Continue(h) ==
  \/ UpdateWrite(h)
  \/ FindPublication(h) \/ ReadCompletedTask(h) \/ CreatePublication(h)
  \/ FindNoPending(h) \/ InsertRequest(h)
  \/ PickPending(h)
  \/ ConfirmAnnulment(h) \/ RejectAnnulment(h)
  \/ ConfirmDeadlineExtension(h) \/ RejectDeadlineExtension(h)

Next == \E h \in Handler : Receive(h) \/ Continue(h) \/ Fail(h)

Spec == Init /\ [][Next]_vars

\* Promises settle: a handler that was admitted goes on to its end.
FairSpec == Spec /\ \A h \in Handler : WF_vars(Continue(h))
-----------------------------------------------------------------------------
\* Every variable holds a row, or a local state, of its type.
TypeOK ==
  /\ task \in TaskRow
  /\ requests \in [RequestId -> RequestRow \cup {Absent}]
  /\ publication \in PublicationRow \cup {None}
  /\ handler \in [Handler -> HandlerState]
  /\ approvedBy \in User \cup {None}
-----------------------------------------------------------------------------
(* What holds however the handlers interleave and wherever they die.        *)

\* The owner is never made the executor of its own task (validateExecutor),
\* though the new executor is checked outside the transaction.
ExecutorIsNotOwner == task.executor # Owner

\* A request is confirmed or rejected by somebody else than the one who made
\* it ("only the other side may"), even when it is resolved from a stale read.
ResolvedByOther ==
  \A i \in RequestId :
    requests[i].status \in Verdict => requests[i].resolver # requests[i].by

\* An existing task becomes ANNULLED only where an annulment request stands
\* confirmed by another user than its author: no PATCH gets there.
AnnulledByAgreement ==
  [][task.status # "ANNULLED" /\ task'.status = "ANNULLED" =>
       \E i \in RequestId : /\ requests'[i].status = "CONFIRMED"
                            /\ requests'[i].kind = "annulment"
                            /\ requests'[i].resolver # requests'[i].by]_vars

\* The deadline moves only when the owner says so, or to the date of an
\* extension that one user asked for and another confirmed.
DeadlineByOwnerOrAgreement ==
  [][task'.finalDate # task.finalDate =>
       \/ \E h \in Handler : /\ handler[h].pc = "update"
                             /\ handler[h].actor = Owner
                             /\ handler[h].patch.finalDate = task'.finalDate
       \/ \E i \in RequestId : /\ requests'[i].status = "CONFIRMED"
                               /\ requests'[i].kind = "extension"
                               /\ requests'[i].date = task'.finalDate
                               /\ requests'[i].resolver # requests'[i].by]_vars

\* A publication is a snapshot taken once: whichever of two completions
\* inserts it first, no later one replaces or removes it.
PublicationTakenOnce ==
  [][publication # None =>
       publication' # None /\ publication'.executor = publication.executor]_vars
-----------------------------------------------------------------------------
(* What the checks ensure while requests are served one at a time, and what *)
(* their separation from the writes loses as soon as two overlap.           *)

\* A resolved request is never resolved again ("there is no active request",
\* confirm and reject).
ResolvedOnce ==
  [][\A i \in RequestId :
       requests[i].status \in Verdict => requests'[i] = requests[i]]_vars

\* An approval on the row was given by the present executor or by the owner,
\* never by a former executor (update).
ApprovalIsCurrent ==
  task.approve = "true" => approvedBy \in {task.executor, Owner}

\* A task that a PATCH completes, and that stays completed, gets its
\* publication (dispatchPublicationOnCompleted).
CompletedGetsPublished ==
  task.status = "COMPLETED" ~> publication # None \/ task.status # "COMPLETED"
-----------------------------------------------------------------------------
(* The agreement between the two sides of the task, as TaskContract states  *)
(* it: the statuses are whether the task is annulled, the request rows are  *)
(* who asked and who answered, and the owner's word is what the updates on  *)
(* their way to the database carry.                                         *)

AnswerOf(status) ==
  CASE status = "CONFIRMED" -> "yes"
    [] status = "REJECTED"  -> "no"
    [] OTHER                -> "none"

Asked ==
  [i \in RequestId |->
     IF requests[i] = Absent THEN Absent
     ELSE [subject    |-> requests[i].kind,
           by         |-> requests[i].by,
           date       |-> requests[i].date,
           answer     |-> AnswerOf(requests[i].status),
           answeredBy |-> requests[i].resolver]]

OwnersWord ==
  {handler[h].patch.finalDate :
     h \in {g \in Handler : /\ handler[g].pc = "update"
                            /\ handler[g].actor = Owner
                            /\ handler[g].patch.finalDate # Keep}}

Contract == INSTANCE TaskContract WITH
  Ask      <- RequestId,
  NoDate   <- NullDate,
  Nobody   <- None,
  Unasked  <- Absent,
  annulled <- task.status = "ANNULLED",
  deadline <- task.finalDate,
  ask      <- Asked,
  word     <- OwnersWord

\* Whatever the handlers read before they write, and wherever they die, the
\* task is annulled, and its deadline moved against the owner's word, only by
\* one side answering what the other has asked (confirm*, reject*, update).
ImplementsContract == Contract!Spec
=============================================================================
