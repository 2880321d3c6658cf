------------------------- MODULE TaskLifecycleProofs -------------------------
(* Safety of TaskLifecycle for every set of profiles, posts, dates, handlers *)
(* and request rows.  Inv is the inductive invariant: the types, what a      *)
(* handler's stale reading still guarantees when it writes, and the two      *)
(* invariants that follow from it.  The action properties come next, and     *)
(* that TaskLifecycle implements TaskContract last.                          *)
EXTENDS TaskLifecycle, TLAPS

\* An update waiting to be written never sets ANNULLED, never makes the owner
\* the executor, and touches the deadline only for the owner.
UpdateIsSafe(l) ==
  l.pc = "update" =>
    /\ l.patch.status # "ANNULLED"
    /\ l.patch.executor # Owner
    /\ l.actor # Owner => l.patch.finalDate = Keep

\* A resolution waiting to be written aims at an inserted row of another user.
ResolveIsSafe(l) ==
  l.pc = "resolve" =>
    /\ requests[l.request] # Absent
    /\ requests[l.request].by # l.actor

HandlersAreSafe ==
  \A h \in Handler : UpdateIsSafe(handler[h]) /\ ResolveIsSafe(handler[h])

Inv == TypeOK /\ HandlersAreSafe /\ ExecutorIsNotOwner /\ ResolvedByOther
-----------------------------------------------------------------------------
(* Lemmas on the operators.                                                  *)

\* Applying a patch of the right type to a row yields a row.
LEMMA PatchedType ==
  ASSUME NEW t \in TaskRow, NEW p \in Dto
  PROVE  Patched(t, p) \in TaskRow
<1>1. Merge(t.status, p.status) \in TaskStatus
  BY DEF Merge, TaskRow, Dto
<1>2. Merge(t.executor, p.executor) \in User \cup {None}
  BY DEF Merge, TaskRow, Dto
<1>3. Merge(t.approve, p.approve) \in Approval
  BY DEF Merge, TaskRow, Dto
<1>4. Merge(t.archived, p.archived) \in BOOLEAN
  BY Zenon DEF Merge, TaskRow, Dto
<1>5. Merge(t.finalDate, p.finalDate) \in Date \cup {NullDate}
  BY DEF Merge, TaskRow, Dto
<1>6. Merge(t.post, p.post) \in Post
  BY DEF Merge, TaskRow, Dto
<1> QED
  BY <1>1, <1>2, <1>3, <1>4, <1>5, <1>6 DEF Patched, TaskRow

\* An inserted row of the right type is no absent row, and the other way round.
LEMMA AbsentIsNoRow ==
  ASSUME NEW r \in RequestRow \cup {Absent}
  PROVE  /\ r # Absent => r \in RequestRow
         /\ r.status \in Verdict \cup {"PENDING"} => r \in RequestRow
         /\ r \in RequestRow => r # Absent /\ r.status \in Verdict \cup {"PENDING"}
  BY DEF RequestRow, Absent, Verdict

\* Goto changes one handler, to a state of the right type.
LEMMA GotoType ==
  ASSUME TypeOK, NEW h \in Handler, NEW l \in HandlerState, Goto(h, l)
  PROVE  /\ handler' \in [Handler -> HandlerState]
         /\ handler'[h] = l
         /\ \A g \in Handler \ {h} : handler'[g] = handler[g]
  BY DEF TypeOK, Goto

\* The state a handler takes next fits its type: one fact per shape.
LEMMA HandlerShapes ==
  /\ Idle \in HandlerState
  /\ \A u \in User, p \in Dto, b \in BOOLEAN :
       [pc |-> "update", actor |-> u, patch |-> p, completes |-> b] \in HandlerState
  /\ \A pc \in {"findPublication", "readCompleted"} : [pc |-> pc] \in HandlerState
  /\ \A s \in PublicationRow : [pc |-> "publish", snapshot |-> s] \in HandlerState
  /\ \A pc \in {"findPending", "insert"}, u \in User, k \in Kind,
        d \in Date \cup {NullDate} :
       [pc |-> pc, actor |-> u, kind |-> k, date |-> d] \in HandlerState
  /\ \A u \in User, k \in Kind, v \in Verdict :
       [pc |-> "pick", actor |-> u, kind |-> k, verdict |-> v] \in HandlerState
  /\ \A u \in User, i \in RequestId, v \in Verdict :
       [pc |-> "resolve", actor |-> u, request |-> i, verdict |-> v] \in HandlerState
  BY DEF HandlerState

\* And, read backwards, the program counter of a handler tells its shape.
LEMMA ShapeByPc ==
  ASSUME NEW l \in HandlerState
  PROVE  /\ l.pc = "update" => /\ l.actor \in User /\ l.patch \in Dto
                               /\ l.completes \in BOOLEAN
         /\ l.pc = "publish" => l.snapshot \in PublicationRow
         /\ l.pc \in {"findPending", "insert"} =>
              /\ l.actor \in User /\ l.kind \in Kind /\ l.date \in Date \cup {NullDate}
              /\ l = [pc |-> l.pc, actor |-> l.actor, kind |-> l.kind, date |-> l.date]
         /\ l.pc = "pick" => l.actor \in User /\ l.kind \in Kind /\ l.verdict \in Verdict
         /\ l.pc = "resolve" => /\ l.actor \in User /\ l.request \in RequestId
                                /\ l.verdict \in Verdict
  BY DEF HandlerState, Idle

\* A step that moves one handler to a safe state and writes no row.
LEMMA QuietStep ==
  ASSUME Inv, NEW h \in Handler, NEW l \in HandlerState,
         UpdateIsSafe(l), ResolveIsSafe(l), Goto(h, l),
         UNCHANGED <<task, requests, publication, approvedBy>>
  PROVE  Inv'
<1>1. TypeOK'
  BY GotoType DEF Inv, TypeOK
<1>2. HandlersAreSafe'
  <2> SUFFICES ASSUME NEW g \in Handler
               PROVE  (UpdateIsSafe(handler[g]) /\ ResolveIsSafe(handler[g]))'
    BY DEF HandlersAreSafe
  <2>1. CASE g = h
    BY <2>1, GotoType DEF Inv, UpdateIsSafe, ResolveIsSafe
  <2>2. CASE g # h
    BY <2>2, GotoType DEF Inv, HandlersAreSafe, UpdateIsSafe, ResolveIsSafe
  <2> QED
    BY <2>1, <2>2
<1>3. ExecutorIsNotOwner' /\ ResolvedByOther'
  BY DEF Inv, ExecutorIsNotOwner, ResolvedByOther
<1> QED
  BY <1>1, <1>2, <1>3 DEF Inv

\* Idle is safe.
LEMMA IdleIsSafe == UpdateIsSafe(Idle) /\ ResolveIsSafe(Idle) /\ Idle \in HandlerState
  BY HandlerShapes DEF Idle, UpdateIsSafe, ResolveIsSafe
-----------------------------------------------------------------------------
(* Each action preserves the invariant.                                      *)

\* A new task, created by hand or from an application, satisfies Inv.
LEMMA InitInv == Init => Inv
<1> SUFFICES ASSUME Init PROVE Inv
  OBVIOUS
<1>1. task \in TaskRow /\ approvedBy \in User \cup {None} /\ task.executor # Owner
  <2>1. CASE CreatedManually
    BY <2>1, OwnerAssumption, InsertAssumption
    DEF CreatedManually, TaskRow, Approval
  <2>2. CASE CreatedFromAcceptedApplication
    BY <2>2, OwnerAssumption
    DEF CreatedFromAcceptedApplication, TaskRow, Approval, TaskStatus
  <2> QED
    BY <2>1, <2>2 DEF Init
<1>2. TypeOK
  BY <1>1, IdleIsSafe DEF Init, TypeOK
<1>3. HandlersAreSafe
  BY IdleIsSafe DEF Init, HandlersAreSafe
<1>4. ExecutorIsNotOwner /\ ResolvedByOther
  BY <1>1 DEF Init, ExecutorIsNotOwner, ResolvedByOther, Absent, Verdict
<1> QED
  BY <1>2, <1>3, <1>4 DEF Inv

\* The checks of an update leave it a patch that is safe to write later.
LEMMA UpdateReadInv ==
  ASSUME Inv, NEW h \in Handler, NEW u \in User,
         NEW dto \in IF u = Owner THEN OwnerDto ELSE ExecutorDto,
         UpdateRead(h, u, dto)
  PROVE  Inv'
<1> DEFINE p == IF ResetsApproval(u, dto) THEN [dto EXCEPT !.approve = "null"] ELSE dto
           b == Completes(dto)
           l == [pc |-> "update", actor |-> u, patch |-> p, completes |-> b]
<1>1. dto \in Dto
  BY DtoAssumption
<1>2. p \in Dto /\ p.status = dto.status /\ p.executor = dto.executor
      /\ p.finalDate = dto.finalDate
  BY <1>1 DEF Dto, Approval
<1>3. l \in HandlerState
  BY <1>2, HandlerShapes DEF Completes
<1>4. UpdateIsSafe(l)
  <2>1. p.status # "ANNULLED"
    BY <1>2 DEF UpdateRead, SetsAnnulled
  <2>2. p.executor # Owner
    BY <1>2, KeepAssumption, OwnerAssumption
    DEF UpdateRead, IsExecutorDto, ValidExecutor
  <2>3. u # Owner => p.finalDate = Keep
    BY <1>2 DEF UpdateRead, IsExecutorDto
  <2> QED
    BY <2>1, <2>2, <2>3 DEF UpdateIsSafe
<1>5. ResolveIsSafe(l)
  BY DEF ResolveIsSafe
<1> QED
  BY <1>3, <1>4, <1>5, QuietStep DEF UpdateRead

\* The patch may meet another row than the one it was computed from.
LEMMA UpdateWriteInv ==
  ASSUME Inv, NEW h \in Handler, UpdateWrite(h)
  PROVE  Inv'
<1> DEFINE p == handler[h].patch
           next == IF handler[h].completes THEN [pc |-> "findPublication"] ELSE Idle
<1>1. /\ handler[h] \in HandlerState /\ handler[h].actor \in User /\ p \in Dto
      /\ p.executor # Owner
  BY ShapeByPc DEF Inv, TypeOK, HandlersAreSafe, UpdateIsSafe, UpdateWrite
<1>2. next \in HandlerState /\ UpdateIsSafe(next) /\ ResolveIsSafe(next)
  BY IdleIsSafe, HandlerShapes DEF UpdateIsSafe, ResolveIsSafe
<1>3. Goto(h, next)
  BY DEF UpdateWrite, Done
<1>4. /\ handler' \in [Handler -> HandlerState] /\ handler'[h] = next
      /\ \A g \in Handler \ {h} : handler'[g] = handler[g]
  BY <1>2, <1>3, GotoType DEF Inv
<1>5. task' = Patched(task, p) /\ task' \in TaskRow
  BY <1>1, PatchedType DEF UpdateWrite, Inv, TypeOK
<1>6. publication' \in PublicationRow \cup {None}
  BY <1>1 DEF UpdateWrite, MovedWith, Inv, TypeOK, PublicationRow, Dto
<1>7. TypeOK'
  BY <1>1, <1>4, <1>5, <1>6 DEF UpdateWrite, Inv, TypeOK
<1>8. HandlersAreSafe'
  <2> SUFFICES ASSUME NEW g \in Handler
               PROVE  (UpdateIsSafe(handler[g]) /\ ResolveIsSafe(handler[g]))'
    BY DEF HandlersAreSafe
  <2>1. CASE g = h
    BY <2>1, <1>2, <1>4 DEF UpdateIsSafe, ResolveIsSafe, UpdateWrite
  <2>2. CASE g # h
    BY <2>2, <1>4 DEF Inv, HandlersAreSafe, UpdateIsSafe, ResolveIsSafe, UpdateWrite
  <2> QED
    BY <2>1, <2>2
<1>9. ExecutorIsNotOwner'
  <2>1. task'.executor = Merge(task.executor, p.executor)
    BY <1>5 DEF Patched
  <2> QED
    BY <2>1, <1>1 DEF Merge, Inv, ExecutorIsNotOwner
<1>10. ResolvedByOther'
  BY DEF UpdateWrite, Inv, ResolvedByOther
<1> QED
  BY <1>7, <1>8, <1>9, <1>10 DEF Inv

\* Looking for the publication writes nothing.
LEMMA FindPublicationInv ==
  ASSUME Inv, NEW h \in Handler, FindPublication(h)
  PROVE  Inv'
<1> DEFINE next == IF publication = None THEN [pc |-> "readCompleted"] ELSE Idle
<1>1. next \in HandlerState /\ UpdateIsSafe(next) /\ ResolveIsSafe(next)
  BY IdleIsSafe, HandlerShapes DEF UpdateIsSafe, ResolveIsSafe
<1>2. Goto(h, next)
  BY DEF FindPublication, Done
<1> QED
  BY <1>1, <1>2, QuietStep DEF FindPublication

\* The snapshot read for the publication is of a publication's type.
LEMMA ReadCompletedTaskInv ==
  ASSUME Inv, NEW h \in Handler, ReadCompletedTask(h)
  PROVE  Inv'
<1> DEFINE snap == [post |-> task.post, executor |-> task.executor]
           next == IF task.status = "COMPLETED"
                   THEN [pc |-> "publish", snapshot |-> snap] ELSE Idle
<1>1. snap \in PublicationRow
  BY DEF Inv, TypeOK, TaskRow, PublicationRow
<1>2. next \in HandlerState /\ UpdateIsSafe(next) /\ ResolveIsSafe(next)
  BY <1>1, IdleIsSafe, HandlerShapes DEF UpdateIsSafe, ResolveIsSafe
<1>3. Goto(h, next)
  BY DEF ReadCompletedTask, Done
<1> QED
  BY <1>2, <1>3, QuietStep DEF ReadCompletedTask

\* A step that ends a handler and writes no request row and no executor.
LEMMA LastStep ==
  ASSUME Inv, NEW h \in Handler, Done(h), task' \in TaskRow,
         task'.executor = task.executor, UNCHANGED <<requests, approvedBy>>,
         publication' \in PublicationRow \cup {None}
  PROVE  Inv'
<1>1. /\ handler' \in [Handler -> HandlerState] /\ handler'[h] = Idle
      /\ \A g \in Handler \ {h} : handler'[g] = handler[g]
  BY IdleIsSafe, GotoType DEF Inv, Done
<1>2. TypeOK'
  BY <1>1 DEF Inv, TypeOK
<1>3. HandlersAreSafe'
  <2> SUFFICES ASSUME NEW g \in Handler
               PROVE  (UpdateIsSafe(handler[g]) /\ ResolveIsSafe(handler[g]))'
    BY DEF HandlersAreSafe
  <2>1. CASE g = h
    BY <2>1, <1>1, IdleIsSafe DEF UpdateIsSafe, ResolveIsSafe
  <2>2. CASE g # h
    BY <2>2, <1>1 DEF Inv, HandlersAreSafe, UpdateIsSafe, ResolveIsSafe
  <2> QED
    BY <2>1, <2>2
<1>4. ExecutorIsNotOwner' /\ ResolvedByOther'
  BY DEF Inv, ExecutorIsNotOwner, ResolvedByOther
<1> QED
  BY <1>2, <1>3, <1>4 DEF Inv

\* The insert takes the snapshot, or fails on the unique task id.
LEMMA CreatePublicationInv ==
  ASSUME Inv, NEW h \in Handler, CreatePublication(h)
  PROVE  Inv'
<1>1. publication' \in PublicationRow \cup {None}
  BY ShapeByPc DEF CreatePublication, Inv, TypeOK
<1> QED
  BY <1>1, LastStep DEF CreatePublication, Inv, TypeOK

\* A handler that dies leaves the rows as they were.
LEMMA FailInv ==
  ASSUME Inv, NEW h \in Handler, Fail(h)
  PROVE  Inv'
  BY LastStep DEF Fail, Inv, TypeOK

\* A guard on the rows a request reads, and the note of what it asks for.
LEMMA BeginRequestInv ==
  ASSUME Inv, NEW h \in Handler, NEW u \in User, NEW k \in Kind,
         NEW d \in Date \cup {NullDate}, BeginRequest(h, u, k, d)
  PROVE  Inv'
<1> DEFINE next == [pc |-> "findPending", actor |-> u, kind |-> k, date |-> d]
<1>1. next \in HandlerState /\ UpdateIsSafe(next) /\ ResolveIsSafe(next)
  BY HandlerShapes DEF UpdateIsSafe, ResolveIsSafe
<1> QED
  BY <1>1, QuietStep DEF BeginRequest

\* Whether or not a pending row is found, nothing is written.
LEMMA FindNoPendingInv ==
  ASSUME Inv, NEW h \in Handler, FindNoPending(h)
  PROVE  Inv'
<1> DEFINE here == handler[h]
           insert == [pc |-> "insert", actor |-> here.actor, kind |-> here.kind,
                      date |-> here.date]
           next == IF PendingRequests(here.kind) = {} THEN insert ELSE Idle
<1>1. /\ here \in HandlerState /\ here.pc = "findPending"
      /\ here.actor \in User /\ here.kind \in Kind /\ here.date \in Date \cup {NullDate}
      /\ here = [pc |-> here.pc, actor |-> here.actor, kind |-> here.kind,
                 date |-> here.date]
  BY ShapeByPc DEF FindNoPending, Inv, TypeOK
<1>2. [here EXCEPT !.pc = "insert"] = insert
  BY <1>1
<1>3. next \in HandlerState /\ UpdateIsSafe(next) /\ ResolveIsSafe(next)
  BY <1>1, IdleIsSafe, HandlerShapes DEF UpdateIsSafe, ResolveIsSafe
<1>4. Goto(h, next)
  BY <1>2 DEF FindNoPending, Done
<1> QED
  BY <1>3, <1>4, QuietStep DEF FindNoPending

\* Admitting a resolution only notes who resolves, and how.
LEMMA BeginResolveInv ==
  ASSUME Inv, NEW h \in Handler, NEW u \in User, NEW k \in Kind, NEW v \in Verdict,
         BeginResolve(h, u, k, v)
  PROVE  Inv'
<1> DEFINE next == [pc |-> "pick", actor |-> u, kind |-> k, verdict |-> v]
<1>1. next \in HandlerState /\ UpdateIsSafe(next) /\ ResolveIsSafe(next)
  BY HandlerShapes DEF UpdateIsSafe, ResolveIsSafe
<1> QED
  BY <1>1, QuietStep DEF BeginResolve

\* The row picked is an inserted one, and not the actor's own.
LEMMA PickPendingInv ==
  ASSUME Inv, NEW h \in Handler, PickPending(h)
  PROVE  Inv'
<1> DEFINE here == handler[h]
           resolve(i) == [pc |-> "resolve", actor |-> here.actor, request |-> i,
                          verdict |-> here.verdict]
<1>1. here \in HandlerState /\ here.actor \in User /\ here.verdict \in Verdict
  BY ShapeByPc DEF PickPending, Inv, TypeOK
<1>2. CASE Done(h)
  BY <1>2, IdleIsSafe, QuietStep DEF PickPending, Done
<1>3. ASSUME NEW i \in PendingRequests(here.kind), requests[i].by # here.actor,
             Goto(h, resolve(i))
      PROVE  Inv'
  <2>1. i \in RequestId /\ requests[i] \in RequestRow \cup {Absent}
        /\ requests[i].status = "PENDING"
    BY <1>3 DEF PendingRequests, Inv, TypeOK
  <2>2. requests[i] # Absent
    BY <2>1 DEF Absent
  <2>3. resolve(i) \in HandlerState
    BY <1>1, <2>1, HandlerShapes
  <2>4. UpdateIsSafe(resolve(i)) /\ ResolveIsSafe(resolve(i))
    BY <1>3, <2>2 DEF UpdateIsSafe, ResolveIsSafe
  <2> QED
    BY <1>3, <2>3, <2>4, QuietStep DEF PickPending
<1> QED
  BY <1>2, <1>3 DEF PickPending

\* A step that ends a handler and writes one request row: a new one, or one
\* whose author stays and differs from its resolver.
LEMMA RequestStep ==
  ASSUME Inv, NEW h \in Handler, NEW i \in RequestId, NEW r \in RequestRow,
         Done(h), requests' = [requests EXCEPT ![i] = r],
         requests[i] # Absent => r.by = requests[i].by,
         r.status \in Verdict => r.resolver # r.by,
         task' \in TaskRow, task'.executor = task.executor,
         UNCHANGED <<publication, approvedBy>>
  PROVE  Inv'
<1>1. /\ handler' \in [Handler -> HandlerState] /\ handler'[h] = Idle
      /\ \A g \in Handler \ {h} : handler'[g] = handler[g]
  BY IdleIsSafe, GotoType DEF Inv, Done
<1>2. /\ requests' \in [RequestId -> RequestRow \cup {Absent}]
      /\ requests'[i] = r
      /\ \A j \in RequestId \ {i} : requests'[j] = requests[j]
  BY DEF Inv, TypeOK
<1>3. TypeOK'
  BY <1>1, <1>2 DEF Inv, TypeOK
<1>4. HandlersAreSafe'
  <2> SUFFICES ASSUME NEW g \in Handler
               PROVE  (UpdateIsSafe(handler[g]) /\ ResolveIsSafe(handler[g]))'
    BY DEF HandlersAreSafe
  <2>1. CASE g = h
    BY <2>1, <1>1 DEF UpdateIsSafe, ResolveIsSafe, Idle
  <2>2. CASE g # h
    <3>1. handler'[g] = handler[g] /\ handler[g] \in HandlerState
          /\ UpdateIsSafe(handler[g]) /\ ResolveIsSafe(handler[g])
      BY <2>2, <1>1 DEF Inv, TypeOK, HandlersAreSafe
    <3>2. UpdateIsSafe(handler'[g])
      BY <3>1
    <3>3. ASSUME handler[g].pc = "resolve"
          PROVE  /\ requests'[handler[g].request] # Absent
                 /\ requests'[handler[g].request].by # handler[g].actor
      <4>1. handler[g].request \in RequestId
        BY <3>1, <3>3, ShapeByPc
      <4>2. r # Absent
        BY AbsentIsNoRow
      <4> QED
        BY <4>1, <4>2, <3>1, <3>3, <1>2 DEF ResolveIsSafe
    <3> QED
      BY <3>1, <3>2, <3>3 DEF UpdateIsSafe, ResolveIsSafe
  <2> QED
    BY <2>1, <2>2
<1>5. ResolvedByOther'
  BY <1>2 DEF Inv, ResolvedByOther
<1>6. ExecutorIsNotOwner'
  BY DEF Inv, ExecutorIsNotOwner
<1> QED
  BY <1>3, <1>4, <1>5, <1>6 DEF Inv

\* The row inserted is pending and takes the place of an absent one.
LEMMA InsertRequestInv ==
  ASSUME Inv, NEW h \in Handler, InsertRequest(h)
  PROVE  Inv'
<1> DEFINE r == [status |-> "PENDING", kind |-> handler[h].kind,
                 by |-> handler[h].actor, date |-> handler[h].date,
                 resolver |-> None]
<1>1. PICK i \in RequestId : requests[i] = Absent /\ requests' = [requests EXCEPT ![i] = r]
  BY DEF InsertRequest
<1>2. r \in RequestRow /\ r.status \notin Verdict
  BY ShapeByPc DEF InsertRequest, Inv, TypeOK, RequestRow, Verdict
<1>3. task' \in TaskRow /\ task'.executor = task.executor
  BY DEF InsertRequest, Inv, TypeOK
<1> QED
  BY <1>1, <1>2, <1>3, RequestStep DEF InsertRequest

\* The row a resolution writes: its author is the one it had, and not the actor.
LEMMA ResolvedRow ==
  ASSUME Inv, NEW h \in Handler, handler[h].pc = "resolve"
  PROVE  LET i == handler[h].request
             r == [requests[i] EXCEPT !.status = handler[h].verdict,
                                      !.resolver = handler[h].actor]
         IN  /\ i \in RequestId /\ requests[i] \in RequestRow
             /\ r \in RequestRow /\ r.by = requests[i].by /\ r.resolver # r.by
             /\ r.resolver = handler[h].actor /\ r.status = handler[h].verdict
             /\ r.kind = requests[i].kind /\ r.date = requests[i].date
             /\ Resolved(h) = [requests EXCEPT ![i] = r]
<1> DEFINE i == handler[h].request
           r == [requests[i] EXCEPT !.status = handler[h].verdict,
                                    !.resolver = handler[h].actor]
<1>1. handler[h] \in HandlerState /\ i \in RequestId
      /\ handler[h].actor \in User /\ handler[h].verdict \in Verdict
  BY ShapeByPc DEF Inv, TypeOK
<1>2. requests[i] \in RequestRow /\ requests[i].by # handler[h].actor
  BY <1>1 DEF Inv, TypeOK, HandlersAreSafe, ResolveIsSafe
<1>3. r \in RequestRow /\ r.by = requests[i].by /\ r.resolver = handler[h].actor
      /\ r.status = handler[h].verdict /\ r.kind = requests[i].kind
      /\ r.date = requests[i].date
  BY <1>1, <1>2 DEF RequestRow
<1>4. Resolved(h) = [requests EXCEPT ![i] = r]
  BY <1>1, <1>2 DEF Resolved, RequestRow, Inv, TypeOK
<1> QED
  BY <1>1, <1>2, <1>3, <1>4

\* Both confirmations and the rejection: the row is resolved and the task is
\* left alone or one of its plain fields changed.
LEMMA ResolveStep ==
  ASSUME Inv, NEW h \in Handler, handler[h].pc = "resolve",
         requests' = Resolved(h), Done(h),
         task' \in TaskRow, task'.executor = task.executor,
         UNCHANGED <<publication, approvedBy>>
  PROVE  Inv'
<1> DEFINE i == handler[h].request
           r == [requests[i] EXCEPT !.status = handler[h].verdict,
                                    !.resolver = handler[h].actor]
<1>1. /\ i \in RequestId /\ r \in RequestRow /\ r.by = requests[i].by
      /\ r.resolver # r.by /\ requests' = [requests EXCEPT ![i] = r]
  BY ResolvedRow
<1> HIDE DEF i, r
<1> QED
  BY <1>1, RequestStep

\* Confirming an annulment writes the status, not the executor.
LEMMA ConfirmAnnulmentInv ==
  ASSUME Inv, NEW h \in Handler, ConfirmAnnulment(h)
  PROVE  Inv'
<1>1. task' \in TaskRow /\ task'.executor = task.executor
  BY DEF ConfirmAnnulment, Inv, TypeOK, TaskRow, TaskStatus
<1> QED
  BY <1>1, ResolveStep DEF ConfirmAnnulment, Confirms

\* Confirming an extension writes the date that was asked for.
LEMMA ConfirmDeadlineExtensionInv ==
  ASSUME Inv, NEW h \in Handler, ConfirmDeadlineExtension(h)
  PROVE  Inv'
<1>1. requests[handler[h].request].date \in Date \cup {NullDate}
  BY ResolvedRow DEF ConfirmDeadlineExtension, Confirms, RequestRow
<1>2. task' \in TaskRow /\ task'.executor = task.executor
  BY <1>1 DEF ConfirmDeadlineExtension, Inv, TypeOK, TaskRow
<1> QED
  BY <1>2, ResolveStep DEF ConfirmDeadlineExtension, Confirms

\* Rejecting leaves the task alone.
LEMMA RejectsInv ==
  ASSUME Inv, NEW h \in Handler, NEW k \in Kind, Rejects(h, k)
  PROVE  Inv'
<1>1. task' \in TaskRow /\ task'.executor = task.executor
  BY DEF Rejects, Inv, TypeOK
<1> QED
  BY <1>1, ResolveStep DEF Rejects
-----------------------------------------------------------------------------
(* The specification.                                                        *)

\* Every step of every handler, admitted, continued or dead, keeps Inv.
LEMMA NextInv == Inv /\ [Next]_vars => Inv'
<1> SUFFICES ASSUME Inv, [Next]_vars PROVE Inv'
  OBVIOUS
<1>1. CASE UNCHANGED vars
  BY <1>1 DEF vars, Inv, TypeOK, HandlersAreSafe, UpdateIsSafe, ResolveIsSafe,
              ExecutorIsNotOwner, ResolvedByOther
<1>2. ASSUME NEW h \in Handler, Receive(h) PROVE Inv'
  <2>1. ASSUME NEW u \in User,
               NEW dto \in IF u = Owner THEN OwnerDto ELSE ExecutorDto,
               UpdateRead(h, u, dto)
        PROVE  Inv'
    BY <2>1, UpdateReadInv
  <2>2. ASSUME NEW u \in User, RequestAnnulment(h, u) PROVE Inv'
    BY <2>2, BeginRequestInv DEF RequestAnnulment, Kind
  <2>3. ASSUME NEW u \in User, NEW d \in Date, RequestDeadlineExtension(h, u, d)
        PROVE  Inv'
    BY <2>3, BeginRequestInv DEF RequestDeadlineExtension, Kind
  <2>4. ASSUME NEW u \in User, NEW k \in Kind, NEW v \in Verdict,
               BeginResolve(h, u, k, v)
        PROVE  Inv'
    BY <2>4, BeginResolveInv
  <2> QED
    BY <1>2, <2>1, <2>2, <2>3, <2>4 DEF Receive
<1>3. ASSUME NEW h \in Handler, Continue(h) PROVE Inv'
  BY <1>3, UpdateWriteInv, FindPublicationInv, ReadCompletedTaskInv,
     CreatePublicationInv, FindNoPendingInv, InsertRequestInv, PickPendingInv,
     ConfirmAnnulmentInv, ConfirmDeadlineExtensionInv, RejectsInv
  DEF Continue, RejectAnnulment, RejectDeadlineExtension, Kind
<1>4. ASSUME NEW h \in Handler, Fail(h) PROVE Inv'
  BY <1>4, FailInv
<1> QED
  BY <1>1, <1>2, <1>3, <1>4 DEF Next

\* The inductive invariant holds in every reachable state.
THEOREM Invariance == Spec => []Inv
<1> QED
  BY InitInv, NextInv, PTL DEF Spec

\* Every row and every handler's local state keeps its type.
THEOREM TypeCorrect == Spec => []TypeOK
<1>1. Inv => TypeOK
  BY DEF Inv
<1> QED
  BY Invariance, <1>1, PTL

\* No interleaving of updates makes the owner its own executor.
THEOREM OwnerNeverExecutes == Spec => []ExecutorIsNotOwner
<1>1. Inv => ExecutorIsNotOwner
  BY DEF Inv
<1> QED
  BY Invariance, <1>1, PTL

\* However stale the reading, nobody resolves a request of their own.
THEOREM NobodyResolvesAlone == Spec => []ResolvedByOther
<1>1. Inv => ResolvedByOther
  BY DEF Inv
<1> QED
  BY Invariance, <1>1, PTL
-----------------------------------------------------------------------------
(* Who may do what to the task row.                                          *)

\* Only two actions write a task's status or deadline.
LEMMA WhoWrites ==
  ASSUME Inv, Next
  PROVE  \/ task' = task
         \/ \E h \in Handler : UpdateWrite(h)
         \/ \E h \in Handler : ConfirmAnnulment(h)
         \/ \E h \in Handler : ConfirmDeadlineExtension(h)
<1>1. ASSUME NEW h \in Handler, Receive(h) PROVE task' = task
  BY <1>1 DEF Receive, UpdateRead, RequestAnnulment, RequestDeadlineExtension,
              BeginRequest, BeginResolve
<1>2. ASSUME NEW h \in Handler, Fail(h) PROVE task' = task
  BY <1>2 DEF Fail
<1>3. ASSUME NEW h \in Handler, Continue(h)
      PROVE  \/ task' = task
             \/ UpdateWrite(h) \/ ConfirmAnnulment(h) \/ ConfirmDeadlineExtension(h)
  BY <1>3 DEF Continue, FindPublication, ReadCompletedTask, CreatePublication,
              FindNoPending, InsertRequest, PickPending, RejectAnnulment,
              RejectDeadlineExtension, Rejects
<1> QED
  BY <1>1, <1>2, <1>3 DEF Next

\* An update touches the status and the deadline as its safe patch says.
LEMMA UpdateEffect ==
  ASSUME Inv, NEW h \in Handler, UpdateWrite(h)
  PROVE  /\ task'.status = "ANNULLED" => task.status = "ANNULLED"
         /\ task'.finalDate # task.finalDate =>
              handler[h].actor = Owner /\ handler[h].patch.finalDate = task'.finalDate
<1> DEFINE p == handler[h].patch
<1>1. handler[h].pc = "update" /\ UpdateIsSafe(handler[h])
  BY DEF UpdateWrite, Inv, HandlersAreSafe
<1>2. task'.status = Merge(task.status, p.status)
      /\ task'.finalDate = Merge(task.finalDate, p.finalDate)
  BY DEF UpdateWrite, Patched
<1> QED
  BY <1>1, <1>2 DEF UpdateIsSafe, Merge

\* A confirmation leaves its row confirmed, by another than its author.
LEMMA ConfirmEffect ==
  ASSUME Inv, NEW h \in Handler, NEW k \in Kind, Confirms(h, k),
         requests' = Resolved(h)
  PROVE  \E i \in RequestId :
           /\ i = handler[h].request
           /\ requests'[i].status = "CONFIRMED" /\ requests'[i].kind = k
           /\ requests'[i].date = requests[i].date
           /\ requests'[i].resolver # requests'[i].by
<1> DEFINE i == handler[h].request
           r == [requests[i] EXCEPT !.status = handler[h].verdict,
                                    !.resolver = handler[h].actor]
<1>1. /\ i \in RequestId /\ r.resolver # r.by /\ r.status = handler[h].verdict
      /\ r.kind = requests[i].kind /\ r.date = requests[i].date
      /\ Resolved(h) = [requests EXCEPT ![i] = r]
  BY ResolvedRow DEF Confirms
<1> HIDE DEF r
<1>2. requests'[i] = r
  BY <1>1 DEF Inv, TypeOK
<1> QED
  BY <1>1, <1>2 DEF Confirms

\* A task becomes ANNULLED only by a confirmation of somebody else's request:
\* the step that does it leaves that request confirmed.
THEOREM AnnulmentNeedsAgreement == Spec => AnnulledByAgreement
<1> DEFINE A == task.status # "ANNULLED" /\ task'.status = "ANNULLED" =>
                  \E i \in RequestId : /\ requests'[i].status = "CONFIRMED"
                                       /\ requests'[i].kind = "annulment"
                                       /\ requests'[i].resolver # requests'[i].by
<1>1. Inv /\ Next => A
  <2> SUFFICES ASSUME Inv, Next PROVE A
    OBVIOUS
  <2>1. CASE task' = task
    BY <2>1
  <2>2. ASSUME NEW h \in Handler, UpdateWrite(h) PROVE A
    BY <2>2, UpdateEffect
  <2>3. ASSUME NEW h \in Handler, ConfirmAnnulment(h) PROVE A
    BY <2>3, ConfirmEffect DEF ConfirmAnnulment, Kind
  <2>4. ASSUME NEW h \in Handler, ConfirmDeadlineExtension(h) PROVE A
    BY <2>4 DEF ConfirmDeadlineExtension, Inv, TypeOK, TaskRow
  <2> HIDE DEF A
  <2> QED
    BY <2>1, <2>2, <2>3, <2>4, WhoWrites
<1>2. Inv /\ [Next]_vars => [A]_vars
  BY <1>1
<1> QED
  BY Invariance, <1>2, PTL DEF Spec, AnnulledByAgreement

\* The deadline moves by the owner's update, or to the date of a request that
\* one user made and another confirmed.
THEOREM DeadlineNeedsAgreement == Spec => DeadlineByOwnerOrAgreement
<1> DEFINE A == task'.finalDate # task.finalDate =>
                  \/ \E h \in Handler : /\ handler[h].pc = "update"
                                        /\ handler[h].actor = Owner
                                        /\ handler[h].patch.finalDate = task'.finalDate
                  \/ \E i \in RequestId : /\ requests'[i].status = "CONFIRMED"
                                          /\ requests'[i].kind = "extension"
                                          /\ requests'[i].date = task'.finalDate
                                          /\ requests'[i].resolver # requests'[i].by
<1>1. Inv /\ Next => A
  <2> SUFFICES ASSUME Inv, Next PROVE A
    OBVIOUS
  <2>1. CASE task' = task
    BY <2>1
  <2>2. ASSUME NEW h \in Handler, UpdateWrite(h) PROVE A
    BY <2>2, UpdateEffect DEF UpdateWrite
  <2>3. ASSUME NEW h \in Handler, ConfirmAnnulment(h) PROVE A
    BY <2>3 DEF ConfirmAnnulment, Inv, TypeOK, TaskRow
  <2>4. ASSUME NEW h \in Handler, ConfirmDeadlineExtension(h) PROVE A
    <3>1. task'.finalDate = requests[handler[h].request].date
      BY <2>4 DEF ConfirmDeadlineExtension, Inv, TypeOK, TaskRow
    <3> QED
      BY <2>4, <3>1, ConfirmEffect DEF ConfirmDeadlineExtension, Kind
  <2> HIDE DEF A
  <2> QED
    BY <2>1, <2>2, <2>3, <2>4, WhoWrites
<1>2. Inv /\ [Next]_vars => [A]_vars
  BY <1>1
<1> QED
  BY Invariance, <1>2, PTL DEF Spec, DeadlineByOwnerOrAgreement

\* A publication, once inserted, is neither removed nor taken again.
THEOREM PublicationStays == Spec => PublicationTakenOnce
<1> DEFINE A == publication # None =>
                  publication' # None /\ publication'.executor = publication.executor
<1>1. Inv /\ Next => A
  <2> SUFFICES ASSUME Inv, Next, publication # None
               PROVE  publication' # None /\ publication'.executor = publication.executor
    OBVIOUS
  <2>1. publication \in PublicationRow
    BY DEF Inv, TypeOK
  <2>2. CASE publication' = publication
    BY <2>2
  <2>3. ASSUME NEW h \in Handler, UpdateWrite(h)
        PROVE  publication' # None /\ publication'.executor = publication.executor
    <3>1. handler[h].patch \in Dto
      BY <2>3, ShapeByPc DEF UpdateWrite, Inv, TypeOK
    <3>2. publication' \in PublicationRow /\ publication'.executor = publication.executor
      BY <2>1, <2>3, <3>1 DEF UpdateWrite, MovedWith, PublicationRow, Dto
    <3> QED
      BY <3>2, NoneAssumption
  <2>4. ASSUME NEW h \in Handler, Receive(h) \/ Fail(h)
        PROVE  publication' = publication
    BY <2>4 DEF Receive, UpdateRead, RequestAnnulment, RequestDeadlineExtension,
                BeginRequest, BeginResolve, Fail
  <2>5. ASSUME NEW h \in Handler, Continue(h)
        PROVE  publication' = publication \/ UpdateWrite(h)
    BY <2>5 DEF Continue, FindPublication, ReadCompletedTask, CreatePublication,
                FindNoPending, InsertRequest, PickPending, ConfirmAnnulment,
                ConfirmDeadlineExtension, RejectAnnulment,
                RejectDeadlineExtension, Rejects
  <2> QED
    BY <2>2, <2>3, <2>4, <2>5 DEF Next
<1>2. Inv /\ [Next]_vars => [A]_vars
  BY <1>1 DEF vars
<1> QED
  BY Invariance, <1>2, PTL DEF Spec, PublicationTakenOnce
-----------------------------------------------------------------------------
(* Requests served one at a time.  The handlers may be as many as one likes, *)
(* as long as no two of them are busy together: then what a handler has read *)
(* is still so when it writes.                                               *)

ServedOneAtATime ==
  \A g, h \in Handler : g = h \/ handler[g] = Idle \/ handler[h] = Idle

\* The patch that waits to be written comes from the owner or the executor of
\* this very row, and takes the approval back when it changes the executor;
\* the request that waits to be resolved is still open.
IsCurrent(l) ==
  /\ l.pc = "update" =>
       /\ l.actor \in {Owner, task.executor}
       /\ l.actor # Owner => l.patch.executor = Keep
       /\ l.patch.executor \notin {Keep, task.executor} => l.patch.approve = "null"
  /\ l.pc = "resolve" => requests[l.request].status = "PENDING"

SerialInv == ApprovalIsCurrent /\ \A h \in Handler : IsCurrent(handler[h])

\* A new task is unapproved, or was approved by its executor's application.
LEMMA InitSerial == Init => SerialInv
<1> SUFFICES ASSUME Init PROVE SerialInv
  OBVIOUS
<1>1. ApprovalIsCurrent
  BY DEF Init, CreatedManually, CreatedFromAcceptedApplication, ApprovalIsCurrent
<1>2. \A h \in Handler : IsCurrent(handler[h])
  BY DEF Init, Idle, IsCurrent
<1> QED
  BY <1>1, <1>2 DEF SerialInv

\* A request that is received writes no row, so only its own state is new.
LEMMA ReceiveSerial ==
  ASSUME Inv, SerialInv, NEW h \in Handler, NEW l \in HandlerState,
         Goto(h, l), IsCurrent(l),
         UNCHANGED <<task, requests, publication, approvedBy>>
  PROVE  SerialInv'
<1>1. handler'[h] = l /\ \A g \in Handler \ {h} : handler'[g] = handler[g]
  BY GotoType DEF Inv
<1>2. \A g \in Handler : IsCurrent(handler'[g])
  BY <1>1 DEF SerialInv
<1>3. \A g \in Handler : IsCurrent(handler[g])'
  BY <1>2 DEF IsCurrent
<1>4. ApprovalIsCurrent'
  BY DEF SerialInv, ApprovalIsCurrent
<1> QED
  BY <1>3, <1>4 DEF SerialInv

\* A handler that goes on finds every other one idle; it keeps the invariant
\* if it does not stop before another write and the approval stays current.
LEMMA ContinueSerial ==
  ASSUME Inv, ServedOneAtATime, NEW h \in Handler, handler[h] # Idle,
         NEW l \in HandlerState, Goto(h, l), l.pc \notin {"update", "resolve"},
         ApprovalIsCurrent'
  PROVE  SerialInv'
<1>1. handler'[h] = l /\ \A g \in Handler \ {h} : handler'[g] = Idle
  BY GotoType DEF Inv, ServedOneAtATime
<1>2. \A g \in Handler : handler'[g].pc \notin {"update", "resolve"}
  BY <1>1 DEF Idle
<1>3. \A g \in Handler : IsCurrent(handler[g])'
  BY <1>2 DEF IsCurrent
<1> QED
  BY <1>3 DEF SerialInv

\* The checks of the update, made on the row the patch will be written to.
LEMMA UpdateReadSerial ==
  ASSUME Inv, SerialInv, NEW h \in Handler, NEW u \in User,
         NEW dto \in IF u = Owner THEN OwnerDto ELSE ExecutorDto,
         UpdateRead(h, u, dto)
  PROVE  SerialInv'
<1> DEFINE p == IF ResetsApproval(u, dto) THEN [dto EXCEPT !.approve = "null"] ELSE dto
           b == Completes(dto)
           l == [pc |-> "update", actor |-> u, patch |-> p, completes |-> b]
<1>1. dto \in Dto
  BY DtoAssumption
<1>2. p \in Dto /\ p.executor = dto.executor
  BY <1>1 DEF Dto, Approval
<1>3. l \in HandlerState
  BY <1>2, HandlerShapes DEF Completes
<1>4. u \in {Owner, task.executor} /\ (u # Owner => dto.executor = Keep)
  BY DEF UpdateRead, IsParticipant, IsExecutorDto
<1>5. ASSUME dto.executor \notin {Keep, task.executor} PROVE p.approve = "null"
  <2>1. ResetsApproval(u, dto)
    BY <1>4, <1>5 DEF ResetsApproval
  <2> QED
    BY <1>1, <2>1 DEF Dto
<1>6. IsCurrent(l)
  BY <1>2, <1>4, <1>5 DEF IsCurrent
<1>7. Goto(h, l) /\ UNCHANGED <<task, requests, publication, approvedBy>>
  BY DEF UpdateRead
<1> QED
  BY <1>3, <1>6, <1>7, ReceiveSerial

\* Whoever approves is the executor of the row written, or the owner; whoever
\* changes the executor leaves no approval.
LEMMA UpdateWriteSerial ==
  ASSUME Inv, SerialInv, ServedOneAtATime, NEW h \in Handler, UpdateWrite(h)
  PROVE  SerialInv'
<1> DEFINE p == handler[h].patch
           next == IF handler[h].completes THEN [pc |-> "findPublication"] ELSE Idle
<1>1. handler[h].pc = "update" /\ IsCurrent(handler[h]) /\ p \in Dto
  BY ShapeByPc DEF UpdateWrite, SerialInv, Inv, TypeOK
<1>2. next \in HandlerState /\ next.pc \notin {"update", "resolve"} /\ Goto(h, next)
  BY HandlerShapes DEF UpdateWrite, Done, Idle
<1>3. ApprovalIsCurrent'
  <2> SUFFICES ASSUME task'.approve = "true"
               PROVE  approvedBy' \in {task'.executor, Owner}
    BY DEF ApprovalIsCurrent
  <2>1. task'.approve = Merge(task.approve, p.approve)
        /\ task'.executor = Merge(task.executor, p.executor)
    BY DEF UpdateWrite, Patched
  <2>2. CASE p.approve = "true"
    <3>1. approvedBy' = handler[h].actor
      BY <2>2 DEF UpdateWrite
    <3>2. CASE handler[h].actor = Owner
      BY <3>1, <3>2
    <3>3. CASE handler[h].actor # Owner
      BY <1>1, <2>1, <3>1, <3>3 DEF IsCurrent, Merge
    <3> QED
      BY <3>2, <3>3
  <2>3. CASE p.approve # "true"
    <3>1. task.approve = "true" /\ p.approve = Keep
      BY <2>1, <2>3 DEF Merge
    <3>2. approvedBy \in {task.executor, Owner} /\ approvedBy' = approvedBy
      BY <2>3, <3>1 DEF SerialInv, ApprovalIsCurrent, UpdateWrite
    <3>3. p.executor \in {Keep, task.executor}
      BY <1>1, <3>1, KeepAssumption DEF IsCurrent, Approval
    <3> QED
      BY <2>1, <3>2, <3>3 DEF Merge
  <2> QED
    BY <2>2, <2>3
<1> HIDE DEF next
<1> QED
  BY <1>1, <1>2, <1>3, ContinueSerial DEF Idle

\* The pending request that is picked is pending when it is resolved.
LEMMA PickPendingSerial ==
  ASSUME Inv, SerialInv, NEW h \in Handler, PickPending(h)
  PROVE  SerialInv'
<1>1. handler[h].actor \in User /\ handler[h].verdict \in Verdict
  BY ShapeByPc DEF PickPending, Inv, TypeOK
<1>2. UNCHANGED <<task, requests, publication, approvedBy>>
  BY DEF PickPending
<1>3. CASE Goto(h, Idle)
  BY <1>2, <1>3, HandlerShapes, ReceiveSerial DEF IsCurrent, Idle
<1>4. ASSUME NEW i \in PendingRequests(handler[h].kind),
             Goto(h, [pc |-> "resolve", actor |-> handler[h].actor,
                      request |-> i, verdict |-> handler[h].verdict])
      PROVE  SerialInv'
  <2> DEFINE l == [pc |-> "resolve", actor |-> handler[h].actor,
                   request |-> i, verdict |-> handler[h].verdict]
  <2>1. i \in RequestId /\ requests[i].status = "PENDING"
    BY DEF PendingRequests
  <2>2. l \in HandlerState
    BY <1>1, <2>1, HandlerShapes
  <2>3. IsCurrent(l)
    BY <2>1 DEF IsCurrent
  <2>4. Goto(h, l)
    BY <1>4
  <2> HIDE DEF l
  <2> QED
    BY <1>2, <2>2, <2>3, <2>4, ReceiveSerial
<1> QED
  BY <1>3, <1>4 DEF PickPending, Done

\* The steps that go on to anything but another write, and leave the approval.
LEMMA OtherContinueSerial ==
  ASSUME Inv, SerialInv, ServedOneAtATime, NEW h \in Handler,
         \/ FindPublication(h) \/ ReadCompletedTask(h) \/ CreatePublication(h)
         \/ FindNoPending(h) \/ InsertRequest(h)
         \/ ConfirmAnnulment(h) \/ RejectAnnulment(h)
         \/ ConfirmDeadlineExtension(h) \/ RejectDeadlineExtension(h)
         \/ Fail(h)
  PROVE  SerialInv'
<1>1. handler[h] # Idle
  BY DEF FindPublication, ReadCompletedTask, CreatePublication, FindNoPending,
         InsertRequest, ConfirmAnnulment, RejectAnnulment, ConfirmDeadlineExtension,
         RejectDeadlineExtension, Rejects, Confirms, Fail, Idle
<1>2. ApprovalIsCurrent'
  <2>1. UNCHANGED <<task.approve, task.executor, approvedBy>>
    BY DEF FindPublication, ReadCompletedTask, CreatePublication, FindNoPending,
           InsertRequest, ConfirmAnnulment, RejectAnnulment, ConfirmDeadlineExtension,
           RejectDeadlineExtension, Rejects, Fail, Inv, TypeOK, TaskRow
  <2> QED
    BY <2>1 DEF SerialInv, ApprovalIsCurrent
<1>3. \E l \in HandlerState : l.pc \notin {"update", "resolve"} /\ Goto(h, l)
  <2>1. CASE Done(h)
    BY <2>1, HandlerShapes DEF Done, Idle
  <2>2. CASE FindPublication(h)
    BY <2>1, <2>2, HandlerShapes DEF FindPublication
  <2>3. CASE ReadCompletedTask(h)
    <3>1. [post |-> task.post, executor |-> task.executor] \in PublicationRow
      BY DEF Inv, TypeOK, TaskRow, PublicationRow
    <3> QED
      BY <2>1, <2>3, <3>1, HandlerShapes DEF ReadCompletedTask
  <2>4. CASE FindNoPending(h)
    <3> DEFINE l == [handler[h] EXCEPT !.pc = "insert"]
    <3>1. l = [pc |-> "insert", actor |-> handler[h].actor,
               kind |-> handler[h].kind, date |-> handler[h].date]
          /\ handler[h].actor \in User /\ handler[h].kind \in Kind
          /\ handler[h].date \in Date \cup {NullDate}
      BY <2>4, ShapeByPc DEF FindNoPending, Inv, TypeOK
    <3>2. l \in HandlerState /\ l.pc = "insert"
      BY <3>1, HandlerShapes
    <3> HIDE DEF l
    <3>3. Goto(h, l) \/ Done(h)
      BY <2>4 DEF FindNoPending, l
    <3> QED
      BY <2>1, <3>2, <3>3
  <2> QED
    BY <2>1, <2>2, <2>3, <2>4
    DEF CreatePublication, InsertRequest, ConfirmAnnulment, RejectAnnulment,
        ConfirmDeadlineExtension, RejectDeadlineExtension, Rejects, Fail
<1> QED
  BY <1>1, <1>2, <1>3, ContinueSerial

\* Every step of the handler that is served keeps the invariant.
LEMMA NextSerial ==
  Inv /\ SerialInv /\ ServedOneAtATime /\ [Next]_vars => SerialInv'
<1> SUFFICES ASSUME Inv, SerialInv, ServedOneAtATime, [Next]_vars PROVE SerialInv'
  OBVIOUS
<1>1. CASE UNCHANGED vars
  BY <1>1 DEF vars, SerialInv, ApprovalIsCurrent, IsCurrent
<1>2. ASSUME NEW h \in Handler, NEW l \in HandlerState, Goto(h, l),
             l.pc \notin {"update", "resolve"},
             UNCHANGED <<task, requests, publication, approvedBy>>
      PROVE  SerialInv'
  BY <1>2, ReceiveSerial DEF IsCurrent
<1>3. ASSUME NEW h \in Handler, NEW u \in User, NEW k \in Kind,
             NEW d \in Date \cup {NullDate}, BeginRequest(h, u, k, d)
      PROVE  SerialInv'
  <2> DEFINE l == [pc |-> "findPending", actor |-> u, kind |-> k, date |-> d]
  <2>1. l \in HandlerState /\ l.pc \notin {"update", "resolve"}
    BY HandlerShapes
  <2> HIDE DEF l
  <2> QED
    BY <1>2, <1>3, <2>1 DEF BeginRequest, l
<1>4. ASSUME NEW h \in Handler, NEW u \in User, NEW k \in Kind, NEW v \in Verdict,
             BeginResolve(h, u, k, v)
      PROVE  SerialInv'
  <2> DEFINE l == [pc |-> "pick", actor |-> u, kind |-> k, verdict |-> v]
  <2>1. l \in HandlerState /\ l.pc \notin {"update", "resolve"}
    BY HandlerShapes
  <2> HIDE DEF l
  <2> QED
    BY <1>2, <1>4, <2>1 DEF BeginResolve, l
<1>5. ASSUME NEW h \in Handler, Receive(h) PROVE SerialInv'
  BY <1>3, <1>4, <1>5, UpdateReadSerial
  DEF Receive, RequestAnnulment, RequestDeadlineExtension, Kind
<1>6. ASSUME NEW h \in Handler, Continue(h) PROVE SerialInv'
  BY <1>6, UpdateWriteSerial, PickPendingSerial, OtherContinueSerial DEF Continue
<1>7. ASSUME NEW h \in Handler, Fail(h) PROVE SerialInv'
  BY <1>7, OtherContinueSerial
<1> QED
  BY <1>1, <1>5, <1>6, <1>7 DEF Next

\* While no two requests are busy together, everything they read is current.
LEMMA SerialInvariance == Spec /\ []ServedOneAtATime => []SerialInv
  BY Invariance, InitSerial, NextSerial, PTL DEF Spec

\* Without overlap, an approval on the row was given by its present executor
\* or by the owner: update takes it back from whoever it replaces.
THEOREM ApprovalFollowsExecutor ==
  Spec /\ []ServedOneAtATime => []ApprovalIsCurrent
<1>1. SerialInv => ApprovalIsCurrent
  BY DEF SerialInv
<1> QED
  BY SerialInvariance, <1>1, PTL

\* Without overlap, a request that was confirmed or rejected is never resolved
\* again, although the update of its row names it by id alone.
THEOREM ResolutionIsFinal == Spec /\ []ServedOneAtATime => ResolvedOnce
<1> DEFINE A == \A i \in RequestId :
                  requests[i].status \in Verdict => requests'[i] = requests[i]
<1>1. Inv /\ SerialInv /\ Next => A
  <2> SUFFICES ASSUME Inv, SerialInv, Next,
                      NEW i \in RequestId, requests[i].status \in Verdict
               PROVE  requests'[i] = requests[i]
    OBVIOUS
  <2>1. CASE requests' = requests
    BY <2>1
  <2>2. ASSUME NEW h \in Handler, InsertRequest(h) PROVE requests'[i] = requests[i]
    BY <2>2 DEF InsertRequest, Absent, Verdict, Inv, TypeOK
  <2>3. ASSUME NEW h \in Handler, handler[h].pc = "resolve", requests' = Resolved(h)
        PROVE  requests'[i] = requests[i]
    <3>1. requests[handler[h].request].status = "PENDING"
      BY <2>3 DEF SerialInv, IsCurrent
    <3>2. handler[h].request # i
      BY <3>1 DEF Verdict
    <3> QED
      BY <2>3, <3>2 DEF Resolved, Inv, TypeOK
  <2>4. ASSUME NEW h \in Handler, Receive(h) \/ Fail(h) PROVE requests' = requests
    BY <2>4 DEF Receive, UpdateRead, RequestAnnulment, RequestDeadlineExtension,
                BeginRequest, BeginResolve, Fail
  <2>5. ASSUME NEW h \in Handler, Continue(h)
        PROVE  \/ requests' = requests \/ InsertRequest(h)
               \/ handler[h].pc = "resolve" /\ requests' = Resolved(h)
    BY <2>5 DEF Continue, UpdateWrite, FindPublication, ReadCompletedTask,
                CreatePublication, FindNoPending, PickPending, ConfirmAnnulment,
                ConfirmDeadlineExtension, RejectAnnulment,
                RejectDeadlineExtension, Rejects, Confirms
  <2> QED
    BY <2>1, <2>2, <2>3, <2>4, <2>5 DEF Next
<1>2. Inv /\ SerialInv /\ [Next]_vars => [A]_vars
  BY <1>1
<1> QED
  BY Invariance, SerialInvariance, <1>2, PTL DEF Spec, ResolvedOnce
-----------------------------------------------------------------------------
(* TaskLifecycle implements TaskContract: each step of a handler is one step *)
(* of the agreement between the two sides, or changes nothing they agree     *)
(* about.  First the owner's word, seen from one handler that moves.         *)

\* A handler that reaches another place than the write of an update adds no
\* word; if it was not at that write either, the words are the same.
LEMMA WordShrinks ==
  ASSUME Inv, NEW h \in Handler, NEW l \in HandlerState, Goto(h, l),
         l.pc # "update"
  PROVE  /\ OwnersWord' \subseteq OwnersWord
         /\ handler[h].pc # "update" => OwnersWord' = OwnersWord
<1>1. handler'[h].pc # "update" /\ \A g \in Handler \ {h} : handler'[g] = handler[g]
  BY GotoType DEF Inv
<1> QED
  BY <1>1 DEF OwnersWord

\* The words are dates, or the wish for no deadline.
LEMMA WordType == ASSUME TypeOK' PROVE OwnersWord' \in SUBSET (Date \cup {NullDate})
<1> SUFFICES ASSUME NEW h \in Handler, handler'[h].pc = "update",
                    handler'[h].patch.finalDate # Keep
             PROVE  handler'[h].patch.finalDate \in Date \cup {NullDate}
  BY DEF OwnersWord
<1>1. handler'[h].patch \in Dto
  BY ShapeByPc DEF TypeOK
<1> QED
  BY <1>1 DEF Dto
-----------------------------------------------------------------------------
(* The requests, seen from the row that is written.                          *)

AskOf(r) ==
  [subject |-> r.kind, by |-> r.by, date |-> r.date,
   answer |-> AnswerOf(r.status), answeredBy |-> r.resolver]

\* Writing one row changes what was asked in that place alone.
LEMMA AskedStep ==
  ASSUME Inv, NEW i \in RequestId, NEW r \in RequestRow,
         requests' = [requests EXCEPT ![i] = r]
  PROVE  Asked' = [Asked EXCEPT ![i] = AskOf(r)]
<1>1. r # Absent
  BY AbsentIsNoRow
<1>2. requests' \in [RequestId -> RequestRow \cup {Absent}] /\ requests'[i] = r
      /\ \A j \in RequestId \ {i} : requests'[j] = requests[j]
  BY DEF Inv, TypeOK
<1> QED
  BY <1>1, <1>2 DEF Asked, AskOf

\* What an inserted row asks.
LEMMA AskedRow ==
  ASSUME NEW i \in RequestId, requests[i] \in RequestRow
  PROVE  Asked[i] = AskOf(requests[i]) /\ Asked[i] # Absent
<1>1. requests[i] # Absent
  BY AbsentIsNoRow
<1>2. Asked[i] = AskOf(requests[i])
  BY <1>1 DEF Asked, AskOf
<1>3. AskOf(requests[i]) # Absent
  <2>1. DOMAIN AskOf(requests[i]) # DOMAIN Absent
    BY DEF AskOf, Absent
  <2> QED
    BY <2>1
<1> QED
  BY <1>2, <1>3

\* Another answer to the same question.
LEMMA AnsweredAsk ==
  ASSUME NEW q \in RequestRow, NEW r \in RequestRow,
         r.by = q.by, r.kind = q.kind, r.date = q.date
  PROVE  AskOf(r) = [AskOf(q) EXCEPT !.answer = AnswerOf(r.status),
                                     !.answeredBy = r.resolver]
<1>1. /\ AnswerOf(q.status) \in {"none", "yes", "no"}
      /\ AnswerOf(r.status) \in {"none", "yes", "no"}
  BY DEF AnswerOf
<1>2. AskOf(q) \in Contract!Made /\ AskOf(r) \in Contract!Made
  BY <1>1 DEF AskOf, RequestRow, Kind, Contract!Made, Contract!Subject
<1>3. /\ AskOf(r).subject = AskOf(q).subject /\ AskOf(r).by = AskOf(q).by
      /\ AskOf(r).date = AskOf(q).date
      /\ AskOf(r).answer = AnswerOf(r.status) /\ AskOf(r).answeredBy = r.resolver
  BY DEF AskOf
<1> HIDE DEF AskOf
<1> QED
  BY <1>2, <1>3 DEF Contract!Made
-----------------------------------------------------------------------------
(* Each action is a step of the agreement.                                   *)

Stutter == UNCHANGED <<task.status = "ANNULLED", task.finalDate, Asked, OwnersWord>>

\* A handler that writes neither the task nor a request, and neither comes to
\* the write of an update nor from it, is not seen.
LEMMA UnseenStep ==
  ASSUME Inv, NEW h \in Handler, NEW l \in HandlerState, Goto(h, l),
         l.pc # "update", handler[h].pc # "update",
         UNCHANGED <<task, requests>>
  PROVE  Stutter
<1>1. OwnersWord' = OwnersWord
  BY WordShrinks
<1>2. Asked' = Asked
  BY DEF Asked, AnswerOf
<1> QED
  BY <1>1, <1>2 DEF Stutter

\* The owner says a deadline when its update is admitted, and takes it back
\* when the update fails.
LEMMA SayStep ==
  ASSUME TypeOK', UNCHANGED <<task, requests>>
  PROVE  Contract!Say
<1>1. OwnersWord' \in SUBSET (Date \cup {NullDate})
  BY WordType
<1>2. Asked' = Asked
  BY DEF Asked, AnswerOf
<1> QED
  BY <1>1, <1>2 DEF Contract!Say

\* What an update writes to the deadline, the owner has said.
LEMMA ChangeStep ==
  ASSUME Inv, NEW h \in Handler, UpdateWrite(h)
  PROVE  Contract!Change
<1> DEFINE p == handler[h].patch
           next == IF handler[h].completes THEN [pc |-> "findPublication"] ELSE Idle
<1>1. task'.finalDate \in {task.finalDate} \cup OwnersWord
  <2>1. task'.finalDate = Merge(task.finalDate, p.finalDate)
    BY DEF UpdateWrite, Patched
  <2>2. CASE p.finalDate = Keep
    BY <2>1, <2>2 DEF Merge
  <2>3. CASE p.finalDate # Keep
    <3>1. handler[h].pc = "update" /\ handler[h].actor = Owner
      BY <2>3 DEF UpdateWrite, Inv, HandlersAreSafe, UpdateIsSafe
    <3> QED
      BY <2>1, <2>3, <3>1 DEF Merge, OwnersWord
  <2> QED
    BY <2>2, <2>3
<1>2. (task'.status = "ANNULLED") \in {task.status = "ANNULLED", FALSE}
  <2>1. task'.status = "ANNULLED" => task.status = "ANNULLED"
    BY UpdateEffect
  <2> QED
    BY <2>1, Zenon
<1>3. OwnersWord' \in SUBSET OwnersWord
  <2>1. next \in HandlerState /\ next.pc # "update"
    BY IdleIsSafe, HandlerShapes DEF Idle
  <2>2. Goto(h, next)
    BY DEF UpdateWrite, Done
  <2> HIDE DEF next
  <2> QED
    BY <2>1, <2>2, WordShrinks
<1>4. Asked' = Asked
  BY DEF UpdateWrite, Asked, AnswerOf
<1> QED
  BY <1>1, <1>2, <1>3, <1>4, Zenon DEF Contract!Change

\* A handler that ends anywhere but at the write of an update leaves the
\* words alone.
LEMMA WordStays ==
  ASSUME Inv, NEW h \in Handler, Done(h), handler[h].pc # "update"
  PROVE  OwnersWord' = OwnersWord
<1>1. Idle.pc # "update"
  BY DEF Idle
<1> QED
  BY <1>1, IdleIsSafe, WordShrinks DEF Done

\* A row that is inserted is a request of the one who sent it.
LEMMA RequestedStep ==
  ASSUME Inv, NEW h \in Handler, InsertRequest(h)
  PROVE  \E i \in RequestId : Contract!Request(i)
<1> DEFINE r == [status |-> "PENDING", kind |-> handler[h].kind,
                 by |-> handler[h].actor, date |-> handler[h].date,
                 resolver |-> None]
<1>1. PICK i \in RequestId : requests[i] = Absent /\ requests' = [requests EXCEPT ![i] = r]
  BY DEF InsertRequest
<1>2. r \in RequestRow
  BY ShapeByPc DEF InsertRequest, Inv, TypeOK, RequestRow
<1>3. Asked' = [Asked EXCEPT ![i] = AskOf(r)]
  BY <1>1, <1>2, AskedStep
<1>4. Asked[i] = Absent
  BY <1>1 DEF Asked
<1>5. /\ AskOf(r) \in Contract!Made
      /\ AskOf(r).answer = "none" /\ AskOf(r).answeredBy = None
  <2>1. AnswerOf("PENDING") = "none"
    BY DEF AnswerOf
  <2> QED
    BY <1>2, <2>1 DEF AskOf, RequestRow, Kind, Contract!Made, Contract!Subject
<1>6. OwnersWord' = OwnersWord
  BY WordStays DEF InsertRequest
<1>7. UNCHANGED <<task.status = "ANNULLED", task.finalDate>>
  BY DEF InsertRequest
<1> HIDE DEF r
<1> QED
  BY <1>3, <1>4, <1>5, <1>6, <1>7 DEF Contract!Request

\* A resolution is the answer of somebody else to what the row asks.
LEMMA AnswerStep ==
  ASSUME Inv, NEW h \in Handler, handler[h].pc = "resolve",
         requests' = Resolved(h), Done(h)
  PROVE  /\ handler[h].request \in RequestId /\ handler[h].actor \in User
         /\ Asked[handler[h].request] = AskOf(requests[handler[h].request])
         /\ Contract!Answer(handler[h].request, handler[h].actor,
                            AnswerOf(handler[h].verdict))
         /\ OwnersWord' = OwnersWord
<1> DEFINE i == handler[h].request
           u == handler[h].actor
           v == handler[h].verdict
           r == [requests[i] EXCEPT !.status = v, !.resolver = u]
<1>1. /\ i \in RequestId /\ requests[i] \in RequestRow /\ r \in RequestRow
      /\ r.by = requests[i].by /\ r.kind = requests[i].kind
      /\ r.date = requests[i].date /\ r.resolver = u /\ r.status = v
      /\ r.resolver # r.by /\ requests' = [requests EXCEPT ![i] = r]
  BY ResolvedRow
<1>2. u \in User
  BY ShapeByPc DEF Inv, TypeOK
<1>3. Asked[i] = AskOf(requests[i]) /\ Asked[i] # Absent
  BY <1>1, AskedRow
<1> HIDE DEF r
<1>4. Asked' = [Asked EXCEPT ![i] = AskOf(r)]
  BY <1>1, AskedStep
<1>5. AskOf(r) = [Asked[i] EXCEPT !.answer = AnswerOf(v), !.answeredBy = u]
  <2> HIDE DEF i, u, v
  <2>1. AskOf(r) = [AskOf(requests[i]) EXCEPT !.answer = AnswerOf(r.status),
                                              !.answeredBy = r.resolver]
    BY <1>1, AnsweredAsk
  <2> QED
    BY <1>1, <1>3, <2>1, Zenon
<1>6. u # Asked[i].by
  BY <1>1, <1>3 DEF AskOf
<1>7. Asked' = [Asked EXCEPT ![i].answer = AnswerOf(v), ![i].answeredBy = u]
  BY <1>1, <1>4, <1>5 DEF Asked
<1>8. OwnersWord' = OwnersWord
  BY WordStays
<1> QED
  BY <1>1, <1>2, <1>3, <1>6, <1>7, <1>8 DEF Contract!Answer

\* Either confirmation is the agreement of the other side; what it does to the
\* task is what was asked.
LEMMA AgreeStep ==
  ASSUME Inv, NEW h \in Handler,
         ConfirmAnnulment(h) \/ ConfirmDeadlineExtension(h)
  PROVE  \E i \in RequestId, u \in User : Contract!Agree(i, u)
<1> DEFINE i == handler[h].request
           u == handler[h].actor
<1>1. /\ handler[h].pc = "resolve" /\ handler[h].verdict = "CONFIRMED"
      /\ requests' = Resolved(h) /\ Done(h)
  BY DEF ConfirmAnnulment, ConfirmDeadlineExtension, Confirms
<1>2. AnswerOf("CONFIRMED") = "yes"
  BY DEF AnswerOf
<1>3. /\ i \in RequestId /\ u \in User /\ Asked[i] = AskOf(requests[i])
      /\ Contract!Answer(i, u, "yes") /\ OwnersWord' = OwnersWord
  BY <1>1, <1>2, AnswerStep
<1>4. CASE ConfirmAnnulment(h)
  <2>1. Asked[i].subject = "annulment"
    BY <1>3, <1>4 DEF AskOf, ConfirmAnnulment, Confirms
  <2>2. task' = [task EXCEPT !.status = "ANNULLED"] /\ task \in TaskRow
    BY <1>4 DEF ConfirmAnnulment, Inv, TypeOK
  <2>3. task'.status = "ANNULLED" /\ task'.finalDate = task.finalDate
    BY <2>2 DEF TaskRow
  <2>4. (task'.status = "ANNULLED") = TRUE
    BY <2>3, Zenon
  <2> QED
    BY <1>3, <2>1, <2>3, <2>4 DEF Contract!Agree
<1>5. CASE ConfirmDeadlineExtension(h)
  <2>1. Asked[i].subject = "extension" /\ Asked[i].date = requests[i].date
    BY <1>3, <1>5 DEF AskOf, ConfirmDeadlineExtension, Confirms
  <2>2. task' = [task EXCEPT !.finalDate = requests[i].date] /\ task \in TaskRow
    BY <1>5 DEF ConfirmDeadlineExtension, Inv, TypeOK
  <2>3. task'.status = task.status /\ task'.finalDate = requests[i].date
    BY <2>2 DEF TaskRow
  <2>4. UNCHANGED (task.status = "ANNULLED")
    BY <2>3
  <2> QED
    BY <1>3, <2>1, <2>3, <2>4 DEF Contract!Agree
<1> QED
  BY <1>4, <1>5

\* A rejection declines, and moves nothing.
LEMMA DeclineStep ==
  ASSUME Inv, NEW h \in Handler, NEW k \in Kind, Rejects(h, k)
  PROVE  \E i \in RequestId, u \in User : Contract!Decline(i, u)
<1> DEFINE i == handler[h].request
           u == handler[h].actor
<1>1. AnswerOf("REJECTED") = "no"
  BY DEF AnswerOf
<1>2. /\ i \in RequestId /\ u \in User
      /\ Contract!Answer(i, u, "no") /\ OwnersWord' = OwnersWord
  BY <1>1, AnswerStep DEF Rejects
<1>3. UNCHANGED <<task.status = "ANNULLED", task.finalDate>>
  BY DEF Rejects
<1> QED
  BY <1>2, <1>3 DEF Contract!Decline
-----------------------------------------------------------------------------
(* The implementation.                                                       *)

\* A new task has no requests, and no update of it is on its way.
LEMMA InitImplements == Init => Contract!Init
<1> SUFFICES ASSUME Init PROVE Contract!Init
  OBVIOUS
<1>1. Inv
  BY InitInv
<1>2. task.finalDate \in Date \cup {NullDate}
  BY <1>1 DEF Inv, TypeOK, TaskRow
<1>3. Asked = [i \in RequestId |-> Absent]
  BY DEF Init, Asked
<1>4. OwnersWord = {}
  BY DEF Init, OwnersWord, Idle
<1>5. (task.status = "ANNULLED") \in BOOLEAN
  BY Zenon
<1> QED
  BY <1>2, <1>3, <1>4, <1>5 DEF Contract!Init

\* Every step of every handler is a step of the agreement, or unseen.
LEMMA NextImplements ==
  ASSUME Inv, Inv', [Next]_vars
  PROVE  [Contract!Next]_(Contract!vars)
<1>1. Stutter => UNCHANGED Contract!vars
  BY DEF Stutter, Contract!vars
<1>2. CASE UNCHANGED vars
  <2>1. Asked' = Asked /\ OwnersWord' = OwnersWord
        /\ UNCHANGED <<task.status = "ANNULLED", task.finalDate>>
    BY <1>2 DEF vars, Asked, AnswerOf, OwnersWord
  <2> QED
    BY <2>1, <1>1 DEF Stutter
<1>3. ASSUME NEW h \in Handler, Receive(h)
      PROVE  Contract!Say \/ Stutter
  <2>1. ASSUME NEW u \in User,
               NEW dto \in IF u = Owner THEN OwnerDto ELSE ExecutorDto,
               UpdateRead(h, u, dto)
        PROVE  Contract!Say
    BY <2>1, SayStep DEF UpdateRead, Inv
  <2>2. ASSUME NEW u \in User, NEW k \in Kind, NEW d \in Date \cup {NullDate},
               BeginRequest(h, u, k, d)
        PROVE  Stutter
    <3> DEFINE l == [pc |-> "findPending", actor |-> u, kind |-> k, date |-> d]
    <3>1. l \in HandlerState /\ l.pc # "update"
      BY HandlerShapes
    <3>2. handler[h].pc # "update" /\ Goto(h, l) /\ UNCHANGED <<task, requests>>
      BY <2>2 DEF BeginRequest, Idle
    <3> HIDE DEF l
    <3> QED
      BY <3>1, <3>2, UnseenStep
  <2>3. ASSUME NEW u \in User, NEW k \in Kind, NEW v \in Verdict,
               BeginResolve(h, u, k, v)
        PROVE  Stutter
    <3> DEFINE l == [pc |-> "pick", actor |-> u, kind |-> k, verdict |-> v]
    <3>1. l \in HandlerState /\ l.pc # "update"
      BY HandlerShapes
    <3>2. handler[h].pc # "update" /\ Goto(h, l) /\ UNCHANGED <<task, requests>>
      BY <2>3 DEF BeginResolve, Idle
    <3> HIDE DEF l
    <3> QED
      BY <3>1, <3>2, UnseenStep
  <2> QED
    BY <1>3, <2>1, <2>2, <2>3
    DEF Receive, RequestAnnulment, RequestDeadlineExtension, Kind
<1>4. ASSUME NEW h \in Handler, FindPublication(h) \/ ReadCompletedTask(h)
                                \/ FindNoPending(h) \/ PickPending(h)
      PROVE  Stutter
  <2>1. handler[h].pc # "update" /\ UNCHANGED <<task, requests>>
    BY <1>4 DEF FindPublication, ReadCompletedTask, FindNoPending, PickPending
  <2>2. CASE Done(h)
    BY <2>1, <2>2, IdleIsSafe, UnseenStep DEF Done, Idle
  <2>3. CASE handler[h].pc = "findPublication" /\ Goto(h, [pc |-> "readCompleted"])
    BY <2>1, <2>3, HandlerShapes, UnseenStep
  <2>4. CASE ReadCompletedTask(h)
    <3> DEFINE l == [pc |-> "publish",
                     snapshot |-> [post |-> task.post, executor |-> task.executor]]
    <3>1. l \in HandlerState /\ l.pc # "update"
      BY HandlerShapes DEF Inv, TypeOK, TaskRow, PublicationRow
    <3>2. Goto(h, l) \/ Done(h)
      BY <2>4 DEF ReadCompletedTask
    <3> HIDE DEF l
    <3> QED
      BY <2>1, <2>2, <3>1, <3>2, UnseenStep
  <2>5. CASE FindNoPending(h)
    <3> DEFINE l == [handler[h] EXCEPT !.pc = "insert"]
    <3>1. l \in HandlerState /\ l.pc # "update"
      BY <2>5, ShapeByPc, HandlerShapes DEF FindNoPending, Inv, TypeOK
    <3>2. Goto(h, l) \/ Done(h)
      BY <2>5 DEF FindNoPending
    <3> HIDE DEF l
    <3> QED
      BY <2>1, <2>2, <3>1, <3>2, UnseenStep
  <2>6. ASSUME NEW i \in RequestId,
               Goto(h, [pc |-> "resolve", actor |-> handler[h].actor,
                        request |-> i, verdict |-> handler[h].verdict]),
               PickPending(h)
        PROVE  Stutter
    <3> DEFINE l == [pc |-> "resolve", actor |-> handler[h].actor,
                     request |-> i, verdict |-> handler[h].verdict]
    <3>1. l \in HandlerState /\ l.pc # "update"
      BY <2>6, ShapeByPc, HandlerShapes DEF PickPending, Inv, TypeOK
    <3> HIDE DEF l
    <3> QED
      BY <2>1, <2>6, <3>1, UnseenStep DEF l
  <2>7. CASE PickPending(h)
    BY <2>2, <2>6, <2>7 DEF PickPending, PendingRequests
  <2> QED
    BY <1>4, <2>2, <2>3, <2>4, <2>5, <2>7 DEF FindPublication
<1>5. ASSUME NEW h \in Handler, CreatePublication(h)
      PROVE  Stutter
  BY <1>5, IdleIsSafe, UnseenStep DEF CreatePublication, Done, Idle
<1>6. ASSUME NEW h \in Handler, Continue(h)
      PROVE  Contract!Next \/ Stutter
  BY <1>6, <1>4, <1>5, ChangeStep, RequestedStep, AgreeStep, DeclineStep
  DEF Continue, RejectAnnulment, RejectDeadlineExtension, Kind, Contract!Next
<1>7. ASSUME NEW h \in Handler, Fail(h)
      PROVE  Contract!Say
  BY <1>7, SayStep DEF Fail, Inv
<1> QED
  BY <1>1, <1>2, <1>3, <1>6, <1>7 DEF Next, Contract!Next

\* However many handlers overlap, whatever rows they read before they write,
\* and wherever they die, the service keeps the agreement of the two sides.
THEOREM KeepsTheContract == Spec => ImplementsContract
<1>1. Inv /\ Inv' /\ [Next]_vars => [Contract!Next]_(Contract!vars)
  BY NextImplements
<1> QED
  BY Invariance, InitImplements, <1>1, PTL DEF Spec, ImplementsContract, Contract!Spec
=============================================================================
