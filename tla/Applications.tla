---------------------------- MODULE Applications ----------------------------
(***************************************************************************)
(* One post (src/src/posts/posts.service.ts), the applications to it       *)
(* (src/src/applications/applications.service.ts) and the tasks made from  *)
(* accepted ones (createFromAcceptedApplication and the move of a task in  *)
(* src/src/tasks/tasks.service.ts).                                        *)
(*                                                                         *)
(* As in TaskLifecycle, a handler is cut at its awaits, a transaction is   *)
(* one step, and a refused request is no action.  Here the interest lies   *)
(* in which promises survive which overlaps, so the module records in      *)
(* "raced" the rows on which a handler was admitted while another one      *)
(* that conflicts with it was still running.                               *)
(*                                                                         *)
(* A definition marked "mutant" is the next one with a mistake in it: it   *)
(* is used nowhere, and shows that the properties tell the two apart.      *)
(***************************************************************************)
EXTENDS Naturals, FiniteSets

CONSTANTS
  Applicant,   \* profiles that may apply; @@unique([postId, applicantId])
               \* makes one name the application too
  None,        \* SQL NULL
  Here,        \* the post itself
  Elsewhere,   \* another post of the same owner, not archived
  TaskId,      \* rows for tasks: bounds how many are made
  Handler,     \* requests in flight: bounds the concurrency
  Keep,        \* a DTO field the client did not send (undefined)
  PostDto      \* bodies of PATCH /posts/:id

VARIABLES
  post,        \* the three flags of the post, or Deleted
  application, \* the status of each applicant's application, or "absent"
  tasks,       \* the task rows made from applications
  prime,       \* whether the owner's subscription is active
  handler,     \* the local state of each request in flight
  raced        \* history: the rows two conflicting handlers overlapped on

vars == <<post, application, tasks, prime, handler, raced>>
-----------------------------------------------------------------------------
ApplicationStatus == {"NEW", "VIEWED", "ACCEPTED", "REJECTED", "WITHDRAWN"}

Decided == {"ACCEPTED", "REJECTED", "WITHDRAWN"}

OwnerAllowedStatuses == {"VIEWED", "ACCEPTED", "REJECTED"}

ForgetfulTransitions ==  \* mutant
  [s \in ApplicationStatus |-> OwnerAllowedStatuses]

OwnerTransitions ==
  [s \in ApplicationStatus |->
    CASE s = "NEW"    -> {"VIEWED", "ACCEPTED", "REJECTED"}
      [] s = "VIEWED" -> {"ACCEPTED", "REJECTED"}
      [] OTHER        -> {}]

PostRow == [archived: BOOLEAN, private: BOOLEAN, template: BOOLEAN]

Deleted == [archived |-> "deleted"]

UpdatePostDto == [archived: BOOLEAN \cup {Keep}, private: BOOLEAN \cup {Keep},
                  template: BOOLEAN \cup {Keep}]

\* The application a task hangs on, its post, and (history) the application
\* it was made from.
TaskRow == [application: Applicant \cup {None}, post: {Here, Elsewhere},
            madeFrom: Applicant]

Absent == [madeFrom |-> None]

Idle == [pc |-> "idle"]

HandlerState ==
  {Idle}
    \cup [pc: {"apply", "withdraw", "subscription"}, on: Applicant]
    \cup [pc: {"decide"}, on: Applicant, status: OwnerAllowedStatuses,
          createTask: BOOLEAN]
    \cup [pc: {"updatePost"}, patch: UpdatePostDto]
    \cup [pc: {"removePost"}]
    \cup [pc: {"move"}, task: TaskId, to: {Here, Elsewhere}]

ASSUME NoneAssumption == None \notin Applicant
ASSUME PostAssumption == Here # Elsewhere
ASSUME KeepAssumption == Keep \notin BOOLEAN
ASSUME DtoAssumption == PostDto \subseteq UpdatePostDto
-----------------------------------------------------------------------------
(* Overlaps.  A row is named by its applicant, its task, or Here.           *)

Writes(l) ==
  CASE l.pc \in {"apply", "withdraw", "subscription", "decide"} -> {l.on}
    [] l.pc = "updatePost" -> {Here}
    [] l.pc = "removePost" -> {Here} \cup Applicant \cup TaskId
    [] l.pc = "move"       -> {l.task}
    [] OTHER               -> {}

Goto(h, local) == handler' = [handler EXCEPT ![h] = local]
Done(h) == Goto(h, Idle)

\* A handler is admitted: note the rows it contends for.
Enter(h, local) ==
  /\ handler[h] = Idle
  /\ Goto(h, local)
  /\ raced' = raced \cup UNION {Writes(local) \cap Writes(handler[g]) :
                                g \in Handler \ {h}}
-----------------------------------------------------------------------------
(* A new post, a template or not (create), before anybody applied.          *)
Init ==
  /\ post \in {p \in PostRow : ~p.archived /\ (p.template => p.private)}
  /\ application = [a \in Applicant |-> "absent"]
  /\ tasks = [t \in TaskId |-> Absent]
  /\ prime \in BOOLEAN
  /\ handler = [h \in Handler |-> Idle]
  /\ raced = {}
-----------------------------------------------------------------------------
(* POST /applications                                                       *)

\* assertCanApply: the template flag is not read, only the private one.
MayApply == ~post.archived /\ ~post.private

Apply(h, a) ==
  /\ post # Deleted
  /\ MayApply
  /\ Enter(h, [pc |-> "apply", on |-> a])
  /\ UNCHANGED <<post, application, tasks, prime>>

\* The insert fails on the unique pair, or on the key of a deleted post.  The
\* notice to the owner and the cover letter that follow swallow their errors.
InsertApplication(h) ==
  /\ handler[h].pc = "apply"
  /\ application' =
       IF post # Deleted /\ application[handler[h].on] = "absent"
       THEN [application EXCEPT ![handler[h].on] = "NEW"] ELSE application
  /\ Done(h)
  /\ UNCHANGED <<post, tasks, prime, raced>>
-----------------------------------------------------------------------------
(* PATCH /applications/:id/withdraw                                         *)

MayWithdrawUnlessRejected(a) == application[a] \in {"NEW", "VIEWED", "ACCEPTED"}  \* mutant

MayWithdraw(a) == application[a] \in {"NEW", "VIEWED"}

Withdraw(h, a) ==
  /\ MayWithdraw(a)
  /\ Enter(h, [pc |-> "withdraw", on |-> a])
  /\ UNCHANGED <<post, application, tasks, prime>>

\* The write names the row alone: whatever the status has become is lost.
WriteWithdrawn(h) ==
  /\ handler[h].pc = "withdraw"
  /\ application' = IF application[handler[h].on] # "absent"
                    THEN [application EXCEPT ![handler[h].on] = "WITHDRAWN"]
                    ELSE application
  /\ Done(h)
  /\ UNCHANGED <<post, tasks, prime, raced>>
-----------------------------------------------------------------------------
(* PATCH /applications/:id/status                                           *)

TasksOf(a) == {t \in TaskId : tasks[t] # Absent /\ tasks[t].application = a}

Accepting(l) ==
  \/ l.pc = "subscription"
  \/ l.pc = "decide" /\ l.createTask

\* Bound: an acceptance is received only while a row is left for its task.
RowLeft ==
  Cardinality({g \in Handler : Accepting(handler[g])})
    < Cardinality({t \in TaskId : tasks[t] = Absent})

\* The owner's decision; the subscription is looked up for an acceptance only.
UpdateStatus(h, a, s) ==
  /\ application[a] # "absent"
  /\ s \in OwnerTransitions[application[a]]
  /\ s = "ACCEPTED" => RowLeft
  /\ Enter(h, IF s = "ACCEPTED"
              THEN [pc |-> "subscription", on |-> a]
              ELSE [pc |-> "decide", on |-> a, status |-> s, createTask |-> FALSE])
  /\ UNCHANGED <<post, application, tasks, prime>>

ReadSubscription(h) ==
  /\ handler[h].pc = "subscription"
  /\ Goto(h, [pc |-> "decide", on |-> handler[h].on, status |-> "ACCEPTED",
              createTask |-> prime])
  /\ UNCHANGED <<post, application, tasks, prime, raced>>

HasTask(a) == TasksOf(a) # {}

\* createFromAcceptedApplication, inside the transaction: a task that is
\* already there rolls the status back too.
InsertTask(a) ==
  \E t \in TaskId :
    /\ tasks[t] = Absent
    /\ tasks' = [tasks EXCEPT ![t] =
                   [application |-> a, post |-> Here, madeFrom |-> a]]

WriteStatus(h) ==
  /\ handler[h].pc = "decide"
  /\ LET a == handler[h].on
         refused == \/ application[a] = "absent"
                    \/ handler[h].createTask /\ HasTask(a)
     IN  \/ refused /\ UNCHANGED <<application, tasks>>
         \/ /\ ~refused
            /\ application' = [application EXCEPT ![a] = handler[h].status]
            /\ IF handler[h].createTask THEN InsertTask(a) ELSE UNCHANGED tasks
  /\ Done(h)
  /\ UNCHANGED <<post, prime, raced>>

\* billing: activation, cancellation and the passing of the expiry date.
SubscriptionTurns ==
  /\ prime' = ~prime
  /\ UNCHANGED <<post, application, tasks, handler, raced>>
-----------------------------------------------------------------------------
(* PATCH /tasks/:id with another post                                       *)

MoveTask(h, t, p) ==
  /\ tasks[t] # Absent
  /\ p # tasks[t].post
  /\ p = Here => post # Deleted /\ ~post.archived
  /\ Enter(h, [pc |-> "move", task |-> t, to |-> p])
  /\ UNCHANGED <<post, application, tasks, prime>>

\* The move disconnects the application.
Moved(t, p) == [tasks[t] EXCEPT !.post = p, !.application = None]

WriteMove(h) ==
  /\ handler[h].pc = "move"
  /\ LET t == handler[h].task
         p == handler[h].to
     IN  tasks' = IF tasks[t] # Absent /\ (p = Here => post # Deleted)
                  THEN [tasks EXCEPT ![t] = Moved(t, p)] ELSE tasks
  /\ Done(h)
  /\ UNCHANGED <<post, application, prime, raced>>
-----------------------------------------------------------------------------
(* PATCH and DELETE /posts/:id                                              *)

\* What is written: publishing a template makes it public unless told
\* otherwise, a template is always private.
PostPatch(dto) ==
  IF dto.template = FALSE
  THEN [dto EXCEPT !.private = IF dto.private = Keep THEN FALSE ELSE dto.private]
  ELSE IF post.template \/ dto.template = TRUE
       THEN [dto EXCEPT !.private = TRUE, !.template = TRUE]
       ELSE dto

UpdatePost(h, dto) ==
  /\ post # Deleted
  /\ Enter(h, [pc |-> "updatePost", patch |-> PostPatch(dto)])
  /\ UNCHANGED <<post, application, tasks, prime>>

Merge(old, new) == IF new = Keep THEN old ELSE new

WritePost(h) ==
  /\ handler[h].pc = "updatePost"
  /\ LET p == handler[h].patch
     IN  post' = IF post = Deleted THEN Deleted
                 ELSE [archived |-> Merge(post.archived, p.archived),
                       private  |-> Merge(post.private, p.private),
                       template |-> Merge(post.template, p.template)]
  /\ Done(h)
  /\ UNCHANGED <<application, tasks, prime, raced>>

\* Only a template may be deleted.
RemovePost(h) ==
  /\ post # Deleted
  /\ post.template
  /\ Enter(h, [pc |-> "removePost"])
  /\ UNCHANGED <<post, application, tasks, prime>>

\* The delete cascades to the applications, and to the tasks of either.
DeletePost(h) ==
  /\ handler[h].pc = "removePost"
  /\ post' = Deleted
  /\ application' = [a \in Applicant |-> "absent"]
  /\ tasks' = [t \in TaskId |->
                 IF tasks[t] # Absent /\ tasks[t].post = Elsewhere
                    /\ tasks[t].application = None
                 THEN tasks[t] ELSE Absent]
  /\ Done(h)
  /\ UNCHANGED <<prime, raced>>
-----------------------------------------------------------------------------
\* An awaited call throws, or the process dies, before the write.
Fail(h) ==
  /\ handler[h] # Idle
  /\ Done(h)
  /\ UNCHANGED <<post, application, tasks, prime, raced>>

Receive(h) ==
  \/ \E a \in Applicant : Apply(h, a) \/ Withdraw(h, a)
  \/ \E a \in Applicant, s \in OwnerAllowedStatuses : UpdateStatus(h, a, s)
  \/ \E t \in TaskId, p \in {Here, Elsewhere} : MoveTask(h, t, p)
  \/ \E dto \in PostDto : UpdatePost(h, dto)
  \/ RemovePost(h)

Continue(h) ==
  \/ InsertApplication(h) \/ WriteWithdrawn(h)
  \/ ReadSubscription(h) \/ WriteStatus(h)
  \/ WriteMove(h) \/ WritePost(h) \/ DeletePost(h)

Next ==
  \/ \E h \in Handler : Receive(h) \/ Continue(h) \/ Fail(h)
  \/ SubscriptionTurns

Spec == Init /\ [][Next]_vars
-----------------------------------------------------------------------------
\* Every variable holds a row, or a local state, of its type.
TypeOK ==
  /\ post \in PostRow \cup {Deleted}
  /\ application \in [Applicant -> ApplicationStatus \cup {"absent"}]
  /\ tasks \in [TaskId -> TaskRow \cup {Absent}]
  /\ prime \in BOOLEAN
  /\ handler \in [Handler -> HandlerState]
  /\ raced \subseteq Applicant \cup TaskId \cup {Here}
-----------------------------------------------------------------------------
(* Whatever overlaps.                                                       *)

\* At most one task hangs on an application, though two acceptances may both
\* have read it undecided (createFromAcceptedApplication).
LinkedOnce ==
  \A a \in Applicant : \A t, u \in TasksOf(a) : t = u

\* A task that hangs on an application is still in that application's post:
\* a move and the disconnection are one write (update of TasksService).
LinkedTaskKeepsPost ==
  \A t \in TaskId : tasks[t] # Absent /\ tasks[t].application # None =>
    /\ tasks[t].application = tasks[t].madeFrom
    /\ tasks[t].post = Here
-----------------------------------------------------------------------------
(* Where no two conflicting handlers overlapped on the row.                 *)

\* An accepted, rejected or withdrawn application stays so, until its post is
\* deleted (withdraw and updateStatus).
DecisionIsFinal ==
  [][\A a \in Applicant \ raced : application[a] \in Decided =>
       application'[a] \in {application[a], "absent"}]_vars

\* A task hangs on an accepted application only (updateStatus, withdraw).
TaskOnlyWhileAccepted ==
  \A a \in Applicant \ raced : TasksOf(a) # {} => application[a] = "ACCEPTED"

\* An application makes one task in its life, wherever the task moves
\* ("a task for this application already exists").
OneTaskPerApplication ==
  \A t, u \in TaskId :
    /\ tasks[t] # Absent /\ tasks[u] # Absent
    /\ tasks[t].madeFrom = tasks[u].madeFrom /\ tasks[t].madeFrom \notin raced
    => t = u

\* A template is private, which is all that keeps applications off it
\* (update, and assertCanApply, which does not read the template flag).
TemplateIsPrivate ==
  Here \notin raced /\ post # Deleted /\ post.template => post.private
=============================================================================
