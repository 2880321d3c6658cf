--------------------------- MODULE MCTaskLifecycle ---------------------------
(* Small instances of TaskLifecycle: one owner, up to two other profiles.   *)
EXTENDS TaskLifecycle, TLC

CONSTANTS o, e1, e2, p1, p2

\* A PATCH body that sends nothing; the bodies below send a few fields.
Nothing == [status |-> Keep, executor |-> Keep, approve |-> Keep,
            archived |-> Keep, finalDate |-> Keep, post |-> Keep]

SendStatus(s) == [Nothing EXCEPT !.status = s]
SendExecutor(u) == [Nothing EXCEPT !.executor = u]
SendApproval(a) == [Nothing EXCEPT !.approve = a]
SendArchived(b) == [Nothing EXCEPT !.archived = b]
SendFinalDate(d) == [Nothing EXCEPT !.finalDate = d]
SendPost(p) == [Nothing EXCEPT !.post = p]

\* Every field of update alone, and the pairs that interact in it.
SerialOwnerDto ==
  {SendStatus(s) : s \in {"IN_PROGRESS", "COMPLETED", "ANNULLED"}}
    \cup {SendExecutor(u) : u \in User}
    \cup {SendApproval("true"), SendArchived(TRUE), SendArchived(FALSE)}
    \cup {SendPost(p) : p \in Post}
    \cup {[SendExecutor(u) EXCEPT !.approve = "true"] : u \in User \ {Owner}}
    \cup {[SendStatus("COMPLETED") EXCEPT !.post = p] : p \in Post}

SerialExecutorDto ==
  {SendStatus(s) : s \in {"IN_PROGRESS", "COMPLETED"}}
    \cup {SendApproval(a) : a \in {"true", "false"}}
    \cup {[SendApproval("true") EXCEPT !.status = "IN_PROGRESS"]}

\* One field at a time, forbidden ones included, for two overlapping handlers.
OverlapOwnerDto ==
  {SendStatus(s) : s \in {"IN_PROGRESS", "COMPLETED", "ANNULLED"}}
    \cup {SendExecutor(u) : u \in User}
    \cup {SendFinalDate(d) : d \in Date}
    \cup {SendPost(p) : p \in Post}

OverlapExecutorDto ==
  {SendStatus("COMPLETED"), SendStatus("ANNULLED")}
    \cup {[SendStatus("COMPLETED") EXCEPT !.finalDate = d] : d \in Date}

Preparing == {"PREPARING"}
OneDate == {1}

Interchangeable ==
  Permutations(Handler) \cup Permutations(RequestId) \cup Permutations({e1, e2})
=============================================================================
