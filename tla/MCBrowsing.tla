----------------------------- MODULE MCBrowsing -----------------------------
(* A small instance of Browsing.  The parts share nothing, so that one of   *)
(* them is looked at in a behaviour, and the others stay as they are.       *)
EXTENDS Browsing, TLC

VARIABLE part

OneInit ==
  /\ Init
  /\ part \in {"posts", "partners", "dialogs", "scroll", "tasks", "publication", "profile"}
  /\ part # "posts" => role = "MANAGER" /\ \A p \in Theirs : post[p].type = "CREATOR"
  /\ part # "partners" => kind = "executors"
  /\ part # "posts" => \A x \in Person : roleOf[x] = "CREATOR"
  /\ publication.executorId = (CHOOSE e \in Executor : TRUE) /\ publication.deliverable = 1
  /\ profile.email = CHOOSE a \in Address : TRUE
  /\ part # "tasks" => task.executorId = None /\ task.finalDate = "null" /\ task.urgent = "false"

\* The dashboard of the owner or of one executor is asked for a period, or for an owner, an
\* executor or both, of a task that is neither urgent nor commented on.
FewParameters ==
  viewer # NotGiven =>
    LET one == {Owner, CHOOSE e \in Executor : TRUE}
        given == {p \in DOMAIN viewer.query \ {"role"} : viewer.query[p] # NotGiven}
    IN  /\ viewer.user \in one
        /\ viewer.query.ownerId \in one \cup {NotGiven}
        /\ given # {} => comments = <<>> /\ task.urgent = "false"
        /\ task.finalDate # "null" => given \subseteq {"period"}
        /\ "period" \in given => given = {"period"}

\* What is saved does not depend on these two flags.
FewFlags ==
  (\E p \in Mine \cup Theirs : post[p].type # "gone" /\ (post[p].archived \/ post[p].template))
    => saved = 0 /\ \A h \in Handler : saving[h].pc = "idle"

\* A profile is saved, by a viewer and of a role that change nothing, while there is
\* neither a group nor a post that is saved.
FewProfiles ==
  /\ (\E x \in Person : roleOf[x] # "CREATOR") =>
       saved = 0 /\ \A h \in Handler : saving[h].pc = "idle"
  /\ (\E x \in Person : \/ favorite[x] # Posts!NoFavorite
                        \/ \E h \in Handler : saving[h].pc # "idle" /\ saving[h].post = x)
       => /\ group = Stranger /\ Posts!Saved = {}
          /\ \A p \in Mine \cup Theirs : post[p].type # "gone" => ~post[p].private

\* Comments are written on a task that only changes its executor.
FewComments ==
  comments # <<>> =>
    /\ task.status = "PREPARING" /\ task.finalDate = "null" /\ task.urgent = "false"
    /\ task.isCompanyAction = "false" /\ task.isExecutorApprove = "null"

\* At most one dialog is hidden, from one profile, where one was looked for twice.
FewHidden ==
  raced # {} => Cardinality({<<c, u>> \in Conversation \X Profile : u \in hidden[c]}) <= 1

\* A look changes nothing that is looked at, so that whoever looks does so last, and an
\* answer is given before the next row is written.
OneNext ==
  /\ \/ part = "posts" /\ PostStep /\ FewFlags' /\ FewProfiles'
     \/ part = "partners" /\ PartnerStep /\ (reader.pc = "done" => reader' # reader)
     \/ part = "dialogs" /\ DialogStep /\ FewHidden'
     \/ part = "scroll" /\ ScrollStep
     \/ part = "tasks" /\ viewer = NotGiven /\ TaskStep /\ FewParameters' /\ FewComments'
     \/ part = "publication" /\ PublicationStep
     \/ part = "profile" /\ ProfileStep
  /\ UNCHANGED part

OneSpec == OneInit /\ [][OneNext]_<<vars, part>>

Interchangeable ==
  Permutations(Handler) \cup Permutations(Conversation)
=============================================================================
