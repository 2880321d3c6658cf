--------------------------- MODULE MCTaskComments ---------------------------
(* A small instance of TaskComments: two comments, two requests at a time.  *)
EXTENDS TaskComments, TLC

CONSTANTS a

Texts == {Blank, a}

At(pcs) == \E h \in Handler : handler[h].pc \in pcs

Pinning == pinned # {} \/ At({"pin"})

Reading ==
  At({"latest", "mark"}) \/ blind # {} \/ \E u \in User : cursor[u] # 0

OneWriter ==
  \A g, h \in Handler :
    {handler[g].pc, handler[h].pc} \subseteq {"reply", "insert", "commit"} => g = h

OneMark ==
  /\ \A g, h \in Handler : {handler[g].pc, handler[h].pc} \subseteq {"latest", "mark"} => g = h
  /\ Cardinality({u \in User : seen[u] # {} \/ u \in blind}) <= 1

\* Comments of text only, none of them edited or an answer.
Plain ==
  /\ \A c \in Present \cup Gone : comment[c].media = {} /\ comment[c].replyTo = None
  /\ ~At({"reply", "edit", "announceEdit"})
  /\ \A h \in Handler : handler[h].pc \in {"insert", "commit"} => handler[h].media = {}

\* All of them by the executor.
ByExecutor ==
  /\ \A c \in Present \cup Gone : comment[c].author = executor
  /\ \A h \in Handler : handler[h].pc \in {"reply", "insert", "commit"} => handler[h].user = executor

\* Pins are tried on the first comment, the cursors and changes of the executor
\* on plain comments nobody raced for, one reader's at a time; what is not plain is
\* written by the executor, one request at a time.  A comment that is stamped and lost
\* leaves room for one less.
Small ==
  /\ clock <= Cardinality(CommentId)
  /\ Pinning => \E c \in CommentId : comment[c] = Absent
  /\ Reading => Plain /\ ~Pinning /\ raced = {} /\ OneMark
  /\ Plain \/ (ByExecutor /\ OneWriter)

Interchangeable ==
  Permutations(CommentId) \cup Permutations(File) \cup Permutations(Handler)
    \cup Permutations(Executor)
=============================================================================
