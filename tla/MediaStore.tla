----------------------------- MODULE MediaStore -----------------------------
(***************************************************************************)
(* Files: a row that names a key and an object under that key, in two      *)
(* stores that no transaction spans (src/src/media/media.service.ts,       *)
(* src/src/file-templates/file-templates.service.ts, and what they call in *)
(* posts.service.ts and tasks.service.ts).                                 *)
(*                                                                         *)
(* A file template, a template post, the post published from it, a task of *)
(* that post and another task of the same owner have rows.  What is put    *)
(* for a chat, a comment or a profile has none here.                       *)
(*                                                                         *)
(* A handler is cut at its awaits, any call to the storage may fail, and   *)
(* the process may die.  A definition marked "mutant" is one below it with *)
(* a mistake in it; it is used nowhere.                                    *)
(***************************************************************************)
EXTENDS Naturals, FiniteSets

CONSTANTS
  Key,     \* random keys: bounds how many objects are ever put
  Cap,     \* MAX_TASK_REPORT_MEDIA
  Handler  \* requests in flight: bounds the concurrency

ASSUME CapAssumption == Cap \in Nat \ {0}
ASSUME HandlerAssumption == IsFiniteSet(Handler)

VARIABLES
  row,        \* the keys that the rows of each place name
  object,     \* the keys there is an object under
  home,       \* what a key was given for, its prefix, or "unused"
  template,   \* the template post: "present" or "gone"
  post,       \* the post published from it: "absent", "present" or "gone"
  task,       \* the task of that post: "absent", "present" or "gone"
  handler,    \* the local state of each request in flight
  struck,     \* history: keys whose object was deleted and their row was not to go with a post
  wanted,     \* history: how many files the template had when it was published
  made,       \* history: the keys publishing gave rows
  unfinished  \* history: publishing was cut off, or not taken back

vars == <<row, object, home, template, post, task, handler, struck, wanted,
          made, unfinished>>
stores == <<row, object, home>>
parents == <<template, post, task>>
history == <<struck, wanted, made, unfinished>>
-----------------------------------------------------------------------------
Place == {"template", "post", "main", "report", "source", "file"}

Target == Place \cup {"loose", "chat"}

Idle == [pc |-> "idle"]

HandlerState ==
  {Idle}
    \cup [pc: {"put", "count", "insert"}, to: Target, key: Key]
    \cup [pc: {"copy"}, from: Key, to: Target, key: Key]
    \cup [pc: {"copyAll"}, items: SUBSET Key]
    \cup [pc: {"drop", "dropRow"}, to: Place, key: Key]
    \cup [pc: {"create"}, items: SUBSET Key]
    \cup [pc: {"next", "undo", "undoFiles"}, items: SUBSET Key, copied: SUBSET Key]
    \cup [pc: {"row"}, items: SUBSET Key, copied: SUBSET Key, key: Key]
    \cup [pc: {"prepare"}, items: SUBSET Key, ready: SUBSET Key]

Goto(h, local) == handler' = [handler EXCEPT ![h] = local]
Done(h) == Goto(h, Idle)

At(pcs) == {h \in Handler : handler[h].pc \in pcs}

\* What the row of a place hangs on is there.
Standing(place) ==
  CASE place = "template" -> template = "present"
    [] place = "post" -> post = "present"
    [] place \in {"main", "report"} -> task = "present"
    [] OTHER -> TRUE

Give(key, target) == home' = [home EXCEPT ![key] = target]

AddRow(place, key) == row' = [row EXCEPT ![place] = @ \cup {key}]

\* A post takes its rows and its task with it, and that its own.
Without(places) == [p \in Place |-> IF p \in places THEN {} ELSE row[p]]
-----------------------------------------------------------------------------
Init ==
  /\ row = [p \in Place |-> {}]
  /\ object = {}
  /\ home = [k \in Key |-> "unused"]
  /\ template = "present"
  /\ post = "absent"
  /\ task = "absent"
  /\ handler = [h \in Handler |-> Idle]
  /\ struck = {}
  /\ wanted = 0
  /\ made = {}
  /\ unfinished = FALSE
-----------------------------------------------------------------------------
(* upload: the object, then the row.                                        *)

Upload(h, place, key) ==
  /\ handler[h] = Idle
  /\ home[key] = "unused"
  /\ place \in Place => Standing(place)
  /\ Give(key, place)
  /\ Goto(h, [pc |-> "put", to |-> place, key |-> key])
  /\ UNCHANGED <<row, object, parents, history>>

\* What has a new object does next: nothing, the row, or the count before it.
AfterObject(place, key) ==
  CASE place \in {"loose", "chat"} -> Idle
    [] place = "file" -> [pc |-> "insert", to |-> place, key |-> key]
    [] OTHER -> [pc |-> "count", to |-> place, key |-> key]

PutObject(h) ==
  /\ handler[h].pc = "put"
  /\ object' = object \cup {handler[h].key}
  /\ Goto(h, AfterObject(handler[h].to, handler[h].key))
  /\ UNCHANGED <<row, home, parents, history>>

FullLate(place) ==  \* mutant
  place = "report" /\ Cardinality(row["report"]) > Cap

Full(place) == place = "report" /\ Cardinality(row["report"]) >= Cap

\* The count of addMedia; one file too many is refused and its object stays.
CountMedia(h) ==
  /\ handler[h].pc = "count"
  /\ IF Full(handler[h].to) THEN Done(h)
     ELSE Goto(h, [handler[h] EXCEPT !.pc = "insert"])
  /\ UNCHANGED <<stores, parents, history>>

\* The foreign key refuses the row of what is gone by now.
InsertMedia(h) ==
  /\ handler[h].pc = "insert"
  /\ IF Standing(handler[h].to) THEN AddRow(handler[h].to, handler[h].key)
     ELSE UNCHANGED row
  /\ Done(h)
  /\ UNCHANGED <<object, home, parents, history>>
-----------------------------------------------------------------------------
(* A file template sent to a task or a dialog, a task's file to a dialog.   *)

SendFile(h, from, to, key) ==
  /\ handler[h] = Idle
  /\ home[key] = "unused"
  /\ from \in row["file"]
  /\ to \in {"main", "chat"}
  /\ to = "main" => Standing(to)
  /\ Give(key, to)
  /\ Goto(h, [pc |-> "copy", from |-> from, to |-> to, key |-> key])
  /\ UNCHANGED <<row, object, parents, history>>

Kind == {"main", "report"}

\* listMediaForCopy: the files of a kind, or those of them the request names.
ListMediaForCopy(kind) == SUBSET row[kind] \ {{}}

CopyTaskMediaToConversation(h, items) ==
  /\ handler[h] = Idle
  /\ \E kind \in Kind : items \in ListMediaForCopy(kind)
  /\ Goto(h, [pc |-> "copyAll", items |-> items])
  /\ UNCHANGED <<stores, parents, history>>

\* One by one; a file that the task shares is none of its own and ends the request,
\* as one does that cannot be copied.  The copies before it stay.
CopyToConversation(h, item, key) ==
  /\ handler[h].pc = "copyAll"
  /\ item \in handler[h].items
  /\ home[key] = "unused"
  /\ IF home[item] \in Kind /\ item \in object
     THEN /\ object' = object \cup {key}
          /\ Give(key, "chat")
          /\ Goto(h, IF handler[h].items = {item} THEN Idle
                     ELSE [handler[h] EXCEPT !.items = @ \ {item}])
     ELSE UNCHANGED <<object, home>> /\ Done(h)
  /\ UNCHANGED <<row, parents, history>>

\* There may be nothing under the key any more.
CopyObject(h) ==
  /\ handler[h].pc = "copy"
  /\ IF handler[h].from \in object
     THEN /\ object' = object \cup {handler[h].key}
          /\ Goto(h, AfterObject(handler[h].to, handler[h].key))
     ELSE UNCHANGED object /\ Done(h)
  /\ UNCHANGED <<row, home, parents, history>>
-----------------------------------------------------------------------------
(* removeMedia and the removal of a file template: the object, then the row.*)

RemoveMedia(h, place, key) ==
  /\ handler[h] = Idle
  /\ key \in row[place]
  /\ Goto(h, [pc |-> "drop", to |-> place, key |-> key])
  /\ UNCHANGED <<stores, parents, history>>

DropObject(h) ==
  /\ handler[h].pc = "drop"
  /\ object' = object \ {handler[h].key}
  /\ struck' = struck \cup {handler[h].key}
  /\ Goto(h, [handler[h] EXCEPT !.pc = "dropRow"])
  /\ UNCHANGED <<row, home, parents, wanted, made, unfinished>>

\* The delete fails when another has been first.
DropRow(h) ==
  /\ handler[h].pc = "dropRow"
  /\ row' = [row EXCEPT ![handler[h].to] = @ \ {handler[h].key}]
  /\ Done(h)
  /\ UNCHANGED <<object, home, parents, history>>

\* The rows of its files go with a template; nobody deletes their objects.
\* Only a template can be removed: a post is archived.
RemoveTemplate ==
  /\ template = "present"
  /\ template' = "gone"
  /\ row' = Without({"template"})
  /\ UNCHANGED <<object, home, post, task, handler, history>>
-----------------------------------------------------------------------------
(* publishFromTemplate: the post, then file after file its copy and row;    *)
(* a failure takes back the post, then the copies.                          *)

PublishFromTemplate(h) ==
  /\ handler[h] = Idle
  /\ template = "present"
  /\ post = "absent" /\ At({"create"}) = {}
  /\ Goto(h, [pc |-> "create", items |-> row["template"]])
  /\ UNCHANGED <<stores, parents, history>>

CreatePost(h) ==
  /\ handler[h].pc = "create"
  /\ post' = "present"
  /\ wanted' = Cardinality(handler[h].items)
  /\ Goto(h, [pc |-> "next", items |-> handler[h].items, copied |-> {}])
  /\ UNCHANGED <<stores, template, task, struck, made, unfinished>>

SkipItem(h, item, key) ==  \* mutant
  /\ handler[h].pc = "next"
  /\ item \in handler[h].items
  /\ IF item \in object
     THEN /\ object' = object \cup {key}
          /\ Goto(h, [pc |-> "row", items |-> handler[h].items \ {item},
                      copied |-> handler[h].copied \cup {key}, key |-> key])
     ELSE UNCHANGED object /\ Goto(h, [handler[h] EXCEPT !.items = @ \ {item}])
  /\ home[key] = "unused"
  /\ Give(key, "post")
  /\ UNCHANGED <<row, parents, history>>

CopyItem(h, item, key) ==
  /\ handler[h].pc = "next"
  /\ item \in handler[h].items
  /\ IF item \in object
     THEN /\ object' = object \cup {key}
          /\ Goto(h, [pc |-> "row", items |-> handler[h].items \ {item},
                      copied |-> handler[h].copied \cup {key}, key |-> key])
     ELSE UNCHANGED object /\ Goto(h, [handler[h] EXCEPT !.pc = "undo"])
  /\ home[key] = "unused"
  /\ Give(key, "post")
  /\ UNCHANGED <<row, parents, history>>

CopyItemFails(h) ==
  /\ handler[h].pc = "next"
  /\ handler[h].items # {}
  /\ Goto(h, [handler[h] EXCEPT !.pc = "undo"])
  /\ UNCHANGED <<stores, parents, history>>

InsertItem(h) ==
  /\ handler[h].pc = "row"
  /\ AddRow("post", handler[h].key)
  /\ made' = made \cup {handler[h].key}
  /\ Goto(h, [pc |-> "next", items |-> handler[h].items, copied |-> handler[h].copied])
  /\ UNCHANGED <<object, home, parents, struck, wanted, unfinished>>

Published(h) ==
  /\ handler[h].pc = "next"
  /\ handler[h].items = {}
  /\ Done(h)
  /\ UNCHANGED <<stores, parents, history>>

UndoNothing(h) ==  \* mutant
  /\ handler[h].pc = "undo"
  /\ Goto(h, [handler[h] EXCEPT !.pc = "undoFiles"])
  /\ UNCHANGED <<stores, parents, history>>

\* Either the post goes with its rows and its task, or the failure is ignored.
UndoPost(h) ==
  /\ handler[h].pc = "undo"
  /\ \/ /\ post' = "gone"
        /\ task' = IF task = "present" THEN "gone" ELSE task
        /\ row' = Without({"post", "main", "report"})
        /\ UNCHANGED unfinished
     \/ /\ unfinished' = TRUE
        /\ UNCHANGED <<post, task, row>>
  /\ Goto(h, [handler[h] EXCEPT !.pc = "undoFiles"])
  /\ UNCHANGED <<object, home, template, struck, wanted, made>>

\* Some of the deletions may fail, unnoticed too.
UndoFiles(h, deleted) ==
  /\ handler[h].pc = "undoFiles"
  /\ deleted \subseteq handler[h].copied
  /\ object' = object \ deleted
  /\ struck' = IF unfinished THEN struck \cup deleted ELSE struck
  /\ Done(h)
  /\ UNCHANGED <<row, home, parents, wanted, made, unfinished>>
-----------------------------------------------------------------------------
(* A task is created with files named by their keys: those of the post and  *)
(* loose ones are shared, those of another task of the owner are copied.    *)

CreateTask(h, items) ==
  /\ handler[h] = Idle
  /\ post = "present"
  /\ task = "absent" /\ At({"prepare"}) = {}
  /\ items \subseteq {k \in object \cup struck : home[k] \in {"post", "loose", "source"}}
  /\ Goto(h, [pc |-> "prepare", items |-> items, ready |-> {}])
  /\ UNCHANGED <<stores, parents, history>>

ShareItem(h, item) ==
  /\ handler[h].pc = "prepare"
  /\ item \in handler[h].items
  /\ home[item] # "source"
  /\ Goto(h, [pc |-> "prepare", items |-> handler[h].items \ {item},
              ready |-> handler[h].ready \cup {item}])
  /\ UNCHANGED <<stores, parents, history>>

\* A copy that fails ends the request; the copies before it stay.
DuplicateItem(h, item, key) ==
  /\ handler[h].pc = "prepare"
  /\ item \in handler[h].items
  /\ home[item] = "source"
  /\ home[key] = "unused"
  /\ Give(key, "main")
  /\ IF item \in object
     THEN /\ object' = object \cup {key}
          /\ Goto(h, [pc |-> "prepare", items |-> handler[h].items \ {item},
                      ready |-> handler[h].ready \cup {key}])
     ELSE UNCHANGED object /\ Done(h)
  /\ UNCHANGED <<row, parents, history>>

InsertTask(h) ==
  /\ handler[h].pc = "prepare"
  /\ handler[h].items = {}
  /\ IF post = "present"
     THEN task' = "present" /\ row' = [row EXCEPT !["main"] = handler[h].ready]
     ELSE UNCHANGED <<task, row>>
  /\ Done(h)
  /\ UNCHANGED <<object, home, template, post, history>>
-----------------------------------------------------------------------------
\* A call to the storage fails, and the request with it.
StorageFails(h) ==
  /\ \/ handler[h].pc \in {"put", "copy", "copyAll", "drop"}
     \/ handler[h].pc = "prepare" /\ \E k \in handler[h].items : home[k] = "source"
  /\ Done(h)
  /\ UNCHANGED <<stores, parents, history>>

\* The process dies, and what it was publishing stays as it is.
Crash ==
  /\ At({"idle"}) # Handler
  /\ handler' = [h \in Handler |-> Idle]
  /\ unfinished' = (unfinished \/ At({"next", "row", "undo", "undoFiles"}) # {})
  /\ UNCHANGED <<stores, parents, struck, wanted, made>>

Request(h) ==
  \/ \E p \in Target, k \in Key : Upload(h, p, k)
  \/ \E f \in Key, to \in Target, k \in Key : SendFile(h, f, to, k)
  \/ \E items \in SUBSET Key : CopyTaskMediaToConversation(h, items)
  \/ \E p \in Place, k \in Key : RemoveMedia(h, p, k)
  \/ PublishFromTemplate(h)
  \/ \E items \in SUBSET Key : CreateTask(h, items)

Step(h) ==
  \/ PutObject(h) \/ CountMedia(h) \/ InsertMedia(h)
  \/ CopyObject(h)
  \/ \E t, k \in Key : CopyToConversation(h, t, k)
  \/ DropObject(h) \/ DropRow(h)
  \/ CreatePost(h)
  \/ \E t, k \in Key : CopyItem(h, t, k)
  \/ CopyItemFails(h) \/ InsertItem(h) \/ Published(h)
  \/ UndoPost(h)
  \/ \E d \in SUBSET Key : UndoFiles(h, d)
  \/ \E t \in Key : ShareItem(h, t)
  \/ \E t, k \in Key : DuplicateItem(h, t, k)
  \/ InsertTask(h)
  \/ StorageFails(h)

Next ==
  \/ \E h \in Handler : Request(h) \/ Step(h)
  \/ RemoveTemplate
  \/ Crash

Spec == Init /\ [][Next]_vars
-----------------------------------------------------------------------------
\* listAttachments of a task, of some kinds.
ListAttachments(kinds) == UNION {row[kind] : kind \in kinds}

(* Properties                                                               *)

\* A row names an object, unless somebody had a file of that key removed or a
\* publication could not be taken back (posts.service.ts:354: the post, and with
\* it its rows, goes before the copies do).
RowHasObject ==
  \A p \in Place : row[p] \subseteq object \cup struck

\* A task has no more report files than the cap and the requests that were under
\* way at once but one (tasks.service.ts:2143: each counts, then inserts).
ReportsNearCap ==
  Cardinality(ListAttachments({"report"})) + 1 <= Cap + Cardinality(Handler)

\* A post that was published without an unnoticed failure has a copy of every file
\* of its template, those removed since aside (posts.service.ts:309).
PublishedIsComplete ==
  post = "present" /\ ~unfinished /\ At({"create", "next", "row", "undo", "undoFiles"}) = {}
    => /\ Cardinality(made) = wanted
       /\ made \subseteq row["post"] \cup struck
=============================================================================
