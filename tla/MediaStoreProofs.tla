-------------------------- MODULE MediaStoreProofs ---------------------------
(* Safety of MediaStore, for every set of keys, every cap and any number of  *)
(* requests: a row names an object, a post is published complete, and the    *)
(* report files of a task are near the cap.  Inv is the inductive invariant  *)
(* of the first two: what the requests in flight hold, what the publisher of *)
(* the post has still to do, and what the rows are of.                       *)
EXTENDS MediaStore, TLAPS, FiniteSetTheorems

TypeOK ==
  /\ row \in [Place -> SUBSET Key]
  /\ object \subseteq Key
  /\ home \in [Key -> Target \cup {"unused"}]
  /\ template \in {"present", "gone"}
  /\ post \in {"absent", "present", "gone"}
  /\ task \in {"absent", "present", "gone"}
  /\ handler \in [Handler -> HandlerState]
  /\ struck \subseteq Key
  /\ wanted \in Nat
  /\ made \subseteq Key
  /\ unfinished \in BOOLEAN

\* A key whose object is there, or was removed by somebody who meant to.
Stored == object \cup struck

\* The places whose rows go with the post.
OfPost == {"post", "main", "report"}

\* A request that will write a row holds a key with an object, or for a row that
\* will be refused.
Holds(l) ==
  /\ l.pc \in {"put", "count", "insert", "copy"} => home[l.key] = l.to
  /\ l.pc \in {"count", "insert"} => l.key \in Stored \/ (post = "gone" /\ l.to \in OfPost)
  /\ l.pc = "dropRow" => l.key \in struck
  /\ l.pc = "prepare" => l.items \cup l.ready \subseteq Stored \/ post = "gone"

\* The publisher has made as many copies as it has files left to make the number
\* it found; a copy without a row is new; and it takes back its own copies alone.
Publishes(l) ==
  /\ l.pc = "create" => post = "absent"
  /\ l.pc \in {"next", "row", "undo"} => post = "present"
  /\ l.pc \in {"create", "next", "row"} => IsFiniteSet(l.items)
  /\ l.pc \in {"next", "row", "undo", "undoFiles"} => \A k \in l.copied : home[k] = "post"
  /\ l.pc = "next" => wanted = Cardinality(l.items) + Cardinality(made)
  /\ l.pc = "row" => /\ wanted = Cardinality(l.items) + Cardinality(made) + 1
                     /\ l.key \in (l.copied \cap Stored) \ made
  /\ l.pc = "undoFiles" => post = "gone" \/ unfinished

HandlersFit == \A h \in Handler : Holds(handler[h]) /\ Publishes(handler[h])

Publishing == {"create", "next", "row", "undo"}

OnePublishes == \A g, h \in At(Publishing) : g = h

\* The rows that stay when the post goes are of keys given for them.
RowsAtHome == \A p \in Place \ OfPost : \A k \in row[p] : home[k] = p

GoneIsEmpty == post = "gone" => task # "present" /\ \A p \in OfPost : row[p] = {}

FilesAreFinite == IsFiniteSet(row["template"])

RowsFit == RowHasObject /\ RowsAtHome /\ GoneIsEmpty /\ FilesAreFinite

\* Until the publisher is done the post lacks files; then it has as many as the
\* template had.
MadeFits ==
  /\ IsFiniteSet(made)
  /\ \A k \in made : home[k] = "post"
  /\ post = "absent" => made = {}
  /\ post = "present" /\ ~unfinished =>
       /\ made \subseteq row["post"] \cup struck
       /\ At({"next", "row", "undo"}) = {} => Cardinality(made) = wanted

Inv == TypeOK /\ HandlersFit /\ OnePublishes /\ RowsFit /\ MadeFits
-----------------------------------------------------------------------------
(* Lemmas on the operators.                                                  *)

\* The program counter of a handler tells what it holds.
LEMMA Shape ==
  ASSUME NEW l \in HandlerState
  PROVE  /\ l.pc \in {"put", "count", "insert"} =>
              l.to \in Target /\ l.key \in Key /\ l = [pc |-> l.pc, to |-> l.to, key |-> l.key]
         /\ l.pc = "copy" =>
              /\ l.from \in Key /\ l.to \in Target /\ l.key \in Key
              /\ l = [pc |-> "copy", from |-> l.from, to |-> l.to, key |-> l.key]
         /\ l.pc = "copyAll" =>
              l.items \in SUBSET Key /\ l = [pc |-> "copyAll", items |-> l.items]
         /\ l.pc \in {"drop", "dropRow"} =>
              l.to \in Place /\ l.key \in Key /\ l = [pc |-> l.pc, to |-> l.to, key |-> l.key]
         /\ l.pc = "create" =>
              l.items \in SUBSET Key /\ l = [pc |-> "create", items |-> l.items]
         /\ l.pc \in {"next", "undo", "undoFiles"} =>
              /\ l.items \in SUBSET Key /\ l.copied \in SUBSET Key
              /\ l = [pc |-> l.pc, items |-> l.items, copied |-> l.copied]
         /\ l.pc = "row" =>
              /\ l.items \in SUBSET Key /\ l.copied \in SUBSET Key /\ l.key \in Key
              /\ l = [pc |-> "row", items |-> l.items, copied |-> l.copied, key |-> l.key]
         /\ l.pc = "prepare" =>
              /\ l.items \in SUBSET Key /\ l.ready \in SUBSET Key
              /\ l = [pc |-> "prepare", items |-> l.items, ready |-> l.ready]
  BY DEF HandlerState, Idle

\* So it does for a publisher, whose state is a list of files and of copies.
LEMMA PublisherShape ==
  ASSUME NEW l \in HandlerState
  PROVE  /\ \A pc \in {"next", "undo", "undoFiles"} : l.pc = pc =>
              \E items \in SUBSET Key, copied \in SUBSET Key :
                l = [pc |-> pc, items |-> items, copied |-> copied]
         /\ l.pc = "row" =>
              \E items \in SUBSET Key, copied \in SUBSET Key, key \in Key :
                l = [pc |-> "row", items |-> items, copied |-> copied, key |-> key]
<1>1. ASSUME NEW pc \in {"next", "undo", "undoFiles"}, l.pc = pc
      PROVE  \E items \in SUBSET Key, copied \in SUBSET Key :
               l = [pc |-> pc, items |-> items, copied |-> copied]
  <2>1. /\ l.items \in SUBSET Key /\ l.copied \in SUBSET Key
        /\ l = [pc |-> l.pc, items |-> l.items, copied |-> l.copied]
    BY <1>1, Shape
  <2> QED
    BY <1>1, <2>1
<1>2. ASSUME l.pc = "row"
      PROVE  \E items \in SUBSET Key, copied \in SUBSET Key, key \in Key :
               l = [pc |-> "row", items |-> items, copied |-> copied, key |-> key]
  <2>1. /\ l.items \in SUBSET Key /\ l.copied \in SUBSET Key /\ l.key \in Key
        /\ l = [pc |-> "row", items |-> l.items, copied |-> l.copied, key |-> l.key]
    BY <1>2, Shape
  <2> QED
    BY <2>1
<1> QED
  BY <1>1, <1>2

\* And the other way round.
LEMMA Shapes ==
  /\ Idle \in HandlerState
  /\ \A pc \in {"put", "count", "insert"}, to \in Target, k \in Key :
       [pc |-> pc, to |-> to, key |-> k] \in HandlerState
  /\ \A from \in Key, to \in Target, k \in Key :
       [pc |-> "copy", from |-> from, to |-> to, key |-> k] \in HandlerState
  /\ \A items \in SUBSET Key :
       /\ [pc |-> "copyAll", items |-> items] \in HandlerState
       /\ [pc |-> "create", items |-> items] \in HandlerState
  /\ \A pc \in {"drop", "dropRow"}, to \in Place, k \in Key :
       [pc |-> pc, to |-> to, key |-> k] \in HandlerState
  /\ \A pc \in {"next", "undo", "undoFiles"}, items \in SUBSET Key, copied \in SUBSET Key :
       [pc |-> pc, items |-> items, copied |-> copied] \in HandlerState
  /\ \A items \in SUBSET Key, copied \in SUBSET Key, k \in Key :
       [pc |-> "row", items |-> items, copied |-> copied, key |-> k] \in HandlerState
  /\ \A items \in SUBSET Key, ready \in SUBSET Key :
       [pc |-> "prepare", items |-> items, ready |-> ready] \in HandlerState
  BY DEF HandlerState

\* Goto moves one handler.
LEMMA GotoMoves ==
  ASSUME TypeOK, NEW h \in Handler, NEW l \in HandlerState, Goto(h, l)
  PROVE  /\ handler' \in [Handler -> HandlerState]
         /\ handler'[h] = l
         /\ \A g \in Handler \ {h} : handler'[g] = handler[g]
  BY DEF TypeOK, Goto

\* A key is given once.
LEMMA GiveStays ==
  ASSUME TypeOK, NEW key \in Key, NEW target \in Target, home[key] = "unused",
         Give(key, target)
  PROVE  /\ home' \in [Key -> Target \cup {"unused"}]
         /\ home'[key] = target
         /\ \A k \in Key : home[k] # "unused" => home'[k] = home[k]
  BY DEF TypeOK, Give, Target, Place

\* A target is no "unused".
LEMMA TargetsAreUsed == "unused" \notin Target
  BY DEF Target, Place
-----------------------------------------------------------------------------
(* What a step leaves alone.                                                 *)

\* Keys keep what they were given for, and what they are stored under; but the
\* copies of a post that is gone may go.
KeysStay ==
  /\ \A k \in Key : home[k] # "unused" => home'[k] = home[k]
  /\ \A k \in Stored : k \in Stored' \/ (post = "gone" /\ home[k] = "post")
  /\ struck \subseteq struck'
  /\ unfinished => unfinished'
  /\ post = "gone" => post' = "gone"

\* A handler that does not move holds what it held.
LEMMA HoldsStep ==
  ASSUME Inv, KeysStay, NEW g \in Handler, handler'[g] = handler[g]
  PROVE  Holds(handler[g])'
<1> DEFINE l == handler[g]
<1>1. l \in HandlerState /\ Holds(l)
  BY DEF Inv, TypeOK, HandlersFit
<1>2. l.pc \in {"put", "count", "insert", "copy"} =>
        l.key \in Key /\ home[l.key] = l.to /\ home'[l.key] = l.to
  BY <1>1, Shape, TargetsAreUsed DEF Holds, KeysStay
<1>3. l.pc \in {"count", "insert"} =>
        l.key \in Stored' \/ (post' = "gone" /\ l.to \in OfPost)
  BY <1>1, <1>2 DEF Holds, KeysStay, OfPost
<1>4. l.pc = "dropRow" => l.key \in struck'
  BY <1>1 DEF Holds, KeysStay
<1>5. l.pc = "prepare" => l.items \cup l.ready \subseteq Stored' \/ post' = "gone"
  BY <1>1 DEF Holds, KeysStay
<1> QED
  BY <1>2, <1>3, <1>4, <1>5 DEF Holds

\* Nor has a publisher anything else to do, while nothing else is published.
LEMMA PublishesStep ==
  ASSUME Inv, KeysStay, NEW g \in Handler, handler'[g] = handler[g],
         UNCHANGED <<post, wanted, made>>
  PROVE  Publishes(handler[g])'
<1> DEFINE l == handler[g]
<1>1. l \in HandlerState /\ Publishes(l)
  BY DEF Inv, TypeOK, HandlersFit
<1>2. l.pc \in {"next", "row", "undo", "undoFiles"} => \A k \in l.copied : home'[k] = "post"
  BY <1>1, Shape DEF Publishes, KeysStay
<1>3. l.pc = "row" => l.key \in (l.copied \cap Stored') \ made
  BY <1>1 DEF Publishes, KeysStay
<1> QED
  BY <1>1, <1>2, <1>3 DEF Publishes, KeysStay

\* Nor has who publishes nothing, whatever is published.
LEMMA PublishesNothing ==
  ASSUME Inv, KeysStay, NEW g \in Handler, handler'[g] = handler[g],
         handler[g].pc \notin Publishing
  PROVE  Publishes(handler[g])'
<1> DEFINE l == handler[g]
<1>1. l \in HandlerState /\ Publishes(l)
  BY DEF Inv, TypeOK, HandlersFit
<1>2. l.pc = "undoFiles" => \A k \in l.copied : home'[k] = "post"
  BY <1>1, Shape DEF Publishes, KeysStay
<1> QED
  BY <1>1, <1>2 DEF Publishes, Publishing, KeysStay

\* The rows are as they were, but for some that go and some of stored keys.
LEMMA RowsStep ==
  ASSUME Inv, TypeOK', KeysStay,
         \A p \in Place : \A k \in row'[p] :
           \/ k \in row[p]
           \/ /\ k \in Stored'
              /\ p \in OfPost => post' # "gone"
              /\ p \notin OfPost => home'[k] = p,
         post' = "gone" => post = "gone" /\ (task' = "present" => task = "present"),
         IsFiniteSet(row'["template"])
  PROVE  RowsFit'
<1>1. ASSUME NEW p \in Place, NEW k \in row'[p] PROVE k \in Stored'
  <2>1. CASE k \in row[p]
    <3>1. k \in Stored /\ k \in Key
      BY <2>1 DEF Inv, RowsFit, RowHasObject, Stored, TypeOK
    <3>2. ~(post = "gone" /\ home[k] = "post")
      <4>1. p \in OfPost => post # "gone"
        BY <2>1 DEF Inv, RowsFit, GoneIsEmpty
      <4>2. p \notin OfPost => home[k] = p
        BY <2>1 DEF Inv, RowsFit, RowsAtHome
      <4> QED
        BY <4>1, <4>2 DEF OfPost
    <3> QED
      BY <3>1, <3>2 DEF KeysStay
  <2> QED
    BY <1>1, <2>1
<1>2. RowHasObject'
  BY <1>1 DEF RowHasObject, Stored
<1>3. ASSUME NEW p \in Place \ OfPost, NEW k \in row'[p] PROVE home'[k] = p
  <2>1. CASE k \in row[p]
    <3>1. k \in Key /\ home[k] = p /\ p \in Target
      BY <2>1 DEF Inv, RowsFit, RowsAtHome, TypeOK, Target
    <3> QED
      BY <3>1, TargetsAreUsed DEF KeysStay
  <2> QED
    BY <1>3, <2>1
<1>4. RowsAtHome'
  BY <1>3 DEF RowsAtHome
<1>5. GoneIsEmpty'
  <2> SUFFICES ASSUME post' = "gone"
               PROVE  task' # "present" /\ \A p \in OfPost : row'[p] = {}
    BY DEF GoneIsEmpty
  <2>1. task # "present" /\ \A p \in OfPost : p \in Place /\ row[p] = {}
    BY DEF Inv, RowsFit, GoneIsEmpty, OfPost, Place
  <2> QED
    BY <2>1
<1> QED
  BY <1>2, <1>4, <1>5 DEF RowsFit, FilesAreFinite

\* What was published stays, but for what somebody removes; and it is complete
\* when its publisher is done.
LEMMA MadeStep ==
  ASSUME Inv, KeysStay, UNCHANGED <<post, wanted, made>>,
         row["post"] \subseteq row'["post"] \cup struck',
         At({"next", "row", "undo"})' = {} =>
           At({"next", "row", "undo"}) = {} \/ Cardinality(made) = wanted \/ unfinished'
  PROVE  MadeFits'
<1>1. \A k \in made : home'[k] = "post"
  BY DEF Inv, MadeFits, KeysStay, TypeOK
<1> QED
  BY <1>1 DEF Inv, MadeFits, KeysStay
-----------------------------------------------------------------------------
(* Steps that publish nothing.                                               *)

\* A step of one handler that is not about to publish, nor comes to be.
LEMMA OrdinaryStep ==
  ASSUME Inv, KeysStay, NEW h \in Handler, NEW l \in HandlerState, Goto(h, l),
         handler[h].pc \notin Publishing, l.pc \notin Publishing,
         UNCHANGED <<post, wanted, made>>, Holds(l)', Publishes(l)', TypeOK', RowsFit',
         row["post"] \subseteq row'["post"] \cup struck'
  PROVE  Inv'
<1>1. handler'[h] = l /\ \A g \in Handler \ {h} : handler'[g] = handler[g]
  BY GotoMoves DEF Inv
<1>2. HandlersFit'
  BY <1>1, HoldsStep, PublishesStep DEF HandlersFit
<1>3. \A pcs \in SUBSET Publishing : At(pcs)' = At(pcs)
  BY <1>1 DEF At
<1>4. OnePublishes'
  BY <1>3 DEF Inv, OnePublishes
<1>5. At({"next", "row", "undo"})' = At({"next", "row", "undo"})
  BY <1>3 DEF Publishing
<1>6. MadeFits'
  BY <1>5, MadeStep
<1> QED
  BY <1>2, <1>4, <1>6 DEF Inv

\* Such a step that writes no row.
LEMMA QuietStep ==
  ASSUME Inv, KeysStay, NEW h \in Handler, NEW l \in HandlerState, Goto(h, l),
         handler[h].pc \notin Publishing, l.pc \notin Publishing,
         object' \in SUBSET Key, struck' \in SUBSET Key,
         home' \in [Key -> Target \cup {"unused"}],
         UNCHANGED <<row, parents, wanted, made, unfinished>>, Holds(l)', Publishes(l)'
  PROVE  Inv'
<1>1. TypeOK'
  BY GotoMoves DEF Inv, TypeOK, parents
<1>2. UNCHANGED <<row, template, post, task>>
  BY DEF parents
<1>3. RowsFit'
  <2>1. IsFiniteSet(row["template"])
    BY DEF Inv, RowsFit, FilesAreFinite
  <2> QED
    BY <1>1, <1>2, <2>1, RowsStep
<1> QED
  BY <1>1, <1>2, <1>3, OrdinaryStep DEF Inv

\* Nothing is lost where objects come and nothing is struck.
LEMMA NewObject ==
  ASSUME Inv, object \subseteq object', UNCHANGED <<post, struck, unfinished>>,
         \A k \in Key : home[k] # "unused" => home'[k] = home[k]
  PROVE  KeysStay
  BY DEF KeysStay, Stored

\* Who idles holds and publishes nothing.
LEMMA IdleFits ==
  /\ Idle \in HandlerState /\ Idle.pc = "idle" /\ Idle.pc \notin Publishing
  /\ Holds(Idle)' /\ Publishes(Idle)'
  BY Shapes DEF Idle, Holds, Publishes, Publishing

\* A request that fails leaves what it has done.
LEMMA GivesUp ==
  ASSUME Inv, NEW h \in Handler, Done(h), handler[h].pc \notin Publishing,
         UNCHANGED <<stores, parents, history>>
  PROVE  Inv'
<1>1. Goto(h, Idle)
  BY DEF Done
<1>2. KeysStay
  BY NewObject DEF stores, parents, history
<1> QED
  BY <1>1, <1>2, IdleFits, QuietStep DEF Inv, TypeOK, stores, history

LEMMA UploadInv ==
  ASSUME Inv, NEW h \in Handler, NEW place \in Target, NEW key \in Key,
         Upload(h, place, key)
  PROVE  Inv'
<1> DEFINE l == [pc |-> "put", to |-> place, key |-> key]
<1>1. /\ handler[h] = Idle /\ home[key] = "unused" /\ Give(key, place) /\ Goto(h, l)
      /\ UNCHANGED <<row, object, parents, history>>
  BY DEF Upload
<1>2. l \in HandlerState /\ l.pc = "put"
  BY Shapes
<1>3. /\ home' \in [Key -> Target \cup {"unused"}] /\ home'[key] = place
      /\ \A k \in Key : home[k] # "unused" => home'[k] = home[k]
  BY <1>1, GiveStays DEF Inv
<1>4. KeysStay
  BY <1>1, <1>3, NewObject DEF parents, history
<1>5. Holds(l)' /\ Publishes(l)'
  BY <1>3 DEF Holds, Publishes
<1> HIDE DEF l
<1> QED
  BY <1>1, <1>2, <1>3, <1>4, <1>5, QuietStep, IdleFits
     DEF Inv, TypeOK, history, Publishing

\* What has an object goes on to a row with it.
LEMMA AfterObjectFits ==
  ASSUME TypeOK, NEW place \in Target, NEW key \in Key, home'[key] = place, key \in Stored'
  PROVE  /\ AfterObject(place, key) \in HandlerState
         /\ AfterObject(place, key).pc \notin Publishing
         /\ Holds(AfterObject(place, key))' /\ Publishes(AfterObject(place, key))'
<1>1. CASE place \in {"loose", "chat"}
  BY <1>1, IdleFits DEF AfterObject
<1>2. CASE place = "file"
  <2> DEFINE l == [pc |-> "insert", to |-> place, key |-> key]
  <2>1. AfterObject(place, key) = l
    BY <1>2 DEF AfterObject
  <2>2. l \in HandlerState /\ l.pc \notin Publishing
    BY Shapes DEF Publishing
  <2>3. Holds(l)' /\ Publishes(l)'
    BY DEF Holds, Publishes
  <2> HIDE DEF l
  <2> QED
    BY <2>1, <2>2, <2>3
<1>3. CASE place \notin {"loose", "chat", "file"}
  <2> DEFINE l == [pc |-> "count", to |-> place, key |-> key]
  <2>1. AfterObject(place, key) = l
    BY <1>3 DEF AfterObject
  <2>2. l \in HandlerState /\ l.pc \notin Publishing
    BY Shapes DEF Publishing
  <2>3. Holds(l)' /\ Publishes(l)'
    BY DEF Holds, Publishes
  <2> HIDE DEF l
  <2> QED
    BY <2>1, <2>2, <2>3
<1> QED
  BY <1>1, <1>2, <1>3

\* The object of a request comes, and the request goes on.
LEMMA ObjectComes ==
  ASSUME Inv, NEW h \in Handler, handler[h].pc \in {"put", "copy"},
         object' = object \cup {handler[h].key},
         Goto(h, AfterObject(handler[h].to, handler[h].key)),
         UNCHANGED <<row, home, parents, history>>
  PROVE  Inv'
<1>1. handler[h] \in HandlerState /\ Holds(handler[h])
  BY DEF Inv, TypeOK, HandlersFit
<1>2. PICK to \in Target, key \in Key : to = handler[h].to /\ key = handler[h].key
  BY <1>1, Shape
<1>3. home'[key] = to /\ key \in Stored'
  BY <1>1, <1>2 DEF Holds, Stored
<1>4. KeysStay
  BY NewObject DEF parents, history
<1>5. UNCHANGED <<row, parents, wanted, made, unfinished>> /\ struck' \in SUBSET Key
      /\ object' \in SUBSET Key /\ home' \in [Key -> Target \cup {"unused"}]
  BY <1>2 DEF history, Inv, TypeOK
<1>6. /\ AfterObject(to, key) \in HandlerState /\ AfterObject(to, key).pc \notin Publishing
      /\ Holds(AfterObject(to, key))' /\ Publishes(AfterObject(to, key))'
  BY <1>3, AfterObjectFits DEF Inv
<1>7. Goto(h, AfterObject(to, key))
  BY <1>2
<1>8. handler[h].pc \notin Publishing
  BY DEF Publishing
<1> QED
  BY <1>4, <1>5, <1>6, <1>7, <1>8, QuietStep

LEMMA PutObjectInv ==
  ASSUME Inv, NEW h \in Handler, PutObject(h)
  PROVE  Inv'
  BY ObjectComes DEF PutObject

LEMMA CopyObjectInv ==
  ASSUME Inv, NEW h \in Handler, CopyObject(h)
  PROVE  Inv'
<1>1. CASE handler[h].from \in object
  BY <1>1, ObjectComes DEF CopyObject
<1>2. CASE handler[h].from \notin object
  BY <1>2, GivesUp DEF CopyObject, stores, Publishing
<1> QED
  BY <1>1, <1>2

\* The count lets through what it does not refuse.
LEMMA CountMediaInv ==
  ASSUME Inv, NEW h \in Handler, CountMedia(h)
  PROVE  Inv'
<1>1. handler[h] \in HandlerState /\ handler[h].pc = "count" /\ Holds(handler[h])
  BY DEF Inv, TypeOK, HandlersFit, CountMedia
<1>2. CASE Full(handler[h].to)
  BY <1>1, <1>2, GivesUp DEF CountMedia, Publishing
<1>3. CASE ~Full(handler[h].to)
  <2>1. PICK to \in Target, key \in Key : handler[h] = [pc |-> "count", to |-> to, key |-> key]
    BY <1>1, Shape
  <2> DEFINE l == [pc |-> "insert", to |-> to, key |-> key]
  <2>2. [handler[h] EXCEPT !.pc = "insert"] = l
    BY <2>1
  <2>3. Goto(h, l) /\ UNCHANGED <<stores, parents, history>>
    BY <1>3, <2>2 DEF CountMedia
  <2>4. KeysStay
    BY <2>3, NewObject DEF stores, parents, history
  <2>5. l \in HandlerState /\ l.pc \notin Publishing
    BY Shapes DEF Publishing
  <2>6. /\ Stored' = Stored /\ post' = post /\ home' = home
    BY <2>3 DEF Stored, stores, parents, history
  <2>7. Holds(l)' /\ Publishes(l)'
    BY <1>1, <2>1, <2>6 DEF Holds, Publishes
  <2>8. UNCHANGED <<row, parents, wanted, made, unfinished>> /\ struck' \in SUBSET Key
        /\ object' \in SUBSET Key /\ home' \in [Key -> Target \cup {"unused"}]
    BY <2>3 DEF stores, history, Inv, TypeOK
  <2> HIDE DEF l
  <2> QED
    BY <1>1, <2>3, <2>4, <2>5, <2>7, <2>8, QuietStep DEF Publishing
<1> QED
  BY <1>2, <1>3

\* A row is written of a stored key, or refused with what it hangs on.
LEMMA InsertMediaInv ==
  ASSUME Inv, NEW h \in Handler, InsertMedia(h)
  PROVE  Inv'
<1>1. handler[h] \in HandlerState /\ handler[h].pc = "insert" /\ Holds(handler[h])
  BY DEF Inv, TypeOK, HandlersFit, InsertMedia
<1>2. PICK to \in Target, key \in Key : handler[h] = [pc |-> "insert", to |-> to, key |-> key]
  BY <1>1, Shape
<1>3. /\ Goto(h, Idle) /\ UNCHANGED <<object, home, parents, history>>
      /\ IF Standing(to) THEN AddRow(to, key) ELSE UNCHANGED row
  BY <1>2 DEF InsertMedia, Done
<1>4. KeysStay
  BY <1>3, NewObject DEF parents, history
<1>5. \A p \in Place : row'[p] = IF p = to /\ Standing(to) THEN row[p] \cup {key} ELSE row[p]
  BY <1>3 DEF AddRow, Inv, TypeOK
<1>6. row' \in [Place -> SUBSET Key]
  <2>1. CASE ~Standing(to)
    BY <1>3, <2>1 DEF Inv, TypeOK
  <2>2. CASE Standing(to)
    <3>1. row' = [row EXCEPT ![to] = row[to] \cup {key}]
      BY <1>3, <2>2 DEF AddRow
    <3> QED
      BY <1>5, <3>1 DEF Inv, TypeOK
  <2> QED
    BY <2>1, <2>2
<1>7. TypeOK'
  BY <1>3, <1>6, IdleFits, GotoMoves DEF Inv, TypeOK, parents, history
<1>8. UNCHANGED <<template, post, task, object, home, struck, wanted, made, unfinished>>
  BY <1>3 DEF parents, history
<1>9. \A p \in Place : \A k \in row'[p] :
        \/ k \in row[p]
        \/ /\ k \in Stored'
           /\ p \in OfPost => post' # "gone"
           /\ p \notin OfPost => home'[k] = p
  <2> SUFFICES ASSUME NEW p \in Place, NEW k \in row'[p], k \notin row[p]
               PROVE  /\ k \in Stored'
                      /\ p \in OfPost => post' # "gone"
                      /\ p \notin OfPost => home'[k] = p
    OBVIOUS
  <2>1. p = to /\ Standing(to) /\ k = key
    BY <1>5
  <2>2. p \in OfPost => post # "gone"
    BY <2>1 DEF OfPost, Standing, Inv, RowsFit, GoneIsEmpty
  <2>3. home[key] = to /\ (key \in Stored \/ (post = "gone" /\ to \in OfPost))
    BY <1>1, <1>2 DEF Holds
  <2> QED
    BY <1>8, <2>1, <2>2, <2>3 DEF Stored
<1>10. IsFiniteSet(row'["template"])
  <2>1. IsFiniteSet(row["template"]) /\ "template" \in Place
    BY DEF Inv, RowsFit, FilesAreFinite, Place
  <2>2. IsFiniteSet(row["template"] \cup {key})
    BY <2>1, FS_AddElement
  <2>3. row'["template"] \in {row["template"], row["template"] \cup {key}}
    BY <1>5, <2>1
  <2> QED
    BY <2>1, <2>2, <2>3
<1>11. RowsFit'
  BY <1>4, <1>7, <1>8, <1>9, <1>10, RowsStep
<1>12. row["post"] \subseteq row'["post"] \cup struck'
  BY <1>5 DEF Place
<1> QED
  BY <1>1, <1>3, <1>4, <1>7, <1>8, <1>11, <1>12, IdleFits, OrdinaryStep DEF Publishing

LEMMA SendFileInv ==
  ASSUME Inv, NEW h \in Handler, NEW from \in Key, NEW to \in Target, NEW key \in Key,
         SendFile(h, from, to, key)
  PROVE  Inv'
<1> DEFINE l == [pc |-> "copy", from |-> from, to |-> to, key |-> key]
<1>1. /\ handler[h] = Idle /\ home[key] = "unused" /\ Give(key, to) /\ Goto(h, l)
      /\ UNCHANGED <<row, object, parents, history>>
  BY DEF SendFile
<1>2. l \in HandlerState /\ l.pc = "copy"
  BY Shapes
<1>3. /\ home' \in [Key -> Target \cup {"unused"}] /\ home'[key] = to
      /\ \A k \in Key : home[k] # "unused" => home'[k] = home[k]
  BY <1>1, GiveStays DEF Inv
<1>4. KeysStay
  BY <1>1, <1>3, NewObject DEF parents, history
<1>5. Holds(l)' /\ Publishes(l)'
  BY <1>3 DEF Holds, Publishes
<1> HIDE DEF l
<1> QED
  BY <1>1, <1>2, <1>3, <1>4, <1>5, QuietStep, IdleFits
     DEF Inv, TypeOK, history, Publishing

\* A step to where a request holds nothing for a row.
LEMMA GoesOn ==
  ASSUME Inv, NEW h \in Handler, NEW l \in HandlerState, Goto(h, l),
         handler[h].pc \notin Publishing, l.pc \in {"idle", "copyAll", "drop"},
         object' \in SUBSET Key, object \subseteq object',
         home' \in [Key -> Target \cup {"unused"}],
         \A k \in Key : home[k] # "unused" => home'[k] = home[k],
         UNCHANGED <<row, parents, history>>
  PROVE  Inv'
<1>1. KeysStay
  BY NewObject DEF parents, history
<1>2. Holds(l)' /\ Publishes(l)' /\ l.pc \notin Publishing
  BY DEF Holds, Publishes, Publishing
<1> QED
  BY <1>1, <1>2, QuietStep DEF Inv, TypeOK, history

LEMMA CopyTaskMediaInv ==
  ASSUME Inv, NEW h \in Handler, NEW items \in SUBSET Key,
         CopyTaskMediaToConversation(h, items)
  PROVE  Inv'
<1> DEFINE l == [pc |-> "copyAll", items |-> items]
<1>1. l \in HandlerState /\ l.pc = "copyAll"
  BY Shapes
<1>2. Goto(h, l) /\ handler[h] = Idle /\ UNCHANGED <<stores, parents, history>>
  BY DEF CopyTaskMediaToConversation
<1> HIDE DEF l
<1> QED
  BY <1>1, <1>2, GoesOn, IdleFits DEF stores, Inv, TypeOK

LEMMA CopyToConversationInv ==
  ASSUME Inv, NEW h \in Handler, NEW item \in Key, NEW key \in Key,
         CopyToConversation(h, item, key)
  PROVE  Inv'
<1>1. handler[h] \in HandlerState /\ handler[h].pc = "copyAll"
  BY DEF Inv, TypeOK, CopyToConversation
<1>2. PICK items \in SUBSET Key : handler[h] = [pc |-> "copyAll", items |-> items]
  BY <1>1, Shape
<1>3. CASE home[item] \in Kind /\ item \in object
  <2> DEFINE m == [pc |-> "copyAll", items |-> items \ {item}]
  <2>1. [handler[h] EXCEPT !.items = @ \ {item}] = m
    BY <1>2
  <2>2. Goto(h, IF handler[h].items = {item} THEN Idle ELSE m)
    BY <1>3, <2>1 DEF CopyToConversation
  <2>3. m \in HandlerState /\ m.pc = "copyAll"
    BY Shapes
  <2> HIDE DEF m
  <2>4. PICK l \in {Idle, m} : Goto(h, l)
    BY <2>2
  <2>5. l \in HandlerState /\ l.pc \in {"idle", "copyAll"}
    BY <2>3, IdleFits
  <2>6. /\ home[key] = "unused" /\ Give(key, "chat") /\ "chat" \in Target
        /\ object' = object \cup {key} /\ UNCHANGED <<row, parents, history>>
    BY <1>3 DEF CopyToConversation, Target
  <2>7. /\ home' \in [Key -> Target \cup {"unused"}]
        /\ \A k \in Key : home[k] # "unused" => home'[k] = home[k]
    BY <2>6, GiveStays DEF Inv
  <2>8. object' \in SUBSET Key
    BY <2>6 DEF Inv, TypeOK
  <2> QED
    BY <1>1, <2>4, <2>5, <2>6, <2>7, <2>8, GoesOn DEF Publishing
<1>4. CASE ~(home[item] \in Kind /\ item \in object)
  BY <1>1, <1>4, GivesUp DEF CopyToConversation, stores, Publishing
<1> QED
  BY <1>3, <1>4

LEMMA RemoveMediaInv ==
  ASSUME Inv, NEW h \in Handler, NEW place \in Place, NEW key \in Key,
         RemoveMedia(h, place, key)
  PROVE  Inv'
<1> DEFINE l == [pc |-> "drop", to |-> place, key |-> key]
<1>1. l \in HandlerState /\ l.pc = "drop"
  BY Shapes
<1>2. Goto(h, l) /\ handler[h] = Idle /\ UNCHANGED <<stores, parents, history>>
  BY DEF RemoveMedia
<1> HIDE DEF l
<1> QED
  BY <1>1, <1>2, GoesOn, IdleFits DEF stores, Inv, TypeOK

\* The object of a row goes first, and is struck.
LEMMA DropObjectInv ==
  ASSUME Inv, NEW h \in Handler, DropObject(h)
  PROVE  Inv'
<1>1. handler[h] \in HandlerState /\ handler[h].pc = "drop"
  BY DEF Inv, TypeOK, DropObject
<1>2. PICK place \in Place, key \in Key :
        handler[h] = [pc |-> "drop", to |-> place, key |-> key]
  BY <1>1, Shape
<1> DEFINE l == [pc |-> "dropRow", to |-> place, key |-> key]
<1>3. [handler[h] EXCEPT !.pc = "dropRow"] = l
  BY <1>2
<1>4. /\ Goto(h, l) /\ object' = object \ {key} /\ struck' = struck \cup {key}
      /\ UNCHANGED <<row, home, parents, wanted, made, unfinished>>
  BY <1>2, <1>3 DEF DropObject
<1>5. KeysStay
  BY <1>4 DEF KeysStay, Stored, parents
<1>6. l \in HandlerState /\ l.pc \notin Publishing
  BY Shapes DEF Publishing
<1>7. Holds(l)' /\ Publishes(l)'
  BY <1>4 DEF Holds, Publishes
<1> HIDE DEF l
<1> QED
  BY <1>1, <1>4, <1>5, <1>6, <1>7, QuietStep DEF Inv, TypeOK, Publishing

\* Rows only go, and those of the post only with their keys struck.
LEMMA RowsGo ==
  ASSUME Inv, KeysStay, row' \in [Place -> SUBSET Key],
         \A p \in Place : row'[p] \subseteq row[p], UNCHANGED <<post, task>>, TypeOK'
  PROVE  RowsFit'
<1>1. IsFiniteSet(row["template"]) /\ "template" \in Place
  BY DEF Inv, RowsFit, FilesAreFinite, Place
<1>2. IsFiniteSet(row'["template"])
  BY <1>1, FS_Subset
<1> QED
  BY <1>2, RowsStep

LEMMA DropRowInv ==
  ASSUME Inv, NEW h \in Handler, DropRow(h)
  PROVE  Inv'
<1>1. handler[h] \in HandlerState /\ handler[h].pc = "dropRow" /\ Holds(handler[h])
  BY DEF Inv, TypeOK, HandlersFit, DropRow
<1>2. PICK place \in Place, key \in Key :
        handler[h] = [pc |-> "dropRow", to |-> place, key |-> key]
  BY <1>1, Shape
<1>3. /\ row' = [row EXCEPT ![place] = @ \ {key}] /\ Goto(h, Idle)
      /\ UNCHANGED <<object, home, template, post, task, struck, wanted, made, unfinished>>
  BY <1>2 DEF DropRow, Done, parents, history
<1>4. KeysStay
  BY <1>3, NewObject
<1>5. /\ row' \in [Place -> SUBSET Key]
      /\ \A p \in Place : row'[p] \subseteq row[p] /\ row[p] \subseteq row'[p] \cup {key}
  BY <1>3 DEF Inv, TypeOK
<1>6. TypeOK'
  BY <1>3, <1>5, IdleFits, GotoMoves DEF Inv, TypeOK
<1>7. RowsFit'
  BY <1>3, <1>4, <1>5, <1>6, RowsGo
<1>8. row["post"] \subseteq row'["post"] \cup struck'
  BY <1>1, <1>2, <1>3, <1>5 DEF Holds, Place
<1> QED
  BY <1>1, <1>3, <1>4, <1>6, <1>7, <1>8, IdleFits, OrdinaryStep DEF Publishing

\* A task is prepared with files that are there, or struck.
LEMMA CreateTaskInv ==
  ASSUME Inv, NEW h \in Handler, NEW items \in SUBSET Key, CreateTask(h, items)
  PROVE  Inv'
<1> DEFINE l == [pc |-> "prepare", items |-> items, ready |-> {}]
<1>1. l \in HandlerState /\ l.pc \notin Publishing
  BY Shapes DEF Publishing
<1>2. /\ Goto(h, l) /\ handler[h] = Idle /\ UNCHANGED <<stores, parents, history>>
      /\ items \subseteq Stored
  BY DEF CreateTask, Stored
<1>3. KeysStay /\ Stored' = Stored
  BY <1>2, NewObject DEF stores, parents, history, Stored
<1>4. Holds(l)' /\ Publishes(l)'
  BY <1>2, <1>3 DEF Holds, Publishes
<1> HIDE DEF l
<1> QED
  BY <1>1, <1>2, <1>3, <1>4, QuietStep, IdleFits DEF stores, history, Inv, TypeOK

\* So is each file it goes on with, shared or copied.
LEMMA PrepareStep ==
  ASSUME Inv, NEW h \in Handler, handler[h].pc = "prepare",
         NEW items \in SUBSET Key, NEW ready \in SUBSET Key,
         Goto(h, [pc |-> "prepare", items |-> items, ready |-> ready]),
         items \subseteq handler[h].items,
         ready \subseteq handler[h].items \cup handler[h].ready \cup object',
         object' \in SUBSET Key, object \subseteq object',
         home' \in [Key -> Target \cup {"unused"}],
         \A k \in Key : home[k] # "unused" => home'[k] = home[k],
         UNCHANGED <<row, parents, history>>
  PROVE  Inv'
<1> DEFINE l == [pc |-> "prepare", items |-> items, ready |-> ready]
<1>1. l \in HandlerState /\ l.pc \notin Publishing
  BY Shapes DEF Publishing
<1>2. Holds(handler[h])
  BY DEF Inv, HandlersFit
<1>3. KeysStay
  BY NewObject DEF parents, history
<1>4. handler[h].items \cup handler[h].ready \subseteq Stored' \/ post' = "gone"
  BY <1>2, <1>3 DEF Holds, KeysStay
<1>5. items \cup ready \subseteq Stored' \/ post' = "gone"
  BY <1>4 DEF Stored
<1>6. Holds(l)' /\ Publishes(l)'
  BY <1>5 DEF Holds, Publishes
<1> HIDE DEF l
<1>7. Goto(h, l)
  BY DEF l
<1> QED
  BY <1>1, <1>3, <1>6, <1>7, QuietStep DEF history, Inv, TypeOK, Publishing

LEMMA ShareItemInv ==
  ASSUME Inv, NEW h \in Handler, NEW item \in Key, ShareItem(h, item)
  PROVE  Inv'
<1>1. handler[h] \in HandlerState /\ handler[h].pc = "prepare"
  BY DEF Inv, TypeOK, ShareItem
<1>2. /\ handler[h].items \ {item} \in SUBSET Key
      /\ handler[h].ready \cup {item} \in SUBSET Key
  BY <1>1, Shape
<1>3. item \in handler[h].items /\ UNCHANGED <<row, object, home, parents, history>>
  BY DEF ShareItem, stores
<1>4. Goto(h, [pc |-> "prepare", items |-> handler[h].items \ {item},
               ready |-> handler[h].ready \cup {item}])
  BY DEF ShareItem
<1> QED
  BY <1>1, <1>2, <1>3, <1>4, PrepareStep DEF Inv, TypeOK

LEMMA DuplicateItemInv ==
  ASSUME Inv, NEW h \in Handler, NEW item \in Key, NEW key \in Key,
         DuplicateItem(h, item, key)
  PROVE  Inv'
<1>1. handler[h] \in HandlerState /\ handler[h].pc = "prepare"
  BY DEF Inv, TypeOK, DuplicateItem
<1>2. /\ handler[h].items \ {item} \in SUBSET Key
      /\ handler[h].ready \cup {key} \in SUBSET Key
  BY <1>1, Shape
<1>3. /\ home[key] = "unused" /\ Give(key, "main") /\ "main" \in Target
      /\ UNCHANGED <<row, parents, history>>
  BY DEF DuplicateItem, Target, Place
<1>4. /\ home' \in [Key -> Target \cup {"unused"}]
      /\ \A k \in Key : home[k] # "unused" => home'[k] = home[k]
  BY <1>3, GiveStays DEF Inv
<1>5. CASE item \in object
  <2>1. /\ Goto(h, [pc |-> "prepare", items |-> handler[h].items \ {item},
                    ready |-> handler[h].ready \cup {key}])
        /\ object' = object \cup {key}
    BY <1>5 DEF DuplicateItem
  <2> QED
    BY <1>1, <1>2, <1>3, <1>4, <2>1, PrepareStep DEF Inv, TypeOK
<1>6. CASE item \notin object
  <2>1. Goto(h, Idle) /\ object' = object
    BY <1>6 DEF DuplicateItem, Done
  <2> QED
    BY <1>1, <1>3, <1>4, <2>1, IdleFits, GoesOn DEF Inv, TypeOK, Publishing
<1> QED
  BY <1>5, <1>6

\* The task takes the files that are ready, while its post stands.
LEMMA InsertTaskInv ==
  ASSUME Inv, NEW h \in Handler, InsertTask(h)
  PROVE  Inv'
<1>1. handler[h] \in HandlerState /\ handler[h].pc = "prepare" /\ Holds(handler[h])
  BY DEF Inv, TypeOK, HandlersFit, InsertTask
<1>2. PICK items \in SUBSET Key, ready \in SUBSET Key :
        handler[h] = [pc |-> "prepare", items |-> items, ready |-> ready]
  BY <1>1, Shape
<1>3. /\ Goto(h, Idle)
      /\ UNCHANGED <<object, home, template, post, struck, wanted, made, unfinished>>
  BY DEF InsertTask, Done, history
<1>4. KeysStay /\ Stored' = Stored
  BY <1>3, NewObject DEF Stored
<1>5. CASE post # "present"
  BY <1>1, <1>5, GivesUp DEF InsertTask, stores, parents, Publishing
<1>6. CASE post = "present"
  <2>1. task' = "present" /\ row' = [row EXCEPT !["main"] = ready]
    BY <1>2, <1>6 DEF InsertTask
  <2>2. ready \subseteq Stored
    BY <1>1, <1>2, <1>6 DEF Holds
  <2>3. /\ row' \in [Place -> SUBSET Key]
        /\ \A p \in Place : row'[p] = IF p = "main" THEN ready ELSE row[p]
    BY <2>1 DEF Inv, TypeOK
  <2>4. TypeOK'
    BY <1>3, <2>1, <2>3, IdleFits, GotoMoves DEF Inv, TypeOK
  <2>5. IsFiniteSet(row'["template"])
    BY <2>3 DEF Inv, RowsFit, FilesAreFinite, Place
  <2>6. RowsFit'
    BY <1>3, <1>4, <1>6, <2>1, <2>2, <2>3, <2>4, <2>5, RowsStep DEF OfPost
  <2>7. row["post"] \subseteq row'["post"] \cup struck'
    BY <2>3 DEF Place
  <2> QED
    BY <1>1, <1>3, <1>4, <2>4, <2>6, <2>7, IdleFits, OrdinaryStep DEF Publishing
<1> QED
  BY <1>5, <1>6

LEMMA StorageFailsInv ==
  ASSUME Inv, NEW h \in Handler, StorageFails(h)
  PROVE  Inv'
  BY GivesUp DEF StorageFails, Publishing

\* The rows of a template go with it.
LEMMA RemoveTemplateInv ==
  ASSUME Inv, RemoveTemplate
  PROVE  Inv'
<1>1. /\ UNCHANGED <<object, home, post, task, handler, struck, wanted, made, unfinished>>
      /\ template' = "gone" /\ row' = Without({"template"})
  BY DEF RemoveTemplate, history
<1>2. KeysStay
  BY <1>1, NewObject
<1>3. \A p \in Place : row'[p] = IF p = "template" THEN {} ELSE row[p]
  BY <1>1 DEF Without
<1>4. row' \in [Place -> SUBSET Key]
  BY <1>1 DEF Without, Inv, TypeOK
<1>5. TypeOK'
  BY <1>1, <1>4 DEF Inv, TypeOK
<1>6. RowsFit'
  BY <1>1, <1>2, <1>3, <1>4, <1>5, RowsGo
<1>7. HandlersFit'
  BY <1>1, <1>2, HoldsStep, PublishesStep DEF HandlersFit
<1>8. \A pcs : At(pcs)' = At(pcs)
  BY <1>1 DEF At
<1>9. MadeFits' /\ OnePublishes'
  BY <1>1, <1>2, <1>3, <1>8, MadeStep DEF Place, Inv, OnePublishes
<1> QED
  BY <1>5, <1>6, <1>7, <1>9 DEF Inv
-----------------------------------------------------------------------------
(* Steps of the publisher: no other request publishes.                       *)

LEMMA PublisherStep ==
  ASSUME Inv, KeysStay, NEW h \in Handler, NEW l \in HandlerState, Goto(h, l),
         \A g \in Handler \ {h} : handler[g].pc \notin Publishing,
         Holds(l)', Publishes(l)', TypeOK', RowsFit', MadeFits'
  PROVE  Inv'
<1>1. handler'[h] = l /\ \A g \in Handler \ {h} : handler'[g] = handler[g]
  BY GotoMoves DEF Inv
<1>2. HandlersFit'
  BY <1>1, HoldsStep, PublishesNothing DEF HandlersFit
<1>3. OnePublishes'
  BY <1>1 DEF OnePublishes, At
<1> QED
  BY <1>2, <1>3 DEF Inv

\* Who publishes is alone with it.
LEMMA PublisherIsAlone ==
  ASSUME Inv, NEW h \in Handler, handler[h].pc \in Publishing
  PROVE  \A g \in Handler \ {h} : handler[g].pc \notin Publishing
  BY DEF Inv, OnePublishes, At

\* The rows fit while they stay, and no post goes.
LEMMA RowsStay ==
  ASSUME Inv, TypeOK', KeysStay, UNCHANGED <<row, task>>, post' = "gone" => post = "gone"
  PROVE  RowsFit'
<1>1. IsFiniteSet(row'["template"])
  BY DEF Inv, RowsFit, FilesAreFinite
<1> QED
  BY <1>1, RowsStep

\* The publisher is at work: the post is not yet to be complete.
LEMMA MadeLater ==
  ASSUME Inv, KeysStay, UNCHANGED <<post, made, row>>, NEW h \in Handler,
         handler'[h].pc \in {"next", "row", "undo"}
  PROVE  MadeFits'
<1>1. \A k \in made : home'[k] = "post"
  BY DEF Inv, MadeFits, KeysStay, TypeOK
<1>2. At({"next", "row", "undo"})' # {}
  BY DEF At
<1> QED
  BY <1>1, <1>2 DEF Inv, MadeFits, KeysStay

LEMMA PublishFromTemplateInv ==
  ASSUME Inv, NEW h \in Handler, PublishFromTemplate(h)
  PROVE  Inv'
<1>1. PICK items \in SUBSET Key : items = row["template"]
  BY DEF Inv, TypeOK, Place
<1> DEFINE l == [pc |-> "create", items |-> items]
<1>2. /\ handler[h] = Idle /\ post = "absent" /\ At({"create"}) = {}
      /\ Goto(h, l) /\ UNCHANGED <<stores, parents, history>>
  BY <1>1 DEF PublishFromTemplate
<1>3. UNCHANGED <<row, object, home, template, post, task, struck, wanted, made, unfinished>>
  BY <1>2 DEF stores, parents, history
<1>4. l \in HandlerState
  BY Shapes
<1>5. \A g \in Handler \ {h} : handler[g].pc \notin Publishing
  BY <1>2 DEF Inv, HandlersFit, Publishes, Publishing, At
<1>6. KeysStay
  BY <1>3, NewObject
<1>7. TypeOK'
  BY <1>2, <1>3, <1>4, GotoMoves DEF Inv, TypeOK
<1>8. RowsFit'
  BY <1>3, <1>6, <1>7, RowsStay
<1>9. Holds(l)' /\ Publishes(l)'
  BY <1>1, <1>2, <1>3 DEF Holds, Publishes, Inv, RowsFit, FilesAreFinite
<1>10. MadeFits'
  BY <1>2, <1>3 DEF Inv, MadeFits
<1> HIDE DEF l
<1> QED
  BY <1>2, <1>4, <1>5, <1>6, <1>7, <1>8, <1>9, <1>10, PublisherStep

LEMMA CreatePostInv ==
  ASSUME Inv, NEW h \in Handler, CreatePost(h)
  PROVE  Inv'
<1>1. handler[h] \in HandlerState /\ handler[h].pc = "create" /\ Publishes(handler[h])
  BY DEF Inv, TypeOK, HandlersFit, CreatePost
<1>2. PICK items \in SUBSET Key : handler[h] = [pc |-> "create", items |-> items]
  BY <1>1, Shape
<1> DEFINE l == [pc |-> "next", items |-> items, copied |-> {}]
<1>3. /\ post = "absent" /\ post' = "present" /\ wanted' = Cardinality(items)
      /\ Goto(h, l)
      /\ UNCHANGED <<row, object, home, template, task, struck, made, unfinished>>
  BY <1>1, <1>2 DEF CreatePost, stores, Publishes
<1>4. IsFiniteSet(items)
  BY <1>1, <1>2 DEF Publishes
<1>5. made = {} /\ Cardinality(made) = 0 /\ wanted' \in Nat
  BY <1>3, <1>4, FS_EmptySet, FS_CardinalityType DEF Inv, MadeFits
<1>6. l \in HandlerState /\ l.pc = "next"
  BY Shapes
<1>7. KeysStay
  BY <1>3 DEF KeysStay, Stored
<1>8. TypeOK'
  BY <1>3, <1>5, <1>6, GotoMoves DEF Inv, TypeOK
<1>9. RowsFit'
  BY <1>3, <1>7, <1>8, RowsStay
<1>10. Holds(l)' /\ Publishes(l)'
  BY <1>3, <1>4, <1>5 DEF Holds, Publishes
<1> HIDE DEF l
<1>11. handler'[h] = l
  BY <1>3, <1>6, GotoMoves DEF Inv
<1>12. At({"next", "row", "undo"})' # {}
  BY <1>6, <1>11 DEF At
<1>13. MadeFits'
  BY <1>3, <1>5, <1>12 DEF Inv, MadeFits
<1>14. \A g \in Handler \ {h} : handler[g].pc \notin Publishing
  BY <1>1, PublisherIsAlone DEF Publishing
<1> QED
  BY <1>3, <1>6, <1>7, <1>8, <1>9, <1>10, <1>13, <1>14, PublisherStep

\* What takes the publication back knows its copies, and has nothing to count.
LEMMA TakesBack ==
  ASSUME Inv, NEW h \in Handler, handler[h].pc = "next",
         Goto(h, [handler[h] EXCEPT !.pc = "undo"]),
         home' \in [Key -> Target \cup {"unused"}],
         \A k \in Key : home[k] # "unused" => home'[k] = home[k],
         UNCHANGED <<row, object, parents, history>>
  PROVE  Inv'
<1>1. handler[h] \in HandlerState /\ Publishes(handler[h])
  BY DEF Inv, TypeOK, HandlersFit
<1>2. PICK items \in SUBSET Key, copied \in SUBSET Key :
        handler[h] = [pc |-> "next", items |-> items, copied |-> copied]
  BY <1>1, PublisherShape
<1> DEFINE l == [pc |-> "undo", items |-> items, copied |-> copied]
<1>3. [handler[h] EXCEPT !.pc = "undo"] = l
  BY <1>2
<1>4. UNCHANGED <<row, object, template, post, task, struck, wanted, made, unfinished>>
      /\ Goto(h, l)
  BY <1>3 DEF parents, history
<1>5. KeysStay
  BY <1>4, NewObject
<1>6. l \in HandlerState /\ l.pc = "undo"
  BY Shapes
<1>7. TypeOK'
  BY <1>4, <1>6, GotoMoves DEF Inv, TypeOK
<1>8. RowsFit'
  BY <1>4, <1>5, <1>7, RowsStay
<1>9. Holds(l)' /\ Publishes(l)'
  BY <1>1, <1>2, <1>4 DEF Holds, Publishes
<1> HIDE DEF l
<1>10. handler'[h] = l
  BY <1>4, <1>6, GotoMoves DEF Inv
<1>11. MadeFits'
  BY <1>4, <1>5, <1>6, <1>10, MadeLater
<1>12. \A g \in Handler \ {h} : handler[g].pc \notin Publishing
  BY PublisherIsAlone DEF Publishing
<1> QED
  BY <1>4, <1>5, <1>6, <1>7, <1>8, <1>9, <1>11, <1>12, PublisherStep

LEMMA CopyItemFailsInv ==
  ASSUME Inv, NEW h \in Handler, CopyItemFails(h)
  PROVE  Inv'
  BY TakesBack DEF CopyItemFails, stores, Inv, TypeOK

\* The copy is new, and it is one of those that are missing.
LEMMA CopyItemInv ==
  ASSUME Inv, NEW h \in Handler, NEW item \in Key, NEW key \in Key, CopyItem(h, item, key)
  PROVE  Inv'
<1>1. handler[h] \in HandlerState /\ handler[h].pc = "next" /\ Publishes(handler[h])
  BY DEF Inv, TypeOK, HandlersFit, CopyItem
<1>2. PICK items \in SUBSET Key, copied \in SUBSET Key :
        handler[h] = [pc |-> "next", items |-> items, copied |-> copied]
  BY <1>1, PublisherShape
<1>3. /\ home[key] = "unused" /\ Give(key, "post") /\ "post" \in Target
      /\ UNCHANGED <<row, parents, history>> /\ item \in items
  BY <1>2 DEF CopyItem, Target, Place
<1>4. /\ home' \in [Key -> Target \cup {"unused"}] /\ home'[key] = "post"
      /\ \A k \in Key : home[k] # "unused" => home'[k] = home[k]
  BY <1>3, GiveStays DEF Inv
<1>5. CASE item \in object
  <2> DEFINE l == [pc |-> "row", items |-> items \ {item}, copied |-> copied \cup {key},
                   key |-> key]
  <2>1. object' = object \cup {key} /\ Goto(h, l)
    BY <1>2, <1>5 DEF CopyItem
  <2>2. UNCHANGED <<row, template, post, task, struck, wanted, made, unfinished>>
    BY <1>3 DEF parents, history
  <2>3. KeysStay
    BY <1>4, <2>1, <2>2, NewObject
  <2>4. l \in HandlerState /\ l.pc = "row"
    BY Shapes
  <2>5. TypeOK'
    BY <1>4, <2>1, <2>2, <2>4, GotoMoves DEF Inv, TypeOK
  <2>6. RowsFit'
    BY <2>2, <2>3, <2>5, RowsStay
  <2>7. /\ IsFiniteSet(items \ {item}) /\ Cardinality(items \ {item}) \in Nat
        /\ Cardinality(items \ {item}) = Cardinality(items) - 1
        /\ Cardinality(items) \in Nat
    BY <1>1, <1>2, <1>3, FS_RemoveElement, FS_CardinalityType DEF Publishes
  <2>8. key \notin made /\ Cardinality(made) \in Nat
    BY <1>3, FS_CardinalityType DEF Inv, MadeFits
  <2>9. wanted = Cardinality(items) + Cardinality(made) /\ post = "present"
    BY <1>1, <1>2 DEF Publishes
  <2>10. wanted' = Cardinality(items \ {item}) + Cardinality(made') + 1
    BY <2>2, <2>7, <2>8, <2>9
  <2>11. \A k \in copied \cup {key} : home'[k] = "post"
    BY <1>1, <1>2, <1>4 DEF Publishes
  <2>12. key \in Stored' /\ key \notin made' /\ post' = "present"
    BY <2>1, <2>2, <2>8, <2>9 DEF Stored
  <2>13. Holds(l)' /\ Publishes(l)'
    BY <2>7, <2>10, <2>11, <2>12 DEF Holds, Publishes
  <2> HIDE DEF l
  <2>14. handler'[h] = l
    BY <2>1, <2>4, GotoMoves DEF Inv
  <2>15. MadeFits'
    BY <2>2, <2>3, <2>4, <2>14, MadeLater
  <2>16. \A g \in Handler \ {h} : handler[g].pc \notin Publishing
    BY <1>1, PublisherIsAlone DEF Publishing
  <2> QED
    BY <2>1, <2>3, <2>4, <2>5, <2>6, <2>13, <2>15, <2>16, PublisherStep
<1>6. CASE item \notin object
  BY <1>1, <1>3, <1>4, <1>6, TakesBack DEF CopyItem
<1> QED
  BY <1>5, <1>6

\* One file less is missing once its row is written.
LEMMA InsertItemInv ==
  ASSUME Inv, NEW h \in Handler, InsertItem(h)
  PROVE  Inv'
<1>1. handler[h] \in HandlerState /\ handler[h].pc = "row" /\ Publishes(handler[h])
  BY DEF Inv, TypeOK, HandlersFit, InsertItem
<1>2. PICK items \in SUBSET Key, copied \in SUBSET Key, key \in Key :
        handler[h] = [pc |-> "row", items |-> items, copied |-> copied, key |-> key]
  BY <1>1, PublisherShape
<1> DEFINE l == [pc |-> "next", items |-> items, copied |-> copied]
<1>3. /\ row' = [row EXCEPT !["post"] = @ \cup {key}] /\ made' = made \cup {key}
      /\ Goto(h, l)
      /\ UNCHANGED <<object, home, template, post, task, struck, wanted, unfinished>>
  BY <1>2 DEF InsertItem, AddRow, parents
<1>4. l \in HandlerState /\ l.pc = "next"
  BY Shapes
<1>5. KeysStay
  BY <1>3, NewObject
<1>6. /\ row' \in [Place -> SUBSET Key]
      /\ \A p \in Place : row'[p] = IF p = "post" THEN row[p] \cup {key} ELSE row[p]
  BY <1>3 DEF Inv, TypeOK
<1>7. TypeOK'
  BY <1>3, <1>4, <1>6, GotoMoves DEF Inv, TypeOK
<1>8. /\ post = "present" /\ key \in copied /\ key \in Stored /\ key \notin made
      /\ wanted = Cardinality(items) + Cardinality(made) + 1 /\ IsFiniteSet(items)
      /\ \A k \in copied : home[k] = "post"
  BY <1>1, <1>2 DEF Publishes
<1>9. RowsFit'
  <2>1. IsFiniteSet(row'["template"])
    BY <1>6 DEF Inv, RowsFit, FilesAreFinite, Place
  <2>2. Stored' = Stored
    BY <1>3 DEF Stored
  <2> QED
    BY <1>3, <1>5, <1>6, <1>7, <1>8, <2>1, <2>2, RowsStep DEF OfPost
<1>10. /\ IsFiniteSet(made') /\ Cardinality(made') = Cardinality(made) + 1
       /\ Cardinality(made) \in Nat /\ Cardinality(items) \in Nat
  BY <1>3, <1>8, FS_AddElement, FS_CardinalityType DEF Inv, MadeFits
<1>11. Holds(l)' /\ Publishes(l)'
  BY <1>3, <1>8, <1>10 DEF Holds, Publishes
<1> HIDE DEF l
<1>12. handler'[h] = l
  BY <1>3, <1>4, GotoMoves DEF Inv
<1>13. At({"next", "row", "undo"})' # {}
  BY <1>4, <1>12 DEF At
<1>14. MadeFits'
  <2>1. \A k \in made' : home'[k] = "post"
    BY <1>3, <1>8 DEF Inv, MadeFits
  <2>2. ~unfinished => made' \subseteq row'["post"] \cup struck'
    BY <1>3, <1>6, <1>8 DEF Inv, MadeFits, Place
  <2> QED
    BY <1>3, <1>8, <1>10, <1>13, <2>1, <2>2 DEF MadeFits
<1>15. \A g \in Handler \ {h} : handler[g].pc \notin Publishing
  BY <1>1, PublisherIsAlone DEF Publishing
<1> QED
  BY <1>3, <1>4, <1>5, <1>7, <1>9, <1>11, <1>14, <1>15, PublisherStep

\* Nothing is missing when the publisher is done.
LEMMA PublishedInv ==
  ASSUME Inv, NEW h \in Handler, Published(h)
  PROVE  Inv'
<1>1. handler[h] \in HandlerState /\ Publishes(handler[h])
      /\ handler[h].pc = "next" /\ handler[h].items = {}
  BY DEF Inv, TypeOK, HandlersFit, Published
<1>2. /\ Goto(h, Idle)
      /\ UNCHANGED <<row, object, home, template, post, task, struck, wanted, made, unfinished>>
  BY DEF Published, Done, stores, parents, history
<1>3. KeysStay
  BY <1>2, NewObject
<1>4. TypeOK'
  BY <1>2, IdleFits, GotoMoves DEF Inv, TypeOK
<1>5. RowsFit'
  BY <1>2, <1>3, <1>4, RowsStay
<1>6. Cardinality(made) = wanted
  BY <1>1, FS_EmptySet, FS_CardinalityType DEF Publishes, Inv, MadeFits
<1>7. MadeFits'
  BY <1>2, <1>3, <1>6, MadeStep
<1>8. \A g \in Handler \ {h} : handler[g].pc \notin Publishing
  BY <1>1, PublisherIsAlone DEF Publishing
<1> QED
  BY <1>2, <1>3, <1>4, <1>5, <1>7, <1>8, IdleFits, PublisherStep

\* The post goes with its rows and its task; or it stays, unfinished.
LEMMA UndoPostInv ==
  ASSUME Inv, NEW h \in Handler, UndoPost(h)
  PROVE  Inv'
<1>1. handler[h] \in HandlerState /\ handler[h].pc = "undo" /\ Publishes(handler[h])
  BY DEF Inv, TypeOK, HandlersFit, UndoPost
<1>2. PICK items \in SUBSET Key, copied \in SUBSET Key :
        handler[h] = [pc |-> "undo", items |-> items, copied |-> copied]
  BY <1>1, PublisherShape
<1> DEFINE l == [pc |-> "undoFiles", items |-> items, copied |-> copied]
<1>3. [handler[h] EXCEPT !.pc = "undoFiles"] = l
  BY <1>2
<1>4. Goto(h, l) /\ UNCHANGED <<object, home, template, struck, wanted, made>>
  BY <1>3 DEF UndoPost
<1>5. \/ /\ post' = "gone" /\ task' = IF task = "present" THEN "gone" ELSE task
         /\ row' = Without({"post", "main", "report"}) /\ unfinished' = unfinished
      \/ unfinished' = TRUE /\ UNCHANGED <<post, task, row>>
  BY DEF UndoPost
<1>6. /\ post = "present" /\ \A k \in copied : home[k] = "post"
      /\ post' = "gone" \/ unfinished'
  BY <1>1, <1>2, <1>5 DEF Publishes
<1>7. KeysStay
  BY <1>4, <1>5, <1>6 DEF KeysStay, Stored
<1>8. l \in HandlerState /\ l.pc = "undoFiles"
  BY Shapes
<1>9. row' \in [Place -> SUBSET Key]
  BY <1>5 DEF Inv, TypeOK, Without
<1>10. TypeOK'
  BY <1>4, <1>5, <1>8, <1>9, GotoMoves DEF Inv, TypeOK
<1>11. RowsFit'
  <2>1. CASE UNCHANGED <<post, task, row>>
    BY <1>6, <1>7, <1>10, <2>1, RowsStay
  <2>2. CASE /\ post' = "gone" /\ task' = IF task = "present" THEN "gone" ELSE task
             /\ row' = Without(OfPost)
    <3>1. \A p \in Place : row'[p] = IF p \in OfPost THEN {} ELSE row[p]
      BY <2>2 DEF Without
    <3>2. RowHasObject'
      BY <1>4, <3>1 DEF Inv, RowsFit, RowHasObject
    <3>3. RowsAtHome' /\ FilesAreFinite'
      BY <1>4, <3>1 DEF Inv, RowsFit, RowsAtHome, FilesAreFinite, OfPost, Place
    <3>4. GoneIsEmpty'
      BY <2>2, <3>1 DEF GoneIsEmpty, OfPost, Place
    <3> QED
      BY <3>2, <3>3, <3>4 DEF RowsFit
  <2> QED
    BY <1>5, <2>1, <2>2 DEF OfPost
<1>12. Holds(l)' /\ Publishes(l)'
  BY <1>4, <1>6 DEF Holds, Publishes
<1>13. MadeFits'
  BY <1>4, <1>5, <1>6 DEF Inv, MadeFits
<1>14. \A g \in Handler \ {h} : handler[g].pc \notin Publishing
  BY <1>1, PublisherIsAlone DEF Publishing
<1> HIDE DEF l
<1> QED
  BY <1>4, <1>7, <1>8, <1>10, <1>11, <1>12, <1>13, <1>14, PublisherStep

\* Only copies of the post go, and they are struck unless the post went before.
LEMMA UndoFilesInv ==
  ASSUME Inv, NEW h \in Handler, NEW deleted \in SUBSET Key, UndoFiles(h, deleted)
  PROVE  Inv'
<1>1. handler[h] \in HandlerState /\ handler[h].pc = "undoFiles" /\ Publishes(handler[h])
  BY DEF Inv, TypeOK, HandlersFit, UndoFiles
<1>2. /\ object' = object \ deleted
      /\ struck' = IF unfinished THEN struck \cup deleted ELSE struck
      /\ Goto(h, Idle) /\ UNCHANGED <<row, home, parents, wanted, made, unfinished>>
  BY DEF UndoFiles, Done
<1>3. \A k \in deleted : home[k] = "post"
  BY <1>1 DEF UndoFiles, Publishes
<1>4. post = "gone" \/ unfinished
  BY <1>1 DEF Publishes
<1>5. KeysStay
  BY <1>2, <1>3, <1>4 DEF KeysStay, Stored, parents
<1> QED
  BY <1>1, <1>2, <1>5, IdleFits, QuietStep DEF Inv, TypeOK, Publishing

\* After the process died nobody holds anything.
LEMMA CrashInv ==
  ASSUME Inv, Crash
  PROVE  Inv'
<1>1. /\ handler' = [h \in Handler |-> Idle]
      /\ unfinished' = (unfinished \/ At({"next", "row", "undo", "undoFiles"}) # {})
      /\ UNCHANGED <<row, object, home, template, post, task, struck, wanted, made>>
  BY DEF Crash, stores, parents
<1>2. KeysStay
  BY <1>1 DEF KeysStay, Stored
<1>3. TypeOK'
  BY <1>1, IdleFits DEF Inv, TypeOK
<1>4. RowsFit'
  BY <1>1, <1>2, <1>3, RowsStay
<1>5. HandlersFit'
  BY <1>1, IdleFits DEF HandlersFit
<1>6. OnePublishes'
  BY <1>1, IdleFits DEF OnePublishes, At
<1>7. At({"next", "row", "undo"}) = {} \/ unfinished'
  BY <1>1 DEF At
<1>8. MadeFits'
  BY <1>1, <1>2, <1>7, MadeStep
<1> QED
  BY <1>3, <1>4, <1>5, <1>6, <1>8 DEF Inv
-----------------------------------------------------------------------------
LEMMA InitInv == Init => Inv
<1> SUFFICES ASSUME Init PROVE Inv
  OBVIOUS
<1>1. TypeOK
  BY Shapes DEF Init, TypeOK
<1>2. \A h \in Handler : handler[h] = Idle
  BY DEF Init
<1>3. HandlersFit
  BY <1>2 DEF HandlersFit, Idle, Holds, Publishes
<1>4. OnePublishes
  BY <1>2 DEF OnePublishes, At, Publishing, Idle
<1>5. RowsFit
  BY FS_EmptySet DEF Init, RowsFit, RowHasObject, RowsAtHome, GoneIsEmpty, FilesAreFinite, Place
<1>6. MadeFits
  BY FS_EmptySet DEF Init, MadeFits
<1> QED
  BY <1>1, <1>3, <1>4, <1>5, <1>6 DEF Inv

LEMMA RequestInv ==
  ASSUME Inv, NEW h \in Handler, Request(h)
  PROVE  Inv'
  BY UploadInv, SendFileInv, CopyTaskMediaInv, RemoveMediaInv, PublishFromTemplateInv,
     CreateTaskInv
     DEF Request

LEMMA StepInv ==
  ASSUME Inv, NEW h \in Handler, Step(h)
  PROVE  Inv'
<1>1. CASE \/ PutObject(h) \/ CountMedia(h) \/ InsertMedia(h) \/ CopyObject(h)
           \/ \E t, k \in Key : CopyToConversation(h, t, k)
  BY <1>1, PutObjectInv, CountMediaInv, InsertMediaInv, CopyObjectInv, CopyToConversationInv
<1>2. CASE DropObject(h) \/ DropRow(h)
  BY <1>2, DropObjectInv, DropRowInv
<1>3. CASE \/ CreatePost(h) \/ \E t, k \in Key : CopyItem(h, t, k)
           \/ CopyItemFails(h) \/ InsertItem(h) \/ Published(h)
  BY <1>3, CreatePostInv, CopyItemInv, CopyItemFailsInv, InsertItemInv, PublishedInv
<1>4. CASE UndoPost(h) \/ \E d \in SUBSET Key : UndoFiles(h, d)
  BY <1>4, UndoPostInv, UndoFilesInv
<1>5. CASE \/ \E t \in Key : ShareItem(h, t)
           \/ \E t, k \in Key : DuplicateItem(h, t, k)
           \/ InsertTask(h) \/ StorageFails(h)
  BY <1>5, ShareItemInv, DuplicateItemInv, InsertTaskInv, StorageFailsInv
<1> QED
  BY <1>1, <1>2, <1>3, <1>4, <1>5 DEF Step

LEMMA NextInv == Inv /\ [Next]_vars => Inv'
<1> SUFFICES ASSUME Inv, [Next]_vars PROVE Inv'
  OBVIOUS
<1>1. CASE UNCHANGED vars
  BY <1>1 DEF vars, Inv, TypeOK, HandlersFit, Holds, Publishes, Stored, OnePublishes, At,
              RowsFit, RowHasObject, RowsAtHome, GoneIsEmpty, FilesAreFinite, MadeFits
<1>2. CASE Next
  BY <1>2, RequestInv, StepInv, RemoveTemplateInv, CrashInv DEF Next
<1> QED
  BY <1>1, <1>2

\* What holds of the requests, the publisher and the rows, in every state.
THEOREM Invariance == Spec => []Inv
<1> QED
  BY InitInv, NextInv, PTL DEF Spec

\* Every variable has its type (media.service.ts and what it is called with).
THEOREM TypeCorrect == Spec => []TypeOK
<1>1. Inv => TypeOK
  BY DEF Inv
<1> QED
  BY <1>1, Invariance, PTL

\* A row names an object, whatever fails, and whenever the process dies, but for
\* what somebody removed and for a publication that could not be taken back.
THEOREM RowsHaveObjects == Spec => []RowHasObject
<1>1. Inv => RowHasObject
  BY DEF Inv, RowsFit
<1> QED
  BY <1>1, Invariance, PTL

\* A post that was published without an unnoticed failure has a copy of every file
\* of its template, however its publishing was mixed with removals and uploads.
THEOREM PublishedComplete == Spec => []PublishedIsComplete
<1>1. ASSUME Inv PROVE PublishedIsComplete
  <2> SUFFICES ASSUME post = "present", ~unfinished,
                      At({"create", "next", "row", "undo", "undoFiles"}) = {}
               PROVE  Cardinality(made) = wanted /\ made \subseteq row["post"] \cup struck
    BY DEF PublishedIsComplete
  <2>1. At({"next", "row", "undo"}) = {}
    BY DEF At
  <2> QED
    BY <1>1, <2>1 DEF Inv, MadeFits
<1> QED
  BY <1>1, Invariance, PTL
-----------------------------------------------------------------------------
(* The report files of a task.  Who is about to insert one has counted less  *)
(* than the cap, but not those about to insert: there are at most as many of *)
(* these as requests, and one inserts nothing more than it counted.          *)

Inserting == {h \in At({"insert"}) : handler[h].to = "report"}

ReportFits ==
  /\ IsFiniteSet(row["report"])
  /\ Cardinality(row["report"]) + Cardinality(Inserting) < Cap + Cardinality(Handler)

CountInv == TypeOK /\ ReportFits

LEMMA FewInsert ==
  /\ Cardinality(Handler) \in Nat
  /\ IsFiniteSet(Inserting) /\ Cardinality(Inserting) \in Nat
  /\ Cardinality(Inserting) <= Cardinality(Handler)
<1>1. IsFiniteSet(Handler) /\ Inserting \subseteq Handler
  BY HandlerAssumption DEF Inserting, At
<1> QED
  BY <1>1, FS_Subset, FS_CardinalityType

\* No more files and none about to be inserted that was not.
LEMMA Calm ==
  ASSUME ReportFits, row'["report"] \subseteq row["report"], Inserting' \subseteq Inserting
  PROVE  ReportFits'
<1>1. /\ IsFiniteSet(row'["report"]) /\ Cardinality(row'["report"]) \in Nat
      /\ Cardinality(row["report"]) \in Nat
      /\ Cardinality(row'["report"]) <= Cardinality(row["report"])
  BY FS_Subset, FS_CardinalityType DEF ReportFits
<1>2. /\ Cardinality(Inserting') \in Nat
      /\ Cardinality(Inserting') <= Cardinality(Inserting)
  BY FewInsert, FS_Subset, FS_CardinalityType
<1> QED
  BY <1>1, <1>2, FewInsert, CapAssumption DEF ReportFits

\* A handler moves to where it is not about to insert a report file.
LEMMA CalmStep ==
  ASSUME TypeOK, ReportFits, NEW h \in Handler,
         handler' = [handler EXCEPT ![h] = handler'[h]],
         handler'[h].pc # "insert" \/ handler'[h].to # "report",
         row'["report"] \subseteq row["report"]
  PROVE  ReportFits'
<1>1. Inserting' \subseteq Inserting
  BY DEF Inserting, At, TypeOK
<1> QED
  BY <1>1, Calm

\* The pc of a local state is what it is set to.
LEMMA SetPc ==
  ASSUME NEW l \in HandlerState
  PROVE  /\ \A p : [l EXCEPT !.pc = p].pc = p
         /\ l.pc = "copyAll" => \A items : [l EXCEPT !.items = items].pc = "copyAll"
  BY DEF HandlerState, Idle

LEMMA CountCalm ==
  ASSUME CountInv, NEW h \in Handler, CountMedia(h)
  PROVE  ReportFits'
<1>1. /\ handler[h] \in HandlerState /\ handler[h].pc = "count"
      /\ UNCHANGED row
  BY DEF CountInv, TypeOK, CountMedia, stores
<1>2. CASE Full(handler[h].to)
  BY <1>1, <1>2, CalmStep DEF CountMedia, Done, Goto, Idle, CountInv, TypeOK
<1>3. CASE ~Full(handler[h].to) /\ handler[h].to = "report"
  <2>1. Cardinality(row["report"]) \in Nat /\ Cardinality(row["report"]) < Cap
    BY <1>3, CapAssumption, FS_CardinalityType DEF Full, CountInv, ReportFits
  <2>2. Cardinality(Inserting)' <= Cardinality(Handler) /\ Cardinality(Inserting)' \in Nat
    <3>1. IsFiniteSet(Handler) /\ Inserting' \subseteq Handler
      BY HandlerAssumption DEF Inserting, At
    <3> QED
      BY <3>1, FS_Subset, FS_CardinalityType
  <2> QED
    BY <1>1, <2>1, <2>2, FewInsert, CapAssumption DEF ReportFits, CountInv
<1>4. CASE ~Full(handler[h].to) /\ handler[h].to # "report"
  <2>1. PICK to \in Target, key \in Key : handler[h] = [pc |-> "count", to |-> to, key |-> key]
    BY <1>1, Shape
  <2>2. [handler[h] EXCEPT !.pc = "insert"] = [pc |-> "insert", to |-> to, key |-> key]
    BY <2>1
  <2>3. Goto(h, [pc |-> "insert", to |-> to, key |-> key])
    BY <1>4, <2>2 DEF CountMedia
  <2>4. handler'[h].to = to /\ to # "report"
    BY <1>4, <2>1, <2>3 DEF Goto, CountInv, TypeOK
  <2> QED
    BY <1>1, <2>3, <2>4, CalmStep DEF Goto, CountInv, TypeOK
<1> QED
  BY <1>2, <1>3, <1>4

\* Who inserts a report file is not about to insert one any more.
LEMMA InsertCalm ==
  ASSUME CountInv, NEW h \in Handler, InsertMedia(h)
  PROVE  ReportFits'
<1>1. handler[h].pc = "insert" /\ handler' = [handler EXCEPT ![h] = Idle]
  BY DEF InsertMedia, Done, Goto
<1>2. CASE row'["report"] \subseteq row["report"]
  BY <1>1, <1>2, CalmStep DEF CountInv, TypeOK, Idle
<1>3. CASE ~(row'["report"] \subseteq row["report"])
  <2>1. /\ handler[h].to = "report" /\ AddRow("report", handler[h].key)
    BY <1>3 DEF InsertMedia, AddRow, CountInv, TypeOK, Place
  <2>2. row'["report"] = row["report"] \cup {handler[h].key}
    BY <2>1 DEF AddRow, CountInv, TypeOK, Place
  <2>3. /\ IsFiniteSet(row'["report"]) /\ Cardinality(row'["report"]) \in Nat
        /\ Cardinality(row["report"]) \in Nat
        /\ Cardinality(row'["report"]) <= Cardinality(row["report"]) + 1
    <3>1. IsFiniteSet(row["report"]) /\ Cardinality(row["report"]) \in Nat
      BY FS_CardinalityType DEF CountInv, ReportFits
    <3>2. /\ IsFiniteSet(row["report"] \cup {handler[h].key})
          /\ \/ Cardinality(row["report"] \cup {handler[h].key}) = Cardinality(row["report"])
             \/ Cardinality(row["report"] \cup {handler[h].key}) = Cardinality(row["report"]) + 1
      BY <3>1, FS_AddElement
    <3> QED
      BY <2>2, <3>1, <3>2
  <2>4. h \in Inserting /\ Inserting' = Inserting \ {h}
    BY <1>1, <2>1 DEF Inserting, At, CountInv, TypeOK, Idle
  <2>5. Cardinality(Inserting') = Cardinality(Inserting) - 1
    BY <2>4, FewInsert, FS_RemoveElement
  <2> QED
    BY <2>3, <2>5, FewInsert, CapAssumption DEF CountInv, ReportFits
<1> QED
  BY <1>2, <1>3

\* An object that is there leads to a count, or to the row of a file template.
LEMMA ObjectCalm ==
  ASSUME CountInv, NEW h \in Handler, PutObject(h) \/ CopyObject(h)
  PROVE  ReportFits'
<1>1. /\ UNCHANGED row
      /\ \/ Goto(h, AfterObject(handler[h].to, handler[h].key))
         \/ Goto(h, Idle)
  BY DEF PutObject, CopyObject, Done
<1>2. CASE Goto(h, AfterObject(handler[h].to, handler[h].key))
  <2>1. \/ handler'[h] = Idle
        \/ handler'[h] = [pc |-> "insert", to |-> "file", key |-> handler[h].key]
        \/ handler'[h] = [pc |-> "count", to |-> handler[h].to, key |-> handler[h].key]
    BY <1>2 DEF AfterObject, Goto, CountInv, TypeOK
  <2>2. handler'[h].pc # "insert" \/ handler'[h].to # "report"
    BY <2>1 DEF Idle
  <2> QED
    BY <1>1, <1>2, <2>2, CalmStep DEF Goto, CountInv, TypeOK
<1>3. CASE Goto(h, Idle)
  BY <1>1, <1>3, CalmStep DEF Goto, CountInv, TypeOK, Idle
<1> QED
  BY <1>1, <1>2, <1>3

LEMMA RequestCalm ==
  ASSUME CountInv, NEW h \in Handler, Request(h)
  PROVE  ReportFits'
<1>1. UNCHANGED row
  BY DEF Request, Upload, SendFile, CopyTaskMediaToConversation, RemoveMedia,
         PublishFromTemplate, CreateTask, stores
<1>2. handler' = [handler EXCEPT ![h] = handler'[h]] /\ handler'[h].pc # "insert"
  <2>1. CASE \E p \in Target, k \in Key : Upload(h, p, k)
    BY <2>1 DEF Upload, Goto, CountInv, TypeOK
  <2>2. CASE \E f \in Key, to \in Target, k \in Key : SendFile(h, f, to, k)
    BY <2>2 DEF SendFile, Goto, CountInv, TypeOK
  <2>3. CASE \E items \in SUBSET Key : CopyTaskMediaToConversation(h, items)
    BY <2>3 DEF CopyTaskMediaToConversation, Goto, CountInv, TypeOK
  <2>4. CASE \E p \in Place, k \in Key : RemoveMedia(h, p, k)
    BY <2>4 DEF RemoveMedia, Goto, CountInv, TypeOK
  <2>5. CASE PublishFromTemplate(h)
    BY <2>5 DEF PublishFromTemplate, Goto, CountInv, TypeOK
  <2>6. CASE \E items \in SUBSET Key : CreateTask(h, items)
    BY <2>6 DEF CreateTask, Goto, CountInv, TypeOK
  <2> QED
    BY <2>1, <2>2, <2>3, <2>4, <2>5, <2>6 DEF Request
<1> QED
  BY <1>1, <1>2, CalmStep DEF CountInv

\* What no row is written by, or the row of the post or of the task's own files.
LEMMA StepCalm ==
  ASSUME CountInv, NEW h \in Handler, Step(h)
  PROVE  ReportFits'
<1> USE DEF CountInv
<1>1. handler[h] \in HandlerState
  BY DEF TypeOK
<1>2. CASE \E t, k \in Key : CopyToConversation(h, t, k)
  <2>1. UNCHANGED row /\ handler[h].pc = "copyAll"
        /\ \E items : \/ Goto(h, Idle)
                      \/ Goto(h, [handler[h] EXCEPT !.items = items])
    BY <1>2 DEF CopyToConversation, Done
  <2>2. PICK items : \/ Goto(h, Idle)
                     \/ Goto(h, [handler[h] EXCEPT !.items = items])
    BY <2>1
  <2>3. handler'[h].pc # "insert" /\ handler' = [handler EXCEPT ![h] = handler'[h]]
    <3>1. CASE Goto(h, Idle)
      BY <3>1 DEF Goto, Idle, TypeOK
    <3>2. CASE Goto(h, [handler[h] EXCEPT !.items = items])
      BY <1>1, <2>1, <3>2, SetPc DEF Goto, TypeOK
    <3> QED
      BY <2>1, <2>2, <3>1, <3>2
  <2> QED
    BY <2>1, <2>3, CalmStep
<1>3. CASE DropObject(h) \/ DropRow(h) \/ Published(h) \/ StorageFails(h)
  <2>1. \/ Goto(h, Idle)
        \/ Goto(h, [handler[h] EXCEPT !.pc = "dropRow"])
    BY <1>3 DEF DropObject, DropRow, Published, StorageFails, Done
  <2>2. handler'[h].pc # "insert" /\ handler' = [handler EXCEPT ![h] = handler'[h]]
    <3>1. CASE Goto(h, Idle)
      BY <3>1 DEF Goto, Idle, TypeOK
    <3>2. CASE Goto(h, [handler[h] EXCEPT !.pc = "dropRow"])
      BY <1>1, <3>2, SetPc DEF Goto, TypeOK
    <3> QED
      BY <2>1, <3>1, <3>2
  <2>3. row'["report"] \subseteq row["report"]
    BY <1>3 DEF DropObject, DropRow, Published, StorageFails, stores, TypeOK, Place
  <2> QED
    BY <2>2, <2>3, CalmStep
<1>4. CASE CreatePost(h) \/ InsertItem(h)
  <2>1. handler'[h].pc # "insert" /\ handler' = [handler EXCEPT ![h] = handler'[h]]
    BY <1>4 DEF CreatePost, InsertItem, Goto, TypeOK
  <2>2. row'["report"] \subseteq row["report"]
    BY <1>4 DEF CreatePost, InsertItem, AddRow, stores, TypeOK, Place
  <2> QED
    BY <2>1, <2>2, CalmStep
<1>5. CASE CopyItemFails(h) \/ \E t, k \in Key : CopyItem(h, t, k)
  <2>1. /\ UNCHANGED row
        /\ \/ Goto(h, [handler[h] EXCEPT !.pc = "undo"])
           \/ \E items, copied, key :
                Goto(h, [pc |-> "row", items |-> items, copied |-> copied, key |-> key])
    BY <1>5 DEF CopyItemFails, CopyItem, stores
  <2>2. handler'[h].pc # "insert" /\ handler' = [handler EXCEPT ![h] = handler'[h]]
    <3>1. CASE Goto(h, [handler[h] EXCEPT !.pc = "undo"])
      BY <1>1, <3>1, SetPc DEF Goto, TypeOK
    <3>2. CASE \E items, copied, key :
                 Goto(h, [pc |-> "row", items |-> items, copied |-> copied, key |-> key])
      BY <3>2 DEF Goto, TypeOK
    <3> QED
      BY <2>1, <3>1, <3>2
  <2> QED
    BY <2>1, <2>2, CalmStep
<1>6. CASE UndoPost(h) \/ \E d \in SUBSET Key : UndoFiles(h, d)
  <2>1. \/ Goto(h, Idle)
        \/ Goto(h, [handler[h] EXCEPT !.pc = "undoFiles"])
    BY <1>6 DEF UndoPost, UndoFiles, Done
  <2>2. handler'[h].pc # "insert" /\ handler' = [handler EXCEPT ![h] = handler'[h]]
    <3>1. CASE Goto(h, Idle)
      BY <3>1 DEF Goto, Idle, TypeOK
    <3>2. CASE Goto(h, [handler[h] EXCEPT !.pc = "undoFiles"])
      BY <1>1, <3>2, SetPc DEF Goto, TypeOK
    <3> QED
      BY <2>1, <3>1, <3>2
  <2>3. row'["report"] \subseteq row["report"]
    BY <1>6 DEF UndoPost, UndoFiles, Without, Place
  <2> QED
    BY <2>2, <2>3, CalmStep
<1>7. CASE \/ \E t \in Key : ShareItem(h, t)
           \/ \E t, k \in Key : DuplicateItem(h, t, k)
           \/ InsertTask(h)
  <2>1. \/ Goto(h, Idle)
        \/ \E items, ready :
             Goto(h, [pc |-> "prepare", items |-> items, ready |-> ready])
    BY <1>7 DEF ShareItem, DuplicateItem, InsertTask, Done
  <2>2. handler'[h].pc # "insert" /\ handler' = [handler EXCEPT ![h] = handler'[h]]
    BY <2>1 DEF Goto, Idle, TypeOK
  <2>3. row'["report"] \subseteq row["report"]
    BY <1>7 DEF ShareItem, DuplicateItem, InsertTask, stores, TypeOK, Place
  <2> QED
    BY <2>2, <2>3, CalmStep
<1> QED
  BY <1>2, <1>3, <1>4, <1>5, <1>6, <1>7, ObjectCalm, CountCalm, InsertCalm DEF Step

LEMMA NextReportFits ==
  ASSUME CountInv, [Next]_vars
  PROVE  ReportFits'
<1>1. CASE UNCHANGED vars
  BY <1>1 DEF vars, CountInv, ReportFits, Inserting, At
<1>2. CASE \E h \in Handler : Request(h) \/ Step(h)
  BY <1>2, RequestCalm, StepCalm
<1>3. CASE RemoveTemplate
  <2>1. Inserting' = Inserting /\ row'["report"] \subseteq row["report"]
    BY <1>3 DEF RemoveTemplate, Inserting, At, Without, Place
  <2> QED
    BY <2>1, Calm DEF CountInv
<1>4. CASE Crash
  <2>1. Inserting' = {} /\ row' = row
    BY <1>4 DEF Crash, Inserting, At, Idle, stores
  <2> QED
    BY <2>1, Calm DEF CountInv
<1> QED
  BY <1>1, <1>2, <1>3, <1>4 DEF Next

\* A task has at most as many report files more than the cap as requests were under
\* way at once but one (tasks.service.ts, addMedia): each counts, then inserts.
THEOREM ReportsStayNearCap == Spec => []ReportsNearCap
<1>1. Init => ReportFits
  <2> SUFFICES ASSUME Init PROVE ReportFits
    OBVIOUS
  <2>1. row["report"] = {} /\ Inserting = {}
    BY DEF Init, Inserting, At, Idle, Place
  <2> QED
    BY <2>1, FS_EmptySet, FewInsert, CapAssumption DEF ReportFits
<1>2. TypeOK /\ ReportFits /\ [Next]_vars => ReportFits'
  BY NextReportFits DEF CountInv
<1>3. ReportFits => ReportsNearCap
  <2> SUFFICES ASSUME ReportFits PROVE ReportsNearCap
    OBVIOUS
  <2>1. ListAttachments({"report"}) = row["report"]
    BY DEF ListAttachments
  <2>2. Cardinality(row["report"]) \in Nat
    BY FS_CardinalityType DEF ReportFits
  <2> QED
    BY <2>1, <2>2, FewInsert, CapAssumption DEF ReportFits, ReportsNearCap
<1> QED
  BY <1>1, <1>2, <1>3, TypeCorrect, PTL DEF Spec
=============================================================================
