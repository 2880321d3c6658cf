------------------------------ MODULE Showcase ------------------------------
(***************************************************************************)
(* What one profile sees of the posts of others (src/src/posts/posts.      *)
(* service.ts, post-visibility.util.ts) and of their profiles (src/src/    *)
(* users/users.service.ts), and what it keeps of both (src/src/favorites/  *)
(* favorites.service.ts).                                                  *)
(*                                                                         *)
(* Saving, moving and removing look something up before they write;        *)
(* meanwhile posts are hidden or deleted, groups and favorites removed.    *)
(*                                                                         *)
(* A definition marked "mutant" is one below it with a mistake in it; it   *)
(* is used nowhere.                                                        *)
(***************************************************************************)
EXTENDS Naturals, FiniteSets

CONSTANTS
  Mine,      \* posts of the viewer (none of a manager's)
  Theirs,    \* posts of other profiles
  Person,    \* other profiles
  Group,     \* uuids of favorite groups
  Stranger,  \* groups of somebody else
  Ungrouped, \* groupId null
  Handler,   \* requests in flight: bounds the concurrency
  MaxSaved   \* bounds how many favorites are ever made

VARIABLES
  role,      \* of the viewer
  roleOf,    \* of the others
  post,      \* the Post rows: type and flags
  group,     \* the groups there are
  favorite,  \* the viewer's FavoritePost and FavoriteUser rows
  saved,     \* how many were made: the uuid of the last one
  handler    \* the local state of each request in flight

vars == <<role, roleOf, post, group, favorite, saved, handler>>
-----------------------------------------------------------------------------
Role == {"CREATOR", "COMPANY", "MANAGER"}
Type == {"CREATOR", "COMPANY"}

Gone == [type |-> "gone"]
Post == Mine \cup Theirs

PostRow == [type: Type, private: BOOLEAN, template: BOOLEAN, archived: BOOLEAN]

NoFavorite == [id |-> 0]

Idle == [pc |-> "idle"]

Goto(h, local) == handler' = [handler EXCEPT ![h] = local]
Done(h) == Goto(h, Idle)

Init ==
  /\ role \in Role
  /\ roleOf \in [Person -> Role]
  /\ post \in [Post -> {r \in PostRow : ~r.private /\ ~r.template /\ ~r.archived} \cup {Gone}]
  /\ \A p \in Mine : post[p].type = IF role = "MANAGER" THEN "gone" ELSE role
  /\ \A p \in Theirs : post[p] # Gone
  /\ group = Stranger
  /\ favorite = [i \in Post \cup Person |-> NoFavorite]
  /\ saved = 0
  /\ handler = [h \in Handler |-> Idle]
-----------------------------------------------------------------------------
(* Who sees what                                                            *)

\* visiblePostTypeForRole
VisibleTypes ==
  CASE role = "MANAGER" -> Type
    [] role = "CREATOR" -> {"COMPANY"}
    [] role = "COMPANY" -> {"CREATOR"}

\* canViewPost, of a row read with its template flag or without.
CanView(p, template) ==
  \/ p \in Mine
  \/ ~post[p].private /\ ~template /\ post[p].type \in VisibleTypes

FindById(p) == post[p] # Gone /\ CanView(p, post[p].template)

\* assertPostVisible does not read the template flag.
PostVisible(p) == post[p] # Gone /\ CanView(p, FALSE)

CanApplyToArchived(p) ==  \* mutant
  /\ post[p] # Gone
  /\ role # "MANAGER" /\ p \notin Mine
  /\ ~post[p].private /\ CanView(p, FALSE)

\* assertCanApply
CanApply(p) ==
  /\ post[p] # Gone
  /\ role # "MANAGER" /\ p \notin Mine
  /\ ~post[p].archived /\ ~post[p].private /\ CanView(p, FALSE)

\* list, of the posts of others.
Feed == {p \in Theirs : /\ post[p] # Gone
                        /\ post[p].type \in VisibleTypes
                        /\ ~post[p].archived /\ ~post[p].private /\ ~post[p].template}

\* listOptions
Options == {p \in Mine : post[p] # Gone /\ ~post[p].archived /\ ~post[p].template}

\* getChatSearchRoles
SearchRoles(admin) ==
  CASE role = "MANAGER" \/ admin   -> Type
    [] role = "COMPANY" /\ ~admin -> {"CREATOR"}
    [] role = "CREATOR" /\ ~admin -> {"COMPANY"}

\* search
Search(admin) == {x \in Person : roleOf[x] \in SearchRoles(admin)}
-----------------------------------------------------------------------------
(* The owners of the posts.  What their requests look up before they write  *)
(* is in Applications: overlapping, they may make a template public, and    *)
(* delete what is a template no more.                                       *)

UpdatePost(p, row) ==
  /\ post[p] # Gone
  /\ row.type = post[p].type
  /\ row # post[p]
  /\ post' = [post EXCEPT ![p] = row]
  /\ UNCHANGED <<role, roleOf, group, favorite, saved, handler>>

\* What was saved of the post goes along.
DeletePost(p) ==
  /\ post[p] # Gone
  /\ post' = [post EXCEPT ![p] = Gone]
  /\ favorite' = [favorite EXCEPT ![p] = NoFavorite]
  /\ UNCHANGED <<role, roleOf, group, saved, handler>>
-----------------------------------------------------------------------------
(* Groups                                                                   *)

CreateGroup(g) ==
  /\ g \in Group \ group
  /\ group' = group \cup {g}
  /\ UNCHANGED <<role, roleOf, post, favorite, saved, handler>>

\* What was in the group is kept, in none.
DeleteGroup(g) ==
  /\ g \in group \ Stranger
  /\ group' = group \ {g}
  /\ favorite' = [i \in DOMAIN favorite |->
                   IF favorite[i] # NoFavorite /\ favorite[i].group = g
                   THEN [favorite[i] EXCEPT !.group = Ungrouped] ELSE favorite[i]]
  /\ UNCHANGED <<role, roleOf, post, saved, handler>>

GroupExists(g) == g \in group \cup {Ungrouped}  \* mutant

\* assertGroupOwner
GroupOwner(g) == g \in (group \ Stranger) \cup {Ungrouped}

\* The foreign key of the group.
Refers(g) == g \in group \cup {Ungrouped}
-----------------------------------------------------------------------------
(* Favorites                                                                *)

AddFavorite(h, p, g) ==
  /\ handler[h] = Idle
  /\ GroupOwner(g)
  /\ Goto(h, [pc |-> "look", post |-> p, group |-> g])
  /\ UNCHANGED <<role, roleOf, post, group, favorite, saved>>

LookAtPost(h) ==
  /\ handler[h].pc = "look"
  /\ IF PostVisible(handler[h].post)
     THEN Goto(h, [handler[h] EXCEPT !.pc = "upsert"]) ELSE Done(h)
  /\ UNCHANGED <<role, roleOf, post, group, favorite, saved>>

CanSave(x) == roleOf[x] \in Type

AddFavoriteUser(h, x) ==
  /\ handler[h] = Idle
  /\ CanSave(x)
  /\ Goto(h, [pc |-> "upsert", post |-> x, group |-> Ungrouped])
  /\ UNCHANGED <<role, roleOf, post, group, favorite, saved>>

Exists(i) == i \in Person \/ post[i] # Gone

\* A post or a group that is gone by now makes it fail.
Upsert(h) ==
  /\ handler[h].pc = "upsert"
  /\ saved < MaxSaved
  /\ LET p == handler[h].post
         g == handler[h].group
     IN  IF ~Exists(p) \/ ~Refers(g) THEN UNCHANGED <<favorite, saved>>
         ELSE IF favorite[p] = NoFavorite
         THEN /\ saved' = saved + 1
              /\ favorite' = [favorite EXCEPT ![p] = [id |-> saved + 1, group |-> g]]
         ELSE /\ favorite' = [favorite EXCEPT ![p].group = g]
              /\ UNCHANGED saved
  /\ Done(h)
  /\ UNCHANGED <<role, roleOf, post, group>>

MoveFavorite(h, p, g) ==
  /\ handler[h] = Idle
  /\ favorite[p] # NoFavorite
  /\ Goto(h, [pc |-> "lookAtGroup", post |-> p, group |-> g, id |-> favorite[p].id])
  /\ UNCHANGED <<role, roleOf, post, group, favorite, saved>>

LookAtGroup(h) ==
  /\ handler[h].pc = "lookAtGroup"
  /\ IF GroupOwner(handler[h].group)
     THEN Goto(h, [handler[h] EXCEPT !.pc = "move"]) ELSE Done(h)
  /\ UNCHANGED <<role, roleOf, post, group, favorite, saved>>

\* The row is named by its id: one that was removed and saved again is another.
Move(h) ==
  /\ handler[h].pc = "move"
  /\ LET p == handler[h].post
         g == handler[h].group
     IN  favorite' = IF favorite[p].id = handler[h].id /\ Refers(g)
                     THEN [favorite EXCEPT ![p].group = g] ELSE favorite
  /\ Done(h)
  /\ UNCHANGED <<role, roleOf, post, group, saved>>

RemoveFavorite(h, p) ==
  /\ handler[h] = Idle
  /\ favorite[p] # NoFavorite
  /\ Goto(h, [pc |-> "remove", post |-> p, id |-> favorite[p].id])
  /\ UNCHANGED <<role, roleOf, post, group, favorite, saved>>

Remove(h) ==
  /\ handler[h].pc = "remove"
  /\ LET p == handler[h].post
     IN  favorite' = IF favorite[p].id = handler[h].id
                     THEN [favorite EXCEPT ![p] = NoFavorite] ELSE favorite
  /\ Done(h)
  /\ UNCHANGED <<role, roleOf, post, group, saved>>

Saved == {p \in Post : favorite[p] # NoFavorite}
InGroup(g) == {p \in Saved : favorite[p].group = g}

\* listUserFavorites
ListProfiles(type) == {x \in Person : favorite[x] # NoFavorite /\ roleOf[x] = type}

\* listPostFavorites: by the type of the post alone, hidden or not.
ListFavorites(posts) == {p \in posts : post[p].type \in VisibleTypes}
-----------------------------------------------------------------------------
Begin(h) ==
  \/ \E p \in Post, g \in Group \cup Stranger \cup {Ungrouped} :
       AddFavorite(h, p, g) \/ MoveFavorite(h, p, g)
  \/ \E x \in Person : AddFavoriteUser(h, x)
  \/ \E i \in Post \cup Person : RemoveFavorite(h, i)

Continue(h) == LookAtPost(h) \/ Upsert(h) \/ LookAtGroup(h) \/ Move(h) \/ Remove(h)

Next ==
  \/ \E p \in Post : DeletePost(p)
  \/ \E p \in Post, row \in PostRow : UpdatePost(p, row)
  \/ \E g \in Group : CreateGroup(g) \/ DeleteGroup(g)
  \/ \E h \in Handler : Begin(h) \/ Continue(h)

Spec == Init /\ [][Next]_vars
-----------------------------------------------------------------------------
(* Properties                                                               *)

\* A post is in the feed exactly when it can be opened and, by a trader, applied to;
\* whatever can be opened can be saved (three checks of the same flags, each on the
\* columns it reads: posts.service.ts:156, applications.service.ts:597,
\* favorites.service.ts:460).  Whoever may have posts in the feed is found by the
\* search, and whoever is found can be saved (users.service.ts:148).
FeedIsOpen ==
  /\ \A p \in Feed : FindById(p) /\ PostVisible(p)
  /\ role # "MANAGER" =>
       Feed = {p \in Theirs : CanApply(p) /\ ~post[p].template}
  /\ \A p \in Options : FindById(p)
  /\ \A admin \in BOOLEAN :
       /\ VisibleTypes \subseteq SearchRoles(admin)
       /\ \A x \in Search(admin) : CanSave(x)

\* Every favorite is in a group of the viewer's own, or in none, whatever became of
\* group and post while it was saved or moved; and the counts of the groups are those
\* of their lists but for posts of the viewer's own, which can be saved and are never
\* listed (favorites.service.ts:73 counts rows, :300 lists by the type of the post).
\* A profile that was saved is in one of the lists of profiles, and in no group.
GroupsAgree ==
  /\ \A p \in Saved : favorite[p].group \in (group \ Stranger) \cup {Ungrouped}
  /\ ListFavorites(Saved)
       = UNION {ListFavorites(InGroup(g)) : g \in (group \ Stranger) \cup {Ungrouped}}
  /\ \A g \in group \ Stranger :
       Cardinality(InGroup(g))
         = Cardinality(ListFavorites(InGroup(g))) + Cardinality(InGroup(g) \cap Mine)
  /\ \A x \in Person : favorite[x] # NoFavorite =>
       favorite[x].group = Ungrouped /\ \E type \in Type : x \in ListProfiles(type)
=============================================================================
