---------------------------- MODULE Publications ----------------------------
(***************************************************************************)
(* A publication after its task was completed: who finds it, who opens it, *)
(* and the links to what was published (src/src/publications/publications. *)
(* service.ts).  Making it is in TaskLifecycle, its files in MediaStore.   *)
(*                                                                         *)
(* A row has one link per platform, and one of an older kind, externalUrl, *)
(* that is still read and written.  A request reads the row, works out     *)
(* both and writes them; another one may write in between.                 *)
(*                                                                         *)
(* Titles, texts and the filters of the list by post, period and name are  *)
(* left out.  A definition marked "mutant" is one below it with a mistake  *)
(* in it; it is used nowhere.                                              *)
(***************************************************************************)
EXTENDS Naturals

CONSTANTS
  Owner,    \* the profile the task belonged to
  Executor, \* the profiles that may have been its executor
  None,     \* null
  NotGiven, \* a key the request does not have
  Url,
  Other,    \* the platforms are numbered as in the enumeration: OTHER is the last
  Handler   \* requests in flight: bounds the concurrency

VARIABLES
  publication, \* the Publication row
  handler      \* the local state of each request in flight

vars == <<publication, handler>>
-----------------------------------------------------------------------------
User == Executor \cup {Owner}
Platform == 1..Other

NoLinks == [platform \in {} |-> None]

\* parsePlatformLinks: an object without a link is none.
Links(platforms, value) == UNION {[ps -> value] : ps \in SUBSET platforms}

\* { [platform]: url }, and { ...under, ...over }
Link(platform, url) == [p \in {platform} |-> url]
Over(under, over) ==
  [p \in DOMAIN under \cup DOMAIN over |-> IF p \in DOMAIN over THEN over[p] ELSE under[p]]

Idle == [pc |-> "idle"]
Done(h) == handler' = [handler EXCEPT ![h] = Idle]

\* createFromCompletedTask.  Rows older than the links were given one when the column was.
Init ==
  /\ publication \in [ownerId: {Owner}, executorId: Executor \cup {None},
                      deliverable: Platform \cup {None}, platform: {None},
                      externalUrl: {None}, links: {NoLinks}]
  /\ handler = [h \in Handler |-> Idle]
-----------------------------------------------------------------------------
\* buildParticipantWhere
ParticipantWhere(u, role) ==
  \/ role # "executor" /\ publication.ownerId = u
  \/ role # "owner" /\ publication.executorId = u

\* assertParticipant
Opens(u) == u \in {publication.ownerId, publication.executorId}

OrElse(value, default) == IF value = None THEN default ELSE value

\* The platform a link of the older kind is for.
KeyOf(row) == OrElse(row.platform, OrElse(row.deliverable, Other))

\* resolvePlatformLinksForResponse
Shown(row) ==
  IF row.links # NoLinks \/ row.externalUrl = None THEN row.links
  ELSE Link(KeyOf(row), row.externalUrl)

\* list and findById: the links of what a profile is shown.
List(u, role) == IF ParticipantWhere(u, role) THEN {Shown(publication)} ELSE {}
FindById(u) == IF Opens(u) THEN {Shown(publication)} ELSE {}
-----------------------------------------------------------------------------
(* PATCH /publications/:id                                                  *)

Update(h, u) ==
  /\ handler[h] = Idle
  /\ Opens(u)
  /\ handler' = [handler EXCEPT ![h] = [pc |-> "write", read |-> publication]]
  /\ UNCHANGED publication

\* mergePlatformLinks
Merge(row, given) ==
  LET existing == IF row.links = NoLinks /\ row.externalUrl # None
                  THEN Link(OrElse(row.platform, Other), row.externalUrl) ELSE row.links
      merged == Over(existing, given)
  IN  [p \in {q \in DOMAIN merged : merged[q] # None} |-> merged[p]]

\* firstPlatformLink, in the order of the enumeration.
FirstLink(links) ==
  IF links = NoLinks THEN None
  ELSE links[CHOOSE p \in DOMAIN links : \A q \in DOMAIN links : p <= q]

WithPlatform(row, platform) ==
  IF platform = NotGiven THEN row ELSE [row EXCEPT !.platform = platform]

LinkedOnly(row, links) == [row EXCEPT !.links = links]  \* mutant

Linked(row, links) == [row EXCEPT !.links = links, !.externalUrl = FirstLink(links)]

WriteLinks(h, platform, given) ==
  /\ handler[h].pc = "write"
  /\ publication' = Linked(WithPlatform(publication, platform), Merge(handler[h].read, given))
  /\ Done(h)

\* The links the older one is put among: in the place of any, if the publication has
\* no platform, since the order of the keys of a JSON column is not the one given.
WithUrl(row, url) ==
  LET keys == IF row.platform = None /\ row.links # NoLinks
              THEN DOMAIN row.links ELSE {KeyOf(row)}
  IN  {Over(row.links, Link(key, url)) : key \in keys}

WriteUrl(h, platform, url) ==
  /\ handler[h].pc = "write"
  /\ \E links \in WithUrl(handler[h].read, url) :
       publication' = [WithPlatform(publication, platform) EXCEPT !.links = links, !.externalUrl = url]
  /\ Done(h)

\* The links are kept, those that came since the row was read too.
ClearUrl(h, platform) ==
  /\ handler[h].pc = "write"
  /\ publication' = [WithPlatform(publication, platform) EXCEPT !.externalUrl = None]
  /\ Done(h)

WriteRest(h, platform) ==
  /\ handler[h].pc = "write"
  /\ publication' = WithPlatform(publication, platform)
  /\ Done(h)

Next ==
  \E h \in Handler :
    \/ \E u \in User : Update(h, u)
    \/ \E platform \in Platform \cup {None, NotGiven} :
         \/ \E given \in Links(Platform, Url \cup {None}) : WriteLinks(h, platform, given)
         \/ \E url \in Url : WriteUrl(h, platform, url)
         \/ ClearUrl(h, platform)
         \/ WriteRest(h, platform)

Spec == Init /\ [][Next]_vars
-----------------------------------------------------------------------------
(* Properties                                                               *)

\* The link of the older kind is one of the links shown, whoever writes one, the
\* other or both of them at once, so that what is shown is what is stored, and the
\* two ways of naming the platform of a lone older link, which differ
\* (publications.service.ts:480, :499), are never needed.
UrlIsShown ==
  /\ publication.externalUrl # None =>
       \E p \in DOMAIN publication.links : publication.links[p] = publication.externalUrl
  /\ \A u \in User :
       /\ FindById(u) = UNION {List(u, role) : role \in {"owner", "executor", NotGiven}}
       /\ FindById(u) \subseteq {publication.links}
=============================================================================
