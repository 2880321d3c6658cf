---------------------------- MODULE BrowsingProofs ----------------------------
(* Safety of the parts of Browsing, for every instance of them: every other  *)
(* part leaves the variables of one alone, so that each has an invariant of  *)
(* its own.                                                                  *)
EXTENDS Browsing, TLAPS, FiniteSetTheorems, WellFoundedInduction
-----------------------------------------------------------------------------
(* The publication, for every set of profiles, links, platforms and requests *)
(* in flight: whichever requests overlap, the link of the older kind is one  *)
(* of the links shown.                                                       *)

\* A row of the table, now or as a request has read it.
LinksRow ==
  [ownerId: {Owner}, executorId: Executor \cup {None},
   deliverable: Published!Platform \cup {None}, platform: Published!Platform \cup {None},
   externalUrl: Url \cup {None}, links: Published!Links(Published!Platform, Url)]

\* The link of the older kind is one of the links.
UrlIn(r) ==
  r.externalUrl # None => \E p \in DOMAIN r.links : r.links[p] = r.externalUrl

PublicationTypeOK ==
  /\ publication \in LinksRow
  /\ editing \in [Handler -> {Published!Idle} \cup [pc: {"write"}, read: LinksRow]]

PublicationInv == PublicationTypeOK /\ UrlIn(publication)
-----------------------------------------------------------------------------
(* Lemmas on links.                                                          *)

\* Links are a function of some of the platforms.
LEMMA LinksAre ==
  ASSUME NEW platforms, NEW value, NEW f
  PROVE  f \in Published!Links(platforms, value) <=>
           /\ f = [p \in DOMAIN f |-> f[p]]
           /\ DOMAIN f \subseteq platforms
           /\ \A p \in DOMAIN f : f[p] \in value
  BY DEF Published!Links

\* There is one way to have none.
LEMMA NoLinksIsEmpty ==
  ASSUME NEW platforms, NEW value, NEW f \in Published!Links(platforms, value)
  PROVE  f = Published!NoLinks <=> DOMAIN f = {}
<1>1. f = [p \in DOMAIN f |-> f[p]]
  BY LinksAre
<1>2. ASSUME DOMAIN f = {} PROVE f = Published!NoLinks
  BY <1>1, <1>2 DEF Published!NoLinks
<1> QED
  BY <1>2 DEF Published!NoLinks

LEMMA NoLinksType ==
  ASSUME NEW platforms, NEW value
  PROVE  Published!NoLinks \in Published!Links(platforms, value)
<1>1. /\ DOMAIN Published!NoLinks = {}
      /\ Published!NoLinks = [p \in DOMAIN Published!NoLinks |-> Published!NoLinks[p]]
  BY DEF Published!NoLinks
<1> HIDE DEF Published!NoLinks
<1> QED
  BY <1>1, LinksAre

LEMMA LinkType ==
  ASSUME NEW p \in Published!Platform, NEW url \in Url
  PROVE  Published!Link(p, url) \in Published!Links(Published!Platform, Url)
  BY LinksAre DEF Published!Link

LEMMA OverType ==
  ASSUME NEW value, NEW f \in Published!Links(Published!Platform, value),
         NEW g \in Published!Links(Published!Platform, value)
  PROVE  Published!Over(f, g) \in Published!Links(Published!Platform, value)
<1>1. /\ DOMAIN f \subseteq Published!Platform /\ DOMAIN g \subseteq Published!Platform
      /\ \A p \in DOMAIN f : f[p] \in value
      /\ \A p \in DOMAIN g : g[p] \in value
  BY LinksAre
<1>2. /\ DOMAIN Published!Over(f, g) = DOMAIN f \cup DOMAIN g
      /\ Published!Over(f, g) = [p \in DOMAIN Published!Over(f, g) |-> Published!Over(f, g)[p]]
      /\ \A p \in DOMAIN Published!Over(f, g) :
           Published!Over(f, g)[p] = IF p \in DOMAIN g THEN g[p] ELSE f[p]
  BY DEF Published!Over
<1> QED
  BY <1>1, <1>2, LinksAre

\* The first of some links is one of them.
LEMMA FirstLinkIsOne ==
  ASSUME NEW f \in Published!Links(Published!Platform, Url)
  PROVE  /\ Published!FirstLink(f) \in Url \cup {None}
         /\ Published!FirstLink(f) # None => \E p \in DOMAIN f : f[p] = Published!FirstLink(f)
<1>1. DOMAIN f \subseteq Published!Platform /\ \A p \in DOMAIN f : f[p] \in Url
  BY LinksAre
<1>2. CASE f = Published!NoLinks
  BY <1>2 DEF Published!FirstLink
<1>3. CASE f # Published!NoLinks
  <2>1. DOMAIN f # {} /\ DOMAIN f \subseteq Nat
    BY <1>1, <1>3, NoLinksIsEmpty, PlatformAssumption DEF Published!Platform
  <2>2. PICK p \in DOMAIN f : \A q \in DOMAIN f : <<q, p>> \notin OpToRel(<, Nat)
    BY <2>1, WFMin, NatLessThanWellFounded, Zenon
  <2>3. \A q \in DOMAIN f : ~(q < p)
    BY <2>1, <2>2, Zenon DEF OpToRel
  <2>4. \A q \in DOMAIN f : p <= q
    BY <2>1, <2>3
  <2> DEFINE first == CHOOSE r \in DOMAIN f : \A q \in DOMAIN f : r <= q
  <2>5. first \in DOMAIN f
    BY <2>4
  <2>6. Published!FirstLink(f) = f[first]
    BY <1>3 DEF Published!FirstLink
  <2> QED
    BY <1>1, <2>5, <2>6
<1> QED
  BY <1>2, <1>3

LEMMA KeyType == ASSUME NEW r \in LinksRow PROVE Published!KeyOf(r) \in Published!Platform
  BY PlatformAssumption DEF LinksRow, Published!KeyOf, Published!OrElse, Published!Platform

\* Merging given links with those of a row leaves links.
LEMMA MergeType ==
  ASSUME NEW r \in LinksRow, NEW given \in Published!Links(Published!Platform, Url \cup {None})
  PROVE  Published!Merge(r, given) \in Published!Links(Published!Platform, Url)
<1> DEFINE existing == IF r.links = Published!NoLinks /\ r.externalUrl # None
                       THEN Published!Link(Published!OrElse(r.platform, Other), r.externalUrl)
                       ELSE r.links
           merged == Published!Over(existing, given)
<1>1. existing \in Published!Links(Published!Platform, Url)
  <2>1. CASE r.links = Published!NoLinks /\ r.externalUrl # None
    <3>1. Published!OrElse(r.platform, Other) \in Published!Platform /\ r.externalUrl \in Url
      BY <2>1, PlatformAssumption DEF LinksRow, Published!OrElse, Published!Platform
    <3> QED
      BY <2>1, <3>1, LinkType
  <2>2. CASE ~(r.links = Published!NoLinks /\ r.externalUrl # None)
    BY <2>2 DEF LinksRow
  <2> QED
    BY <2>1, <2>2
<1>2. existing \in Published!Links(Published!Platform, Url \cup {None})
  BY <1>1, LinksAre
<1> HIDE DEF existing
<1>3. merged \in Published!Links(Published!Platform, Url \cup {None})
  BY <1>2, OverType
<1>4. /\ DOMAIN merged \subseteq Published!Platform
      /\ \A p \in DOMAIN merged : merged[p] \in Url \cup {None}
  BY <1>3, LinksAre
<1>5. Published!Merge(r, given) = [p \in {q \in DOMAIN merged : merged[q] # None} |-> merged[p]]
  BY Zenon DEF Published!Merge, existing
<1> HIDE DEF merged
<1> QED
  BY <1>4, <1>5, LinksAre
-----------------------------------------------------------------------------
(* Each action keeps the invariant.                                          *)

\* A platform that is given replaces the one of the row and leaves its links alone.
LEMMA NamedType ==
  ASSUME NEW r \in LinksRow, NEW platform \in Published!Platform \cup {None, NotGiven}
  PROVE  /\ Published!WithPlatform(r, platform) \in LinksRow
         /\ Published!WithPlatform(r, platform).links = r.links
         /\ Published!WithPlatform(r, platform).externalUrl = r.externalUrl
  BY NotGivenAssumption DEF Published!WithPlatform, LinksRow

\* A request that ends, whatever it wrote.
LEMMA DoneType ==
  ASSUME PublicationTypeOK, NEW h \in Handler, Published!Done(h)
  PROVE  editing' \in [Handler -> {Published!Idle} \cup [pc: {"write"}, read: LinksRow]]
  BY DEF PublicationTypeOK, Published!Done

\* What a request about to write has read.
LEMMA ReadType ==
  ASSUME PublicationTypeOK, NEW h \in Handler, editing[h].pc = "write"
  PROVE  editing[h].read \in LinksRow
  BY DEF PublicationTypeOK, Published!Idle

\* A publication that has just been made has neither kind of link.
LEMMA InitPublicationInv == Published!Init => PublicationInv
<1> SUFFICES ASSUME Published!Init PROVE PublicationInv
  OBVIOUS
<1>1. publication \in LinksRow
  BY NoLinksType DEF Published!Init, LinksRow
<1>2. publication.externalUrl = None
  BY DEF Published!Init
<1>3. editing \in [Handler -> {Published!Idle} \cup [pc: {"write"}, read: LinksRow]]
  BY DEF Published!Init
<1> QED
  BY <1>1, <1>2, <1>3 DEF PublicationInv, PublicationTypeOK, UrlIn

\* The links and the first of them are written together.
LEMMA WriteLinksInv ==
  ASSUME PublicationInv, NEW h \in Handler, NEW platform \in Published!Platform \cup {None, NotGiven},
         NEW given \in Published!Links(Published!Platform, Url \cup {None}),
         Published!WriteLinks(h, platform, given)
  PROVE  PublicationInv'
<1> DEFINE r == Published!WithPlatform(publication, platform)
           links == Published!Merge(editing[h].read, given)
<1>1. r \in LinksRow
  BY NamedType DEF PublicationInv, PublicationTypeOK
<1>2. links \in Published!Links(Published!Platform, Url)
  BY MergeType, ReadType DEF Published!WriteLinks, PublicationInv
<1>3. /\ Published!FirstLink(links) \in Url \cup {None}
      /\ Published!FirstLink(links) # None =>
           \E p \in DOMAIN links : links[p] = Published!FirstLink(links)
  BY <1>2, FirstLinkIsOne
<1>4. publication' = [r EXCEPT !.links = links, !.externalUrl = Published!FirstLink(links)]
  BY DEF Published!WriteLinks, Published!Linked
<1> HIDE DEF r, links
<1>5. publication' \in LinksRow /\ publication'.links = links
      /\ publication'.externalUrl = Published!FirstLink(links)
  BY <1>1, <1>2, <1>3, <1>4 DEF LinksRow
<1> QED
  BY <1>3, <1>5, DoneType DEF PublicationInv, PublicationTypeOK, UrlIn, Published!WriteLinks

\* The older link goes among the links it is written with.
LEMMA WriteUrlInv ==
  ASSUME PublicationInv, NEW h \in Handler, NEW platform \in Published!Platform \cup {None, NotGiven},
         NEW url \in Url, Published!WriteUrl(h, platform, url)
  PROVE  PublicationInv'
<1> DEFINE r == Published!WithPlatform(publication, platform)
           read == editing[h].read
           keys == IF read.platform = None /\ read.links # Published!NoLinks
                   THEN DOMAIN read.links ELSE {Published!KeyOf(read)}
<1>1. r \in LinksRow /\ read \in LinksRow
  BY NamedType, ReadType DEF PublicationInv, PublicationTypeOK, Published!WriteUrl
<1>2. keys \subseteq Published!Platform
  <2>1. DOMAIN read.links \subseteq Published!Platform
    BY <1>1, LinksAre DEF LinksRow
  <2>2. Published!KeyOf(read) \in Published!Platform
    BY <1>1, KeyType
  <2> QED
    BY <2>1, <2>2
<1>3. Published!WithUrl(read, url)
        = {Published!Over(read.links, Published!Link(key, url)) : key \in keys}
  BY DEF Published!WithUrl
<1> HIDE DEF keys, r, read
<1>4. PICK key \in keys :
        publication' = [r EXCEPT !.links = Published!Over(read.links, Published!Link(key, url)),
                                   !.externalUrl = url]
  BY <1>3 DEF Published!WriteUrl, r, read
<1> DEFINE links == Published!Over(read.links, Published!Link(key, url))
<1>5. links \in Published!Links(Published!Platform, Url)
  <2>1. Published!Link(key, url) \in Published!Links(Published!Platform, Url)
    BY <1>2, LinkType
  <2>2. read.links \in Published!Links(Published!Platform, Url)
    BY <1>1 DEF LinksRow
  <2> QED
    BY <2>1, <2>2, OverType
<1>6. key \in DOMAIN links /\ links[key] = url
  BY DEF Published!Over, Published!Link
<1> HIDE DEF links
<1>7. publication' \in LinksRow /\ publication'.links = links /\ publication'.externalUrl = url
  BY <1>1, <1>4, <1>5 DEF LinksRow, links
<1> QED
  BY <1>6, <1>7, DoneType DEF PublicationInv, PublicationTypeOK, UrlIn, Published!WriteUrl

\* Every step of every request.
LEMMA NextPublicationInv == PublicationInv /\ [Next]_vars => PublicationInv'
<1> SUFFICES ASSUME PublicationInv, [Next]_vars PROVE PublicationInv'
  OBVIOUS
<1>1. CASE UNCHANGED publicationVars
  BY <1>1 DEF publicationVars, PublicationInv, PublicationTypeOK, UrlIn
<1>2. ASSUME NEW h \in Handler, NEW u \in Published!User, Published!Update(h, u) PROVE PublicationInv'
  BY <1>2 DEF Published!Update, PublicationInv, PublicationTypeOK, UrlIn
<1>3. ASSUME NEW h \in Handler, NEW platform \in Published!Platform \cup {None, NotGiven},
             Published!ClearUrl(h, platform)
      PROVE  PublicationInv'
  <2>1. Published!WithPlatform(publication, platform) \in LinksRow
    BY NamedType DEF PublicationInv, PublicationTypeOK
  <2>2. publication' \in LinksRow /\ publication'.externalUrl = None
    BY <1>3, <2>1 DEF Published!ClearUrl, LinksRow
  <2> QED
    BY <1>3, <2>2, DoneType DEF Published!ClearUrl, PublicationInv, PublicationTypeOK, UrlIn
<1>4. ASSUME NEW h \in Handler, NEW platform \in Published!Platform \cup {None, NotGiven},
             Published!WriteRest(h, platform)
      PROVE  PublicationInv'
  <2>1. /\ publication' \in LinksRow /\ publication'.links = publication.links
        /\ publication'.externalUrl = publication.externalUrl
    BY <1>4, NamedType DEF Published!WriteRest, PublicationInv, PublicationTypeOK
  <2> QED
    BY <1>4, <2>1, DoneType DEF Published!WriteRest, PublicationInv, PublicationTypeOK, UrlIn
<1>5. CASE PublicationStep
  BY <1>2, <1>3, <1>4, <1>5, WriteLinksInv, WriteUrlInv DEF PublicationStep, Published!Next
<1> QED
  BY <1>1, <1>5
  DEF Next, vars, PostStep, PartnerStep, DialogStep, ScrollStep, TaskStep, ProfileStep

\* What the invariant says of what is shown.
LEMMA PublicationInvShows == PublicationInv => UrlIsShown
<1> SUFFICES ASSUME PublicationInv PROVE UrlIsShown
  OBVIOUS
<1>1. publication \in LinksRow /\ UrlIn(publication)
  BY DEF PublicationInv, PublicationTypeOK
<1>2. Published!Shown(publication) = publication.links
  <2>1. CASE publication.links # Published!NoLinks
    BY <2>1 DEF Published!Shown
  <2>2. CASE publication.links = Published!NoLinks
    <3>1. publication.externalUrl = None
      BY <1>1, <2>2 DEF UrlIn, Published!NoLinks
    <3> QED
      BY <2>2, <3>1 DEF Published!Shown
  <2> QED
    BY <2>1, <2>2
<1>3. ASSUME NEW u \in Published!User
      PROVE  /\ Published!FindById(u)
                  = UNION {Published!List(u, side) : side \in {"owner", "executor", NotGiven}}
             /\ Published!FindById(u) \subseteq {publication.links}
  <2>1. Published!Opens(u) <=>
          Published!ParticipantWhere(u, "owner") \/ Published!ParticipantWhere(u, "executor")
    BY DEF Published!Opens, Published!ParticipantWhere
  <2>2. \A side : Published!ParticipantWhere(u, side) => Published!Opens(u)
    BY DEF Published!ParticipantWhere, Published!Opens
  <2> QED
    BY <1>2, <2>1, <2>2 DEF Published!FindById, Published!List
<1> QED
  BY <1>1, <1>3 DEF UrlIsShown, Published!UrlIsShown, UrlIn

\* Whatever requests overlap on a publication, the link of the older kind stays one
\* of the links shown, and nobody is shown others than are stored.
THEOREM UrlStaysShown == Spec => []UrlIsShown
<1>1. Init => PublicationInv
  BY InitPublicationInv DEF Init
<1> QED
  BY <1>1, NextPublicationInv, PublicationInvShows, PTL DEF Spec
-----------------------------------------------------------------------------
(* The dialogs, of any number of profiles and of requests in flight: a pair  *)
(* has one dialog unless two requests looked for it at once, and the badge   *)
(* leaves out only what its reader has hidden knowingly.                     *)

SendingState ==
  {Chats!Idle}
    \cup [pc: {"unhide", "show"}, by: Profile, to: Conversation]
    \cup [pc: {"create"}, participants: (SUBSET Profile) \ {{}}]
    \cup [pc: {"commit"}, by: Profile, to: Conversation, shown: SUBSET Profile]

DialogTypeOK ==
  /\ between \in [Conversation -> SUBSET Profile]
  /\ hidden \in [Conversation -> SUBSET Profile]
  /\ unread \in [Conversation -> SUBSET Profile]
  /\ knew \in [Conversation -> SUBSET Profile]
  /\ raced \subseteq SUBSET Profile
  /\ sending \in [Handler -> SendingState]

\* Participants that were not looked for at once have one dialog, or one request
\* that is about to make it.
OneEach ==
  \A ps \in (SUBSET Profile) \ (raced \cup {{}}) :
    /\ \A c, d \in Conversation : between[c] = ps /\ between[d] = ps => c = d
    /\ \A h, g \in Chats!MakesOne(ps) : h = g
    /\ Chats!MakesOne(ps) # {} => \A c \in Conversation : between[c] # ps

\* Of what a reader has unread, the dialogs that are hidden are those it hid knowingly.
HiddenIsKnown(c) ==
  /\ unread[c] \subseteq between[c]
  /\ knew[c] \subseteq hidden[c]
  /\ unread[c] \cap hidden[c] \subseteq knew[c]

\* One message at a time is under way to a dialog, and who hides the dialog while it is
\* does so knowingly.
SendsInTurn(c) ==
  \A h \in Chats!Sending(c) :
    /\ hidden[c] \ sending[h].shown \subseteq knew[c]
    /\ \A g \in Chats!Sending(c) : g = h

DialogInv == DialogTypeOK /\ OneEach /\ \A c \in Conversation : HiddenIsKnown(c) /\ SendsInTurn(c)
-----------------------------------------------------------------------------
(* Lemmas on the operators.                                                  *)

\* The program counter of a handler tells what it holds.
LEMMA ShapeByPc ==
  ASSUME NEW l \in SendingState
  PROVE  /\ l.pc \in {"unhide", "show"} => l.by \in Profile /\ l.to \in Conversation
         /\ l.pc = "create" => l.participants \in SUBSET Profile /\ l.participants # {}
         /\ l.pc = "commit" => /\ l.by \in Profile /\ l.to \in Conversation
                               /\ l.shown \in SUBSET Profile
  BY DEF SendingState, Chats!Idle

\* And the other way round.
LEMMA Shapes ==
  /\ Chats!Idle \in SendingState
  /\ \A pc \in {"unhide", "show"}, u \in Profile, c \in Conversation :
       [pc |-> pc, by |-> u, to |-> c] \in SendingState
  /\ \A ps \in (SUBSET Profile) \ {{}} :
       [pc |-> "create", participants |-> ps] \in SendingState
  /\ \A u \in Profile, c \in Conversation, s \in SUBSET Profile :
       [pc |-> "commit", by |-> u, to |-> c, shown |-> s] \in SendingState
  BY DEF SendingState

\* Goto moves one handler.
LEMMA GotoMoves ==
  ASSUME DialogTypeOK, NEW h \in Handler, NEW l \in SendingState, Chats!Goto(h, l)
  PROVE  /\ sending' \in [Handler -> SendingState]
         /\ sending'[h] = l
         /\ \A g \in Handler \ {h} : sending'[g] = sending[g]
  BY DEF DialogTypeOK, Chats!Goto

\* A handler that goes elsewhere than to a creation leaves what is said of creations.
LEMMA NoNewMaker ==
  ASSUME DialogTypeOK, OneEach, NEW h \in Handler, NEW l \in SendingState, Chats!Goto(h, l),
         l.pc # "create", raced \subseteq raced', UNCHANGED between
  PROVE  OneEach'
<1>1. \A ps : Chats!MakesOne(ps)' \subseteq Chats!MakesOne(ps)
  BY GotoMoves DEF Chats!MakesOne
<1> QED
  BY <1>1 DEF OneEach

\* A handler that goes elsewhere than to a commit leaves what is said of messages.
LEMMA NoNewSender ==
  ASSUME DialogTypeOK, NEW c \in Conversation, SendsInTurn(c),
         NEW h \in Handler, NEW l \in SendingState, Chats!Goto(h, l), l.pc # "commit",
         hidden'[c] \subseteq hidden[c],
         hidden'[c] \cap knew[c] \subseteq knew'[c]
  PROVE  SendsInTurn(c)'
<1>1. /\ Chats!Sending(c)' \subseteq Chats!Sending(c)
      /\ \A g \in Chats!Sending(c)' : sending'[g] = sending[g]
  BY GotoMoves DEF Chats!Sending
<1> QED
  BY <1>1 DEF SendsInTurn

LEMMA IdleHolds ==
  /\ Chats!Idle \in SendingState /\ Chats!Idle.pc # "create" /\ Chats!Idle.pc # "commit"
  BY Shapes DEF Chats!Idle
-----------------------------------------------------------------------------
(* Each action keeps the invariant.                                          *)

LEMMA InitDialogInv == Chats!Init => DialogInv
<1> SUFFICES ASSUME Chats!Init PROVE DialogInv
  OBVIOUS
<1>1. DialogTypeOK
  BY Shapes DEF Chats!Init, DialogTypeOK
<1>2. OneEach
  <2>1. \A ps : Chats!MakesOne(ps) = {}
    BY DEF Chats!Init, Chats!MakesOne, Chats!Idle
  <2> QED
    BY <2>1 DEF Chats!Init, OneEach
<1>3. \A c \in Conversation : HiddenIsKnown(c) /\ SendsInTurn(c)
  BY DEF Chats!Init, HiddenIsKnown, SendsInTurn, Chats!Sending, Chats!Idle
<1> QED
  BY <1>1, <1>2, <1>3 DEF DialogInv

\* Two requests that find nothing at once are noted.
LEMMA FindOrCreateInv ==
  ASSUME DialogInv, NEW h \in Handler, NEW u \in Profile, NEW v \in Profile, Chats!FindOrCreate(h, u, v)
  PROVE  DialogInv'
<1> DEFINE ps == {u, v}
           make == [pc |-> "create", participants |-> ps]
<1>1. ps \in SUBSET Profile /\ ps # {} /\ raced \subseteq raced' /\ raced' \subseteq SUBSET Profile
  BY DEF Chats!FindOrCreate, DialogInv, DialogTypeOK
<1>2. \E l \in SendingState :
        /\ Chats!Goto(h, l) /\ l.pc # "commit"
        /\ l.pc # "create" \/ (l = make /\ Chats!Found(u, ps) = {})
  <2>1. ASSUME NEW c \in Chats!Found(u, ps), Chats!Goto(h, [pc |-> "unhide", by |-> u, to |-> c])
        PROVE  [pc |-> "unhide", by |-> u, to |-> c] \in SendingState
    BY Shapes DEF Chats!Found
  <2>2. make \in SendingState
    BY <1>1, Shapes
  <2> QED
    BY <2>1, <2>2 DEF Chats!FindOrCreate
<1>3. PICK l \in SendingState :
        /\ Chats!Goto(h, l) /\ l.pc # "commit"
        /\ l.pc # "create" \/ (l = make /\ Chats!Found(u, ps) = {})
  BY <1>2
<1>4. UNCHANGED <<between, hidden, unread, knew>>
  BY DEF Chats!FindOrCreate
<1>5. DialogTypeOK'
  BY <1>1, <1>3, <1>4, GotoMoves DEF DialogInv, DialogTypeOK
<1>6. \A c \in Conversation : HiddenIsKnown(c)' /\ SendsInTurn(c)'
  BY <1>3, <1>4, NoNewSender DEF DialogInv, HiddenIsKnown
<1>7. OneEach'
  <2>1. CASE l.pc # "create"
    BY <1>1, <1>3, <1>4, <2>1, NoNewMaker DEF DialogInv
  <2>2. CASE l = make /\ Chats!Found(u, ps) = {}
    <3>1. ASSUME NEW qs \in (SUBSET Profile) \ (raced' \cup {{}})
          PROVE  /\ \A c, d \in Conversation : between[c] = qs /\ between[d] = qs => c = d
                 /\ \A f, g \in Chats!MakesOne(qs)' : f = g
                 /\ Chats!MakesOne(qs)' # {} => \A c \in Conversation : between[c] # qs
      <4>1. qs \in (SUBSET Profile) \ (raced \cup {{}})
        BY <1>1, <3>1
      <4>2. CASE qs # ps
        <5>1. Chats!MakesOne(qs)' \subseteq Chats!MakesOne(qs)
          BY <1>3, <2>2, <4>2, GotoMoves DEF Chats!MakesOne, DialogInv
        <5> QED
          BY <4>1, <5>1 DEF DialogInv, OneEach
      <4>3. CASE qs = ps
        <5>0. Chats!MakesOne(ps) # {} => ps \in raced'
          BY DEF Chats!FindOrCreate
        <5>1. Chats!MakesOne(qs) = {}
          BY <3>1, <4>3, <5>0
        <5>2. Chats!MakesOne(qs)' \subseteq {h}
          BY <1>3, <5>1, GotoMoves DEF Chats!MakesOne, DialogInv
        <5>3. \A c \in Conversation : between[c] # qs
          BY <2>2, <4>3 DEF Chats!Found
        <5> QED
          BY <4>1, <5>2, <5>3 DEF DialogInv, OneEach
      <4> QED
        BY <4>2, <4>3
    <3> QED
      BY <1>4, <3>1 DEF OneEach
  <2> QED
    BY <1>3, <2>1, <2>2
<1> QED
  BY <1>5, <1>6, <1>7 DEF DialogInv

\* A dialog that is found is shown to who looked for it.
LEMMA UnhideInv ==
  ASSUME DialogInv, NEW h \in Handler, Chats!Unhide(h)
  PROVE  DialogInv'
<1> DEFINE c == sending[h].to
           u == sending[h].by
<1>1. c \in Conversation /\ u \in Profile
  BY ShapeByPc DEF Chats!Unhide, DialogInv, DialogTypeOK
<1>2. /\ hidden' = [hidden EXCEPT ![c] = @ \ {u}] /\ knew' = [knew EXCEPT ![c] = @ \ {u}]
      /\ Chats!Goto(h, Chats!Idle) /\ UNCHANGED <<between, unread, raced>>
  BY DEF Chats!Unhide, Chats!Done
<1> HIDE DEF c, u
<1>3. \A d \in Conversation :
        /\ hidden'[d] = IF d = c THEN hidden[c] \ {u} ELSE hidden[d]
        /\ knew'[d] = IF d = c THEN knew[c] \ {u} ELSE knew[d]
  BY <1>1, <1>2 DEF DialogInv, DialogTypeOK
<1>4. DialogTypeOK'
  BY <1>1, <1>2, IdleHolds, GotoMoves DEF DialogInv, DialogTypeOK
<1>5. OneEach'
  BY <1>2, IdleHolds, NoNewMaker DEF DialogInv
<1>6. ASSUME NEW d \in Conversation PROVE HiddenIsKnown(d)' /\ SendsInTurn(d)'
  <2>1. HiddenIsKnown(d) /\ SendsInTurn(d)
    BY DEF DialogInv
  <2>2. HiddenIsKnown(d)'
    BY <1>2, <1>3, <2>1 DEF HiddenIsKnown
  <2>3. SendsInTurn(d)'
    BY <1>2, <1>3, <2>1, IdleHolds, NoNewSender DEF DialogInv
  <2> QED
    BY <2>2, <2>3
<1> QED
  BY <1>4, <1>5, <1>6 DEF DialogInv

\* The dialog that is made has nothing in it.
LEMMA CreateInv ==
  ASSUME DialogInv, NEW h \in Handler, Chats!Create(h)
  PROVE  DialogInv'
<1> DEFINE ps == sending[h].participants
<1>1. PICK c \in Conversation : between[c] = {} /\ between' = [between EXCEPT ![c] = ps]
  BY DEF Chats!Create
<1>2. /\ ps \in SUBSET Profile /\ ps # {} /\ h \in Chats!MakesOne(ps)
      /\ Chats!Goto(h, Chats!Idle) /\ UNCHANGED <<hidden, unread, knew, raced>>
  BY ShapeByPc DEF Chats!Create, Chats!Done, Chats!MakesOne, DialogInv, DialogTypeOK
<1> HIDE DEF ps
<1>3. between'[c] = ps /\ \A d \in Conversation \ {c} : between'[d] = between[d]
  BY <1>1 DEF DialogInv, DialogTypeOK
<1>4. DialogTypeOK'
  BY <1>1, <1>2, IdleHolds, GotoMoves DEF DialogInv, DialogTypeOK
<1>5. ASSUME NEW d \in Conversation PROVE HiddenIsKnown(d)' /\ SendsInTurn(d)'
  <2>1. HiddenIsKnown(d) /\ SendsInTurn(d)
    BY DEF DialogInv
  <2>2. HiddenIsKnown(d)'
    BY <1>1, <1>2, <1>3, <2>1 DEF HiddenIsKnown
  <2>3. SendsInTurn(d)'
    BY <1>2, <2>1, IdleHolds, NoNewSender DEF DialogInv
  <2> QED
    BY <2>2, <2>3
<1>6. OneEach'
  <2> SUFFICES ASSUME NEW qs \in (SUBSET Profile) \ (raced \cup {{}})
               PROVE  /\ \A a, b \in Conversation : between'[a] = qs /\ between'[b] = qs => a = b
                      /\ \A f, g \in Chats!MakesOne(qs)' : f = g
                      /\ Chats!MakesOne(qs)' # {} => \A a \in Conversation : between'[a] # qs
    BY <1>2 DEF OneEach
  <2>1. /\ \A a, b \in Conversation : between[a] = qs /\ between[b] = qs => a = b
        /\ \A f, g \in Chats!MakesOne(qs) : f = g
        /\ Chats!MakesOne(qs) # {} => \A a \in Conversation : between[a] # qs
    BY DEF DialogInv, OneEach
  <2>2. Chats!MakesOne(qs)' \subseteq Chats!MakesOne(qs) \ {h}
    BY <1>2, IdleHolds, GotoMoves DEF Chats!MakesOne, DialogInv
  <2>3. CASE qs = ps
    <3>1. Chats!MakesOne(qs)' = {}
      BY <1>2, <2>1, <2>2, <2>3
    <3>2. \A a \in Conversation \ {c} : between'[a] # qs
      BY <1>2, <1>3, <2>1, <2>3
    <3> QED
      BY <3>1, <3>2
  <2>4. CASE qs # ps
    BY <1>3, <2>1, <2>2, <2>4
  <2> QED
    BY <2>3, <2>4
<1> QED
  BY <1>4, <1>5, <1>6 DEF DialogInv

\* Hiding is knowing when a message is unread or under way.
LEMMA HideConversationInv ==
  ASSUME DialogInv, NEW u \in Profile, NEW c \in Conversation, Chats!HideConversation(u, c)
  PROVE  DialogInv'
<1>1. UNCHANGED <<between, unread, raced, sending>>
  BY DEF Chats!HideConversation
<1>2. \A d \in Conversation :
        /\ hidden'[d] = IF d = c THEN hidden[c] \cup {u} ELSE hidden[d]
        /\ knew'[d] = IF d = c
                      THEN IF u \in unread[c] \/ Chats!Sending(c) # {}
                           THEN knew[c] \cup {u} ELSE knew[c] \ {u}
                      ELSE knew[d]
  BY DEF Chats!HideConversation, DialogInv, DialogTypeOK
<1>3. DialogTypeOK'
  BY <1>1 DEF Chats!HideConversation, DialogInv, DialogTypeOK
<1>4. OneEach'
  BY <1>1 DEF DialogInv, OneEach, Chats!MakesOne
<1>5. ASSUME NEW d \in Conversation PROVE HiddenIsKnown(d)' /\ SendsInTurn(d)'
  <2>1. HiddenIsKnown(d) /\ SendsInTurn(d)
    BY DEF DialogInv
  <2>2. HiddenIsKnown(d)'
    BY <1>1, <1>2, <2>1 DEF HiddenIsKnown
  <2>3. Chats!Sending(d)' = Chats!Sending(d)
    BY <1>1 DEF Chats!Sending
  <2>4. SendsInTurn(d)'
    BY <1>1, <1>2, <2>1, <2>3 DEF SendsInTurn
  <2> QED
    BY <2>2, <2>4
<1> QED
  BY <1>3, <1>4, <1>5 DEF DialogInv

\* Reading takes from what is unread.
LEMMA ListMessagesInv ==
  ASSUME DialogInv, NEW u \in Profile, NEW c \in Conversation, Chats!ListMessages(u, c)
  PROVE  DialogInv'
<1>1. UNCHANGED <<between, hidden, knew, raced, sending>>
      /\ \A d \in Conversation : unread'[d] \subseteq unread[d]
  BY DEF Chats!ListMessages, DialogInv, DialogTypeOK
<1>2. DialogTypeOK'
  BY <1>1 DEF Chats!ListMessages, DialogInv, DialogTypeOK
<1>3. OneEach'
  BY <1>1 DEF DialogInv, OneEach, Chats!MakesOne
<1>4. \A d \in Conversation : HiddenIsKnown(d)' /\ SendsInTurn(d)'
  BY <1>1 DEF DialogInv, HiddenIsKnown, SendsInTurn, Chats!Sending
<1> QED
  BY <1>2, <1>3, <1>4 DEF DialogInv

\* A handler that moves and writes nothing, and neither makes a dialog nor commits.
LEMMA QuietStep ==
  ASSUME DialogInv, NEW h \in Handler, NEW l \in SendingState, Chats!Goto(h, l),
         l.pc # "create", l.pc # "commit",
         UNCHANGED <<between, hidden, unread, knew, raced>>
  PROVE  DialogInv'
<1>1. DialogTypeOK'
  BY GotoMoves DEF DialogInv, DialogTypeOK
<1>2. OneEach'
  BY NoNewMaker DEF DialogInv
<1>3. \A c \in Conversation : HiddenIsKnown(c)' /\ SendsInTurn(c)'
  BY NoNewSender DEF DialogInv, HiddenIsKnown
<1> QED
  BY <1>1, <1>2, <1>3 DEF DialogInv

\* The transaction shows the dialog to whoever has it hidden then.
LEMMA ShowConversationInv ==
  ASSUME DialogInv, NEW h \in Handler, Chats!ShowConversation(h)
  PROVE  DialogInv'
<1> DEFINE c == sending[h].to
           l == [pc |-> "commit", by |-> sending[h].by, to |-> c, shown |-> hidden[c]]
<1>1. c \in Conversation /\ sending[h].by \in Profile
  BY ShapeByPc DEF Chats!ShowConversation, DialogInv, DialogTypeOK
<1>2. l \in SendingState
  BY <1>1, Shapes DEF DialogInv, DialogTypeOK
<1>3. /\ Chats!Goto(h, l) /\ Chats!Sending(c) = {} /\ sending[h].pc = "show"
      /\ UNCHANGED <<between, hidden, unread, knew, raced>>
  BY DEF Chats!ShowConversation, Chats!ShowsTo
<1>4. l.pc = "commit" /\ l.to = c /\ l.shown = hidden[c]
  OBVIOUS
<1> HIDE DEF l, c
<1>5. /\ sending' \in [Handler -> SendingState] /\ sending'[h] = l
      /\ \A g \in Handler \ {h} : sending'[g] = sending[g]
  BY <1>2, <1>3, GotoMoves DEF DialogInv
<1>6. DialogTypeOK'
  BY <1>3, <1>5 DEF DialogInv, DialogTypeOK
<1>7. OneEach'
  BY <1>2, <1>3, <1>4, NoNewMaker DEF DialogInv
<1>8. ASSUME NEW d \in Conversation PROVE HiddenIsKnown(d)' /\ SendsInTurn(d)'
  <2>1. HiddenIsKnown(d) /\ SendsInTurn(d)
    BY DEF DialogInv
  <2>2. CASE d = c
    <3>1. Chats!Sending(d)' \subseteq {h}
      BY <1>3, <1>5, <2>2 DEF Chats!Sending
    <3> QED
      BY <1>3, <1>4, <1>5, <2>1, <2>2, <3>1 DEF HiddenIsKnown, SendsInTurn
  <2>3. CASE d # c
    <3>1. Chats!Sending(d)' \subseteq Chats!Sending(d) /\ h \notin Chats!Sending(d)'
      BY <1>4, <1>5, <2>3 DEF Chats!Sending
    <3>2. \A g \in Chats!Sending(d)' : sending'[g] = sending[g]
      BY <1>5, <3>1 DEF Chats!Sending
    <3> QED
      BY <1>3, <2>1, <3>1, <3>2 DEF HiddenIsKnown, SendsInTurn
  <2> QED
    BY <2>2, <2>3
<1> QED
  BY <1>6, <1>7, <1>8 DEF DialogInv

\* With the commit the message is unread by the others, the dialog shown to them.
LEMMA CommitMessageInv ==
  ASSUME DialogInv, NEW h \in Handler, Chats!CommitMessage(h)
  PROVE  DialogInv'
<1> DEFINE c == sending[h].to
           s == sending[h].shown
           u == sending[h].by
<1>1. c \in Conversation /\ s \in SUBSET Profile /\ h \in Chats!Sending(c)
  BY ShapeByPc DEF Chats!CommitMessage, DialogInv, DialogTypeOK, Chats!Sending
<1>2. /\ hidden' = [hidden EXCEPT ![c] = @ \ s] /\ knew' = [knew EXCEPT ![c] = @ \ s]
      /\ unread' = [unread EXCEPT ![c] = @ \cup (between[c] \ {u})]
      /\ Chats!Goto(h, Chats!Idle) /\ UNCHANGED <<between, raced>>
  BY DEF Chats!CommitMessage, Chats!Done
<1>3. hidden[c] \ s \subseteq knew[c] /\ Chats!Sending(c) \subseteq {h}
  BY <1>1 DEF DialogInv, SendsInTurn
<1> HIDE DEF c, s, u
<1>4. \A d \in Conversation :
        /\ hidden'[d] = IF d = c THEN hidden[c] \ s ELSE hidden[d]
        /\ knew'[d] = IF d = c THEN knew[c] \ s ELSE knew[d]
        /\ unread'[d] = IF d = c THEN unread[c] \cup (between[c] \ {u}) ELSE unread[d]
  BY <1>1, <1>2 DEF DialogInv, DialogTypeOK
<1>5. /\ sending' \in [Handler -> SendingState] /\ sending'[h] = Chats!Idle
      /\ \A g \in Handler \ {h} : sending'[g] = sending[g]
  BY <1>2, IdleHolds, GotoMoves DEF DialogInv
<1>6. DialogTypeOK'
  BY <1>1, <1>2, <1>5 DEF DialogInv, DialogTypeOK
<1>7. OneEach'
  BY <1>2, IdleHolds, NoNewMaker DEF DialogInv
<1>8. ASSUME NEW d \in Conversation PROVE HiddenIsKnown(d)' /\ SendsInTurn(d)'
  <2>1. HiddenIsKnown(d) /\ SendsInTurn(d)
    BY DEF DialogInv
  <2>2. HiddenIsKnown(d)'
    BY <1>2, <1>3, <1>4, <2>1 DEF HiddenIsKnown
  <2>3. CASE d = c
    <3>1. Chats!Sending(d)' = {}
      BY <1>3, <1>5, <2>3, IdleHolds DEF Chats!Sending
    <3> QED
      BY <2>2, <3>1 DEF SendsInTurn
  <2>4. CASE d # c
    BY <1>2, <1>4, <2>1, <2>2, <2>4, IdleHolds, NoNewSender DEF DialogInv
  <2> QED
    BY <2>3, <2>4
<1> QED
  BY <1>6, <1>7, <1>8 DEF DialogInv

LEMMA NextDialogInv == DialogInv /\ [Next]_vars => DialogInv'
<1> SUFFICES ASSUME DialogInv, [Next]_vars PROVE DialogInv'
  OBVIOUS
<1>1. CASE UNCHANGED dialogVars
  BY <1>1
  DEF dialogVars, DialogInv, DialogTypeOK, OneEach, HiddenIsKnown, SendsInTurn, Chats!MakesOne, Chats!Sending
<1>2. ASSUME NEW h \in Handler, NEW u \in Profile, NEW c \in Conversation,
             Chats!CreateMessage(h, u, c)
      PROVE  DialogInv'
  BY <1>2, Shapes, QuietStep DEF Chats!CreateMessage
<1>3. ASSUME NEW h \in Handler, Chats!Fail(h) PROVE DialogInv'
  BY <1>3, IdleHolds, QuietStep DEF Chats!Fail, Chats!Done
<1>4. CASE DialogStep
  BY <1>2, <1>3, <1>4, FindOrCreateInv, UnhideInv, CreateInv, ShowConversationInv,
     CommitMessageInv, HideConversationInv, ListMessagesInv
  DEF DialogStep, Chats!Next, Chats!Request, Chats!Continue
<1> QED
  BY <1>1, <1>4
  DEF Next, vars, PostStep, PartnerStep, ScrollStep, TaskStep, PublicationStep, ProfileStep
-----------------------------------------------------------------------------
\* The invariant holds in every reachable state.
THEOREM DialogInvariance == Spec => []DialogInv
<1>1. Init => DialogInv
  BY InitDialogInv DEF Init
<1> QED
  BY <1>1, NextDialogInv, PTL DEF Spec

\* A pair of profiles has one dialog, and a profile one set of notes, unless two
\* requests looked for it at once.
THEOREM PairsHaveOneDialog == Spec => []OneDialogEach
<1>1. DialogInv => OneDialogEach
  <2> SUFFICES ASSUME DialogInv, NEW c \in Conversation, NEW d \in Conversation,
                      between[c] = between[d], between[c] \notin raced \cup {{}}
               PROVE  c = d
    BY DEF OneDialogEach, Chats!OneDialogEach
  <2>1. between[c] \in (SUBSET Profile) \ (raced \cup {{}})
    BY DEF DialogInv, DialogTypeOK
  <2> QED
    BY <2>1 DEF DialogInv, OneEach
<1> QED
  BY DialogInvariance, <1>1, PTL

\* The badge counts every dialog with something unread but those hidden knowingly,
\* however sending, hiding and looking for a dialog overlap.
THEOREM BadgeIsComplete == Spec => []HiddenHasNothingNew
<1>1. DialogInv => HiddenHasNothingNew
  <2>1. ASSUME DialogInv, NEW u \in Profile
        PROVE  {c \in Chats!ListConversations(u) : u \in unread[c]}
                 = {c \in Conversation : u \in unread[c] \ knew[c]}
    BY <2>1 DEF DialogInv, HiddenIsKnown, Chats!ListConversations
  <2> QED
    BY <2>1 DEF HiddenHasNothingNew, Chats!HiddenHasNothingNew, Chats!GetUnreadCount
<1> QED
  BY DialogInvariance, <1>1, PTL
-----------------------------------------------------------------------------
(* The profile, of any number of keys, addresses and requests in flight:     *)
(* what one of them has read is what is stored, but for the columns that     *)
(* somebody wrote since.                                                     *)

Column == {"email", "person"}

\* What is said of a person: some of the keys, and a value for each.
Persons == UNION {[ks -> Value] : ks \in SUBSET Key}

UserRow == [email: Address, confirmed: BOOLEAN, person: Persons]

ProfileTypeOK ==
  /\ profile \in UserRow
  /\ said \in [Key -> Value \cup {None}]
  /\ since \in BOOLEAN
  /\ updating \in [Handler -> {Self!Idle}
                     \cup [pc: {"update", "confirm"}, read: UserRow, stale: SUBSET Column]]

\* A column nobody wrote since the request has read it is as it was read.
ReadIsStored(l) ==
  l # Self!Idle => /\ "email" \in l.stale \/ l.read.email = profile.email
                   /\ "person" \in l.stale \/ l.read.person = profile.person

ProfileInv ==
  /\ ProfileTypeOK
  /\ UpdatesAddUp
  /\ \A h \in Handler : ReadIsStored(updating[h])

\* What is left of the keys that were said is a person.
SaidPerson(s) == [k \in {j \in Key : s[j] # None} |-> s[k]]

LEMMA PersonsAre ==
  ASSUME NEW f
  PROVE  f \in Persons <=> /\ f = [k \in DOMAIN f |-> f[k]]
                           /\ DOMAIN f \subseteq Key
                           /\ \A k \in DOMAIN f : f[k] \in Value
  BY DEF Persons

\* An update that names some keys, or none at all.
LEMMA PatchIs ==
  ASSUME NEW f \in Self!Patch
  PROVE  DOMAIN f \subseteq Key /\ \A k \in DOMAIN f : f[k] \in Value \cup {None}
  BY DEF Self!Patch

\* Merging leaves a person, and drops the keys that are null.
LEMMA MergedPersons ==
  ASSUME NEW person \in Persons, NEW incoming \in Self!Patch
  PROVE  Self!MergePerson(person, incoming) \in Persons
<1> DEFINE m == Self!MergePerson(person, incoming)
<1>1. m = [k \in DOMAIN m |-> m[k]] /\ DOMAIN m \subseteq Key
  BY PersonsAre, PatchIs DEF Self!MergePerson
<1>2. ASSUME NEW k \in DOMAIN m PROVE m[k] \in Value
  <2>1. m[k] = (IF k \in DOMAIN incoming THEN incoming[k] ELSE person[k]) /\ m[k] # None
        /\ k \in DOMAIN person \cup DOMAIN incoming
    BY <1>2 DEF Self!MergePerson
  <2> HIDE DEF m
  <2> QED
    BY <2>1, PersonsAre, PatchIs
<1> HIDE DEF m
<1> QED
  BY <1>1, <1>2, PersonsAre DEF m

\* Merging what is said into what was said is what has been said after it.
LEMMA MergedSaid ==
  ASSUME NEW s \in [Key -> Value \cup {None}], NEW incoming \in Self!Patch
  PROVE  Self!MergePerson(SaidPerson(s), incoming)
           = SaidPerson([k \in Key |-> IF k \in DOMAIN incoming THEN incoming[k] ELSE s[k]])
<1> DEFINE old == SaidPerson(s)
           t == [k \in Key |-> IF k \in DOMAIN incoming THEN incoming[k] ELSE s[k]]
           merged(k) == IF k \in DOMAIN incoming THEN incoming[k] ELSE old[k]
<1>1. DOMAIN incoming \subseteq Key
  BY PatchIs
<1>2. DOMAIN old = {j \in Key : s[j] # None} /\ \A k \in DOMAIN old : old[k] = s[k]
  BY DEF SaidPerson
<1> HIDE DEF old
<1>3. \A k \in DOMAIN old \cup DOMAIN incoming : k \in Key /\ merged(k) = t[k]
  BY <1>1, <1>2
<1>4. \A k \in Key \ (DOMAIN old \cup DOMAIN incoming) : t[k] = None
  BY <1>2
<1>5. {j \in DOMAIN old \cup DOMAIN incoming : merged(j) # None} = {j \in Key : t[j] # None}
  BY <1>3, <1>4
<1>6. \A k \in {j \in Key : t[j] # None} : merged(k) = t[k]
  BY <1>3, <1>5
<1> HIDE DEF merged, t
<1>7. [k \in {j \in DOMAIN old \cup DOMAIN incoming : merged(j) # None} |-> merged(k)]
        = [k \in {j \in Key : t[j] # None} |-> t[k]]
  BY <1>5, <1>6
<1> QED
  BY <1>7 DEF SaidPerson, Self!MergePerson, merged, t, old

\* A request that looks has read what is stored.
LEMMA LookInv ==
  ASSUME ProfileInv, NEW h \in Handler, NEW pc \in {"update", "confirm"}, Self!Look(h, pc)
  PROVE  ProfileInv'
<1> DEFINE l == [pc |-> pc, read |-> profile, stale |-> {}]
<1>1. /\ updating' = [updating EXCEPT ![h] = l]
      /\ UNCHANGED <<profile, issued, said, since, racing>>
  BY DEF Self!Look
<1>2. l \in [pc: {"update", "confirm"}, read: UserRow, stale: SUBSET Column]
      /\ l.read = profile
  BY DEF ProfileInv, ProfileTypeOK
<1> HIDE DEF l
<1>3. ProfileTypeOK'
  BY <1>1, <1>2 DEF ProfileInv, ProfileTypeOK
<1>4. UpdatesAddUp'
  BY <1>1 DEF ProfileInv, UpdatesAddUp, Self!UpdatesAddUp
<1>5. \A g \in Handler : ReadIsStored(updating[g])'
  BY <1>1, <1>2 DEF ProfileInv, ProfileTypeOK, ReadIsStored
<1> QED
  BY <1>3, <1>4, <1>5 DEF ProfileInv

\* A request that ends has written no other columns than those it leaves stale.
LEMMA DoneKeeps ==
  ASSUME ProfileInv, NEW h \in Handler, NEW columns \in SUBSET Column,
         Self!Done(h, columns),
         "email" \in columns \/ profile'.email = profile.email,
         "person" \in columns \/ profile'.person = profile.person
  PROVE  /\ updating' \in [Handler -> {Self!Idle}
              \cup [pc: {"update", "confirm"}, read: UserRow, stale: SUBSET Column]]
         /\ \A g \in Handler : ReadIsStored(updating[g])'
<1> DEFINE Local == [pc: {"update", "confirm"}, read: UserRow, stale: SUBSET Column]
<1>1. ASSUME NEW g \in Handler
      PROVE  updating'[g] \in {Self!Idle} \cup Local /\ ReadIsStored(updating[g])'
  <2>1. CASE g = h \/ updating[g] = Self!Idle
    BY <2>1 DEF Self!Done, ReadIsStored
  <2>2. CASE g # h /\ updating[g] # Self!Idle
    <3> DEFINE l == [updating[g] EXCEPT !.stale = @ \cup columns]
    <3>1. updating[g] \in Local /\ updating'[g] = l
      BY <2>2 DEF Self!Done, ProfileInv, ProfileTypeOK
    <3>2. l \in Local /\ l.read = updating[g].read /\ l.stale = updating[g].stale \cup columns
      BY <3>1
    <3>3. ReadIsStored(updating[g])
      BY DEF ProfileInv
    <3> HIDE DEF l
    <3> QED
      BY <2>2, <3>1, <3>2, <3>3 DEF ReadIsStored
  <2> QED
    BY <2>1, <2>2
<1>2. updating' = [g \in Handler |-> updating'[g]]
  BY DEF Self!Done
<1> QED
  BY <1>1, <1>2

\* Confirming names no address: it is the present one, unless somebody wrote another.
LEMMA WriteConfirmedInv ==
  ASSUME ProfileInv, NEW h \in Handler, Self!WriteConfirmed(h)
  PROVE  ProfileInv'
<1>1. profile' \in UserRow /\ profile'.email = profile.email /\ profile'.person = profile.person
  BY DEF Self!WriteConfirmed, ProfileInv, ProfileTypeOK, UserRow
<1>2. since' \in BOOLEAN /\ said' = said
      /\ (since' \/ "email" \in racing') /\ racing \subseteq racing'
      /\ ("person" \in racing' => "person" \in racing)
  BY DEF Self!WriteConfirmed, ProfileInv, ProfileTypeOK
<1>3. UpdatesAddUp'
  BY <1>1, <1>2 DEF ProfileInv, UpdatesAddUp, Self!UpdatesAddUp
<1>4. /\ updating' \in [Handler -> {Self!Idle}
            \cup [pc: {"update", "confirm"}, read: UserRow, stale: SUBSET Column]]
      /\ \A g \in Handler : ReadIsStored(updating[g])'
  BY <1>1, DoneKeeps DEF Self!WriteConfirmed
<1> QED
  BY <1>1, <1>2, <1>3, <1>4 DEF ProfileInv, ProfileTypeOK

\* An update compares and merges with what it has read.
LEMMA WriteUserInv ==
  ASSUME ProfileInv, NEW h \in Handler, NEW email \in Address \cup {NotGiven},
         NEW incoming \in Self!Patch \cup {None, NotGiven},
         Self!WriteUser(h, email, incoming)
  PROVE  ProfileInv'
<1> DEFINE read == updating[h].read
           changed == Self!EmailChanged(read, email)
           address == IF email = NotGiven THEN profile.email ELSE email
           columns == (IF email = NotGiven THEN {} ELSE {"email"})
                        \cup (IF incoming = NotGiven THEN {} ELSE {"person"})
           settled == (IF changed THEN {"email"} ELSE {})
                        \cup (IF incoming = None THEN {"person"} ELSE {})
<1>1. /\ profile' = [email |-> address, confirmed |-> profile.confirmed /\ ~changed,
                     person |-> Self!PersonAfter(read, incoming)]
      /\ said' = Self!SaidAfter(incoming)
      /\ since' = (since /\ address = profile.email)
      /\ racing' = (racing \cup (columns \cap updating[h].stale)) \ settled
      /\ Self!Done(h, columns)
      /\ updating[h].pc = "update"
  BY DEF Self!WriteUser
<1>2. /\ read \in UserRow /\ ReadIsStored(updating[h]) /\ updating[h] # Self!Idle
      /\ profile \in UserRow /\ said \in [Key -> Value \cup {None}]
  BY <1>1 DEF ProfileInv, ProfileTypeOK, Self!Idle
<1>3. /\ "email" \in updating[h].stale \/ read.email = profile.email
      /\ "person" \in updating[h].stale \/ read.person = profile.person
  BY <1>2 DEF ReadIsStored
<1>4. Self!PersonAfter(read, incoming) \in Persons /\ said' \in [Key -> Value \cup {None}]
  <2>1. CASE incoming = NotGiven
    BY <1>1, <1>2, <2>1, NotGivenAssumption DEF Self!PersonAfter, Self!SaidAfter, UserRow
  <2>2. CASE incoming # NotGiven /\ incoming = None
    <3>1. Self!PersonAfter(read, incoming) = Self!Nobody
          /\ Self!SaidAfter(incoming) = [k \in Key |-> None]
      BY <2>2 DEF Self!PersonAfter, Self!SaidAfter
    <3>2. Self!Nobody \in Persons
      BY PersonsAre DEF Self!Nobody
    <3> QED
      BY <1>1, <3>1, <3>2
  <2>3. CASE incoming \notin {NotGiven, None}
    <3>1. /\ Self!PersonAfter(read, incoming) = Self!MergePerson(read.person, incoming)
          /\ Self!SaidAfter(incoming)
               = [k \in Key |-> IF k \in DOMAIN incoming THEN incoming[k] ELSE said[k]]
          /\ incoming \in Self!Patch
      BY <2>3 DEF Self!PersonAfter, Self!SaidAfter
    <3>2. read.person \in Persons
      BY <1>2 DEF UserRow
    <3> QED
      BY <1>1, <1>2, <3>1, <3>2, MergedPersons, PatchIs
  <2> QED
    BY <2>1, <2>2, <2>3
<1>5. /\ profile' \in UserRow /\ profile'.email = address
      /\ profile'.confirmed = (profile.confirmed /\ ~changed)
      /\ profile'.person = Self!PersonAfter(read, incoming)
  <2>1. address \in Address /\ (profile.confirmed /\ ~changed) \in BOOLEAN
    BY <1>2 DEF UserRow
  <2> QED
    BY <1>1, <1>4, <2>1 DEF UserRow
<1>6. profile'.confirmed => since' \/ "email" \in racing'
  <2> SUFFICES ASSUME profile.confirmed, ~changed, "email" \notin racing'
               PROVE  since'
    BY <1>5
  <2>1. "email" \notin racing /\ "email" \notin columns \cap updating[h].stale
    BY <1>1
  <2>2. since
    BY <2>1 DEF ProfileInv, UpdatesAddUp, Self!UpdatesAddUp
  <2>3. address = profile.email
    BY <1>3, <2>1 DEF Self!EmailChanged
  <2> QED
    BY <1>1, <2>2, <2>3
<1>7. "person" \in racing' \/ profile'.person = SaidPerson(said')
  <2> SUFFICES ASSUME "person" \notin racing' PROVE profile'.person = SaidPerson(said')
    OBVIOUS
  <2>0. "person" \in racing \/ profile.person = SaidPerson(said)
    BY DEF ProfileInv, UpdatesAddUp, Self!UpdatesAddUp, SaidPerson
  <2>1. CASE incoming = NotGiven
    <3>1. "person" \notin racing \/ incoming = None
      BY <1>1
    <3>2. profile'.person = profile.person /\ said' = said
      BY <1>1, <1>5, <2>1, NotGivenAssumption DEF Self!PersonAfter, Self!SaidAfter
    <3>3. incoming # None
      BY <2>1, NotGivenAssumption
    <3> QED
      BY <2>0, <3>1, <3>2, <3>3
  <2>2. CASE incoming # NotGiven /\ incoming = None
    <3>1. profile'.person = Self!Nobody /\ said' = [k \in Key |-> None]
      BY <1>1, <1>5, <2>2 DEF Self!PersonAfter, Self!SaidAfter
    <3>2. {j \in Key : said'[j] # None} = {}
      BY <3>1
    <3> QED
      BY <3>1, <3>2 DEF SaidPerson, Self!Nobody
  <2>3. CASE incoming \notin {NotGiven, None}
    <3>1. "person" \notin racing /\ "person" \notin updating[h].stale
      BY <1>1, <2>3
    <3>2. read.person = SaidPerson(said)
      BY <1>3, <2>0, <3>1
    <3>3. /\ profile'.person = Self!MergePerson(read.person, incoming)
          /\ said' = [k \in Key |-> IF k \in DOMAIN incoming THEN incoming[k] ELSE said[k]]
          /\ incoming \in Self!Patch
      BY <1>1, <1>5, <2>3 DEF Self!PersonAfter, Self!SaidAfter
    <3> QED
      BY <1>2, <3>2, <3>3, MergedSaid
  <2> QED
    BY <2>1, <2>2, <2>3
<1>8. /\ updating' \in [Handler -> {Self!Idle}
            \cup [pc: {"update", "confirm"}, read: UserRow, stale: SUBSET Column]]
      /\ \A g \in Handler : ReadIsStored(updating[g])'
  <2>1. columns \in SUBSET Column
    BY DEF Column
  <2>2. "email" \in columns \/ profile'.email = profile.email
    BY <1>5
  <2>3. "person" \in columns \/ profile'.person = profile.person
    BY <1>5, NotGivenAssumption DEF Self!PersonAfter
  <2> HIDE DEF columns
  <2> QED
    BY <1>1, <2>1, <2>2, <2>3, DoneKeeps
<1>9. since' \in BOOLEAN
  BY <1>1, <1>2 DEF ProfileInv, ProfileTypeOK
<1>10. UpdatesAddUp'
  BY <1>6, <1>7 DEF UpdatesAddUp, Self!UpdatesAddUp, SaidPerson
<1> QED
  BY <1>4, <1>5, <1>8, <1>9, <1>10 DEF ProfileInv, ProfileTypeOK

\* A new profile has no person, and nothing was said of it.
LEMMA InitProfileInv == Self!Init => ProfileInv
<1> SUFFICES ASSUME Self!Init PROVE ProfileInv
  OBVIOUS
<1>1. Self!Nobody \in Persons
  BY PersonsAre DEF Self!Nobody
<1>2. ProfileTypeOK
  BY <1>1 DEF Self!Init, ProfileTypeOK, UserRow
<1>3. profile.person = [k \in {j \in Key : said[j] # None} |-> said[k]] /\ ~profile.confirmed
  <2>1. {j \in Key : said[j] # None} = {}
    BY DEF Self!Init
  <2> QED
    BY <2>1 DEF Self!Init, Self!Nobody
<1>4. \A h \in Handler : ReadIsStored(updating[h])
  BY DEF Self!Init, ReadIsStored
<1> QED
  BY <1>2, <1>3, <1>4 DEF ProfileInv, UpdatesAddUp, Self!UpdatesAddUp

LEMMA NextProfileInv == ProfileInv /\ [Next]_vars => ProfileInv'
<1> SUFFICES ASSUME ProfileInv, [Next]_vars PROVE ProfileInv'
  OBVIOUS
<1>1. CASE UNCHANGED <<profile, said, since, racing, updating>>
  BY <1>1 DEF ProfileInv, ProfileTypeOK, ReadIsStored, UpdatesAddUp, Self!UpdatesAddUp
<1>2. CASE UNCHANGED profileVars
  BY <1>1, <1>2 DEF profileVars
<1>3. CASE ProfileStep
  BY <1>1, <1>3, LookInv, WriteConfirmedInv, WriteUserInv
  DEF ProfileStep, Self!Next, Self!SendConfirmEmail, Self!TokensExpire, Self!Update,
      Self!ConfirmEmail
<1> QED
  BY <1>2, <1>3
  DEF Next, vars, PostStep, PartnerStep, DialogStep, ScrollStep, TaskStep, PublicationStep

\* However updates and confirmations overlap: a profile is confirmed only by a token
\* used since its address changed, and a person is what was last said of each key,
\* unless somebody wrote the column between the look and the write of another.
THEOREM ProfileAddsUp == Spec => []UpdatesAddUp
<1>1. Init => ProfileInv
  BY InitProfileInv DEF Init
<1>2. ProfileInv => UpdatesAddUp
  BY DEF ProfileInv
<1> QED
  BY <1>1, <1>2, NextProfileInv, PTL DEF Spec
-----------------------------------------------------------------------------
(* The posts of others and what is saved of them, for any number of posts,   *)
(* profiles, groups and requests in flight: a favorite is in a group of its  *)
(* owner's, whatever became of group and post since they were looked up.     *)

OwnGroup == Group \cup {Ungrouped}

FavoriteRow == [id: Nat \ {0}, group: OwnGroup] \cup {Posts!NoFavorite}

\* A request that has looked has a group of the viewer's own, or none.
SavingState ==
  {Posts!Idle}
    \cup [pc: {"look"}, post: Posts!Post, group: OwnGroup]
    \cup [pc: {"upsert"}, post: Posts!Post \cup Person, group: OwnGroup]
    \cup [pc: {"lookAtGroup"}, post: Posts!Post, group: OwnGroup \cup Stranger, id: Nat \ {0}]
    \cup [pc: {"move"}, post: Posts!Post, group: OwnGroup, id: Nat \ {0}]
    \cup [pc: {"remove"}, post: Posts!Post \cup Person, id: Nat \ {0}]

ShowcaseTypeOK ==
  /\ role \in Posts!Role
  /\ roleOf \in [Person -> Posts!Role]
  /\ post \in [Posts!Post -> Posts!PostRow \cup {Posts!Gone}]
  /\ group \subseteq Group \cup Stranger
  /\ favorite \in [Posts!Post \cup Person -> FavoriteRow]
  /\ saved \in Nat
  /\ saving \in [Handler -> SavingState]

\* A manager has no posts, and a trader those of his own kind.
MineAreMine ==
  \A p \in Mine : post[p] # Posts!Gone => post[p].type = role /\ role # "MANAGER"

\* A post that is saved is of the kind the viewer sees.
Seen(p) == post[p] # Posts!Gone => post[p].type \in Posts!VisibleTypes

\* What may be saved: it was seen, and a profile is in no group.
SavedAs(i, g) ==
  /\ i \in Theirs => Seen(i)
  /\ i \in Person => g = Ungrouped /\ Posts!CanSave(i)

IsKept(i, f) ==
  f # Posts!NoFavorite =>
    /\ f.group \in (group \ Stranger) \cup {Ungrouped}
    /\ SavedAs(i, f.group)
    /\ i \in Posts!Post => post[i] # Posts!Gone

MaySave(l) == l.pc = "upsert" => SavedAs(l.post, l.group)

ShowcaseInv ==
  /\ ShowcaseTypeOK
  /\ MineAreMine
  /\ \A i \in Posts!Post \cup Person : IsKept(i, favorite[i])
  /\ \A h \in Handler : MaySave(saving[h])

\* The shapes of a request's local state.
LEMMA SavingShapes ==
  /\ Posts!Idle \in SavingState
  /\ \A p \in Posts!Post, g \in OwnGroup :
       [pc |-> "look", post |-> p, group |-> g] \in SavingState
  /\ \A p \in Posts!Post \cup Person, g \in OwnGroup :
       [pc |-> "upsert", post |-> p, group |-> g] \in SavingState
  /\ \A p \in Posts!Post, g \in OwnGroup \cup Stranger, n \in Nat \ {0} :
       [pc |-> "lookAtGroup", post |-> p, group |-> g, id |-> n] \in SavingState
  /\ \A p \in Posts!Post, g \in OwnGroup, n \in Nat \ {0} :
       [pc |-> "move", post |-> p, group |-> g, id |-> n] \in SavingState
  /\ \A p \in Posts!Post \cup Person, n \in Nat \ {0} :
       [pc |-> "remove", post |-> p, id |-> n] \in SavingState
  BY DEF SavingState

LEMMA SavingByPc ==
  ASSUME NEW l \in SavingState
  PROVE  /\ l.pc = "look" =>
              /\ l.post \in Posts!Post /\ l.group \in OwnGroup
              /\ l = [pc |-> "look", post |-> l.post, group |-> l.group]
         /\ l.pc = "upsert" => l.post \in Posts!Post \cup Person /\ l.group \in OwnGroup
         /\ l.pc = "lookAtGroup" =>
              /\ l.post \in Posts!Post /\ l.group \in OwnGroup \cup Stranger
              /\ l.id \in Nat \ {0}
              /\ l = [pc |-> "lookAtGroup", post |-> l.post, group |-> l.group, id |-> l.id]
         /\ l.pc = "move" =>
              l.post \in Posts!Post /\ l.group \in OwnGroup /\ l.id \in Nat \ {0}
         /\ l.pc = "remove" => l.post \in Posts!Post \cup Person /\ l.id \in Nat \ {0}
         /\ l = Posts!Idle <=> l.pc = "idle"
  BY DEF SavingState, Posts!Idle

\* The parts count as every module does.
LEMMA CountsAlike == \A S : Posts!Cardinality(S) = Cardinality(S)
  BY DEF Posts!Cardinality, Cardinality

\* A favorite that is there has an id and a group.
LEMMA FavoriteIs ==
  ASSUME NEW f \in FavoriteRow, f # Posts!NoFavorite
  PROVE  f \in [id: Nat \ {0}, group: OwnGroup] /\ f.id \in Nat \ {0} /\ f.group \in OwnGroup
  BY DEF FavoriteRow

\* A group looked up is the viewer's, and stays it for as long as there is the group.
LEMMA OwnersGroup ==
  ASSUME ShowcaseTypeOK
  PROVE  /\ \A g : Posts!GroupOwner(g) => g \in OwnGroup
         /\ \A g \in OwnGroup :
              Posts!Refers(g) <=> g \in (group \ Stranger) \cup {Ungrouped}
  BY GroupAssumption DEF ShowcaseTypeOK, Posts!GroupOwner, Posts!Refers, OwnGroup

\* A step of one request that writes no row.
LEMMA LookingStep ==
  ASSUME ShowcaseInv, NEW h \in Handler, NEW l \in SavingState, MaySave(l),
         Posts!Goto(h, l),
         UNCHANGED <<role, roleOf, post, group, favorite, saved>>
  PROVE  ShowcaseInv'
<1>1. /\ saving' \in [Handler -> SavingState] /\ saving'[h] = l
      /\ \A g \in Handler \ {h} : saving'[g] = saving[g]
  BY DEF Posts!Goto, ShowcaseInv, ShowcaseTypeOK
<1>2. ShowcaseTypeOK' /\ MineAreMine'
  BY <1>1 DEF ShowcaseInv, ShowcaseTypeOK, MineAreMine
<1>3. \A i \in Posts!Post \cup Person : IsKept(i, favorite[i])'
  BY DEF ShowcaseInv, IsKept, SavedAs, Seen, Posts!VisibleTypes, Posts!CanSave
<1>4. \A g \in Handler : MaySave(saving'[g])
  BY <1>1 DEF ShowcaseInv
<1>5. \A g \in Handler : MaySave(saving[g])'
  BY <1>4 DEF MaySave, SavedAs, Seen, Posts!VisibleTypes, Posts!CanSave
<1> QED
  BY <1>2, <1>3, <1>5 DEF ShowcaseInv

\* A step that ends a request and writes at most one favorite.
LEMMA FavoriteStep ==
  ASSUME ShowcaseInv, NEW h \in Handler, Posts!Done(h),
         NEW i \in Posts!Post \cup Person, NEW f \in FavoriteRow, IsKept(i, f),
         favorite' \in {favorite, [favorite EXCEPT ![i] = f]},
         saved' \in Nat,
         UNCHANGED <<role, roleOf, post, group>>
  PROVE  ShowcaseInv'
<1>1. /\ saving' \in [Handler -> SavingState] /\ saving'[h] = Posts!Idle
      /\ \A g \in Handler \ {h} : saving'[g] = saving[g]
  BY SavingShapes DEF Posts!Done, Posts!Goto, ShowcaseInv, ShowcaseTypeOK
<1>2. /\ favorite' \in [Posts!Post \cup Person -> FavoriteRow]
      /\ \A j \in Posts!Post \cup Person : IsKept(j, favorite'[j])
  BY DEF ShowcaseInv, ShowcaseTypeOK
<1>3. ShowcaseTypeOK' /\ MineAreMine'
  BY <1>1, <1>2 DEF ShowcaseInv, ShowcaseTypeOK, MineAreMine
<1>4. \A j \in Posts!Post \cup Person : IsKept(j, favorite[j])'
  BY <1>2 DEF IsKept, SavedAs, Seen, Posts!VisibleTypes, Posts!CanSave
<1>5. \A g \in Handler : MaySave(saving'[g])
  BY <1>1 DEF ShowcaseInv, MaySave, Posts!Idle
<1>6. \A g \in Handler : MaySave(saving[g])'
  BY <1>5 DEF MaySave, SavedAs, Seen, Posts!VisibleTypes, Posts!CanSave
<1> QED
  BY <1>3, <1>4, <1>6 DEF ShowcaseInv

\* Looking up a post before it is saved.
LEMMA LookAtPostInv ==
  ASSUME ShowcaseInv, NEW h \in Handler, Posts!LookAtPost(h)
  PROVE  ShowcaseInv'
<1> PICK k \in SavingState : k = saving[h]
  BY DEF ShowcaseInv, ShowcaseTypeOK
<1>1. k.pc = "look" /\ k.post \in Posts!Post /\ k.group \in OwnGroup
      /\ k = [pc |-> "look", post |-> k.post, group |-> k.group]
  BY SavingByPc DEF Posts!LookAtPost
<1> PICK l : l = [k EXCEPT !.pc = "upsert"]
  OBVIOUS
<1>2. l = [pc |-> "upsert", post |-> k.post, group |-> k.group]
  BY <1>1
<1>3. l \in SavingState
  BY <1>1, <1>2, SavingShapes
<1>4. ASSUME Posts!PostVisible(k.post) PROVE MaySave(l)
  <2>1. k.post \in Theirs => Seen(k.post)
    BY <1>4, PostAssumption DEF Seen, Posts!PostVisible, Posts!CanView
  <2>2. k.post \notin Person
    BY <1>1, PersonAssumption DEF Posts!Post
  <2> QED
    BY <1>2, <2>1, <2>2 DEF MaySave, SavedAs
<1>5. MaySave(Posts!Idle) /\ Posts!Idle \in SavingState
  BY SavingShapes DEF MaySave, Posts!Idle
<1>6. Posts!Goto(h, IF Posts!PostVisible(k.post) THEN l ELSE Posts!Idle)
  BY DEF Posts!LookAtPost, Posts!Done
<1>7. UNCHANGED <<role, roleOf, post, group, favorite, saved>>
  BY DEF Posts!LookAtPost
<1>8. CASE Posts!PostVisible(k.post)
  BY <1>3, <1>4, <1>6, <1>7, <1>8, LookingStep
<1>9. CASE ~Posts!PostVisible(k.post)
  BY <1>5, <1>6, <1>7, <1>9, LookingStep
<1> QED
  BY <1>8, <1>9

\* Looking up a group before a favorite is moved into it.
LEMMA LookAtGroupInv ==
  ASSUME ShowcaseInv, NEW h \in Handler, Posts!LookAtGroup(h)
  PROVE  ShowcaseInv'
<1> PICK k \in SavingState : k = saving[h]
  BY DEF ShowcaseInv, ShowcaseTypeOK
<1>1. k.pc = "lookAtGroup" /\ k.post \in Posts!Post /\ k.id \in Nat \ {0}
      /\ k = [pc |-> "lookAtGroup", post |-> k.post, group |-> k.group, id |-> k.id]
  BY SavingByPc DEF Posts!LookAtGroup
<1> PICK l : l = [k EXCEPT !.pc = "move"]
  OBVIOUS
<1>2. l = [pc |-> "move", post |-> k.post, group |-> k.group, id |-> k.id]
  BY <1>1
<1>3. MaySave(l) /\ MaySave(Posts!Idle) /\ Posts!Idle \in SavingState
  BY <1>2, SavingShapes DEF MaySave, Posts!Idle
<1>4. UNCHANGED <<role, roleOf, post, group, favorite, saved>>
  BY DEF Posts!LookAtGroup
<1>5. CASE Posts!GroupOwner(k.group)
  <2>1. k.group \in OwnGroup
    BY <1>5, OwnersGroup DEF ShowcaseInv
  <2>2. l \in SavingState
    BY <1>1, <1>2, <2>1, SavingShapes
  <2>3. Posts!Goto(h, l)
    BY <1>5 DEF Posts!LookAtGroup
  <2> QED
    BY <1>3, <1>4, <2>2, <2>3, LookingStep
<1>6. CASE ~Posts!GroupOwner(k.group)
  <2>1. Posts!Goto(h, Posts!Idle)
    BY <1>6 DEF Posts!LookAtGroup, Posts!Done
  <2> QED
    BY <1>3, <1>4, <2>1, LookingStep
<1> QED
  BY <1>5, <1>6

\* The first look of a request, at the group, at the profile or at the favorite.
LEMMA BeginInv ==
  ASSUME ShowcaseInv, NEW h \in Handler, Posts!Begin(h)
  PROVE  ShowcaseInv'
<1>1. ASSUME NEW p \in Posts!Post, NEW g \in Group \cup Stranger \cup {Ungrouped},
             Posts!AddFavorite(h, p, g)
      PROVE  ShowcaseInv'
  <2> DEFINE l == [pc |-> "look", post |-> p, group |-> g]
  <2>1. g \in OwnGroup
    BY <1>1, OwnersGroup DEF ShowcaseInv, Posts!AddFavorite
  <2>2. l \in SavingState /\ MaySave(l)
    BY <2>1, SavingShapes DEF MaySave
  <2>3. Posts!Goto(h, l) /\ UNCHANGED <<role, roleOf, post, group, favorite, saved>>
    BY <1>1 DEF Posts!AddFavorite
  <2> HIDE DEF l
  <2> QED
    BY <2>2, <2>3, LookingStep
<1>2. ASSUME NEW p \in Posts!Post, NEW g \in Group \cup Stranger \cup {Ungrouped},
             Posts!MoveFavorite(h, p, g)
      PROVE  ShowcaseInv'
  <2> DEFINE l == [pc |-> "lookAtGroup", post |-> p, group |-> g, id |-> favorite[p].id]
  <2>1. favorite[p].id \in Nat \ {0} /\ g \in OwnGroup \cup Stranger
    BY <1>2, FavoriteIs DEF ShowcaseInv, ShowcaseTypeOK, Posts!MoveFavorite, OwnGroup
  <2>2. l \in SavingState /\ MaySave(l)
    BY <2>1, SavingShapes DEF MaySave
  <2>3. Posts!Goto(h, l) /\ UNCHANGED <<role, roleOf, post, group, favorite, saved>>
    BY <1>2 DEF Posts!MoveFavorite
  <2> HIDE DEF l
  <2> QED
    BY <2>2, <2>3, LookingStep
<1>3. ASSUME NEW x \in Person, Posts!AddFavoriteUser(h, x)
      PROVE  ShowcaseInv'
  <2> DEFINE l == [pc |-> "upsert", post |-> x, group |-> Ungrouped]
  <2>1. l \in SavingState
    BY SavingShapes DEF OwnGroup
  <2>2. x \notin Theirs /\ Posts!CanSave(x)
    BY <1>3, PersonAssumption DEF Posts!AddFavoriteUser
  <2>3. MaySave(l)
    BY <2>2 DEF MaySave, SavedAs
  <2>4. Posts!Goto(h, l) /\ UNCHANGED <<role, roleOf, post, group, favorite, saved>>
    BY <1>3 DEF Posts!AddFavoriteUser
  <2> HIDE DEF l
  <2> QED
    BY <2>1, <2>3, <2>4, LookingStep
<1>4. ASSUME NEW i \in Posts!Post \cup Person, Posts!RemoveFavorite(h, i)
      PROVE  ShowcaseInv'
  <2> DEFINE l == [pc |-> "remove", post |-> i, id |-> favorite[i].id]
  <2>1. favorite[i].id \in Nat \ {0}
    BY <1>4, FavoriteIs DEF ShowcaseInv, ShowcaseTypeOK, Posts!RemoveFavorite
  <2>2. l \in SavingState /\ MaySave(l)
    BY <2>1, SavingShapes DEF MaySave
  <2>3. Posts!Goto(h, l) /\ UNCHANGED <<role, roleOf, post, group, favorite, saved>>
    BY <1>4 DEF Posts!RemoveFavorite
  <2> HIDE DEF l
  <2> QED
    BY <2>2, <2>3, LookingStep
<1> QED
  BY <1>1, <1>2, <1>3, <1>4 DEF Posts!Begin

\* Saving checks again only that post and group are there.
LEMMA UpsertInv ==
  ASSUME ShowcaseInv, NEW h \in Handler, Posts!Upsert(h)
  PROVE  ShowcaseInv'
<1> PICK k \in SavingState : k = saving[h]
  BY DEF ShowcaseInv, ShowcaseTypeOK
<1> DEFINE i == k.post
           g == k.group
           old == favorite[i]
<1>1. /\ k.pc = "upsert" /\ i \in Posts!Post \cup Person /\ g \in OwnGroup
      /\ SavedAs(i, g)
  BY SavingByPc DEF Posts!Upsert, ShowcaseInv, MaySave
<1>2. Posts!Done(h) /\ UNCHANGED <<role, roleOf, post, group>>
  BY DEF Posts!Upsert
<1>3. old \in FavoriteRow /\ IsKept(i, old) /\ saved \in Nat /\ DOMAIN favorite = Posts!Post \cup Person
  BY <1>1 DEF ShowcaseInv, ShowcaseTypeOK
<1>4. CASE ~Posts!Exists(i) \/ ~Posts!Refers(g)
  <2>1. favorite' = favorite /\ saved' = saved
    BY <1>4 DEF Posts!Upsert
  <2> QED
    BY <1>1, <1>2, <1>3, <2>1, FavoriteStep
<1>5. CASE Posts!Exists(i) /\ Posts!Refers(g)
  <2> PICK f : f = [id |-> IF old = Posts!NoFavorite THEN saved + 1 ELSE old.id, group |-> g]
    OBVIOUS
  <2>1. favorite' = [favorite EXCEPT ![i] = f] /\ saved' \in Nat
    <3>1. CASE old = Posts!NoFavorite
      BY <1>3, <1>5, <3>1 DEF Posts!Upsert
    <3>2. CASE old # Posts!NoFavorite
      <4>1. old \in [id: Nat \ {0}, group: OwnGroup]
        BY <1>3, <3>2, FavoriteIs
      <4>2. [old EXCEPT !.group = g] = f
        BY <4>1, <3>2
      <4>3. favorite' = [favorite EXCEPT ![i].group = g] /\ saved' = saved
        BY <1>5, <3>2 DEF Posts!Upsert
      <4> QED
        BY <1>3, <4>2, <4>3
    <3> QED
      BY <3>1, <3>2
  <2>2. f \in FavoriteRow
    <3>1. f.id \in Nat \ {0} /\ f \in [id: {f.id}, group: {g}]
      BY <1>3, FavoriteIs
    <3> QED
      BY <1>1, <3>1 DEF FavoriteRow
  <2>3. IsKept(i, f)
    <3>1. g \in (group \ Stranger) \cup {Ungrouped}
      BY <1>1, <1>5, OwnersGroup DEF ShowcaseInv
    <3>2. i \in Posts!Post => post[i] # Posts!Gone
      BY <1>5, PersonAssumption DEF Posts!Exists, Posts!Post
    <3> QED
      BY <1>1, <3>1, <3>2 DEF IsKept
  <2> QED
    BY <1>1, <1>2, <2>1, <2>2, <2>3, FavoriteStep
<1> QED
  BY <1>4, <1>5

\* The row that is moved is the one that was found.
LEMMA MoveInv ==
  ASSUME ShowcaseInv, NEW h \in Handler, Posts!Move(h)
  PROVE  ShowcaseInv'
<1> PICK k \in SavingState : k = saving[h]
  BY DEF ShowcaseInv, ShowcaseTypeOK
<1> DEFINE i == k.post
           g == k.group
           old == favorite[i]
<1>1. k.pc = "move" /\ i \in Posts!Post /\ g \in OwnGroup /\ k.id \in Nat \ {0}
  BY SavingByPc DEF Posts!Move
<1>2. Posts!Done(h) /\ UNCHANGED <<role, roleOf, post, group, saved>>
  BY DEF Posts!Move
<1>3. old \in FavoriteRow /\ IsKept(i, old) /\ saved \in Nat
      /\ DOMAIN favorite = Posts!Post \cup Person
  BY <1>1 DEF ShowcaseInv, ShowcaseTypeOK
<1>4. CASE ~(old.id = k.id /\ Posts!Refers(g))
  <2>1. favorite' = favorite
    BY <1>4 DEF Posts!Move
  <2> QED
    BY <1>1, <1>2, <1>3, <2>1, FavoriteStep
<1>5. CASE old.id = k.id /\ Posts!Refers(g)
  <2>1. old # Posts!NoFavorite
    BY <1>1, <1>5 DEF Posts!NoFavorite
  <2> PICK f : f = [old EXCEPT !.group = g]
    OBVIOUS
  <2>2. old \in [id: Nat \ {0}, group: OwnGroup]
    BY <1>3, <2>1, FavoriteIs
  <2>3. f \in FavoriteRow /\ f.group = g
    BY <1>1, <2>2 DEF FavoriteRow
  <2>4. favorite' = [favorite EXCEPT ![i] = f]
    BY <1>5, <1>3 DEF Posts!Move
  <2>5. IsKept(i, f)
    <3>1. g \in (group \ Stranger) \cup {Ungrouped}
      BY <1>1, <1>5, OwnersGroup DEF ShowcaseInv
    <3>2. i \notin Person
      BY <1>1, PersonAssumption DEF Posts!Post
    <3> QED
      BY <1>3, <2>1, <2>3, <3>1, <3>2 DEF IsKept, SavedAs
  <2> QED
    BY <1>1, <1>2, <1>3, <2>3, <2>4, <2>5, FavoriteStep
<1> QED
  BY <1>4, <1>5

\* A favorite is removed, or another has taken its place.
LEMMA RemoveInv ==
  ASSUME ShowcaseInv, NEW h \in Handler, Posts!Remove(h)
  PROVE  ShowcaseInv'
<1> PICK k \in SavingState : k = saving[h]
  BY DEF ShowcaseInv, ShowcaseTypeOK
<1>1. k.post \in Posts!Post \cup Person
  BY SavingByPc DEF Posts!Remove
<1>2. Posts!Done(h) /\ UNCHANGED <<role, roleOf, post, group, saved>> /\ saved \in Nat
  BY DEF Posts!Remove, ShowcaseInv, ShowcaseTypeOK
<1>3. favorite' \in {favorite, [favorite EXCEPT ![k.post] = Posts!NoFavorite]}
  BY DEF Posts!Remove
<1>4. Posts!NoFavorite \in FavoriteRow /\ IsKept(k.post, Posts!NoFavorite)
  BY DEF FavoriteRow, IsKept
<1> QED
  BY <1>1, <1>2, <1>3, <1>4, FavoriteStep

\* The owner of a post changes its flags, never what it is.
LEMMA UpdatePostInv ==
  ASSUME ShowcaseInv, NEW p \in Posts!Post, NEW r \in Posts!PostRow, Posts!UpdatePost(p, r)
  PROVE  ShowcaseInv'
<1>1. /\ post[p] # Posts!Gone /\ r.type = post[p].type
      /\ post' = [post EXCEPT ![p] = r]
      /\ UNCHANGED <<role, roleOf, group, favorite, saved, saving>>
  BY DEF Posts!UpdatePost
<1>2. post' \in [Posts!Post -> Posts!PostRow \cup {Posts!Gone}]
  BY <1>1 DEF ShowcaseInv, ShowcaseTypeOK
<1>3. r # Posts!Gone
  BY DEF Posts!PostRow, Posts!Type, Posts!Gone
<1>4. \A q \in Posts!Post : /\ post'[q].type = post[q].type
                            /\ post'[q] = Posts!Gone <=> post[q] = Posts!Gone
  BY <1>1, <1>3 DEF ShowcaseInv, ShowcaseTypeOK
<1>5. ShowcaseTypeOK'
  BY <1>1, <1>2 DEF ShowcaseInv, ShowcaseTypeOK
<1>6. MineAreMine'
  BY <1>1, <1>4 DEF ShowcaseInv, MineAreMine, Posts!Post
<1>7. \A i, g : SavedAs(i, g) => SavedAs(i, g)'
  BY <1>1, <1>4 DEF SavedAs, Seen, Posts!VisibleTypes, Posts!CanSave, Posts!Post
<1>8. \A i \in Posts!Post \cup Person : IsKept(i, favorite[i])'
  BY <1>1, <1>4, <1>7 DEF ShowcaseInv, IsKept
<1>9. \A h \in Handler : MaySave(saving[h])'
  BY <1>1, <1>7 DEF ShowcaseInv, MaySave
<1> QED
  BY <1>5, <1>6, <1>8, <1>9 DEF ShowcaseInv

\* A post that is deleted takes its favorite along; who is about to save it fails.
LEMMA DeletePostInv ==
  ASSUME ShowcaseInv, NEW p \in Posts!Post, Posts!DeletePost(p)
  PROVE  ShowcaseInv'
<1>1. /\ post' = [post EXCEPT ![p] = Posts!Gone]
      /\ favorite' = [favorite EXCEPT ![p] = Posts!NoFavorite]
      /\ UNCHANGED <<role, roleOf, group, saved, saving>>
  BY DEF Posts!DeletePost
<1>2. ShowcaseTypeOK'
  BY <1>1 DEF ShowcaseInv, ShowcaseTypeOK, FavoriteRow
<1>3. \A q \in Posts!Post : post'[q] # Posts!Gone => post'[q] = post[q] /\ q # p
  BY <1>1 DEF ShowcaseInv, ShowcaseTypeOK
<1>4. MineAreMine'
  BY <1>1, <1>3 DEF ShowcaseInv, MineAreMine, Posts!Post
<1>5. \A i, g : SavedAs(i, g) => SavedAs(i, g)'
  BY <1>1, <1>3 DEF SavedAs, Seen, Posts!VisibleTypes, Posts!CanSave, Posts!Post
<1>6. ASSUME NEW i \in Posts!Post \cup Person PROVE IsKept(i, favorite[i])'
  <2>1. CASE i = p
    <3>1. favorite'[i] = Posts!NoFavorite
      BY <1>1, <2>1 DEF ShowcaseInv, ShowcaseTypeOK
    <3> QED
      BY <3>1 DEF IsKept
  <2>2. CASE i # p
    <3>1. favorite'[i] = favorite[i] /\ (i \in Posts!Post => post'[i] = post[i])
      BY <1>1, <2>2 DEF ShowcaseInv, ShowcaseTypeOK
    <3> QED
      BY <1>1, <1>5, <3>1 DEF ShowcaseInv, IsKept
  <2> QED
    BY <2>1, <2>2
<1>7. \A h \in Handler : MaySave(saving[h])'
  BY <1>1, <1>5 DEF ShowcaseInv, MaySave
<1> QED
  BY <1>2, <1>4, <1>6, <1>7 DEF ShowcaseInv

\* A group that is deleted leaves its favorites in none.
LEMMA DeleteGroupInv ==
  ASSUME ShowcaseInv, NEW g \in Group, Posts!DeleteGroup(g)
  PROVE  ShowcaseInv'
<1>1. /\ group' = group \ {g}
      /\ UNCHANGED <<role, roleOf, post, saved, saving>>
      /\ favorite' = [i \in DOMAIN favorite |->
                       IF favorite[i] # Posts!NoFavorite /\ favorite[i].group = g
                       THEN [favorite[i] EXCEPT !.group = Ungrouped] ELSE favorite[i]]
  BY DEF Posts!DeleteGroup
<1>2. \A i, x : SavedAs(i, x) <=> SavedAs(i, x)'
  BY <1>1 DEF SavedAs, Seen, Posts!VisibleTypes, Posts!CanSave
<1>3. ASSUME NEW i \in Posts!Post \cup Person
      PROVE  favorite'[i] \in FavoriteRow /\ IsKept(i, favorite[i])'
  <2> PICK f \in FavoriteRow : f = favorite[i]
    BY DEF ShowcaseInv, ShowcaseTypeOK
  <2>1. IsKept(i, f)
    BY DEF ShowcaseInv
  <2>2. CASE f # Posts!NoFavorite /\ f.group = g
    <3> PICK e : e = [f EXCEPT !.group = Ungrouped]
      OBVIOUS
    <3>1. favorite'[i] = e
      BY <1>1, <2>2 DEF ShowcaseInv, ShowcaseTypeOK
    <3>2. e \in FavoriteRow /\ e.group = Ungrouped
      BY <2>2, FavoriteIs DEF FavoriteRow, OwnGroup
    <3>3. SavedAs(i, Ungrouped)
      BY <2>1, <2>2 DEF IsKept, SavedAs
    <3> QED
      BY <1>1, <1>2, <2>1, <2>2, <3>1, <3>2, <3>3 DEF IsKept
  <2>3. CASE ~(f # Posts!NoFavorite /\ f.group = g)
    <3>1. favorite'[i] = f
      BY <1>1, <2>3 DEF ShowcaseInv, ShowcaseTypeOK
    <3> QED
      BY <1>1, <1>2, <2>1, <2>3, <3>1 DEF IsKept
  <2> QED
    BY <2>2, <2>3
<1>4. DOMAIN favorite' = Posts!Post \cup Person /\ favorite' = [i \in DOMAIN favorite' |-> favorite'[i]]
  BY <1>1 DEF ShowcaseInv, ShowcaseTypeOK
<1>5. favorite' \in [Posts!Post \cup Person -> FavoriteRow]
  BY <1>3, <1>4
<1>6. ShowcaseTypeOK' /\ MineAreMine'
  BY <1>1, <1>5 DEF ShowcaseInv, ShowcaseTypeOK, MineAreMine
<1>7. \A h \in Handler : MaySave(saving[h])'
  BY <1>1, <1>2 DEF ShowcaseInv, MaySave
<1> QED
  BY <1>3, <1>6, <1>7 DEF ShowcaseInv

LEMMA CreateGroupInv ==
  ASSUME ShowcaseInv, NEW g \in Group, Posts!CreateGroup(g)
  PROVE  ShowcaseInv'
<1>1. group' = group \cup {g} /\ UNCHANGED <<role, roleOf, post, favorite, saved, saving>>
  BY DEF Posts!CreateGroup
<1>2. \A i, x : SavedAs(i, x) <=> SavedAs(i, x)'
  BY <1>1 DEF SavedAs, Seen, Posts!VisibleTypes, Posts!CanSave
<1>3. ShowcaseTypeOK' /\ MineAreMine'
  BY <1>1 DEF ShowcaseInv, ShowcaseTypeOK, MineAreMine
<1>4. \A i \in Posts!Post \cup Person : IsKept(i, favorite[i])'
  BY <1>1, <1>2 DEF ShowcaseInv, IsKept
<1>5. \A h \in Handler : MaySave(saving[h])'
  BY <1>1, <1>2 DEF ShowcaseInv, MaySave
<1> QED
  BY <1>3, <1>4, <1>5 DEF ShowcaseInv

\* Nothing is saved at first.
LEMMA InitShowcaseInv == Posts!Init => ShowcaseInv
<1> SUFFICES ASSUME Posts!Init PROVE ShowcaseInv
  OBVIOUS
<1>1. ShowcaseTypeOK
  BY DEF Posts!Init, ShowcaseTypeOK, FavoriteRow, SavingState
<1>2. MineAreMine
  <2> SUFFICES ASSUME NEW p \in Mine, post[p] # Posts!Gone
               PROVE  post[p].type = role /\ role # "MANAGER"
    BY DEF MineAreMine
  <2>1. post[p] \in Posts!PostRow
    BY <1>1 DEF ShowcaseTypeOK, Posts!Post
  <2>2. post[p].type \in {"CREATOR", "COMPANY"}
    BY <2>1 DEF Posts!PostRow, Posts!Type
  <2> QED
    BY <2>2 DEF Posts!Init
<1>3. \A i \in Posts!Post \cup Person : IsKept(i, favorite[i])
  BY DEF Posts!Init, IsKept
<1>4. \A h \in Handler : MaySave(saving[h])
  BY DEF Posts!Init, MaySave, Posts!Idle
<1> QED
  BY <1>1, <1>2, <1>3, <1>4 DEF ShowcaseInv

LEMMA NextShowcaseInv == ShowcaseInv /\ [Next]_vars => ShowcaseInv'
<1> SUFFICES ASSUME ShowcaseInv, [Next]_vars PROVE ShowcaseInv'
  OBVIOUS
<1>1. CASE UNCHANGED postVars
  BY <1>1 DEF postVars, ShowcaseInv, ShowcaseTypeOK, MineAreMine, IsKept, MaySave, SavedAs, Seen,
              Posts!VisibleTypes, Posts!CanSave
<1>2. CASE PostStep
  BY <1>2, UpdatePostInv, DeletePostInv, CreateGroupInv, DeleteGroupInv, BeginInv,
     LookAtPostInv, LookAtGroupInv, UpsertInv, MoveInv, RemoveInv
  DEF PostStep, Posts!Next, Posts!Continue
<1> QED
  BY <1>1, <1>2
  DEF Next, vars, PartnerStep, DialogStep, ScrollStep, TaskStep, PublicationStep, ProfileStep

\* The invariant holds in every reachable state.
THEOREM ShowcaseInvariance == Spec => []ShowcaseInv
<1>1. Init => ShowcaseInv
  BY InitShowcaseInv DEF Init
<1> QED
  BY <1>1, NextShowcaseInv, PTL DEF Spec

\* What the feed shows of others can be opened and saved, and applied to by a trader;
\* who is found by the search can be saved.
THEOREM FeedCanBeOpened == Spec => []FeedIsOpen
<1>1. ShowcaseInv => FeedIsOpen
  <2> SUFFICES ASSUME ShowcaseInv PROVE FeedIsOpen
    OBVIOUS
  <2>1. \A p \in Posts!Feed : Posts!FindById(p) /\ Posts!PostVisible(p)
    BY DEF Posts!Feed, Posts!FindById, Posts!PostVisible, Posts!CanView
  <2>2. ASSUME role # "MANAGER"
        PROVE  Posts!Feed = {p \in Theirs : Posts!CanApply(p) /\ ~post[p].template}
    BY <2>2, PostAssumption DEF Posts!Feed, Posts!CanApply, Posts!CanView
  <2>3. \A p \in Posts!Options : Posts!FindById(p)
    BY DEF Posts!Options, Posts!FindById, Posts!CanView
  <2>4. ASSUME NEW admin \in BOOLEAN
        PROVE  /\ Posts!VisibleTypes \subseteq Posts!SearchRoles(admin)
               /\ \A x \in Posts!Search(admin) : Posts!CanSave(x)
    <3>1. role \in {"CREATOR", "COMPANY", "MANAGER"}
      BY DEF ShowcaseInv, ShowcaseTypeOK, Posts!Role
    <3> QED
      BY <3>1 DEF Posts!VisibleTypes, Posts!SearchRoles, Posts!Search, Posts!CanSave, Posts!Type
  <2> QED
    BY <2>1, <2>2, <2>3, <2>4 DEF FeedIsOpen, Posts!FeedIsOpen
<1> QED
  BY ShowcaseInvariance, <1>1, PTL

\* Every favorite is in a group of its owner's, or in none, and is counted where it is
\* listed, however groups and posts go while it is saved or moved.
THEOREM GroupsOfFavoritesAgree == Spec => []GroupsAgree
<1>1. ShowcaseInv => GroupsAgree
  <2> SUFFICES ASSUME ShowcaseInv PROVE GroupsAgree
    OBVIOUS
  <2> DEFINE Own == (group \ Stranger) \cup {Ungrouped}
  <2>1. \A p \in Posts!Saved : favorite[p].group \in Own
    BY DEF ShowcaseInv, IsKept, Posts!Saved
  <2>2. Posts!ListFavorites(Posts!Saved)
          = UNION {Posts!ListFavorites(Posts!InGroup(g)) : g \in Own}
    BY <2>1 DEF Posts!ListFavorites, Posts!InGroup
  <2>3. ASSUME NEW g \in group \ Stranger
        PROVE  Cardinality(Posts!InGroup(g))
                 = Cardinality(Posts!ListFavorites(Posts!InGroup(g)))
                     + Cardinality(Posts!InGroup(g) \cap Mine)
    <3> DEFINE S == Posts!InGroup(g)
    <3>1. S \subseteq Mine \cup Theirs
      BY DEF Posts!InGroup, Posts!Saved, Posts!Post
    <3>2. ASSUME NEW p \in S PROVE p \notin Mine <=> post[p].type \in Posts!VisibleTypes
      <4>1. p \in Posts!Post /\ favorite[p] # Posts!NoFavorite
        BY <3>2 DEF Posts!InGroup, Posts!Saved
      <4>2. post[p] # Posts!Gone /\ (p \in Theirs => post[p].type \in Posts!VisibleTypes)
        BY <4>1 DEF ShowcaseInv, IsKept, SavedAs, Seen
      <4>3. p \in Mine => post[p].type = role /\ role \in {"CREATOR", "COMPANY"}
        BY <4>2 DEF ShowcaseInv, ShowcaseTypeOK, MineAreMine, Posts!Role
      <4>4. p \in Mine => post[p].type \notin Posts!VisibleTypes
        BY <4>3 DEF Posts!VisibleTypes
      <4> QED
        BY <3>1, <4>2, <4>4
    <3>3. Posts!ListFavorites(S) = S \ Mine
      BY <3>2 DEF Posts!ListFavorites
    <3>4. IsFiniteSet(S) /\ IsFiniteSet(S \ Mine) /\ IsFiniteSet(S \cap Mine)
      BY <3>1, PostAssumption, FS_Subset
    <3> HIDE DEF S
    <3>5. Cardinality(S \ Mine) = Cardinality(S) - Cardinality(S \cap Mine)
      BY <3>4, FS_Difference
    <3>6. /\ Cardinality(S) \in Nat /\ Cardinality(S \ Mine) \in Nat
          /\ Cardinality(S \cap Mine) \in Nat
      BY <3>4, FS_CardinalityType
    <3>7. Cardinality(S) = Cardinality(S \ Mine) + Cardinality(S \cap Mine)
      BY <3>5, <3>6
    <3> QED
      BY <3>3, <3>7 DEF S
  <2>4. ASSUME NEW x \in Person, favorite[x] # Posts!NoFavorite
        PROVE  favorite[x].group = Ungrouped /\ \E type \in Posts!Type : x \in Posts!ListProfiles(type)
    <3>1. favorite[x].group = Ungrouped /\ Posts!CanSave(x)
      BY <2>4 DEF ShowcaseInv, IsKept, SavedAs
    <3> QED
      BY <2>4, <3>1 DEF Posts!CanSave, Posts!ListProfiles
  <2> QED
    BY <2>1, <2>2, <2>3, <2>4, CountsAlike DEF GroupsAgree, Posts!GroupsAgree
<1> QED
  BY ShowcaseInvariance, <1>1, PTL
-----------------------------------------------------------------------------
(* The lists of partners, over any number of rows and partners: whichever    *)
(* of its queries comes first, the list has the same partners.               *)

PartnerRow == [partner: Partner \cup {NoPartner}, found: BOOLEAN, updatedAt: Nat]

\* The partners the list is to show, of those whose rows were found first.
InRole(r) == {g \in r.due : g.partner \notin Otherwise}

Expected(r) ==
  IF kind = "applicants" /\ r.q /\ r.sort = "name"
  THEN {g \in InRole(r) : g.partner \in Named} ELSE InRole(r)

\* What a query groups, of rows as they are at some time.
GroupsOf(rows, route, q) ==
  LET found == {i \in Row : /\ rows[i].partner # NoPartner
                            /\ rows[i].found
                            /\ \/ Others!HasName(rows[i].partner, q)
                               \/ route \notin Others!OfTasks /\ i \in Titled}
      own(p) == {i \in found : rows[i].partner = p}
      last(p) == CHOOSE t \in {rows[i].updatedAt : i \in own(p)} :
                   \A i \in own(p) : rows[i].updatedAt <= t
  IN  {IF own(p) = {} THEN [partner |-> p, interactions |-> 0, last |-> 0]
       ELSE [partner |-> p, interactions |-> Others!Cardinality(own(p)), last |-> last(p)] :
         p \in {rows[i].partner : i \in found}}

\* The profiles that have rows, of rows as they are at some time.
ProfilesOf(rows, route, q) ==
  {p \in Partner \ Otherwise :
     /\ Others!HasName(p, q)
     /\ \E i \in Row : /\ rows[i].partner = p /\ rows[i].partner # NoPartner
                       /\ rows[i].found
                       /\ \/ Others!HasName(rows[i].partner, q)
                          \/ route \notin Others!OfTasks /\ i \in Titled}

\* Two numbers that are no further apart than this.
Near(m, n, distance) == m <= n + distance /\ n <= m + distance

\* Between the queries of a list: the rows came first,
GroupsFound(r) ==
  /\ r = [pc |-> "second", sort |-> "recent", q |-> r.q, moved |-> r.moved,
          groups |-> r.due, due |-> r.due]
  /\ r.q \in BOOLEAN /\ r.moved \in Nat
  /\ IsFiniteSet(r.due)

\* or how many profiles there are,
TotalFound(r) ==
  /\ r = [pc |-> "find", sort |-> "name", q |-> r.q, moved |-> r.moved, total |-> r.total]
  /\ r.q \in BOOLEAN /\ r.moved \in Nat /\ r.total \in Nat
  /\ kind # "companies"
  /\ Near(r.total, Cardinality(ProfilesOf(row, kind, r.q)), r.moved)

\* or the profiles did: those who had rows, which are there still if none was written.
NamesFound(r) ==
  /\ r.q \in BOOLEAN /\ r.moved \in Nat /\ r.sort = "name"
  /\ kind # "companies"
  /\ IsFiniteSet(r.profiles)
  /\ r.profiles = Others!Partners(Expected(r))
  /\ r.q /\ kind \in Others!OfTasks => r.profiles \subseteq Named
  /\ r.moved = 0 => r.due = GroupsOf(row, kind, r.q)

ListFound(r) ==
  /\ r = [pc |-> "count", sort |-> "name", q |-> r.q, moved |-> r.moved,
          profiles |-> r.profiles, due |-> r.due]
  /\ NamesFound(r)
  /\ Near(Cardinality(r.profiles), Cardinality(ProfilesOf(row, kind, r.q)), r.moved)

\* In the end there are both.
ProfilesFound(r) ==
  /\ r = [pc |-> "second", sort |-> "name", q |-> r.q, moved |-> r.moved,
          profiles |-> r.profiles, due |-> r.due, total |-> r.total, apart |-> r.apart]
  /\ NamesFound(r)
  /\ r.total \in Nat /\ r.apart \in Nat
  /\ Near(r.total, Cardinality(r.profiles), r.apart)

PartnersInv ==
  /\ kind \in Others!Route
  /\ row \in [Row -> PartnerRow]
  /\ clock \in Nat
  /\ \/ reader = Others!Idle
     \/ GroupsFound(reader)
     \/ TotalFound(reader)
     \/ ListFound(reader)
     \/ ProfilesFound(reader)
     \/ reader.pc = "done" /\ SortsAgree

\* The image of a finite set is finite, and as large if no two are mapped to one.
LEMMA FiniteImage ==
  ASSUME NEW S, IsFiniteSet(S), NEW f
  PROVE  IsFiniteSet({f[x] : x \in S})
<1> DEFINE T == {f[x] : x \in S}
           g == [x \in S |-> f[x]]
<1>1. g \in Surjection(S, T)
  BY DEF Surjection
<1> HIDE DEF T, g
<1>2. IsFiniteSet(T)
  BY <1>1, FS_Surjection
<1> QED
  BY <1>2 DEF T

LEMMA EqualImage ==
  ASSUME NEW S, IsFiniteSet(S), NEW f, \A x, y \in S : f[x] = f[y] => x = y,
         NEW T, T = {f[x] : x \in S}
  PROVE  Cardinality(T) = Cardinality(S)
<1> DEFINE g == [x \in S |-> f[x]]
<1>1. g \in Surjection(S, T)
  BY DEF Surjection
<1>2. g \in Injection(S, T)
  BY DEF Injection, IsInjective
<1> HIDE DEF g
<1> QED
  BY <1>1, <1>2, FS_Surjection

LEMMA PartnersCountAlike == \A S : Others!Cardinality(S) = Cardinality(S)
  BY DEF Others!Cardinality, Cardinality

\* What is counted of a partner depends on its own rows alone.
LEMMA OwnRows ==
  ASSUME NEW p, NEW rows, NEW others,
         {i \in rows : row[i].partner = p} = {i \in others : row[i].partner = p}
  PROVE  Others!Statistics(p, rows) = Others!Statistics(p, others)
<1> DEFINE Of(own) == IF own = {} THEN [partner |-> p, interactions |-> 0, last |-> 0]
                      ELSE [partner |-> p, interactions |-> Others!Cardinality(own),
                            last |-> Others!Latest(own)]
<1>1. /\ Others!Statistics(p, rows) = Of({i \in rows : row[i].partner = p})
      /\ Others!Statistics(p, others) = Of({i \in others : row[i].partner = p})
  BY DEF Others!Statistics
<1> HIDE DEF Of
<1> QED
  BY <1>1

LEMMA GroupsNow == \A q : Others!Groups(Others!Found(q)) = GroupsOf(row, kind, q)
  BY DEF GroupsOf, Others!Groups, Others!Found, Others!Statistics, Others!Latest

LEMMA StatisticsOf ==
  \A p, rows : Others!Statistics(p, rows).partner = p
<1> TAKE p, rows
<1>1. CASE {i \in rows : row[i].partner = p} = {}
  BY <1>1 DEF Others!Statistics
<1>2. CASE {i \in rows : row[i].partner = p} # {}
  BY <1>2 DEF Others!Statistics
<1> QED
  BY <1>1, <1>2

\* The groups of some rows are as many as their partners.
LEMMA GroupsAre ==
  ASSUME NEW rows \in SUBSET Row
  PROVE  /\ IsFiniteSet(Others!Groups(rows))
         /\ Others!Partners(Others!Groups(rows)) = {row[i].partner : i \in rows}
         /\ \A g \in Others!Groups(rows) : g = Others!Statistics(g.partner, rows)
<1> DEFINE f == [i \in rows |-> Others!Statistics(row[i].partner, rows)]
           Statistic(p) == Others!Statistics(p, rows)
<1>1. Others!Groups(rows) = {Statistic(p) : p \in {row[i].partner : i \in rows}}
  BY DEF Others!Groups
<1>2. \A p : Statistic(p).partner = p
  BY StatisticsOf
<1>3. {f[i] : i \in rows} = {Statistic(p) : p \in {row[i].partner : i \in rows}}
  BY DEF f
<1> HIDE DEF Statistic
<1>4. IsFiniteSet(rows)
  BY RowAssumption, FS_Subset
<1>5. IsFiniteSet({f[i] : i \in rows})
  BY <1>4, FiniteImage
<1>6. \A g \in Others!Groups(rows) : g = Statistic(g.partner)
  BY <1>1, <1>2
<1>7. Others!Partners(Others!Groups(rows)) = {row[i].partner : i \in rows}
  <2> DEFINE ps == {row[i].partner : i \in rows}
  <2>1. Others!Groups(rows) = {Statistic(p) : p \in ps}
    BY <1>1
  <2> HIDE DEF ps
  <2>2. {g.partner : g \in {Statistic(p) : p \in ps}} = ps
    BY <1>2
  <2> QED
    BY <2>1, <2>2 DEF Others!Partners, ps
<1> QED
  BY <1>1, <1>3, <1>5, <1>6, <1>7 DEF Statistic
-----------------------------------------------------------------------------
\* Sorted by time: the rows are grouped before their profiles are looked up.
LEMMA GroupRowsInv ==
  ASSUME PartnersInv, NEW q \in BOOLEAN, Others!GroupRows(q)
  PROVE  PartnersInv'
<1> DEFINE d == Others!Groups(Others!Found(q))
<1>1. reader' = [pc |-> "second", sort |-> "recent", q |-> q, moved |-> 0,
                 groups |-> d, due |-> d]
      /\ UNCHANGED <<kind, row, clock>>
  BY DEF Others!GroupRows
<1>2. IsFiniteSet(d)
  BY GroupsAre DEF Others!Found
<1> HIDE DEF d
<1>3. GroupsFound(reader')
  BY <1>1, <1>2 DEF GroupsFound
<1>4. GroupsFound(reader)'
  BY <1>3 DEF GroupsFound
<1> QED
  BY <1>1, <1>4 DEF PartnersInv

\* Sorted by name: the profiles are found by having rows.
LEMMA ProfilesNow == \A q : Others!Profiles(q) = ProfilesOf(row, kind, q)
  BY DEF ProfilesOf, Others!Profiles, Others!Found

LEMMA ProfilesAre ==
  ASSUME PartnersInv, NEW q \in BOOLEAN, kind # "companies"
  PROVE  /\ IsFiniteSet(Others!Profiles(q))
         /\ Others!Profiles(q)
              = {p \in Others!Partners(Others!Groups(Others!Found(q))) :
                   p \notin Otherwise /\ (kind = "applicants" /\ q => p \in Named)}
         /\ q /\ kind \in Others!OfTasks => Others!Profiles(q) \subseteq Named
<1> DEFINE rows == Others!Found(q)
           ps == Others!Profiles(q)
<1>1. ps = {p \in Partner \ Otherwise :
              Others!HasName(p, q) /\ \E i \in rows : row[i].partner = p}
  BY DEF Others!Profiles
<1>2. rows \in SUBSET Row /\ \A i \in rows : row[i].partner \in Partner
  BY DEF Others!Found, PartnersInv, PartnerRow
<1>3. Others!Partners(Others!Groups(rows)) = {row[i].partner : i \in rows}
  BY <1>2, GroupsAre
<1>4. \A i \in rows : q => row[i].partner \in Named \/ kind \notin Others!OfTasks
  BY DEF Others!Found, Others!HasName
<1> HIDE DEF ps, rows
<1>5. ps = {p \in {row[i].partner : i \in rows} :
              p \notin Otherwise /\ (kind = "applicants" /\ q => p \in Named)}
  <2>1. ASSUME NEW i \in rows, row[i].partner \notin Otherwise,
               kind = "applicants" /\ q => row[i].partner \in Named
        PROVE  row[i].partner \in ps
    <3>1. q => row[i].partner \in Named
      BY <1>4, <2>1 DEF PartnersInv, Others!OfTasks, Others!Route
    <3> QED
      BY <1>1, <1>2, <2>1, <3>1 DEF Others!HasName
  <2> QED
    BY <1>1, <2>1 DEF Others!HasName
<1>6. IsFiniteSet(ps)
  <2>1. IsFiniteSet(rows)
    BY <1>2, RowAssumption, FS_Subset
  <2> DEFINE f == [i \in rows |-> row[i].partner]
  <2>2. IsFiniteSet({f[i] : i \in rows})
    BY <2>1, FiniteImage
  <2>3. {f[i] : i \in rows} = {row[i].partner : i \in rows}
    OBVIOUS
  <2> HIDE DEF f
  <2> QED
    BY <1>5, <2>2, <2>3, FS_Subset
<1>7. q /\ kind \in Others!OfTasks => ps \subseteq Named
  BY <1>1 DEF Others!HasName
<1> QED
  BY <1>3, <1>5, <1>6, <1>7 DEF ps, rows

\* What is found of the profiles, whatever was found before.
LEMMA NamesAreFound ==
  ASSUME PartnersInv, NEW q \in BOOLEAN, kind # "companies", NEW r,
         r.q = q, r.sort = "name", r.moved = 0, r.due = Others!Groups(Others!Found(q)),
         r.profiles = Others!Profiles(q)
  PROVE  NamesFound(r)
<1> DEFINE ps == Others!Profiles(q)
           d == Others!Groups(Others!Found(q))
<1>1. /\ IsFiniteSet(ps)
      /\ ps = {p \in Others!Partners(d) :
                 p \notin Otherwise /\ (kind = "applicants" /\ q => p \in Named)}
      /\ q /\ kind \in Others!OfTasks => ps \subseteq Named
  BY ProfilesAre
<1>2. d = GroupsOf(row, kind, q)
  BY GroupsNow
<1>3. r.profiles = ps /\ r.due = d
  OBVIOUS
<1> HIDE DEF ps, d
<1>4. Others!Partners(Expected(r)) = ps
  BY <1>1, <1>3 DEF Expected, InRole, Others!Partners
<1> QED
  BY <1>1, <1>2, <1>3, <1>4 DEF NamesFound

LEMMA CountFirstInv ==
  ASSUME PartnersInv, NEW q \in BOOLEAN, Others!CountFirst(q), kind # "companies"
  PROVE  PartnersInv'
<1> DEFINE n == Others!Cardinality(Others!Profiles(q))
           r == [pc |-> "find", sort |-> "name", q |-> q, moved |-> 0, total |-> n]
<1>1. reader' = r /\ UNCHANGED <<kind, row, clock>>
  BY DEF Others!CountFirst
<1>2. n \in Nat /\ n = Cardinality(ProfilesOf(row, kind, q))
  BY ProfilesAre, ProfilesNow, PartnersCountAlike, FS_CardinalityType
<1>3. r.q = q /\ r.moved = 0 /\ r.total = n
  OBVIOUS
<1> HIDE DEF n
<1>4. r = [pc |-> "find", sort |-> "name", q |-> r.q, moved |-> r.moved, total |-> r.total]
  BY <1>3
<1> HIDE DEF r
<1>5. TotalFound(r)
  BY <1>2, <1>3, <1>4 DEF TotalFound, Near
<1>6. TotalFound(reader)'
  BY <1>1, <1>5 DEF TotalFound
<1> QED
  BY <1>1, <1>6 DEF PartnersInv

LEMMA FindFirstInv ==
  ASSUME PartnersInv, NEW q \in BOOLEAN, Others!FindFirst(q), kind # "companies"
  PROVE  PartnersInv'
<1> DEFINE d == Others!Groups(Others!Found(q))
           ps == Others!Profiles(q)
           r == [pc |-> "count", sort |-> "name", q |-> q, moved |-> 0, profiles |-> ps, due |-> d]
<1>1. reader' = r /\ UNCHANGED <<kind, row, clock>>
  BY DEF Others!FindFirst
<1>2. Cardinality(ps) \in Nat /\ ps = ProfilesOf(row, kind, q)
  BY ProfilesAre, ProfilesNow, FS_CardinalityType
<1>3. r.q = q /\ r.sort = "name" /\ r.moved = 0 /\ r.profiles = ps /\ r.due = d
  OBVIOUS
<1>4. r = [pc |-> "count", sort |-> "name", q |-> r.q, moved |-> r.moved,
           profiles |-> r.profiles, due |-> r.due]
  OBVIOUS
<1> HIDE DEF r
<1>5. NamesFound(r)
  BY <1>3, NamesAreFound
<1> HIDE DEF ps, d
<1>6. ListFound(r)
  BY <1>2, <1>3, <1>4, <1>5 DEF ListFound, Near
<1>7. ListFound(reader)'
  BY <1>1, <1>6 DEF ListFound, NamesFound, Expected, InRole
<1> QED
  BY <1>1, <1>7 DEF PartnersInv

\* The other of the two statements: there are both a list and a total.
LEMMA BothFound ==
  ASSUME PartnersInv, NEW q, NEW m, NEW ps, NEW d, NEW n, NEW apart, NEW r,
         r = [pc |-> "second", sort |-> "name", q |-> q, moved |-> m, profiles |-> ps,
              due |-> d, total |-> n, apart |-> apart],
         reader' = r, UNCHANGED <<kind, row, clock>>,
         NamesFound(r), n \in Nat, apart \in Nat, Near(n, Cardinality(ps), apart)
  PROVE  PartnersInv'
<1>1. r.q = q /\ r.moved = m /\ r.profiles = ps /\ r.due = d /\ r.total = n /\ r.apart = apart
  OBVIOUS
<1>2. r = [pc |-> "second", sort |-> "name", q |-> r.q, moved |-> r.moved,
           profiles |-> r.profiles, due |-> r.due, total |-> r.total, apart |-> r.apart]
  BY <1>1
<1>3. ProfilesFound(r)
  BY <1>1, <1>2 DEF ProfilesFound
<1>4. ProfilesFound(reader)'
  BY <1>3 DEF ProfilesFound, NamesFound, Expected, InRole
<1> QED
  BY <1>4 DEF PartnersInv

LEMMA CountProfilesInv ==
  ASSUME PartnersInv, Others!CountProfiles
  PROVE  PartnersInv'
<1> PICK l : l = reader
  OBVIOUS
<1>1. l.pc = "count"
  BY DEF Others!CountProfiles
<1>2. ListFound(l)
  BY <1>1 DEF PartnersInv, GroupsFound, TotalFound, ProfilesFound, Others!Idle
<1> DEFINE n == Others!Cardinality(Others!Profiles(l.q))
           r == [pc |-> "second", sort |-> "name", q |-> l.q, moved |-> l.moved,
                 profiles |-> l.profiles, due |-> l.due, total |-> n, apart |-> l.moved]
<1>3. reader' = r /\ UNCHANGED <<kind, row, clock>>
  BY DEF Others!CountProfiles
<1>4. n \in Nat /\ n = Cardinality(ProfilesOf(row, kind, l.q))
  BY <1>2, ProfilesAre, ProfilesNow, PartnersCountAlike, FS_CardinalityType
  DEF ListFound, NamesFound
<1>5. r.q = l.q /\ r.sort = l.sort /\ r.moved = l.moved /\ r.profiles = l.profiles /\ r.due = l.due
  BY <1>2 DEF ListFound, NamesFound
<1> HIDE DEF n
<1>6. NamesFound(r)
  <2> HIDE DEF r
  <2>1. NamesFound(l)
    BY <1>2 DEF ListFound
  <2>2. Expected(r) = Expected(l)
    BY <1>5 DEF Expected, InRole
  <2> QED
    BY <1>5, <2>1, <2>2 DEF NamesFound
<1>7. l.moved \in Nat /\ Near(n, Cardinality(l.profiles), l.moved)
  BY <1>2, <1>4 DEF ListFound, NamesFound, Near
<1> QED
  BY <1>3, <1>4, <1>6, <1>7, BothFound

LEMMA FindProfilesInv ==
  ASSUME PartnersInv, Others!FindProfiles
  PROVE  PartnersInv'
<1> PICK l : l = reader
  OBVIOUS
<1>1. l.pc = "find"
  BY DEF Others!FindProfiles
<1>2. TotalFound(l)
  BY <1>1 DEF PartnersInv, GroupsFound, ListFound, ProfilesFound, Others!Idle
<1> DEFINE ps == Others!Profiles(l.q)
           d == Others!Groups(Others!Found(l.q))
           r == [pc |-> "second", sort |-> "name", q |-> l.q, moved |-> 0,
                 profiles |-> ps, due |-> d, total |-> l.total, apart |-> l.moved]
<1>3. reader' = r /\ UNCHANGED <<kind, row, clock>>
  BY DEF Others!FindProfiles
<1>4. r.q = l.q /\ r.sort = "name" /\ r.moved = 0 /\ r.profiles = ps /\ r.due = d
  OBVIOUS
<1>5. l.q \in BOOLEAN /\ kind # "companies" /\ l.total \in Nat /\ l.moved \in Nat
  BY <1>2 DEF TotalFound
<1>6. NamesFound(r)
  <2> HIDE DEF r
  <2> QED
    BY <1>4, <1>5, NamesAreFound
<1>7. Near(l.total, Cardinality(ps), l.moved)
  <2>1. ps = ProfilesOf(row, kind, l.q)
    BY ProfilesNow
  <2> HIDE DEF ps
  <2> QED
    BY <1>2, <2>1 DEF TotalFound
<1> HIDE DEF ps, d
<1> QED
  BY <1>3, <1>5, <1>6, <1>7, BothFound

\* What a request has found, and that it is noted to have moved.
Recent(q, m, d) == [pc |-> "second", sort |-> "recent", q |-> q, moved |-> m, groups |-> d, due |-> d]
Total(q, m, n) == [pc |-> "find", sort |-> "name", q |-> q, moved |-> m, total |-> n]
ByName(q, m, ps, d) ==
  [pc |-> "count", sort |-> "name", q |-> q, moved |-> m, profiles |-> ps, due |-> d]
Both(q, m, ps, d, n, apart) ==
  [pc |-> "second", sort |-> "name", q |-> q, moved |-> m, profiles |-> ps, due |-> d,
   total |-> n, apart |-> apart]

Noted(r) == [r EXCEPT !.moved = @ + 1]

LEMMA RecentMoved ==
  ASSUME NEW q, NEW m, NEW d
  PROVE  Noted(Recent(q, m, d)) = Recent(q, m + 1, d)
  BY DEF Recent, Noted

LEMMA TotalMoved ==
  ASSUME NEW q, NEW m, NEW n
  PROVE  Noted(Total(q, m, n)) = Total(q, m + 1, n)
  BY DEF Total, Noted

LEMMA NamesMoved ==
  ASSUME NEW q, NEW m, NEW ps, NEW d
  PROVE  Noted(ByName(q, m, ps, d)) = ByName(q, m + 1, ps, d)
  BY DEF ByName, Noted

LEMMA BothMoved ==
  ASSUME NEW q, NEW m, NEW ps, NEW d, NEW n, NEW apart
  PROVE  Noted(Both(q, m, ps, d, n, apart)) = Both(q, m + 1, ps, d, n, apart)
  BY DEF Both, Noted

\* A row that is written adds one profile at most, and takes one away at most.
LEMMA OneMore ==
  ASSUME NEW S, IsFiniteSet(S), NEW x, NEW T, T \subseteq S \cup {x}
  PROVE  IsFiniteSet(T) /\ Cardinality(T) <= Cardinality(S) + 1
<1>1. /\ IsFiniteSet(S \cup {x})
      /\ Cardinality(S \cup {x}) = IF x \in S THEN Cardinality(S) ELSE Cardinality(S) + 1
  BY FS_AddElement
<1>2. IsFiniteSet(T) /\ Cardinality(T) <= Cardinality(S \cup {x})
  BY <1>1, FS_Subset
<1>3. Cardinality(S) \in Nat /\ Cardinality(T) \in Nat
  BY <1>2, FS_CardinalityType
<1> QED
  BY <1>1, <1>2, <1>3

LEMMA OneRow ==
  ASSUME NEW rows, NEW others, NEW i \in Row, NEW p, others[i].partner = p,
         \A j \in Row : j # i => others[j] = rows[j], NEW route, NEW q
  PROVE  /\ ProfilesOf(others, route, q) \subseteq ProfilesOf(rows, route, q) \cup {p}
         /\ ProfilesOf(rows, route, q) \subseteq ProfilesOf(others, route, q) \cup {rows[i].partner}
<1>3. ASSUME NEW x \in ProfilesOf(others, route, q), x # p PROVE x \in ProfilesOf(rows, route, q)
  BY <1>3 DEF ProfilesOf
<1>4. ASSUME NEW x \in ProfilesOf(rows, route, q), x # rows[i].partner
      PROVE  x \in ProfilesOf(others, route, q)
  BY <1>4 DEF ProfilesOf
<1> QED
  BY <1>3, <1>4

\* A total that was near stays near, by one row more.
LEMMA NearStill ==
  ASSUME PartnersInv, NEW i \in Row, NEW p, NEW found, NEW t, NEW others,
         others = [row EXCEPT ![i] = [partner |-> p, found |-> found, updatedAt |-> t]],
         NEW q \in BOOLEAN, kind # "companies", NEW m \in Nat, NEW n \in Nat,
         Near(n, Cardinality(ProfilesOf(row, kind, q)), m)
  PROVE  Near(n, Cardinality(ProfilesOf(others, kind, q)), m + 1)
<1> DEFINE before == ProfilesOf(row, kind, q)
           after == ProfilesOf(others, kind, q)
<1>1. IsFiniteSet(before)
  BY ProfilesAre, ProfilesNow
<1>2. row \in [Row -> PartnerRow]
  BY DEF PartnersInv
<1>3. after \subseteq before \cup {p} /\ before \subseteq after \cup {row[i].partner}
  <2>1. others[i].partner = p /\ \A j \in Row : j # i => others[j] = row[j]
    BY <1>2
  <2> HIDE DEF before, after
  <2>2. ProfilesOf(others, kind, q) \subseteq ProfilesOf(row, kind, q) \cup {p}
    BY ONLY <2>1, OneRow, i \in Row
  <2>3. ProfilesOf(row, kind, q) \subseteq ProfilesOf(others, kind, q) \cup {row[i].partner}
    BY ONLY <2>1, OneRow, i \in Row
  <2> QED
    BY <2>2, <2>3 DEF before, after
<1> HIDE DEF before, after
<1>4. IsFiniteSet(after) /\ Cardinality(after) <= Cardinality(before) + 1
  BY <1>1, <1>3, OneMore
<1>5. Cardinality(before) <= Cardinality(after) + 1
  BY <1>3, <1>4, OneMore
<1>6. Cardinality(before) \in Nat /\ Cardinality(after) \in Nat
  BY <1>1, <1>4, FS_CardinalityType
<1>7. Near(n, Cardinality(before), m)
  BY DEF before
<1>8. Near(n, Cardinality(after), m + 1)
  BY <1>4, <1>5, <1>6, <1>7 DEF Near
<1> QED
  BY <1>8 DEF after

\* A row is written: what was found already is noted to have moved.
LEMMA WriteRowInv ==
  ASSUME PartnersInv, NEW i \in Row, NEW p \in Partner \cup {NoPartner}, NEW found \in BOOLEAN,
         Others!Change(i, p, found)
  PROVE  PartnersInv'
<1>1. /\ clock' = clock + 1 /\ kind' = kind /\ reader' = Others!Moved
      /\ row' = [row EXCEPT ![i] = [partner |-> p, found |-> found, updatedAt |-> clock + 1]]
  BY DEF Others!Change, Others!Write
<1>2. clock' \in Nat /\ row' \in [Row -> PartnerRow]
  BY <1>1 DEF PartnersInv, PartnerRow
<1> PICK r : r = reader
  OBVIOUS
<1> PICK l : l = Noted(r)
  OBVIOUS
<1>3. CASE r = Others!Idle
  BY <1>1, <1>2, <1>3 DEF PartnersInv, Others!Moved, Others!Idle
<1>4. ASSUME NEW q \in BOOLEAN, kind # "companies", NEW m \in Nat, NEW n \in Nat,
             Near(n, Cardinality(ProfilesOf(row, kind, q)), m)
      PROVE  Near(n, Cardinality(ProfilesOf(row, kind, q))', m + 1)
  <2> PICK others : others = [row EXCEPT ![i] = [partner |-> p, found |-> found,
                                                 updatedAt |-> clock + 1]]
    OBVIOUS
  <2> PICK t : t = clock + 1
    OBVIOUS
  <2>1. others = [row EXCEPT ![i] = [partner |-> p, found |-> found, updatedAt |-> t]]
    OBVIOUS
  <2>2. Near(n, Cardinality(ProfilesOf(others, kind, q)), m + 1)
    BY <1>4, <2>1, NearStill
  <2>3. ProfilesOf(row, kind, q)' = ProfilesOf(others, kind, q)
    BY <1>1 DEF ProfilesOf
  <2> QED
    BY <2>2, <2>3
<1>5. ASSUME NamesFound(r), NEW ps, ps = r.profiles, NEW d, d = r.due,
             l.q = r.q, l.sort = r.sort, l.moved = r.moved + 1, l.profiles = ps, l.due = d
      PROVE  NamesFound(l)'
  <2>1. Expected(l) = Expected(r) /\ l.moved # 0
    BY <1>5 DEF NamesFound, Expected, InRole
  <2>2. NamesFound(l)
    BY <1>5, <2>1 DEF NamesFound
  <2> QED
    BY <1>1, <2>1, <2>2 DEF NamesFound, Expected, InRole
<1>6. CASE GroupsFound(r)
  <2>1. r = Recent(r.q, r.moved, r.due) /\ r.pc = "second"
    BY <1>6 DEF GroupsFound, Recent
  <2>2. reader' = l
    BY <1>1, <2>1 DEF Others!Moved, Noted
  <2>3. l = Recent(r.q, r.moved + 1, r.due)
    BY <2>1, RecentMoved
  <2>4. l = Recent(l.q, l.moved, l.due) /\ l.q = r.q /\ l.moved = r.moved + 1 /\ l.due = r.due
    BY <2>3 DEF Recent
  <2>5. GroupsFound(l)
    BY <1>6, <2>4 DEF GroupsFound, Recent
  <2>6. GroupsFound(reader)'
    BY <2>2, <2>5 DEF GroupsFound
  <2> QED
    BY <1>1, <1>2, <2>6 DEF PartnersInv
<1>7. CASE TotalFound(r)
  <2>1. r = Total(r.q, r.moved, r.total) /\ r.pc = "find"
    BY <1>7 DEF TotalFound, Total
  <2>2. reader' = l
    BY <1>1, <2>1 DEF Others!Moved, Noted
  <2>3. l = Total(r.q, r.moved + 1, r.total)
    BY <2>1, TotalMoved
  <2>4. l = Total(l.q, l.moved, l.total) /\ l.q = r.q /\ l.moved = r.moved + 1 /\ l.total = r.total
    BY <2>3 DEF Total
  <2>5. Near(r.total, Cardinality(ProfilesOf(row, kind, r.q))', r.moved + 1)
    BY <1>4, <1>7 DEF TotalFound
  <2>6. TotalFound(reader)'
    BY <1>1, <1>7, <2>2, <2>4, <2>5 DEF TotalFound, Total
  <2> QED
    BY <1>1, <1>2, <2>6 DEF PartnersInv
<1>8. CASE ListFound(r)
  <2>1. r = ByName(r.q, r.moved, r.profiles, r.due) /\ r.pc = "count"
    BY <1>8 DEF ListFound, ByName
  <2>2. reader' = l
    BY <1>1, <2>1 DEF Others!Moved, Noted
  <2>3. l = ByName(r.q, r.moved + 1, r.profiles, r.due)
    BY <2>1, NamesMoved
  <2>4. /\ l = ByName(l.q, l.moved, l.profiles, l.due)
        /\ l.q = r.q /\ l.sort = r.sort /\ l.moved = r.moved + 1 /\ l.profiles = r.profiles
        /\ l.due = r.due
    BY <2>1, <2>3 DEF ByName
  <2>5. Near(Cardinality(r.profiles), Cardinality(ProfilesOf(row, kind, r.q))', r.moved + 1)
    <3>1. Cardinality(r.profiles) \in Nat
      BY <1>8, FS_CardinalityType DEF ListFound, NamesFound
    <3> QED
      BY <1>4, <1>8, <3>1 DEF ListFound, NamesFound
  <2>6. NamesFound(l)'
    BY <1>5, <1>8, <2>4 DEF ListFound
  <2>7. ListFound(reader)'
    BY <1>1, <2>2, <2>4, <2>5, <2>6 DEF ListFound, ByName
  <2> QED
    BY <1>1, <1>2, <2>7 DEF PartnersInv
<1>9. CASE ProfilesFound(r)
  <2>1. r = Both(r.q, r.moved, r.profiles, r.due, r.total, r.apart) /\ r.pc = "second"
    BY <1>9 DEF ProfilesFound, Both
  <2>2. reader' = l
    BY <1>1, <2>1 DEF Others!Moved, Noted
  <2>3. l = Both(r.q, r.moved + 1, r.profiles, r.due, r.total, r.apart)
    BY <2>1, BothMoved
  <2>4. /\ l = Both(l.q, l.moved, l.profiles, l.due, l.total, l.apart)
        /\ l.q = r.q /\ l.sort = r.sort /\ l.moved = r.moved + 1 /\ l.profiles = r.profiles
        /\ l.due = r.due /\ l.total = r.total /\ l.apart = r.apart
    BY <2>1, <2>3 DEF Both
  <2>5. NamesFound(l)'
    BY <1>5, <1>9, <2>4 DEF ProfilesFound
  <2>6. ProfilesFound(reader)'
    BY <1>9, <2>2, <2>4, <2>5 DEF ProfilesFound, Both
  <2> QED
    BY <1>1, <1>2, <2>6 DEF PartnersInv
<1>10. CASE r.pc = "done" /\ SortsAgree
  <2>1. reader' = reader
    BY <1>1, <1>10 DEF Others!Moved
  <2> QED
    BY <1>1, <1>2, <1>10, <2>1 DEF PartnersInv, SortsAgree, Others!SortsAgree
<1> QED
  BY <1>3, <1>6, <1>7, <1>8, <1>9, <1>10 DEF PartnersInv

\* An answer that agrees with what was found.
LEMMA AnswerInv ==
  ASSUME PartnersInv, NEW r, r = reader, NEW items, NEW total, NEW apart,
         Others!Answer(items, total, apart), UNCHANGED <<kind, row, clock>>,
         r.moved = 0 \/ r.sort = "recent" => items = Expected(r),
         Others!Partners(items) = Others!Partners(Expected(r)),
         r.sort = "recent" => total = Cardinality(items) + Cardinality(r.due \ InRole(r)),
         r.sort = "name" => Near(total, Cardinality(items), apart)
  PROVE  PartnersInv'
<1> DEFINE a == [pc |-> "done", sort |-> r.sort, q |-> r.q, moved |-> r.moved,
                 due |-> r.due, items |-> items, total |-> total, apart |-> apart]
<1>1. reader' = a
  BY DEF Others!Answer
<1>2. /\ a.pc = "done" /\ a.sort = r.sort /\ a.q = r.q /\ a.moved = r.moved
      /\ a.due = r.due /\ a.items = items /\ a.total = total /\ a.apart = apart
  OBVIOUS
<1> HIDE DEF a
<1>3. SortsAgree'
  BY <1>1, <1>2, PartnersCountAlike
  DEF SortsAgree, Others!SortsAgree, Expected, InRole, Near
<1> QED
  BY <1>1, <1>2, <1>3 DEF PartnersInv

\* The profiles of the groups: those of another role are in the total alone.
LEMMA FindUsersInv ==
  ASSUME PartnersInv, Others!FindUsers
  PROVE  PartnersInv'
<1> PICK r : r = reader
  OBVIOUS
<1>1. r.pc = "second" /\ r.sort = "recent"
  BY DEF Others!FindUsers
<1>2. GroupsFound(r)
  BY <1>1 DEF PartnersInv, TotalFound, ListFound, ProfilesFound, Others!Idle
<1>3. r.groups = r.due /\ IsFiniteSet(r.due)
  BY <1>2 DEF GroupsFound
<1> DEFINE items == InRole(r)
<1>4. Others!Answer(items, Cardinality(r.due), 0) /\ UNCHANGED <<kind, row, clock>>
  BY <1>3, PartnersCountAlike DEF Others!FindUsers, InRole
<1>5. items = Expected(r)
  BY <1>1 DEF Expected
<1>6. Cardinality(r.due) = Cardinality(items) + Cardinality(r.due \ items)
  <2>1. items \subseteq r.due
    BY DEF InRole
  <2> HIDE DEF items
  <2>2. Cardinality(r.due \ items) = Cardinality(r.due) - Cardinality(r.due \cap items)
    BY <1>3, FS_Difference
  <2>3. r.due \cap items = items
    BY <2>1
  <2>4. IsFiniteSet(items) /\ IsFiniteSet(r.due \ items)
    BY <1>3, <2>1, FS_Subset
  <2>5. Cardinality(r.due) \in Nat /\ Cardinality(items) \in Nat
        /\ Cardinality(r.due \ items) \in Nat
    BY <1>3, <2>4, FS_CardinalityType
  <2>6. Cardinality(r.due \cap items) = Cardinality(items)
    BY <2>3
  <2> QED
    BY <2>2, <2>5, <2>6
<1> QED
  BY <1>1, <1>4, <1>5, <1>6, AnswerInv

\* The statistics of the profiles, by rows that are as they were if none was written.
LEMMA CountInv ==
  ASSUME PartnersInv, NEW rows, Others!Count(rows),
         \A p \in reader.profiles :
           reader.q /\ kind \in Others!OfTasks => p \in Named,
         kind \in Others!OfTasks => rows = Others!TaskRows,
         kind \notin Others!OfTasks => rows = Others!Found(reader.q)
  PROVE  PartnersInv'
<1> PICK r : r = reader
  OBVIOUS
<1>1. r.pc = "second" /\ r.sort = "name"
  BY DEF Others!Count
<1>2. ProfilesFound(r)
  BY <1>1 DEF PartnersInv, GroupsFound, TotalFound, ListFound, Others!Idle
<1> DEFINE f == [p \in r.profiles |-> Others!Statistics(p, rows)]
           items == {Others!Statistics(p, rows) : p \in r.profiles}
<1>3. Others!Answer(items, r.total, r.apart) /\ UNCHANGED <<kind, row, clock>>
  BY DEF Others!Count
<1>4. items = {f[p] : p \in r.profiles}
  OBVIOUS
<1>5. \A p \in r.profiles : f[p].partner = p
  BY StatisticsOf
<1>6. Cardinality(items) = Cardinality(r.profiles) /\ Cardinality(items) \in Nat
  <2> HIDE DEF f, items
  <2>1. IsFiniteSet(r.profiles)
    BY <1>2 DEF ProfilesFound, NamesFound
  <2>2. \A x, y \in r.profiles : f[x] = f[y] => x = y
    BY <1>5
  <2>3. Cardinality(items) = Cardinality(r.profiles)
    BY <1>4, <2>1, <2>2, EqualImage
  <2>4. Cardinality(r.profiles) \in Nat
    BY <2>1, FS_CardinalityType
  <2> QED
    BY <2>3, <2>4
<1>7. Others!Partners(items) = r.profiles
  <2>1. Others!Partners({f[p] : p \in r.profiles}) = {f[p].partner : p \in r.profiles}
    BY DEF Others!Partners
  <2> HIDE DEF f, items
  <2>2. {f[p].partner : p \in r.profiles} = r.profiles
    BY <1>5
  <2> QED
    BY <1>4, <2>1, <2>2
<1>8. Others!Partners(items) = Others!Partners(Expected(r))
  BY <1>2, <1>7 DEF ProfilesFound, NamesFound
<1>9. ASSUME r.moved = 0 PROVE items = Expected(r)
  <2> DEFINE old == Others!Found(r.q)
  <2>1. r.due = Others!Groups(old) /\ old \in SUBSET Row
    BY <1>2, <1>9, GroupsNow DEF ProfilesFound, NamesFound, Others!Found
  <2>2. \A g \in Expected(r) : g = Others!Statistics(g.partner, old)
    BY <2>1, GroupsAre DEF Expected, InRole
  <2>3. ASSUME NEW p \in r.profiles
        PROVE  Others!Statistics(p, rows) = Others!Statistics(p, old)
    <3>1. {i \in rows : row[i].partner = p} = {i \in old : row[i].partner = p}
      BY DEF Others!TaskRows, Others!Found, Others!HasName
    <3> QED
      BY <3>1, OwnRows
  <2>4. r.profiles = {g.partner : g \in Expected(r)}
    BY <1>2 DEF ProfilesFound, NamesFound, Others!Partners
  <2> DEFINE Statistic(p) == Others!Statistics(p, old)
  <2>5. items = {Statistic(p) : p \in r.profiles}
    BY <2>3
  <2>6. \A g \in Expected(r) : g = Statistic(g.partner)
    BY <2>2
  <2> HIDE DEF Statistic, items, old
  <2> QED
    BY <2>4, <2>5, <2>6
<1> HIDE DEF f, items
<1>10. Near(r.total, Cardinality(items), r.apart)
  BY <1>2, <1>6 DEF ProfilesFound
<1> QED
  BY <1>1, <1>3, <1>8, <1>9, <1>10, AnswerInv

\* At first there is no row, and nobody asks.
LEMMA InitPartnersInv == Others!Init => PartnersInv
  BY DEF Others!Init, PartnersInv, PartnerRow, Others!Absent

LEMMA NextPartnersInv == PartnersInv /\ [Next]_vars => PartnersInv'
<1> SUFFICES ASSUME PartnersInv, [Next]_vars PROVE PartnersInv'
  OBVIOUS
<1>1. CASE UNCHANGED partnerVars
  BY <1>1
  DEF partnerVars, PartnersInv, GroupsFound, TotalFound, ListFound, ProfilesFound, NamesFound,
      Expected, InRole, SortsAgree, Others!SortsAgree
<1>2. ASSUME NEW q \in BOOLEAN,
             \/ Others!TasksByRecent(q) \/ Others!ApplicantsByRecent(q)
             \/ Others!CompaniesAggregated(q)
      PROVE  PartnersInv'
  BY <1>2, GroupRowsInv
  DEF Others!TasksByRecent, Others!ApplicantsByRecent, Others!CompaniesAggregated
<1>3. ASSUME NEW q \in BOOLEAN, Others!TasksByName(q) \/ Others!ApplicantsByName(q)
      PROVE  PartnersInv'
  BY <1>3, FindFirstInv, CountFirstInv
  DEF Others!TasksByName, Others!ApplicantsByName, Others!OfTasks, Others!FindNames
<1>4. CASE Others!CountTasks
  <2>1. ProfilesFound(reader)
    BY <1>4
    DEF Others!CountTasks, Others!Count, PartnersInv, GroupsFound, TotalFound, ListFound,
        Others!Idle
  <2>2. \A p \in reader.profiles : reader.q /\ kind \in Others!OfTasks => p \in Named
    BY <2>1 DEF ProfilesFound, NamesFound
  <2> QED
    BY <1>4, <2>2, CountInv DEF Others!CountTasks
<1>5. CASE Others!CountApplications
  BY <1>5, CountInv DEF Others!CountApplications
<1>6. CASE Others!Close
  BY <1>6 DEF Others!Close, PartnersInv
<1>7. CASE PartnerStep
  BY <1>2, <1>3, <1>4, <1>5, <1>6, <1>7, WriteRowInv, FindUsersInv,
     CountProfilesInv, FindProfilesInv DEF PartnerStep, Others!Next
<1> QED
  BY <1>1, <1>7
  DEF Next, vars, PostStep, DialogStep, ScrollStep, TaskStep, PublicationStep, ProfileStep

\* Whichever order the partners are asked for in, and whatever rows are written
\* between the queries, the list shows those whose rows were found, and its total is
\* no further from how many they are than rows were written between the two statements.
THEOREM PartnersAgree == Spec => []SortsAgree
<1>1. Init => PartnersInv
  BY InitPartnersInv DEF Init
<1>2. PartnersInv => SortsAgree
  BY DEF PartnersInv, SortsAgree, Others!SortsAgree, GroupsFound, TotalFound, ListFound,
         ProfilesFound, Others!Idle
<1> QED
  BY <1>1, <1>2, NextPartnersInv, PTL DEF Spec
-----------------------------------------------------------------------------
(* Scrolling, for every set of messages, instants, and page length: an order *)
(* of what is found, how a page cuts it, and what the client is left with.   *)

\* Those of S that R puts ahead of one, and the k first of S.
Ahead(R, S, n) == {x \in S : <<x, n>> \in R}
Front(R, S, k) == {n \in S : Cardinality(Ahead(R, S, n)) < k}

StrictOrder(R, S) ==
  /\ \A x \in S : <<x, x>> \notin R
  /\ \A x, y \in S : x # y => <<x, y>> \in R \/ <<y, x>> \in R
  /\ \A x, y, z \in S : <<x, y>> \in R /\ <<y, z>> \in R => <<x, z>> \in R

LEMMA ScrollCountsAlike == \A S : Scrolls!Cardinality(S) = Cardinality(S)
  BY DEF Scrolls!Cardinality, Cardinality

\* Fewer are ahead of one that is ahead.
LEMMA AheadShrinks ==
  ASSUME NEW S, IsFiniteSet(S), NEW R, StrictOrder(R, S),
         NEW n \in S, NEW m \in S, <<n, m>> \in R
  PROVE  /\ Ahead(R, S, n) \cup {n} \subseteq Ahead(R, S, m)
         /\ n \notin Ahead(R, S, n)
         /\ Cardinality(Ahead(R, S, n)) < Cardinality(Ahead(R, S, m))
<1> PICK A : A = Ahead(R, S, n)
  OBVIOUS
<1> PICK B : B = Ahead(R, S, m)
  OBVIOUS
<1>1. A \cup {n} \subseteq B /\ n \notin A /\ A \subseteq S /\ B \subseteq S
  BY DEF Ahead, StrictOrder
<1>2. IsFiniteSet(A) /\ IsFiniteSet(B)
  BY <1>1, FS_Subset
<1>3. Cardinality(A \cup {n}) = Cardinality(A) + 1 /\ IsFiniteSet(A \cup {n})
  BY <1>1, <1>2, FS_AddElement
<1>4. Cardinality(A \cup {n}) <= Cardinality(B)
  BY <1>1, <1>2, FS_Subset
<1>5. Cardinality(A) \in Nat /\ Cardinality(B) \in Nat
  BY <1>2, FS_CardinalityType
<1> QED
  BY <1>1, <1>3, <1>4, <1>5

LEMMA AheadCounts ==
  ASSUME NEW S, IsFiniteSet(S), NEW R, NEW n
  PROVE  Cardinality(Ahead(R, S, n)) \in Nat
  BY FS_Subset, FS_CardinalityType DEF Ahead

\* Of some there is one that none is ahead of.
LEMMA FirstExists ==
  ASSUME NEW S, IsFiniteSet(S), S # {}, NEW R, StrictOrder(R, S)
  PROVE  \E n \in S : \A x \in S : <<x, n>> \notin R
<1> DEFINE rank(n) == Cardinality(Ahead(R, S, n))
           ranks == {rank(n) : n \in S}
<1>1. \A n \in S : rank(n) \in Nat
  BY AheadCounts
<1>2. \A n, m \in S : <<n, m>> \in R => rank(n) < rank(m)
  BY AheadShrinks
<1> HIDE DEF rank
<1>3. ranks \subseteq Nat /\ ranks # {}
  BY <1>1
<1>4. PICK r \in ranks : \A q \in ranks : <<q, r>> \notin OpToRel(<, Nat)
  BY <1>3, WFMin, NatLessThanWellFounded, Zenon
<1>5. \A q \in ranks : ~(q < r)
  BY <1>3, <1>4, Zenon DEF OpToRel
<1>6. PICK n \in S : r = rank(n)
  BY <1>4, Zenon
<1> QED
  BY <1>2, <1>5, <1>6

\* What a page leaves out comes after all of it; then there are more than it holds.
LEMMA PageCut ==
  ASSUME NEW S, IsFiniteSet(S), NEW R, StrictOrder(R, S), NEW k \in Nat,
         NEW m \in S \ Front(R, S, k)
  PROVE  /\ Cardinality(S) > k
         /\ \A n \in Front(R, S, k) : <<n, m>> \in R
<1>1. Cardinality(Ahead(R, S, m)) >= k
  BY AheadCounts DEF Front
<1>2. ASSUME NEW n \in Front(R, S, k) PROVE <<n, m>> \in R
  <2>1. n \in S /\ Cardinality(Ahead(R, S, n)) < k /\ n # m
    BY DEF Front
  <2>2. <<m, n>> \notin R
    BY <1>1, <2>1, AheadShrinks, AheadCounts
  <2> QED
    BY <2>1, <2>2 DEF StrictOrder
<1>3. Cardinality(S) > k
  <2> PICK A : A = Ahead(R, S, m)
    OBVIOUS
  <2>1. A \cup {m} \subseteq S /\ m \notin A
    BY DEF Ahead, StrictOrder
  <2>2. IsFiniteSet(A)
    BY <2>1, FS_Subset
  <2>3. Cardinality(A \cup {m}) = Cardinality(A) + 1
    BY <2>1, <2>2, FS_AddElement
  <2>4. Cardinality(A \cup {m}) <= Cardinality(S)
    BY <2>1, FS_Subset
  <2>5. Cardinality(A) \in Nat /\ Cardinality(S) \in Nat
    BY <2>2, FS_CardinalityType
  <2> QED
    BY <1>1, <2>3, <2>4, <2>5
<1> QED
  BY <1>2, <1>3

\* Whether there are more is seen when one more is asked for.
LEMMA PageFull ==
  ASSUME NEW S, IsFiniteSet(S), NEW R, StrictOrder(R, S), NEW k \in Nat, Cardinality(S) > k
  PROVE  Cardinality(Front(R, S, k + 1)) > k
<1>1. CASE S = Front(R, S, k + 1)
  BY <1>1
<1>2. CASE S # Front(R, S, k + 1)
  <2> PICK rest : rest = S \ Front(R, S, k + 1)
    OBVIOUS
  <2>1. rest # {} /\ rest \subseteq S
    BY <1>2 DEF Front
  <2>2. IsFiniteSet(rest) /\ StrictOrder(R, rest)
    BY <2>1, FS_Subset DEF StrictOrder
  <2>3. PICK x \in rest : \A y \in rest : <<y, x>> \notin R
    BY <2>1, <2>2, FirstExists
  <2>4. Cardinality(Ahead(R, S, x)) \in Nat /\ ~(Cardinality(Ahead(R, S, x)) < k + 1)
    BY <2>1, <2>3, AheadCounts DEF Front
  <2>5. Ahead(R, S, x) \subseteq Front(R, S, k + 1)
    BY <2>3 DEF Ahead
  <2>6. IsFiniteSet(Front(R, S, k + 1))
    BY FS_Subset DEF Front
  <2>7. Cardinality(Ahead(R, S, x)) <= Cardinality(Front(R, S, k + 1))
    BY <2>5, <2>6, FS_Subset
  <2>8. Cardinality(Front(R, S, k + 1)) \in Nat
    BY <2>6, FS_CardinalityType
  <2> PICK a, f : a = Cardinality(Ahead(R, S, x)) /\ f = Cardinality(Front(R, S, k + 1))
    OBVIOUS
  <2>9. a \in Nat /\ f \in Nat /\ ~(a < k + 1) /\ a <= f
    BY <2>4, <2>7, <2>8
  <2>10. f > k
    BY <2>9
  <2> QED
    BY <2>10
<1> QED
  BY <1>1, <1>2

\* A page of some is not empty.
LEMMA PageBegins ==
  ASSUME NEW S, IsFiniteSet(S), S # {}, NEW R, StrictOrder(R, S), NEW k \in Nat \ {0}
  PROVE  Front(R, S, k) # {}
<1>1. PICK n \in S : \A x \in S : <<x, n>> \notin R
  BY FirstExists
<1>2. Ahead(R, S, n) = {}
  BY <1>1 DEF Ahead
<1>3. Cardinality(Ahead(R, S, n)) = 0
  BY <1>2, FS_EmptySet
<1> QED
  BY <1>3 DEF Front
-----------------------------------------------------------------------------
(* The order of the messages, and the invariant.                             *)

Before(c) ==
  {p \in Message \X Message : \/ c[p[1]] < c[p[2]]
                              \/ c[p[1]] = c[p[2]] /\ p[1] < p[2]}
After(c) == {p \in Message \X Message : <<p[2], p[1]>> \in Before(c)}

OpenScroll ==
  [open: {TRUE}, shown: SUBSET Message, again: {FALSE}, there: SUBSET Message,
   hasOlder: BOOLEAN, hasNewer: BOOLEAN]

\* What is not shown is before or after all that is, and more is said to be there.
Covered(c, shown, there, hasOlder, hasNewer) ==
  \A m \in there \ shown :
    \/ hasOlder /\ \A n \in shown : <<m, n>> \in Before(c)
    \/ hasNewer /\ \A n \in shown : <<n, m>> \in Before(c)

Following(s) ==
  /\ s \in OpenScroll
  /\ s.shown # {}
  /\ s.there \subseteq Scrolls!Visible
  /\ \A m \in s.shown : createdAt[m] # 0
  /\ Covered(createdAt, s.shown, s.there, s.hasOlder, s.hasNewer)

ScrollInv ==
  /\ createdAt \in [Message -> Instant \cup {0}]
  /\ scroll = Scrolls!NoScroll \/ Following(scroll)

LEMMA BeforeAfter ==
  ASSUME NEW c, NEW x \in Message, NEW n \in Message
  PROVE  /\ <<x, n>> \in Before(c) <=> c[x] < c[n] \/ (c[x] = c[n] /\ x < n)
         /\ <<x, n>> \in After(c) <=> <<n, x>> \in Before(c)
  BY DEF Before, After

LEMMA MessagesOrdered ==
  ASSUME NEW c \in [Message -> Instant \cup {0}], NEW S \in SUBSET Message
  PROVE  StrictOrder(Before(c), S) /\ StrictOrder(After(c), S) /\ IsFiniteSet(S)
<1>1. \A m \in Message : m \in Nat /\ c[m] \in Nat
  <2> TAKE m \in Message
  <2>1. PICK t \in Instant \cup {0} : t = c[m]
    OBVIOUS
  <2>2. t \in Nat /\ m \in Nat
    BY ScrollAssumption
  <2> QED
    BY <2>1, <2>2
<1>2. StrictOrder(Before(c), S)
  <2>1. \A x \in S : <<x, x>> \notin Before(c)
    BY <1>1, BeforeAfter
  <2>2. \A x, y \in S : x # y => <<x, y>> \in Before(c) \/ <<y, x>> \in Before(c)
    BY <1>1, BeforeAfter
  <2>3. \A x, y, z \in S :
          <<x, y>> \in Before(c) /\ <<y, z>> \in Before(c) => <<x, z>> \in Before(c)
    <3> TAKE x, y, z \in S
    <3>1. /\ x \in Message /\ y \in Message /\ z \in Message
          /\ x \in Nat /\ y \in Nat /\ z \in Nat
          /\ c[x] \in Nat /\ c[y] \in Nat /\ c[z] \in Nat
      BY <1>1
    <3>2. /\ <<x, y>> \in Before(c) <=> c[x] < c[y] \/ (c[x] = c[y] /\ x < y)
          /\ <<y, z>> \in Before(c) <=> c[y] < c[z] \/ (c[y] = c[z] /\ y < z)
          /\ <<x, z>> \in Before(c) <=> c[x] < c[z] \/ (c[x] = c[z] /\ x < z)
      BY <3>1, BeforeAfter
    <3> HIDE DEF Before
    <3> QED
      BY <3>1, <3>2
  <2> QED
    BY <2>1, <2>2, <2>3 DEF StrictOrder
<1>3. StrictOrder(After(c), S)
  BY <1>2, BeforeAfter DEF StrictOrder
<1> QED
  BY <1>2, <1>3, ScrollAssumption, FS_Subset
\* The pages are those of the two orders.
LEMMA PagesAre ==
  ASSUME NEW found \in SUBSET Scrolls!Visible, NEW k
  PROVE  /\ Scrolls!Last(found, k) = Front(After(createdAt), found, k)
         /\ Scrolls!First(found, k) = Front(Before(createdAt), found, k)
<1>1. found \subseteq Message
  BY DEF Scrolls!Visible
<1>2. \A m \in found : /\ found \cap Scrolls!NewerThan(m) = Ahead(After(createdAt), found, m)
                       /\ found \cap Scrolls!OlderThan(m) = Ahead(Before(createdAt), found, m)
  BY <1>1, BeforeAfter DEF Ahead, Scrolls!NewerThan, Scrolls!OlderThan, Scrolls!Precedes
<1>3. \A m \in found :
        /\ Scrolls!Cardinality(found \cap Scrolls!NewerThan(m))
             = Cardinality(Ahead(After(createdAt), found, m))
        /\ Scrolls!Cardinality(found \cap Scrolls!OlderThan(m))
             = Cardinality(Ahead(Before(createdAt), found, m))
  BY <1>2, ScrollCountsAlike
<1> QED
  BY <1>3 DEF Front, Scrolls!Last, Scrolls!First

\* What is found but not on the page is beyond it, and is known to be there.
LEMMA PageIsCut ==
  ASSUME ScrollInv, NEW found \in SUBSET Scrolls!Visible, NEW k \in Nat \ {0}
  PROVE  /\ Scrolls!Last(found, k) \subseteq found
         /\ Scrolls!First(found, k) \subseteq found
         /\ found # {} => Scrolls!Last(found, k) # {}
         /\ \A m \in found \ Scrolls!Last(found, k) :
              /\ Scrolls!MoreThan(found, k)
              /\ \A n \in Scrolls!Last(found, k) : <<m, n>> \in Before(createdAt)
         /\ \A m \in found \ Scrolls!First(found, k) :
              /\ Scrolls!MoreThan(found, k)
              /\ \A n \in Scrolls!First(found, k) : <<n, m>> \in Before(createdAt)
<1>1. /\ StrictOrder(Before(createdAt), found) /\ StrictOrder(After(createdAt), found)
      /\ IsFiniteSet(found) /\ found \subseteq Message
  BY MessagesOrdered DEF ScrollInv, Scrolls!Visible
<1>2. Cardinality(found) > k => Scrolls!MoreThan(found, k)
  <2> SUFFICES ASSUME Cardinality(found) > k PROVE Scrolls!MoreThan(found, k)
    OBVIOUS
  <2>1. Cardinality(Front(After(createdAt), found, k + 1)) > k
    BY <1>1, PageFull
  <2>2. Cardinality(Scrolls!Last(found, k + 1)) > k
    BY <2>1, PagesAre
  <2> QED
    BY <2>2, ScrollCountsAlike DEF Scrolls!MoreThan
<1>3. \A m \in found \ Front(After(createdAt), found, k) :
        /\ Cardinality(found) > k
        /\ \A n \in Front(After(createdAt), found, k) : <<n, m>> \in After(createdAt)
  BY <1>1, PageCut
<1>4. \A m \in found \ Front(Before(createdAt), found, k) :
        /\ Cardinality(found) > k
        /\ \A n \in Front(Before(createdAt), found, k) : <<n, m>> \in Before(createdAt)
  BY <1>1, PageCut
<1>5. found # {} => Front(After(createdAt), found, k) # {}
  BY <1>1, PageBegins
<1>6. /\ Front(After(createdAt), found, k) \subseteq found
      /\ Front(Before(createdAt), found, k) \subseteq found
  BY DEF Front
<1>7. \A m, n \in found : <<n, m>> \in After(createdAt) => <<m, n>> \in Before(createdAt)
  BY <1>1, BeforeAfter
<1> QED
  BY <1>2, <1>3, <1>4, <1>5, <1>6, <1>7, PagesAre

\* A scroll that opens.
LEMMA OpenInv ==
  ASSUME ScrollInv, NEW items, NEW hasOlder \in BOOLEAN, NEW hasNewer \in BOOLEAN,
         Scrolls!Open(items, hasOlder, hasNewer), UNCHANGED <<createdAt, removed, hiddenFor>>,
         items # {}, items \subseteq Scrolls!Visible,
         Covered(createdAt, items, Scrolls!Visible, hasOlder, hasNewer)
  PROVE  ScrollInv'
<1> PICK l : l = [open |-> TRUE, shown |-> items, again |-> FALSE, there |-> Scrolls!Visible,
                  hasOlder |-> hasOlder, hasNewer |-> hasNewer]
  OBVIOUS
<1>1. scroll' = l
  BY DEF Scrolls!Open
<1>2. Scrolls!Visible \subseteq Message /\ \A m \in Scrolls!Visible : createdAt[m] # 0
  BY DEF Scrolls!Visible, Scrolls!Exists
<1>3. /\ l \in OpenScroll /\ l.shown = items /\ l.there = Scrolls!Visible
      /\ l.hasOlder = hasOlder /\ l.hasNewer = hasNewer
  BY <1>2 DEF OpenScroll
<1>4. Following(l)
  BY <1>2, <1>3 DEF Following
<1>5. Following(scroll)'
  BY <1>1, <1>4 DEF Following, Scrolls!Visible, Scrolls!Exists
<1> QED
  BY <1>5 DEF ScrollInv
LEMMA LastPageInv == ASSUME ScrollInv, Scrolls!LastPage PROVE ScrollInv'
<1> PICK V : V = Scrolls!Visible
  OBVIOUS
<1> PICK items : items = Scrolls!Last(V, Limit)
  OBVIOUS
<1> PICK more : more = Scrolls!MoreThan(V, Limit)
  OBVIOUS
<1>1. /\ V # {} /\ Scrolls!Open(items, more, FALSE)
      /\ UNCHANGED <<createdAt, removed, hiddenFor>>
  BY DEF Scrolls!LastPage
<1>2. more \in BOOLEAN
  BY DEF Scrolls!MoreThan
<1>3. /\ items # {} /\ items \subseteq V
      /\ \A m \in V \ items : more /\ \A n \in items : <<m, n>> \in Before(createdAt)
  BY <1>1, PageIsCut, ScrollAssumption
<1>4. Covered(createdAt, items, V, more, FALSE)
  BY <1>3 DEF Covered
<1> QED
  BY <1>1, <1>2, <1>3, <1>4, OpenInv

LEMMA AroundInv ==
  ASSUME ScrollInv, NEW m \in Message, Scrolls!Around(m)
  PROVE  ScrollInv'
<1> PICK V : V = Scrolls!Visible
  OBVIOUS
<1> PICK O : O = Scrolls!OlderThan(m)
  OBVIOUS
<1> PICK N : N = Scrolls!NewerThan(m)
  OBVIOUS
<1> PICK older : older = Scrolls!Last(O, Side)
  OBVIOUS
<1> PICK newer : newer = Scrolls!First(N, Side)
  OBVIOUS
<1> PICK hasOlder : hasOlder = Scrolls!MoreThan(O, Side)
  OBVIOUS
<1> PICK hasNewer : hasNewer = Scrolls!MoreThan(N, Side)
  OBVIOUS
<1>1. /\ m \in V /\ UNCHANGED <<createdAt, removed, hiddenFor>>
      /\ Scrolls!Open(older \cup {m} \cup newer, hasOlder, hasNewer)
  BY DEF Scrolls!Around
<1>2. hasOlder \in BOOLEAN /\ hasNewer \in BOOLEAN
  BY DEF Scrolls!MoreThan
<1>3. O \subseteq V /\ N \subseteq V /\ V \subseteq Message
  BY DEF Scrolls!OlderThan, Scrolls!NewerThan, Scrolls!Visible
<1>4. older \subseteq O /\ newer \subseteq N
  BY <1>3, PageIsCut, ScrollAssumption
<1>5. \A x \in O \ older : hasOlder /\ \A n \in older : <<x, n>> \in Before(createdAt)
  BY <1>3, PageIsCut, ScrollAssumption
<1>6. \A x \in N \ newer : hasNewer /\ \A n \in newer : <<n, x>> \in Before(createdAt)
  BY <1>3, PageIsCut, ScrollAssumption
<1>7. /\ \A x \in O : <<x, m>> \in Before(createdAt)
      /\ \A x \in N : <<m, x>> \in Before(createdAt)
      /\ \A x \in V : <<x, m>> \in Before(createdAt) => x \in O
      /\ \A x \in V : <<m, x>> \in Before(createdAt) => x \in N
  BY <1>3, BeforeAfter DEF Scrolls!OlderThan, Scrolls!NewerThan, Scrolls!Precedes
<1>8. StrictOrder(Before(createdAt), V)
  BY <1>3, MessagesOrdered DEF ScrollInv
<1>9. Covered(createdAt, older \cup {m} \cup newer, V, hasOlder, hasNewer)
  <2> SUFFICES ASSUME NEW x \in V \ (older \cup {m} \cup newer)
               PROVE  \/ hasOlder /\ \A n \in older \cup {m} \cup newer :
                                       <<x, n>> \in Before(createdAt)
                      \/ hasNewer /\ \A n \in older \cup {m} \cup newer :
                                       <<n, x>> \in Before(createdAt)
    BY DEF Covered
  <2>1. <<x, m>> \in Before(createdAt) \/ <<m, x>> \in Before(createdAt)
    BY <1>1, <1>8 DEF StrictOrder
  <2>2. CASE <<x, m>> \in Before(createdAt)
    <3>1. hasOlder /\ \A n \in older : <<x, n>> \in Before(createdAt)
      BY <1>5, <1>7, <2>2
    <3>2. \A n \in newer : <<x, n>> \in Before(createdAt)
      BY <1>1, <1>3, <1>4, <1>7, <1>8, <2>2 DEF StrictOrder
    <3> QED
      BY <2>2, <3>1, <3>2
  <2>3. CASE <<m, x>> \in Before(createdAt)
    <3>1. hasNewer /\ \A n \in newer : <<n, x>> \in Before(createdAt)
      BY <1>6, <1>7, <2>3
    <3>2. \A n \in older : <<n, x>> \in Before(createdAt)
      BY <1>1, <1>3, <1>4, <1>7, <1>8, <2>3 DEF StrictOrder
    <3> QED
      BY <2>3, <3>1, <3>2
  <2> QED
    BY <2>1, <2>2, <2>3
<1> QED
  BY <1>1, <1>2, <1>3, <1>4, <1>9, OpenInv

\* The first and the last message shown.
LEMMA EdgesAre ==
  ASSUME ScrollInv, Following(scroll)
  PROVE  /\ Scrolls!Oldest \in scroll.shown /\ Scrolls!Newest \in scroll.shown
         /\ \A n \in scroll.shown : <<n, Scrolls!Oldest>> \notin Before(createdAt)
         /\ \A n \in scroll.shown : <<Scrolls!Newest, n>> \notin Before(createdAt)
<1> PICK S : S = scroll.shown
  OBVIOUS
<1>1. S \subseteq Message /\ S # {}
  BY DEF Following, OpenScroll
<1>2. IsFiniteSet(S) /\ StrictOrder(Before(createdAt), S) /\ StrictOrder(After(createdAt), S)
  BY <1>1, MessagesOrdered DEF ScrollInv
<1>3. \E m \in S : \A n \in S : <<n, m>> \notin Before(createdAt)
  BY <1>1, <1>2, FirstExists
<1>4. \E m \in S : \A n \in S : <<n, m>> \notin After(createdAt)
  BY <1>1, <1>2, FirstExists
<1>5. \E m \in S : \A n \in S : ~Scrolls!Precedes(n, m)
  <2>1. PICK m \in S : \A n \in S : <<n, m>> \notin Before(createdAt)
    BY <1>3
  <2>2. ASSUME NEW n \in S PROVE ~Scrolls!Precedes(n, m)
    <3>1. m \in Message /\ n \in Message /\ <<n, m>> \notin Before(createdAt)
      BY <1>1, <2>1
    <3> QED
      BY <3>1, BeforeAfter DEF Scrolls!Precedes
  <2> QED
    BY <2>2
<1>6. \E m \in S : \A n \in S : ~Scrolls!Precedes(m, n)
  BY <1>1, <1>4, BeforeAfter DEF Scrolls!Precedes
<1>7. /\ Scrolls!Oldest \in S /\ \A n \in S : ~Scrolls!Precedes(n, Scrolls!Oldest)
      /\ Scrolls!Newest \in S /\ \A n \in S : ~Scrolls!Precedes(Scrolls!Newest, n)
  BY <1>5, <1>6 DEF Scrolls!Oldest, Scrolls!Newest
<1> PICK o, w : o = Scrolls!Oldest /\ w = Scrolls!Newest
  OBVIOUS
<1>8. /\ \A n \in S : <<n, o>> \notin Before(createdAt)
      /\ \A n \in S : <<w, n>> \notin Before(createdAt)
  BY <1>1, <1>7, BeforeAfter DEF Scrolls!Precedes
<1> QED
  BY <1>7, <1>8
\* What the client has once a page is added to it.
Added(s, items) ==
  [s EXCEPT !.shown = @ \cup items, !.again = @ \/ s.shown \cap items # {}]
IsAdded(l, s, items) ==
  /\ l \in OpenScroll
  /\ l.shown = s.shown \cup items /\ l.there = s.there
  /\ l.hasOlder = s.hasOlder /\ l.hasNewer = s.hasNewer

LEMMA ShownNow ==
  ASSUME NEW s \in OpenScroll, NEW items \in SUBSET Message, s.shown \cap items = {},
         NEW l, l = Added(s, items)
  PROVE  IsAdded(l, s, items)
<1>1. s.again = FALSE
  BY DEF OpenScroll
<1>2. (s.again \/ s.shown \cap items # {}) = FALSE
  BY <1>1, Zenon
<1> PICK t : t = [s EXCEPT !.shown = s.shown \cup items]
  OBVIOUS
<1>3. l = [t EXCEPT !.again = t.again \/ s.shown \cap items # {}]
  BY DEF Added
<1>4. /\ t \in OpenScroll /\ t.shown = s.shown \cup items /\ t.there = s.there
      /\ t.again = s.again
      /\ t.hasOlder = s.hasOlder /\ t.hasNewer = s.hasNewer
  BY DEF OpenScroll
<1>5. l = [t EXCEPT !.again = FALSE]
  BY <1>2, <1>3, <1>4, Zenon
<1> QED
  BY <1>4, <1>5 DEF OpenScroll, IsAdded

LEMMA OlderInv == ASSUME ScrollInv, Scrolls!Older PROVE ScrollInv'
<1> PICK s : s = scroll
  OBVIOUS
<1> PICK o : o = Scrolls!Oldest
  OBVIOUS
<1> PICK found : found = Scrolls!OlderThan(o)
  OBVIOUS
<1> PICK items : items = Scrolls!Last(found, Limit)
  OBVIOUS
<1> PICK more : more = Scrolls!MoreThan(found, Limit)
  OBVIOUS
<1> PICK k : k = Scrolls!Show(items)
  OBVIOUS
<1> PICK l : l = [k EXCEPT !.hasOlder = more]
  OBVIOUS
<1>1. /\ UNCHANGED <<createdAt, removed, hiddenFor>> /\ s.open
      /\ scroll' = Scrolls!NoScroll \/ scroll' = l
  BY DEF Scrolls!Older
<1>2. Following(s)
  BY <1>1 DEF ScrollInv, Scrolls!NoScroll
<1>3. CASE scroll' = Scrolls!NoScroll
  BY <1>1, <1>3 DEF ScrollInv
<1>4. CASE scroll' = l
  <2>1. o \in s.shown /\ \A n \in s.shown : <<n, o>> \notin Before(createdAt)
    BY <1>2, EdgesAre
  <2>2. /\ s \in OpenScroll /\ s.shown \subseteq Message /\ s.there \subseteq Message
        /\ o \in Message
    BY <1>2, <2>1 DEF Following, OpenScroll
  <2>3. /\ found \subseteq Scrolls!Visible /\ found \subseteq Message
        /\ \A n \in found : <<n, o>> \in Before(createdAt) /\ createdAt[n] # 0
        /\ \A n \in Scrolls!Visible : <<n, o>> \in Before(createdAt) => n \in found
    BY <2>2, BeforeAfter
    DEF Scrolls!OlderThan, Scrolls!Precedes, Scrolls!Visible, Scrolls!Exists
  <2>4. /\ items \subseteq found
        /\ \A m \in found \ items : more /\ \A n \in items : <<m, n>> \in Before(createdAt)
    BY <2>3, PageIsCut, ScrollAssumption
  <2>5. s.shown \cap items = {} /\ items \subseteq Message
    BY <2>1, <2>3, <2>4
  <2>6. more \in BOOLEAN
    BY DEF Scrolls!MoreThan
  <2>7. k = Added(s, items)
    BY DEF Scrolls!Show, Added
  <2>8. IsAdded(k, s, items)
    BY <2>2, <2>5, <2>7, ShownNow
  <2>9. /\ l \in OpenScroll /\ l.shown = s.shown \cup items /\ l.there = s.there
        /\ l.hasOlder = more /\ l.hasNewer = s.hasNewer
    BY <2>6, <2>8 DEF OpenScroll, IsAdded
  <2>10. StrictOrder(Before(createdAt), Message)
    BY MessagesOrdered DEF ScrollInv
  <2>11. Covered(createdAt, s.shown \cup items, s.there, more, s.hasNewer)
    <3> SUFFICES ASSUME NEW m \in s.there \ (s.shown \cup items)
                 PROVE  \/ more /\ \A n \in s.shown \cup items : <<m, n>> \in Before(createdAt)
                        \/ s.hasNewer /\ \A n \in s.shown \cup items :
                                            <<n, m>> \in Before(createdAt)
      BY DEF Covered
    <3>1. \/ \A n \in s.shown : <<m, n>> \in Before(createdAt)
          \/ s.hasNewer /\ \A n \in s.shown : <<n, m>> \in Before(createdAt)
      BY <1>2 DEF Following, Covered
    <3>2. CASE \A n \in s.shown : <<m, n>> \in Before(createdAt)
      <4>1. m \in found \ items
        BY <1>2, <2>1, <2>3, <3>2 DEF Following
      <4> QED
        BY <2>4, <3>2, <4>1
    <3>3. CASE s.hasNewer /\ \A n \in s.shown : <<n, m>> \in Before(createdAt)
      <4>1. \A n \in items : <<n, o>> \in Before(createdAt) /\ <<o, m>> \in Before(createdAt)
        BY <2>1, <2>3, <2>4, <3>3
      <4>2. \A n \in items : <<n, m>> \in Before(createdAt)
        BY <2>2, <2>5, <2>10, <4>1 DEF StrictOrder
      <4> QED
        BY <3>3, <4>2
    <3> QED
      BY <3>1, <3>2, <3>3
  <2>12. Following(l)
    <3>1. /\ l.shown # {} /\ l.there \subseteq Scrolls!Visible
          /\ \A m \in l.shown : createdAt[m] # 0
      BY <1>2, <2>3, <2>4, <2>9 DEF Following
    <3>2. Covered(createdAt, l.shown, l.there, l.hasOlder, l.hasNewer)
      BY <2>9, <2>11
    <3> QED
      BY <2>9, <3>1, <3>2 DEF Following
  <2>13. Following(scroll)'
    BY <1>1, <1>4, <2>12 DEF Following, Scrolls!Visible, Scrolls!Exists
  <2> QED
    BY <1>1, <2>13 DEF ScrollInv
<1> QED
  BY <1>1, <1>3, <1>4
LEMMA NewerInv == ASSUME ScrollInv, Scrolls!Newer PROVE ScrollInv'
<1> PICK s : s = scroll
  OBVIOUS
<1> PICK w : w = Scrolls!Newest
  OBVIOUS
<1> PICK found : found = Scrolls!NewerThan(w)
  OBVIOUS
<1> PICK items : items = Scrolls!First(found, Limit)
  OBVIOUS
<1> PICK more : more = Scrolls!MoreThan(found, Limit)
  OBVIOUS
<1> PICK k : k = Scrolls!Show(items)
  OBVIOUS
<1> PICK l : l = [k EXCEPT !.hasNewer = more]
  OBVIOUS
<1>1. /\ UNCHANGED <<createdAt, removed, hiddenFor>> /\ s.open
      /\ scroll' = Scrolls!NoScroll \/ scroll' = l
  BY DEF Scrolls!Newer
<1>2. Following(s)
  BY <1>1 DEF ScrollInv, Scrolls!NoScroll
<1>3. CASE scroll' = Scrolls!NoScroll
  BY <1>1, <1>3 DEF ScrollInv
<1>4. CASE scroll' = l
  <2>1. w \in s.shown /\ \A n \in s.shown : <<w, n>> \notin Before(createdAt)
    BY <1>2, EdgesAre
  <2>2. /\ s \in OpenScroll /\ s.shown \subseteq Message /\ s.there \subseteq Message
        /\ w \in Message
    BY <1>2, <2>1 DEF Following, OpenScroll
  <2>3. /\ found \subseteq Scrolls!Visible /\ found \subseteq Message
        /\ \A n \in found : <<w, n>> \in Before(createdAt) /\ createdAt[n] # 0
        /\ \A n \in Scrolls!Visible : <<w, n>> \in Before(createdAt) => n \in found
    BY <2>2, BeforeAfter
    DEF Scrolls!NewerThan, Scrolls!Precedes, Scrolls!Visible, Scrolls!Exists
  <2>4. /\ items \subseteq found
        /\ \A m \in found \ items : more /\ \A n \in items : <<n, m>> \in Before(createdAt)
    BY <2>3, PageIsCut, ScrollAssumption
  <2>5. s.shown \cap items = {} /\ items \subseteq Message
    BY <2>1, <2>3, <2>4
  <2>6. more \in BOOLEAN
    BY DEF Scrolls!MoreThan
  <2>7. k = Added(s, items)
    BY DEF Scrolls!Show, Added
  <2>8. IsAdded(k, s, items)
    BY <2>2, <2>5, <2>7, ShownNow
  <2>9. /\ l \in OpenScroll /\ l.shown = s.shown \cup items /\ l.there = s.there
        /\ l.hasNewer = more /\ l.hasOlder = s.hasOlder
    BY <2>6, <2>8 DEF OpenScroll, IsAdded
  <2>10. StrictOrder(Before(createdAt), Message)
    BY MessagesOrdered DEF ScrollInv
  <2>11. Covered(createdAt, s.shown \cup items, s.there, s.hasOlder, more)
    <3> SUFFICES ASSUME NEW m \in s.there \ (s.shown \cup items)
                 PROVE  \/ s.hasOlder /\ \A n \in s.shown \cup items :
                                            <<m, n>> \in Before(createdAt)
                        \/ more /\ \A n \in s.shown \cup items : <<n, m>> \in Before(createdAt)
      BY DEF Covered
    <3>1. \/ s.hasOlder /\ \A n \in s.shown : <<m, n>> \in Before(createdAt)
          \/ \A n \in s.shown : <<n, m>> \in Before(createdAt)
      BY <1>2 DEF Following, Covered
    <3>2. CASE s.hasOlder /\ \A n \in s.shown : <<m, n>> \in Before(createdAt)
      <4>1. \A n \in items : <<w, n>> \in Before(createdAt) /\ <<m, w>> \in Before(createdAt)
        BY <2>1, <2>3, <2>4, <3>2
      <4>2. \A n \in items : <<m, n>> \in Before(createdAt)
        BY <2>2, <2>5, <2>10, <4>1 DEF StrictOrder
      <4> QED
        BY <3>2, <4>2
    <3>3. CASE \A n \in s.shown : <<n, m>> \in Before(createdAt)
      <4>1. m \in found \ items
        BY <1>2, <2>1, <2>3, <3>3 DEF Following
      <4> QED
        BY <2>4, <3>3, <4>1
    <3> QED
      BY <3>1, <3>2, <3>3
  <2>12. Following(l)
    <3>1. /\ l.shown # {} /\ l.there \subseteq Scrolls!Visible
          /\ \A m \in l.shown : createdAt[m] # 0
      BY <1>2, <2>3, <2>4, <2>9 DEF Following
    <3>2. Covered(createdAt, l.shown, l.there, l.hasOlder, l.hasNewer)
      BY <2>9, <2>11
    <3> QED
      BY <2>9, <3>1, <3>2 DEF Following
  <2>13. Following(scroll)'
    BY <1>1, <1>4, <2>12 DEF Following, Scrolls!Visible, Scrolls!Exists
  <2> QED
    BY <1>1, <2>13 DEF ScrollInv
<1> QED
  BY <1>1, <1>3, <1>4

\* A message that comes is neither shown nor expected to be.
LEMMA CreateMessageInv ==
  ASSUME ScrollInv, NEW m \in Message, NEW t \in Instant, Scrolls!CreateMessage(m, t)
  PROVE  ScrollInv'
<1> PICK c : c = createdAt
  OBVIOUS
<1> PICK d : d = [c EXCEPT ![m] = t]
  OBVIOUS
<1>1. /\ c[m] = 0 /\ createdAt' = d
      /\ UNCHANGED <<removed, hiddenFor, scroll>>
  BY DEF Scrolls!CreateMessage
<1>2. d \in [Message -> Instant \cup {0}] /\ t # 0 /\ \A n \in Message \ {m} : d[n] = c[n]
  BY ScrollAssumption DEF ScrollInv
<1>3. CASE scroll = Scrolls!NoScroll
  BY <1>1, <1>2, <1>3 DEF ScrollInv
<1>4. CASE Following(scroll)
  <2> PICK s : s = scroll
    OBVIOUS
  <2>1. /\ s \in OpenScroll /\ s.shown # {} /\ s.shown \subseteq Message \ {m}
        /\ s.there \subseteq Message \ {m} /\ s.there \subseteq Scrolls!Visible
        /\ \A n \in s.shown : c[n] # 0
        /\ Covered(c, s.shown, s.there, s.hasOlder, s.hasNewer)
    BY <1>1, <1>4 DEF Following, OpenScroll, Scrolls!Visible, Scrolls!Exists
  <2>2. \A x, n \in Message \ {m} : <<x, n>> \in Before(c) <=> <<x, n>> \in Before(d)
    <3> SUFFICES ASSUME NEW x \in Message \ {m}, NEW n \in Message \ {m}
                 PROVE  <<x, n>> \in Before(c) <=> <<x, n>> \in Before(d)
      BY Zenon
    <3>1. d[x] = c[x] /\ d[n] = c[n]
      BY <1>2
    <3>2. <<x, n>> \in Before(c) <=> c[x] < c[n] \/ (c[x] = c[n] /\ x < n)
      BY DEF Before
    <3>3. <<x, n>> \in Before(d) <=> d[x] < d[n] \/ (d[x] = d[n] /\ x < n)
      BY DEF Before
    <3> QED
      BY <3>1, <3>2, <3>3
  <2>3. Covered(d, s.shown, s.there, s.hasOlder, s.hasNewer)
    BY <2>1, <2>2 DEF Covered
  <2>4. s.there \subseteq Scrolls!Visible'
    <3>1. \A n \in s.there : /\ n \in Message /\ c[n] # 0 /\ d[n] # 0
                             /\ n \notin removed /\ n \notin hiddenFor
      BY <1>2, <2>1 DEF Scrolls!Visible, Scrolls!Exists
    <3> QED
      BY <1>1, <3>1 DEF Scrolls!Visible, Scrolls!Exists
  <2>5. Following(scroll)'
    BY <1>1, <1>2, <2>1, <2>3, <2>4 DEF Following
  <2> QED
    BY <1>1, <1>2, <2>5 DEF ScrollInv
<1> QED
  BY <1>3, <1>4 DEF ScrollInv

\* One that goes is expected no more.
LEMMA MessageGoesInv ==
  ASSUME ScrollInv, NEW m \in Message, Scrolls!RemoveMessage(m) \/ Scrolls!HideMessage(m)
  PROVE  ScrollInv'
<1> PICK s : s = scroll
  OBVIOUS
<1> PICK l : l = [s EXCEPT !.there = @ \ {m}]
  OBVIOUS
<1>1. /\ createdAt' = createdAt /\ Scrolls!Visible \ {m} \subseteq Scrolls!Visible'
      /\ scroll' = Scrolls!NoLongerThere(m)
  BY DEF Scrolls!RemoveMessage, Scrolls!HideMessage, Scrolls!Visible, Scrolls!Exists
<1>2. CASE s = Scrolls!NoScroll
  BY <1>1, <1>2 DEF ScrollInv, Scrolls!NoLongerThere, Scrolls!NoScroll
<1>3. CASE Following(s)
  <2>1. s \in OpenScroll
    BY <1>3 DEF Following
  <2>2. /\ l \in OpenScroll /\ l.shown = s.shown /\ l.there = s.there \ {m}
        /\ l.hasOlder = s.hasOlder /\ l.hasNewer = s.hasNewer
    BY <2>1 DEF OpenScroll
  <2>3. scroll' = l
    BY <1>1, <2>1 DEF Scrolls!NoLongerThere, OpenScroll
  <2>4. /\ s.shown # {} /\ s.there \subseteq Scrolls!Visible
        /\ \A n \in s.shown : createdAt[n] # 0
        /\ Covered(createdAt, l.shown, l.there, l.hasOlder, l.hasNewer)
    BY <1>3, <2>2 DEF Following, Covered
  <2>5. l.there \subseteq Scrolls!Visible'
    BY <1>1, <2>2, <2>4
  <2>6. Following(scroll)'
    BY <1>1, <2>2, <2>3, <2>4, <2>5 DEF Following
  <2> QED
    BY <1>1, <2>6 DEF ScrollInv
<1> QED
  BY <1>2, <1>3 DEF ScrollInv

LEMMA NextScrollInv == ScrollInv /\ [Next]_vars => ScrollInv'
<1> SUFFICES ASSUME ScrollInv, [Next]_vars PROVE ScrollInv'
  OBVIOUS
<1>1. CASE UNCHANGED scrollVars
  BY <1>1 DEF scrollVars, ScrollInv, Following, Scrolls!Visible, Scrolls!Exists
<1>2. CASE Scrolls!Leave
  BY <1>2 DEF Scrolls!Leave, ScrollInv
<1>3. CASE ScrollStep
  BY <1>2, <1>3, LastPageInv, AroundInv, OlderInv, NewerInv, CreateMessageInv, MessageGoesInv
  DEF ScrollStep, Scrolls!Next
<1> QED
  BY <1>1, <1>3
  DEF Next, vars, PostStep, PartnerStep, DialogStep, TaskStep, PublicationStep, ProfileStep

\* Whatever comes, goes and is hidden while the client scrolls, whichever messages are
\* of one instant and however long the pages are, it leaves out none that it could have
\* shown, and shows none twice (listMessages).
THEOREM ScrollLeavesNoneOut == Spec => []ScrollIsComplete
<1>1. Init => ScrollInv
  BY DEF Init, Scrolls!Init, ScrollInv
<1>2. ScrollInv => ScrollIsComplete
  <2> SUFFICES ASSUME ScrollInv, scroll.open
               PROVE  /\ ~scroll.again
                      /\ \A m \in scroll.there \ scroll.shown :
                           \/ m \in Scrolls!OlderThan(Scrolls!Oldest) /\ scroll.hasOlder
                           \/ m \in Scrolls!NewerThan(Scrolls!Newest) /\ scroll.hasNewer
    BY DEF ScrollIsComplete, Scrolls!ScrollIsComplete
  <2>1. Following(scroll)
    BY DEF ScrollInv, Scrolls!NoScroll
  <2>2. ~scroll.again
    BY <2>1 DEF Following, OpenScroll
  <2> PICK o, w : o = Scrolls!Oldest /\ w = Scrolls!Newest
    OBVIOUS
  <2>3. o \in scroll.shown /\ w \in scroll.shown /\ o \in Message /\ w \in Message
    BY <2>1, EdgesAre DEF Following, OpenScroll
  <2>4. ASSUME NEW m \in scroll.there \ scroll.shown
        PROVE  \/ m \in Scrolls!OlderThan(o) /\ scroll.hasOlder
               \/ m \in Scrolls!NewerThan(w) /\ scroll.hasNewer
    <3>1. m \in Scrolls!Visible /\ m \in Message
      BY <2>1 DEF Following, Scrolls!Visible
    <3>2. \/ scroll.hasOlder /\ <<m, o>> \in Before(createdAt)
          \/ scroll.hasNewer /\ <<w, m>> \in Before(createdAt)
      BY <2>1, <2>3 DEF Following, Covered
    <3>3. <<m, o>> \in Before(createdAt) => Scrolls!Precedes(m, o)
      BY <2>3, <3>1 DEF Before, Scrolls!Precedes
    <3>4. <<w, m>> \in Before(createdAt) => Scrolls!Precedes(w, m)
      BY <2>3, <3>1 DEF Before, Scrolls!Precedes
    <3> QED
      BY <3>1, <3>2, <3>3, <3>4 DEF Scrolls!OlderThan, Scrolls!NewerThan
  <2> QED
    BY <2>2, <2>4
<1> QED
  BY <1>1, <1>2, NextScrollInv, PTL DEF Spec
-----------------------------------------------------------------------------
(* The lists of tasks: what filters that are put together ask for.           *)

\* What a filter asks for where the columns of `over` are overwritten.
Asks(t, where, over) ==
  /\ \A c \in DOMAIN where \ (over \cup {"OR"}) : t[c] \in where[c]
  /\ "OR" \in DOMAIN where \ over =>
       \E alternative \in where["OR"] : Lists!MatchesColumns(t, alternative)

LEMMA MatchingIsAsking ==
  ASSUME NEW t, NEW where
  PROVE  Lists!Matches(t, where) <=> Asks(t, where, {})
  BY DEF Asks, Lists!Matches, Lists!MatchesColumns

\* A column of its own asks for what it asks for.
LEMMA OneOfAsks ==
  ASSUME NEW t, NEW column, NEW values, NEW over, column # "OR"
  PROVE  /\ DOMAIN Lists!OneOf(column, values) = {column}
         /\ Asks(t, Lists!OneOf(column, values), over) <=> column \in over \/ t[column] \in values
         /\ Lists!MatchesColumns(t, Lists!OneOf(column, values)) <=> t[column] \in values
  BY DEF Lists!OneOf, Asks, Lists!MatchesColumns

LEMMA EitherAsks ==
  ASSUME NEW t, NEW first, NEW second, NEW over
  PROVE  /\ DOMAIN Lists!Either(first, second) = {"OR"}
         /\ Asks(t, Lists!Either(first, second), over) <=>
              \/ "OR" \in over
              \/ Lists!MatchesColumns(t, first) \/ Lists!MatchesColumns(t, second)
  BY DEF Lists!Either, Lists!OneOf, Asks

LEMMA NothingAsks ==
  ASSUME NEW t, NEW over
  PROVE  DOMAIN Lists!Nothing = {} /\ Asks(t, Lists!Nothing, over)
  BY DEF Lists!Nothing, Asks

LEMMA WhenIs ==
  ASSUME NEW condition, NEW object
  PROVE  /\ condition => Lists!When(condition, object) = object
         /\ ~condition => Lists!When(condition, object) = Lists!Nothing
  BY DEF Lists!When

LEMMA WhenAsks ==
  ASSUME NEW t, NEW column, NEW values, NEW over, NEW condition, column # "OR"
  PROVE  /\ \A c : c \in DOMAIN Lists!When(condition, Lists!OneOf(column, values)) <=>
                     condition /\ c = column
         /\ Asks(t, Lists!When(condition, Lists!OneOf(column, values)), over) <=>
              (condition => column \in over \/ t[column] \in values)
<1> DEFINE object == Lists!OneOf(column, values)
<1>0. /\ DOMAIN object = {column}
      /\ Asks(t, object, over) <=> column \in over \/ t[column] \in values
  BY OneOfAsks
<1> HIDE DEF object
<1>1. CASE condition
  <2>1. Lists!When(condition, object) = object
    BY <1>1, WhenIs
  <2> QED
    BY <1>0, <1>1, <2>1 DEF object
<1>2. CASE ~condition
  <2>1. Lists!When(condition, object) = Lists!Nothing
    BY <1>2, WhenIs
  <2> QED
    BY <1>2, <2>1, NothingAsks DEF object
<1> QED
  BY <1>1, <1>2

\* What is spread last overwrites what comes before it.
LEMMA SpreadAsks ==
  ASSUME NEW t, NEW first, NEW second, NEW over
  PROVE  /\ DOMAIN Lists!Spread(first, second) = DOMAIN first \cup DOMAIN second
         /\ Asks(t, Lists!Spread(first, second), over) <=>
              Asks(t, first, over \cup DOMAIN second) /\ Asks(t, second, over)
<1> DEFINE both == Lists!Spread(first, second)
<1>1. /\ DOMAIN both = DOMAIN first \cup DOMAIN second
      /\ \A c \in DOMAIN first \ DOMAIN second : both[c] = first[c]
      /\ \A c \in DOMAIN second : both[c] = second[c]
  BY DEF Lists!Spread
<1> HIDE DEF both
<1>2. Asks(t, both, over) <=> Asks(t, first, over \cup DOMAIN second) /\ Asks(t, second, over)
  <2>1. "OR" \in DOMAIN both \ over <=>
          "OR" \in DOMAIN first \ (over \cup DOMAIN second) \/ "OR" \in DOMAIN second \ over
    BY <1>1
  <2>2. /\ "OR" \in DOMAIN first \ (over \cup DOMAIN second) => both["OR"] = first["OR"]
        /\ "OR" \in DOMAIN second \ over => both["OR"] = second["OR"]
    BY <1>1
  <2>3. (\A c \in DOMAIN both \ (over \cup {"OR"}) : t[c] \in both[c]) <=>
          /\ \A c \in DOMAIN first \ (over \cup DOMAIN second \cup {"OR"}) : t[c] \in first[c]
          /\ \A c \in DOMAIN second \ (over \cup {"OR"}) : t[c] \in second[c]
    BY <1>1
  <2> DEFINE Columns(where, columns) == \A c \in DOMAIN where \ (columns \cup {"OR"}) : t[c] \in where[c]
             Alternatives(where) ==
               \E alternative \in where["OR"] : Lists!MatchesColumns(t, alternative)
  <2>4. /\ Asks(t, both, over) <=>
             Columns(both, over) /\ ("OR" \in DOMAIN both \ over => Alternatives(both))
        /\ Asks(t, first, over \cup DOMAIN second) <=>
             /\ Columns(first, over \cup DOMAIN second)
             /\ "OR" \in DOMAIN first \ (over \cup DOMAIN second) => Alternatives(first)
        /\ Asks(t, second, over) <=>
             Columns(second, over) /\ ("OR" \in DOMAIN second \ over => Alternatives(second))
    BY DEF Asks
  <2>5. /\ "OR" \in DOMAIN first \ (over \cup DOMAIN second) =>
             (Alternatives(both) <=> Alternatives(first))
        /\ "OR" \in DOMAIN second \ over => (Alternatives(both) <=> Alternatives(second))
    BY <2>2
  <2>6. Columns(both, over) <=> Columns(first, over \cup DOMAIN second) /\ Columns(second, over)
    BY <2>3
  <2> HIDE DEF Columns, Alternatives
  <2> QED
    BY <2>1, <2>4, <2>5, <2>6
<1> QED
  BY <1>1, <1>2 DEF both

\* The columns that the objects after one of a sequence have.
Later(parts, n, i) == UNION {DOMAIN parts[j] : j \in i + 1..n}

\* The last object of a sequence to have a column.
LEMMA LastIsThere ==
  ASSUME NEW n \in Nat, NEW places \in SUBSET (1..n), places # {}
  PROVE  \E i \in places : \A j \in places : j <= i
<1> DEFINE fromEnd == {n - i : i \in places}
<1>0. \A i \in places : n - i \in Nat
  OBVIOUS
<1>1. fromEnd # {} /\ fromEnd \subseteq Nat
  BY <1>0
<1>2. PICK r \in fromEnd : \A q \in fromEnd : <<q, r>> \notin OpToRel(<, Nat)
  BY <1>1, WFMin, NatLessThanWellFounded, Zenon
<1>3. \A q \in fromEnd : ~(q < r)
  BY <1>1, <1>2, Zenon DEF OpToRel
<1>4. PICK i \in places : r = n - i
  OBVIOUS
<1>5. ASSUME NEW j \in places, ~(j <= i) PROVE FALSE
  <2>1. n - j \in fromEnd /\ n - j < r
    BY <1>4, <1>5
  <2> QED
    BY <1>3, <2>1
<1> QED
  BY <1>4, <1>5

\* Each object of a sequence asks for what no later one overwrites.
LEMMA ObjectAsks ==
  ASSUME NEW t, NEW n \in Nat, NEW parts, DOMAIN parts = 1..n, NEW over
  PROVE  Asks(t, Lists!Object(parts), over) <=>
           \A i \in 1..n : Asks(t, parts[i], over \cup Later(parts, n, i))
<1> DEFINE all == Lists!Object(parts)
           Places(c) == {i \in DOMAIN parts : c \in DOMAIN parts[i]}
           Last(c) == CHOOSE i \in Places(c) : \A j \in Places(c) : j <= i
<1>1. /\ DOMAIN all = UNION {DOMAIN parts[i] : i \in 1..n}
      /\ \A c \in DOMAIN all : all[c] = parts[Last(c)][c]
  BY DEF Lists!Object
<1>2. ASSUME NEW i \in 1..n, NEW c \in DOMAIN parts[i] \ Later(parts, n, i)
      PROVE  c \in DOMAIN all /\ all[c] = parts[i][c]
  <2>1. i \in Places(c) /\ \A j \in Places(c) : j <= i
    BY <1>2 DEF Later
  <2>2. Last(c) \in Places(c) /\ \A j \in Places(c) : j <= Last(c)
    BY <2>1
  <2>3. Last(c) \in 1..n
    BY <2>2
  <2> HIDE DEF Last
  <2>4. Last(c) = i
    BY <2>1, <2>2, <2>3
  <2>5. c \in DOMAIN all
    BY <1>1
  <2> HIDE DEF all, Places
  <2> QED
    BY <1>1, <2>4, <2>5
<1>3. ASSUME NEW c \in DOMAIN all
      PROVE  \E i \in 1..n : c \in DOMAIN parts[i] \ Later(parts, n, i) /\ all[c] = parts[i][c]
  <2>1. PICK k \in 1..n : c \in DOMAIN parts[k]
    BY <1>1
  <2>2. Places(c) \in SUBSET (1..n) /\ Places(c) # {}
    BY <2>1
  <2> HIDE DEF Places
  <2>3. PICK i \in Places(c) : \A j \in Places(c) : j <= i
    BY <2>2, LastIsThere
  <2> USE DEF Places
  <2>4. i \in 1..n /\ c \in DOMAIN parts[i] \ Later(parts, n, i)
    BY <2>3 DEF Later
  <2> QED
    BY <1>2, <2>4
<1> HIDE DEF all, Places, Last
<1>4. ASSUME Asks(t, all, over), NEW i \in 1..n
      PROVE  Asks(t, parts[i], over \cup Later(parts, n, i))
  BY <1>2, <1>4 DEF Asks
<1>5. ASSUME \A i \in 1..n : Asks(t, parts[i], over \cup Later(parts, n, i))
      PROVE  Asks(t, all, over)
  <2>1. ASSUME NEW c \in DOMAIN all \ (over \cup {"OR"}) PROVE t[c] \in all[c]
    <3>1. PICK i \in 1..n : c \in DOMAIN parts[i] \ Later(parts, n, i) /\ all[c] = parts[i][c]
      BY <1>3
    <3> QED
      BY <1>5, <2>1, <3>1 DEF Asks
  <2>2. ASSUME "OR" \in DOMAIN all \ over
        PROVE  \E alternative \in all["OR"] : Lists!MatchesColumns(t, alternative)
    <3>1. PICK i \in 1..n :
            "OR" \in DOMAIN parts[i] \ Later(parts, n, i) /\ all["OR"] = parts[i]["OR"]
      BY <1>3, <2>2
    <3> QED
      BY <1>5, <2>2, <3>1 DEF Asks
  <2> QED
    BY <2>1, <2>2 DEF Asks
<1> QED
  BY <1>4, <1>5 DEF all
-----------------------------------------------------------------------------
(* What the list of a profile shows of the task.                             *)

ListsInv ==
  /\ task \in Lists!TaskRow
  /\ comments \in Seq(Lists!User)
  /\ cursor \in [Lists!User -> Nat]
  /\ viewer \in {NotGiven} \cup [user: Lists!User, query: Lists!Parameters]

\* A parameter that is not given is none of the words it may be.
LEMMA NotGivenIs ==
  /\ NotGiven \notin {"owner", "executor", "today", "true", "false", "null"}
  /\ NotGiven \notin Lists!TaskStatus
  BY ParameterAssumption DEF Lists!Approval, Lists!Flag

\* A filter on one column, of each column.
LEMMA ColumnsAsk ==
  ASSUME NEW t, NEW values, NEW over
  PROVE  /\ Asks(t, Lists!OneOf("ownerId", values), over)
              <=> "ownerId" \in over \/ t.ownerId \in values
         /\ Asks(t, Lists!OneOf("executorId", values), over)
              <=> "executorId" \in over \/ t.executorId \in values
         /\ Asks(t, Lists!OneOf("status", values), over)
              <=> "status" \in over \/ t.status \in values
         /\ Asks(t, Lists!OneOf("isExecutorApprove", values), over)
              <=> "isExecutorApprove" \in over \/ t.isExecutorApprove \in values
         /\ Asks(t, Lists!OneOf("isCompanyAction", values), over)
              <=> "isCompanyAction" \in over \/ t.isCompanyAction \in values
         /\ Asks(t, Lists!OneOf("urgent", values), over)
              <=> "urgent" \in over \/ t.urgent \in values
         /\ Asks(t, Lists!OneOf("isArchived", values), over)
              <=> "isArchived" \in over \/ t.isArchived \in values
         /\ Asks(t, Lists!OneOf("finalDate", values), over)
              <=> "finalDate" \in over \/ t.finalDate \in values
  BY OneOfAsks

LEMMA IsAsks ==
  ASSUME NEW t, NEW value, NEW over
  PROVE  /\ Asks(t, Lists!Is("ownerId", value), over)
              <=> "ownerId" \in over \/ t.ownerId = value
         /\ Asks(t, Lists!Is("executorId", value), over)
              <=> "executorId" \in over \/ t.executorId = value
         /\ Asks(t, Lists!Is("status", value), over)
              <=> "status" \in over \/ t.status = value
         /\ Asks(t, Lists!Is("isExecutorApprove", value), over)
              <=> "isExecutorApprove" \in over \/ t.isExecutorApprove = value
         /\ Asks(t, Lists!Is("isCompanyAction", value), over)
              <=> "isCompanyAction" \in over \/ t.isCompanyAction = value
         /\ Asks(t, Lists!Is("urgent", value), over)
              <=> "urgent" \in over \/ t.urgent = value
         /\ Asks(t, Lists!Is("isArchived", value), over)
              <=> "isArchived" \in over \/ t.isArchived = value
  BY ColumnsAsk DEF Lists!Is

LEMMA IsDomain ==
  ASSUME NEW column, NEW value
  PROVE  DOMAIN Lists!Is(column, value) = {column}
  BY DEF Lists!Is, Lists!OneOf

\* A filter of the alternatives: on one column, and an answered task on whose turn it is.
LEMMA AlternativesAsk ==
  ASSUME NEW t, NEW value
  PROVE  /\ Lists!MatchesColumns(t, Lists!Is("ownerId", value)) <=> t.ownerId = value
         /\ Lists!MatchesColumns(t, Lists!Is("executorId", value)) <=> t.executorId = value
  BY DEF Lists!Is, Lists!OneOf, Lists!MatchesColumns

LEMMA ParametersAsk ==
  ASSUME NEW t, NEW query, NEW over
  PROVE  /\ Asks(t, Lists!Equal(query, "ownerId"), over) <=>
              (query.ownerId # NotGiven => "ownerId" \in over \/ t.ownerId = query.ownerId)
         /\ Asks(t, Lists!Equal(query, "executorId"), over) <=>
              (query.executorId # NotGiven =>
                 "executorId" \in over \/ t.executorId = query.executorId)
         /\ Asks(t, Lists!Equal(query, "isCompanyAction"), over) <=>
              (query.isCompanyAction # NotGiven =>
                 "isCompanyAction" \in over \/ t.isCompanyAction = query.isCompanyAction)
         /\ Asks(t, Lists!Equal(query, "urgent"), over) <=>
              (query.urgent # NotGiven => "urgent" \in over \/ t.urgent = query.urgent)
         /\ Asks(t, Lists!Period(query), over) <=>
              (query.period = "today" =>
                 "finalDate" \in over \/ t.finalDate \in {"earlierToday", "laterToday"})
         /\ \A column \in {"ownerId", "executorId", "isCompanyAction", "urgent"} :
              \A c : c \in DOMAIN Lists!Equal(query, column) <=>
                       query[column] # NotGiven /\ c = column
         /\ \A c : c \in DOMAIN Lists!Period(query) <=> query.period = "today" /\ c = "finalDate"
<1>1. ASSUME NEW column, column # "OR"
      PROVE  /\ Asks(t, Lists!Equal(query, column), over) <=>
                  (query[column] # NotGiven => column \in over \/ t[column] = query[column])
             /\ \A c : c \in DOMAIN Lists!Equal(query, column) <=>
                         query[column] # NotGiven /\ c = column
  <2> DEFINE values == {query[column]}
             given == query[column] # NotGiven
  <2>1. Lists!Equal(query, column) = Lists!When(given, Lists!OneOf(column, values))
    BY DEF Lists!Equal, Lists!Given, Lists!Is
  <2>2. t[column] \in values <=> t[column] = query[column]
    OBVIOUS
  <2>3. /\ \A c : c \in DOMAIN Lists!When(given, Lists!OneOf(column, values)) <=>
                    given /\ c = column
        /\ Asks(t, Lists!When(given, Lists!OneOf(column, values)), over) <=>
             (given => column \in over \/ t[column] \in values)
    BY <1>1, WhenAsks
  <2> HIDE DEF values, given
  <2> QED
    BY <2>1, <2>2, <2>3 DEF given
<1>2. /\ Asks(t, Lists!Equal(query, "ownerId"), over) <=>
           (query["ownerId"] # NotGiven => "ownerId" \in over \/ t["ownerId"] = query["ownerId"])
      /\ Asks(t, Lists!Equal(query, "executorId"), over) <=>
           (query["executorId"] # NotGiven =>
              "executorId" \in over \/ t["executorId"] = query["executorId"])
      /\ Asks(t, Lists!Equal(query, "isCompanyAction"), over) <=>
           (query["isCompanyAction"] # NotGiven =>
              "isCompanyAction" \in over \/ t["isCompanyAction"] = query["isCompanyAction"])
      /\ Asks(t, Lists!Equal(query, "urgent"), over) <=>
           (query["urgent"] # NotGiven => "urgent" \in over \/ t["urgent"] = query["urgent"])
  BY <1>1
<1>3. /\ Asks(t, Lists!Period(query), over) <=>
           (query.period = "today" =>
              "finalDate" \in over \/ t.finalDate \in {"earlierToday", "laterToday"})
      /\ \A c : c \in DOMAIN Lists!Period(query) <=> query.period = "today" /\ c = "finalDate"
  <2> DEFINE given == query.period = "today"
             values == {"earlierToday", "laterToday"}
  <2>1. Lists!Period(query) = Lists!When(given, Lists!OneOf("finalDate", values))
    BY DEF Lists!Period, Lists!Today
  <2>2. t["finalDate"] \in values <=> t.finalDate \in {"earlierToday", "laterToday"}
    OBVIOUS
  <2> HIDE DEF values, given
  <2>3. /\ \A c : c \in DOMAIN Lists!When(given, Lists!OneOf("finalDate", values)) <=>
                    given /\ c = "finalDate"
        /\ Asks(t, Lists!When(given, Lists!OneOf("finalDate", values)), over) <=>
             (given => "finalDate" \in over \/ t["finalDate"] \in values)
    BY WhenAsks
  <2> QED
    BY <2>1, <2>2, <2>3 DEF given
<1>4. ASSUME NEW column \in {"ownerId", "executorId", "isCompanyAction", "urgent"}
      PROVE  \A c : c \in DOMAIN Lists!Equal(query, column) <=>
                       query[column] # NotGiven /\ c = column
  BY <1>1
<1> QED
  BY <1>2, <1>3, <1>4

\* The profile has the task in this role.
Takes(t, u, r) ==
  CASE r = "owner" -> t.ownerId = u
    [] r = "executor" -> t.executorId = u
    [] r = NotGiven -> u \in {t.ownerId, t.executorId}

LEMMA ParticipantAsks ==
  ASSUME NEW t, NEW u, NEW r \in Lists!Role, NEW over
  PROVE  /\ Asks(t, Lists!Participant(u, r), over) <=>
              /\ r = "owner" => "ownerId" \in over \/ t.ownerId = u
              /\ r = "executor" => "executorId" \in over \/ t.executorId = u
              /\ r = NotGiven => "OR" \in over \/ u \in {t.ownerId, t.executorId}
         /\ DOMAIN Lists!Participant(u, r)
              = IF r = "owner" THEN {"ownerId"}
                ELSE IF r = "executor" THEN {"executorId"} ELSE {"OR"}
<1>1. CASE r = "owner"
  BY <1>1, IsAsks, IsDomain, NotGivenIs DEF Lists!Participant
<1>2. CASE r = "executor"
  BY <1>2, IsAsks, IsDomain, NotGivenIs DEF Lists!Participant
<1>3. CASE r = NotGiven
  <2>1. Lists!Participant(u, r) = Lists!Either(Lists!Is("ownerId", u), Lists!Is("executorId", u))
    BY <1>3, NotGivenIs DEF Lists!Participant
  <2> QED
    BY <1>3, <2>1, EitherAsks, AlternativesAsk, NotGivenIs
<1> QED
  BY <1>1, <1>2, <1>3 DEF Lists!Role

\* The parameters of the lists behind the counters.
Counted(query) ==
  /\ Lists!RoleOf(query) \in Lists!Role
  /\ query.deadlineDate = NotGiven /\ query.q = NotGiven /\ query.personQ = NotGiven
  /\ query.excludeCompleted = NotGiven /\ query.isArchived = NotGiven
  /\ query.status \in Lists!TaskStatus \cup {NotGiven}
  /\ query.active = "true" => query.status = NotGiven
  /\ query.isExecutorApprove = "null" => Lists!RoleOf(query) # "executor" \/ Lists!Pending(query)
  /\ query.unassigned = "true" =>
       /\ Lists!RoleOf(query) # "executor" /\ ~Lists!Pending(query)
       /\ query.isExecutorApprove = NotGiven

\* An answer is asked for, and says of the executor that there is one.
Answers(query) == query.isExecutorApprove # NotGiven /\ ~Lists!Pending(query)
Drops(query) == Answers(query) /\ query.isExecutorApprove = "null" /\ query.unassigned # "true"

ShownIn(t, u, query) ==
  /\ Lists!RoleOf(query) = "owner" => query.ownerId # NotGiven \/ t.ownerId = u
  /\ Lists!RoleOf(query) = "executor" => query.executorId # NotGiven \/ t.executorId = u
  /\ Lists!RoleOf(query) = NotGiven => u \in {t.ownerId, t.executorId}
  /\ Lists!Pending(query) => t.isExecutorApprove = "null"
  /\ query.active = "true" => t.status \notin Lists!Terminal
  /\ query.status # NotGiven => t.status = query.status
  /\ query.ownerId # NotGiven =>
       \/ query.unassigned = "true" /\ Lists!RoleOf(query) = NotGiven
       \/ t.ownerId = query.ownerId
  /\ query.executorId # NotGiven =>
       query.unassigned = "true" \/ Drops(query) \/ t.executorId = query.executorId
  /\ query.period = "today" =>
       query.overdue = "true" \/ t.finalDate \in {"earlierToday", "laterToday"}
  /\ query.isCompanyAction # NotGiven => t.isCompanyAction = query.isCompanyAction
  /\ Answers(query) => t.isExecutorApprove = query.isExecutorApprove
  /\ Drops(query) => t.executorId # None
  /\ query.urgent # NotGiven => t.urgent = query.urgent
  /\ t.isArchived = "false"
  /\ query.overdue = "true" => t.finalDate \in {"past", "earlierToday"}
  /\ query.unassigned = "true" =>
       /\ t.executorId = None /\ t.isExecutorApprove = "null"
       /\ Lists!RoleOf(query) = NotGiven => t.ownerId = u

LEMMA StatusAsks ==
  ASSUME NEW t \in Lists!TaskRow, NEW query, Counted(query), NEW over
  PROVE  /\ \A c : c \in DOMAIN Lists!StatusFilter(query) =>  c = "status"
         /\ "status" \notin over =>
              (Asks(t, Lists!StatusFilter(query), over) <=>
                 /\ query.active = "true" => t.status \notin Lists!Terminal
                 /\ query.status # NotGiven => t.status = query.status)
<1> DEFINE excluded == IF query.active = "true" THEN Lists!Terminal
                       ELSE {s \in {"COMPLETED"} : query.excludeCompleted = "true"}
           explicit == IF query.status # NotGiven THEN {query.status} ELSE Lists!TaskStatus
           given == query.status # NotGiven \/ excluded # {}
           values == explicit \ excluded
<1>1. Lists!StatusFilter(query) = Lists!When(given, Lists!OneOf("status", values))
  BY DEF Lists!StatusFilter, Lists!Given
<1>2. given <=> query.status # NotGiven \/ query.active = "true"
  BY NotGivenIs DEF Counted, Lists!Terminal
<1>3. t.status \in Lists!TaskStatus
  BY DEF Lists!TaskRow
<1>4. (given => t["status"] \in values) <=>
        /\ query.active = "true" => t.status \notin Lists!Terminal
        /\ query.status # NotGiven => t.status = query.status
  BY <1>2, <1>3, NotGivenIs DEF Counted
<1> HIDE DEF values, given
<1>5. /\ \A c : c \in DOMAIN Lists!When(given, Lists!OneOf("status", values)) <=>
                  given /\ c = "status"
      /\ Asks(t, Lists!When(given, Lists!OneOf("status", values)), over) <=>
           (given => "status" \in over \/ t["status"] \in values)
  BY WhenAsks
<1> QED
  BY <1>1, <1>4, <1>5

LEMMA UnansweredAsks ==
  ASSUME NEW t, NEW query, NEW over
  PROVE  LET part == Lists!When(Lists!Pending(query), Lists!Unanswered)
         IN  /\ \A c : c \in DOMAIN part <=> Lists!Pending(query) /\ c = "isExecutorApprove"
             /\ Asks(t, part, over) <=>
                  (Lists!Pending(query) =>
                     "isExecutorApprove" \in over \/ t.isExecutorApprove = "null")
<1> DEFINE values == {"null"}
           given == Lists!Pending(query)
<1>1. Lists!Unanswered = Lists!OneOf("isExecutorApprove", values)
  BY DEF Lists!Unanswered, Lists!Is
<1>2. t["isExecutorApprove"] \in values <=> t.isExecutorApprove = "null"
  OBVIOUS
<1> HIDE DEF values, given
<1>3. /\ \A c : c \in DOMAIN Lists!When(given, Lists!OneOf("isExecutorApprove", values)) <=>
                  given /\ c = "isExecutorApprove"
      /\ Asks(t, Lists!When(given, Lists!OneOf("isExecutorApprove", values)), over) <=>
           (given => "isExecutorApprove" \in over \/ t["isExecutorApprove"] \in values)
  BY WhenAsks
<1> QED
  BY <1>1, <1>2, <1>3 DEF given

LEMMA OverdueAsks ==
  ASSUME NEW t, NEW condition, NEW over
  PROVE  LET part == Lists!When(condition, Lists!Overdue)
         IN  /\ \A c : c \in DOMAIN part <=> condition /\ c = "finalDate"
             /\ Asks(t, part, over) <=>
                  (condition => "finalDate" \in over \/ t.finalDate \in {"past", "earlierToday"})
<1> DEFINE values == {"past", "earlierToday"}
<1>1. Lists!Overdue = Lists!OneOf("finalDate", values)
  BY DEF Lists!Overdue
<1>2. t["finalDate"] \in values <=> t.finalDate \in {"past", "earlierToday"}
  OBVIOUS
<1> HIDE DEF values
<1>3. /\ \A c : c \in DOMAIN Lists!When(condition, Lists!OneOf("finalDate", values)) <=>
                  condition /\ c = "finalDate"
      /\ Asks(t, Lists!When(condition, Lists!OneOf("finalDate", values)), over) <=>
           (condition => "finalDate" \in over \/ t["finalDate"] \in values)
  BY WhenAsks
<1> QED
  BY <1>1, <1>2, <1>3

LEMMA NotNullAsks ==
  ASSUME NEW t \in Lists!TaskRow, NEW over
  PROVE  /\ Asks(t, Lists!NotNull, over) <=> "executorId" \in over \/ t.executorId # None
         /\ DOMAIN Lists!NotNull = {"executorId"}
<1> DEFINE values == Lists!User \ {None}
<1>1. t.executorId \in values <=> t.executorId # None
  BY ExecutorAssumption DEF Lists!TaskRow, Lists!User
<1>2. Lists!NotNull = Lists!OneOf("executorId", values)
  BY DEF Lists!NotNull
<1> HIDE DEF values
<1>3. /\ Asks(t, Lists!OneOf("executorId", values), over) <=>
           "executorId" \in over \/ t.executorId \in values
      /\ DOMAIN Lists!OneOf("executorId", values) = {"executorId"}
  BY ColumnsAsk, OneOfAsks
<1> QED
  BY <1>1, <1>2, <1>3

LEMMA AnswerAsks ==
  ASSUME NEW t \in Lists!TaskRow, NEW query, NEW over
  PROVE  /\ \A c : c \in DOMAIN Lists!Answer(query) <=>
                     \/ Answers(query) /\ c = "isExecutorApprove"
                     \/ Drops(query) /\ c = "executorId"
         /\ Asks(t, Lists!Answer(query), over) <=>
              /\ Answers(query) => \/ "isExecutorApprove" \in over
                                   \/ t.isExecutorApprove = query.isExecutorApprove
              /\ Drops(query) => "executorId" \in over \/ t.executorId # None
<1> DEFINE first == Lists!Is("isExecutorApprove", query.isExecutorApprove)
           condition == query.isExecutorApprove = "null" /\ query.unassigned # "true"
           second == Lists!When(condition, Lists!NotNull)
<1>1. Lists!Answer(query) = Lists!When(Answers(query), Lists!Spread(first, second))
  BY DEF Lists!Answer, Answers, Lists!Given
<1>2. Drops(query) <=> Answers(query) /\ condition
  BY DEF Drops
<1>3. /\ DOMAIN first = {"isExecutorApprove"}
      /\ \A over_2 : Asks(t, first, over_2) <=>
           "isExecutorApprove" \in over_2 \/ t.isExecutorApprove = query.isExecutorApprove
  BY IsAsks, IsDomain
<1> HIDE DEF first, condition
<1>4. /\ \A c : c \in DOMAIN second <=> condition /\ c = "executorId"
      /\ Asks(t, second, over) <=> (condition => "executorId" \in over \/ t.executorId # None)
  <2>1. CASE condition
    BY <2>1, WhenIs, NotNullAsks
  <2>2. CASE ~condition
    BY <2>2, WhenIs, NothingAsks
  <2> QED
    BY <2>1, <2>2
<1> HIDE DEF second
<1>5. /\ DOMAIN Lists!Spread(first, second) = DOMAIN first \cup DOMAIN second
      /\ Asks(t, Lists!Spread(first, second), over) <=>
           Asks(t, first, over \cup DOMAIN second) /\ Asks(t, second, over)
  BY SpreadAsks
<1>6. CASE Answers(query)
  <2>1. Lists!Answer(query) = Lists!Spread(first, second)
    BY <1>1, <1>6, WhenIs
  <2>2. "isExecutorApprove" \in over \cup DOMAIN second <=> "isExecutorApprove" \in over
    BY <1>4
  <2> QED
    BY <1>2, <1>3, <1>4, <1>5, <1>6, <2>1, <2>2
<1>7. CASE ~Answers(query)
  BY <1>1, <1>2, <1>7, WhenIs, NothingAsks
<1> QED
  BY <1>6, <1>7

LEMMA UnassignedAsks ==
  ASSUME NEW t, NEW u, NEW query, Counted(query)
  PROVE  LET r == Lists!RoleOf(query)
             part == Lists!When(query.unassigned = "true", Lists!Unassigned(u, r))
         IN  /\ \A c : c \in DOMAIN part <=>
                  /\ query.unassigned = "true"
                  /\ \/ c \in {"executorId", "isExecutorApprove"}
                     \/ r = NotGiven /\ c = "ownerId"
             /\ Asks(t, part, {}) <=>
                  (query.unassigned = "true" =>
                     /\ t.executorId = None /\ t.isExecutorApprove = "null"
                     /\ r = NotGiven => t.ownerId = u)
<1> DEFINE r == Lists!RoleOf(query)
           part == Lists!When(query.unassigned = "true", Lists!Unassigned(u, r))
           none == Lists!Is("executorId", None)
           own == Lists!Is("ownerId", u)
<1>1. CASE query.unassigned # "true"
  BY <1>1, WhenIs, NothingAsks
<1>2. CASE query.unassigned = "true" /\ r = "owner"
  <2>1. part = Lists!Spread(none, Lists!Unanswered)
    BY <1>2, WhenIs, NotGivenIs DEF Lists!Unassigned
  <2>2. DOMAIN none = {"executorId"} /\ DOMAIN Lists!Unanswered = {"isExecutorApprove"}
    BY IsDomain DEF Lists!Unanswered
  <2>3. /\ Asks(t, none, {} \cup {"isExecutorApprove"}) <=> t.executorId = None
        /\ Asks(t, Lists!Unanswered, {}) <=> t.isExecutorApprove = "null"
    BY IsAsks DEF Lists!Unanswered
  <2>4. /\ DOMAIN Lists!Spread(none, Lists!Unanswered) = DOMAIN none \cup DOMAIN Lists!Unanswered
        /\ Asks(t, Lists!Spread(none, Lists!Unanswered), {}) <=>
             /\ Asks(t, none, {} \cup DOMAIN Lists!Unanswered)
             /\ Asks(t, Lists!Unanswered, {})
    BY SpreadAsks
  <2> HIDE DEF part, none
  <2>5. /\ DOMAIN part = {"executorId", "isExecutorApprove"}
        /\ Asks(t, part, {}) <=> t.executorId = None /\ t.isExecutorApprove = "null"
    BY <2>1, <2>2, <2>3, <2>4
  <2> QED
    BY <1>2, <2>5, NotGivenIs DEF part
<1>3. CASE query.unassigned = "true" /\ r = NotGiven
  <2> DEFINE parts == <<own, none, Lists!Unanswered>>
  <2>1. part = Lists!Object(parts)
    BY <1>3, WhenIs, NotGivenIs DEF Lists!Unassigned
  <2>2. /\ DOMAIN own = {"ownerId"} /\ DOMAIN none = {"executorId"}
        /\ DOMAIN Lists!Unanswered = {"isExecutorApprove"}
    BY IsDomain DEF Lists!Unanswered
  <2>3. DOMAIN parts = 1..3 /\ parts[1] = own /\ parts[2] = none /\ parts[3] = Lists!Unanswered
    OBVIOUS
  <2>4. ASSUME NEW over
        PROVE  /\ Asks(t, own, over) <=> "ownerId" \in over \/ t.ownerId = u
               /\ Asks(t, none, over) <=> "executorId" \in over \/ t.executorId = None
               /\ Asks(t, Lists!Unanswered, over) <=>
                    "isExecutorApprove" \in over \/ t.isExecutorApprove = "null"
    BY IsAsks DEF Lists!Unanswered
  <2> HIDE DEF parts, own, none, part
  <2>5. /\ "ownerId" \notin Later(parts, 3, 1) /\ "executorId" \notin Later(parts, 3, 2)
        /\ "isExecutorApprove" \notin Later(parts, 3, 3)
    <3>1. \A j \in 2..3 : j = 2 \/ j = 3
      OBVIOUS
    <3> QED
      BY <2>2, <2>3, <3>1 DEF Later
  <2>6. Asks(t, Lists!Object(parts), {}) <=>
          \A i \in 1..3 : Asks(t, parts[i], {} \cup Later(parts, 3, i))
    BY <2>3, ObjectAsks
  <2>7. \A i \in 1..3 : i = 1 \/ i = 2 \/ i = 3
    OBVIOUS
  <2>8. Asks(t, Lists!Object(parts), {}) <=>
          t.ownerId = u /\ t.executorId = None /\ t.isExecutorApprove = "null"
    BY <2>3, <2>4, <2>5, <2>6, <2>7
  <2>9. DOMAIN Lists!Object(parts) = {"ownerId", "executorId", "isExecutorApprove"}
    <3>1. DOMAIN Lists!Object(parts) = UNION {DOMAIN parts[i] : i \in 1..3}
      BY <2>3 DEF Lists!Object
    <3> QED
      BY <2>2, <2>3, <2>7, <3>1
  <2> QED
    BY <1>3, <2>1, <2>8, <2>9 DEF part
<1> QED
  BY <1>1, <1>2, <1>3 DEF Counted, Lists!Role

\* The parts of such a list.
LEMMA PartsAre ==
  ASSUME NEW u, NEW query, Counted(query)
  PROVE  LET parts == Lists!ListParts(u, query)
             r == Lists!RoleOf(query)
         IN  /\ DOMAIN parts = 1..15
             /\ parts[1] = Lists!Participant(u, r)
             /\ parts[2] = Lists!When(Lists!Pending(query), Lists!Unanswered)
             /\ parts[3] = Lists!StatusFilter(query)
             /\ parts[4] = Lists!Equal(query, "ownerId")
             /\ parts[5] = Lists!Equal(query, "executorId")
             /\ parts[6] = Lists!Nothing
             /\ parts[7] = Lists!Period(query)
             /\ parts[8] = Lists!Nothing
             /\ parts[9] = Lists!Nothing
             /\ parts[10] = Lists!Equal(query, "isCompanyAction")
             /\ parts[11] = Lists!Answer(query)
             /\ parts[12] = Lists!Equal(query, "urgent")
             /\ parts[13] = Lists!Is("isArchived", "false")
             /\ parts[14] = Lists!When(query.overdue = "true", Lists!Overdue)
             /\ parts[15] = Lists!When(query.unassigned = "true", Lists!Unassigned(u, r))
<1>1. /\ Lists!When(query.deadlineDate = "today", Lists!Today) = Lists!Nothing
      /\ Lists!When(Lists!Given(query.q), Lists!Search) = Lists!Nothing
      /\ Lists!PersonSearch(query) = Lists!Nothing
  BY NotGivenIs, WhenIs DEF Counted, Lists!Given, Lists!PersonSearch
<1>2. (IF query.isArchived = "true" THEN "true" ELSE "false") = "false"
  BY NotGivenIs DEF Counted
<1> QED
  BY <1>1, <1>2 DEF Lists!ListParts

\* Which parts of such a list ask something of a column.
LEMMA PartsSay ==
  ASSUME NEW u, NEW query, Counted(query), NEW t \in Lists!TaskRow
  PROVE  LET parts == Lists!ListParts(u, query)
             r == Lists!RoleOf(query)
         IN  /\ \A j \in 1..15 : "ownerId" \in DOMAIN parts[j] <=>
                  \/ j = 1 /\ r = "owner"
                  \/ j = 4 /\ query.ownerId # NotGiven
                  \/ j = 15 /\ query.unassigned = "true" /\ r = NotGiven
             /\ \A j \in 1..15 : "executorId" \in DOMAIN parts[j] <=>
                  \/ j = 1 /\ r = "executor"
                  \/ j = 5 /\ query.executorId # NotGiven
                  \/ j = 11 /\ Drops(query)
                  \/ j = 15 /\ query.unassigned = "true"
             /\ \A j \in 1..15 : "OR" \in DOMAIN parts[j] => j = 1
             /\ \A j \in 1..15 : "status" \in DOMAIN parts[j] => j = 3
             /\ \A j \in 1..15 : "isExecutorApprove" \in DOMAIN parts[j] <=>
                  \/ j = 2 /\ Lists!Pending(query)
                  \/ j = 11 /\ Answers(query)
                  \/ j = 15 /\ query.unassigned = "true"
             /\ \A j \in 1..15 : "finalDate" \in DOMAIN parts[j] <=>
                  \/ j = 7 /\ query.period = "today"
                  \/ j = 14 /\ query.overdue = "true"
             /\ \A j \in 1..15 : "isCompanyAction" \in DOMAIN parts[j] => j = 10
             /\ \A j \in 1..15 : "urgent" \in DOMAIN parts[j] => j = 12
             /\ \A j \in 1..15 : "isArchived" \in DOMAIN parts[j] => j = 13
<1> DEFINE parts == Lists!ListParts(u, query)
           r == Lists!RoleOf(query)
<1>1. /\ DOMAIN parts = 1..15
      /\ parts[1] = Lists!Participant(u, r)
      /\ parts[2] = Lists!When(Lists!Pending(query), Lists!Unanswered)
      /\ parts[3] = Lists!StatusFilter(query)
      /\ parts[4] = Lists!Equal(query, "ownerId")
      /\ parts[5] = Lists!Equal(query, "executorId")
      /\ parts[6] = Lists!Nothing
      /\ parts[7] = Lists!Period(query)
      /\ parts[8] = Lists!Nothing
      /\ parts[9] = Lists!Nothing
      /\ parts[10] = Lists!Equal(query, "isCompanyAction")
      /\ parts[11] = Lists!Answer(query)
      /\ parts[12] = Lists!Equal(query, "urgent")
      /\ parts[13] = Lists!Is("isArchived", "false")
      /\ parts[14] = Lists!When(query.overdue = "true", Lists!Overdue)
      /\ parts[15] = Lists!When(query.unassigned = "true", Lists!Unassigned(u, r))
  BY PartsAre
<1> HIDE DEF parts
<1>2. r \in Lists!Role
  BY DEF Counted
<1>3. \A c : c \in DOMAIN parts[1] <=>
               \/ r = "owner" /\ c = "ownerId"
               \/ r = "executor" /\ c = "executorId"
               \/ r = NotGiven /\ c = "OR"
  <2>1. DOMAIN parts[1] = IF r = "owner" THEN {"ownerId"}
                          ELSE IF r = "executor" THEN {"executorId"} ELSE {"OR"}
    BY <1>1, <1>2, ParticipantAsks
  <2>2. (r = "owner" \/ r = "executor" \/ r = NotGiven) /\ NotGiven \notin {"owner", "executor"}
    BY <1>2, NotGivenIs DEF Lists!Role
  <2> QED
    BY <2>1, <2>2
<1>4. \A c : c \in DOMAIN parts[2] <=> Lists!Pending(query) /\ c = "isExecutorApprove"
  BY <1>1, UnansweredAsks
<1>5. \A c : c \in DOMAIN parts[3] => c = "status"
  BY <1>1 DEF Lists!StatusFilter, Lists!When, Lists!OneOf, Lists!Nothing
<1>6. /\ \A c : c \in DOMAIN parts[4] <=> query.ownerId # NotGiven /\ c = "ownerId"
      /\ \A c : c \in DOMAIN parts[5] <=> query.executorId # NotGiven /\ c = "executorId"
      /\ \A c : c \in DOMAIN parts[10] => c = "isCompanyAction"
      /\ \A c : c \in DOMAIN parts[12] => c = "urgent"
      /\ \A c : c \in DOMAIN parts[7] <=> query.period = "today" /\ c = "finalDate"
  BY <1>1, ParametersAsk
<1>7. /\ DOMAIN parts[6] = {} /\ DOMAIN parts[8] = {} /\ DOMAIN parts[9] = {}
      /\ DOMAIN parts[13] = {"isArchived"}
  BY <1>1, NothingAsks, IsDomain
<1>8. \A c : c \in DOMAIN parts[11] <=>
               \/ Answers(query) /\ c = "isExecutorApprove"
               \/ Drops(query) /\ c = "executorId"
  BY <1>1, AnswerAsks
<1>9. \A c : c \in DOMAIN parts[14] <=> query.overdue = "true" /\ c = "finalDate"
  BY <1>1, OverdueAsks
<1>10. \A c : c \in DOMAIN parts[15] <=>
                /\ query.unassigned = "true"
                /\ \/ c \in {"executorId", "isExecutorApprove"}
                   \/ r = NotGiven /\ c = "ownerId"
  BY <1>1, UnassignedAsks
<1>11. ASSUME NEW j \in 1..15
       PROVE  \/ j = 1 \/ j = 2 \/ j = 3 \/ j = 4 \/ j = 5 \/ j = 6 \/ j = 7 \/ j = 8
              \/ j = 9 \/ j = 10 \/ j = 11 \/ j = 12 \/ j = 13 \/ j = 14 \/ j = 15
  OBVIOUS
<1>12. \A j \in 1..15 : "ownerId" \in DOMAIN parts[j] <=>
         \/ j = 1 /\ r = "owner"
         \/ j = 4 /\ query.ownerId # NotGiven
         \/ j = 15 /\ query.unassigned = "true" /\ r = NotGiven
  BY <1>3, <1>4, <1>5, <1>6, <1>7, <1>8, <1>9, <1>10, <1>11
<1>13. \A j \in 1..15 : "executorId" \in DOMAIN parts[j] <=>
         \/ j = 1 /\ r = "executor"
         \/ j = 5 /\ query.executorId # NotGiven
         \/ j = 11 /\ Drops(query)
         \/ j = 15 /\ query.unassigned = "true"
  BY <1>3, <1>4, <1>5, <1>6, <1>7, <1>8, <1>9, <1>10, <1>11
<1>14. \A j \in 1..15 : "isExecutorApprove" \in DOMAIN parts[j] <=>
         \/ j = 2 /\ Lists!Pending(query)
         \/ j = 11 /\ Answers(query)
         \/ j = 15 /\ query.unassigned = "true"
  BY <1>3, <1>4, <1>5, <1>6, <1>7, <1>8, <1>9, <1>10, <1>11
<1>15. \A j \in 1..15 : "finalDate" \in DOMAIN parts[j] <=>
         \/ j = 7 /\ query.period = "today"
         \/ j = 14 /\ query.overdue = "true"
  BY <1>3, <1>4, <1>5, <1>6, <1>7, <1>8, <1>9, <1>10, <1>11
<1>16. /\ \A j \in 1..15 : "OR" \in DOMAIN parts[j] => j = 1
       /\ \A j \in 1..15 : "status" \in DOMAIN parts[j] => j = 3
  BY <1>3, <1>4, <1>5, <1>6, <1>7, <1>8, <1>9, <1>10, <1>11
<1>17. /\ \A j \in 1..15 : "isCompanyAction" \in DOMAIN parts[j] => j = 10
       /\ \A j \in 1..15 : "urgent" \in DOMAIN parts[j] => j = 12
       /\ \A j \in 1..15 : "isArchived" \in DOMAIN parts[j] => j = 13
  BY <1>3, <1>4, <1>5, <1>6, <1>7, <1>8, <1>9, <1>10, <1>11
<1> QED
  BY <1>12, <1>13, <1>14, <1>15, <1>16, <1>17 DEF parts

\* What a list shows, as its parameters say.
LEMMA ListShows ==
  ASSUME NEW u, NEW query, Counted(query), NEW t \in Lists!TaskRow
  PROVE  Lists!Matches(t, Lists!ListWhere(u, query)) <=> ShownIn(t, u, query)
<1> DEFINE parts == Lists!ListParts(u, query)
           r == Lists!RoleOf(query)
           after(i) == Later(parts, 15, i)
<1>1. /\ DOMAIN parts = 1..15
      /\ parts[1] = Lists!Participant(u, r)
      /\ parts[2] = Lists!When(Lists!Pending(query), Lists!Unanswered)
      /\ parts[3] = Lists!StatusFilter(query)
      /\ parts[4] = Lists!Equal(query, "ownerId")
      /\ parts[5] = Lists!Equal(query, "executorId")
      /\ parts[6] = Lists!Nothing
      /\ parts[7] = Lists!Period(query)
      /\ parts[8] = Lists!Nothing
      /\ parts[9] = Lists!Nothing
      /\ parts[10] = Lists!Equal(query, "isCompanyAction")
      /\ parts[11] = Lists!Answer(query)
      /\ parts[12] = Lists!Equal(query, "urgent")
      /\ parts[13] = Lists!Is("isArchived", "false")
      /\ parts[14] = Lists!When(query.overdue = "true", Lists!Overdue)
      /\ parts[15] = Lists!When(query.unassigned = "true", Lists!Unassigned(u, r))
  BY PartsAre
<1>2. /\ \A j \in 1..15 : "ownerId" \in DOMAIN parts[j] <=>
           \/ j = 1 /\ r = "owner"
           \/ j = 4 /\ query.ownerId # NotGiven
           \/ j = 15 /\ query.unassigned = "true" /\ r = NotGiven
      /\ \A j \in 1..15 : "executorId" \in DOMAIN parts[j] <=>
           \/ j = 1 /\ r = "executor"
           \/ j = 5 /\ query.executorId # NotGiven
           \/ j = 11 /\ Drops(query)
           \/ j = 15 /\ query.unassigned = "true"
      /\ \A j \in 1..15 : "isExecutorApprove" \in DOMAIN parts[j] <=>
           \/ j = 2 /\ Lists!Pending(query)
           \/ j = 11 /\ Answers(query)
           \/ j = 15 /\ query.unassigned = "true"
      /\ \A j \in 1..15 : "finalDate" \in DOMAIN parts[j] <=>
           \/ j = 7 /\ query.period = "today"
           \/ j = 14 /\ query.overdue = "true"
  BY PartsSay
<1>3. /\ \A j \in 1..15 : "OR" \in DOMAIN parts[j] => j = 1
      /\ \A j \in 1..15 : "status" \in DOMAIN parts[j] => j = 3
      /\ \A j \in 1..15 : "isCompanyAction" \in DOMAIN parts[j] => j = 10
      /\ \A j \in 1..15 : "urgent" \in DOMAIN parts[j] => j = 12
      /\ \A j \in 1..15 : "isArchived" \in DOMAIN parts[j] => j = 13
  BY PartsSay
<1> HIDE DEF parts
<1>4. \A i \in 1..15 : \A c : c \in after(i) <=> \E j \in i + 1..15 : c \in DOMAIN parts[j]
  BY DEF Later
<1>5. \A i \in 1..15 : \A j \in i + 1..15 : j \in 1..15 /\ j > i
  OBVIOUS
<1>6. /\ r = "owner" => ("ownerId" \in after(1) <=> query.ownerId # NotGiven)
      /\ "ownerId" \in after(4) <=> query.unassigned = "true" /\ r = NotGiven
  <2>1. 4 \in 1 + 1..15 /\ 15 \in 4 + 1..15 /\ 1 \notin 1 + 1..15 /\ 4 \notin 4 + 1..15
        /\ 1 \notin 4 + 1..15
    OBVIOUS
  <2> QED
    BY <1>2, <1>4, <1>5, <2>1, NotGivenIs
<1>7. /\ r = "executor" => ("executorId" \in after(1) <=> query.executorId # NotGiven)
      /\ "executorId" \in after(5) <=> query.unassigned = "true" \/ Drops(query)
      /\ Drops(query) => "executorId" \notin after(11)
  <2>1. /\ r = "executor" => query.unassigned # "true" /\ ~Drops(query)
        /\ Drops(query) => query.unassigned # "true"
    BY DEF Counted, Drops, Answers
  <2>2. /\ 5 \in 1 + 1..15 /\ 1 \notin 1 + 1..15
        /\ 11 \in 5 + 1..15 /\ 15 \in 5 + 1..15 /\ 1 \notin 5 + 1..15 /\ 5 \notin 5 + 1..15
        /\ 1 \notin 11 + 1..15 /\ 5 \notin 11 + 1..15 /\ 11 \notin 11 + 1..15
    OBVIOUS
  <2>3. Drops(query) => "executorId" \notin after(11)
    BY <1>2, <1>4, <1>5, <2>1, <2>2
  <2>4. r = "executor" => ("executorId" \in after(1) <=> query.executorId # NotGiven)
    BY <1>2, <1>4, <1>5, <2>1, <2>2
  <2>5. "executorId" \in after(5) <=> query.unassigned = "true" \/ Drops(query)
    BY <1>2, <1>4, <1>5, <2>1, <2>2
  <2> QED
    BY <2>3, <2>4, <2>5
<1>8. /\ Lists!Pending(query) => "isExecutorApprove" \notin after(2)
      /\ Answers(query) => "isExecutorApprove" \notin after(11)
  <2>1. /\ Lists!Pending(query) => ~Answers(query) /\ query.unassigned # "true"
        /\ Answers(query) => query.unassigned # "true"
    BY DEF Counted, Answers
  <2>2. 2 \notin 2 + 1..15 /\ 2 \notin 11 + 1..15 /\ 11 \notin 11 + 1..15
    OBVIOUS
  <2> QED
    BY <1>2, <1>4, <1>5, <2>1, <2>2
<1>9. "finalDate" \in after(7) <=> query.overdue = "true"
  <2>1. 14 \in 7 + 1..15 /\ 7 \notin 7 + 1..15
    OBVIOUS
  <2> QED
    BY <1>2, <1>4, <1>5, <2>1
<1>10. "finalDate" \notin after(14)
  BY <1>2, <1>4, <1>5
<1>11. /\ "OR" \notin after(1) /\ "status" \notin after(3) /\ "isCompanyAction" \notin after(10)
       /\ "urgent" \notin after(12) /\ "isArchived" \notin after(13)
  BY <1>3, <1>4, <1>5
<1>12. after(15) = {}
  BY DEF Later
<1> HIDE DEF after
<1>13. Asks(t, parts[1], after(1)) <=>
         /\ r = "owner" => query.ownerId # NotGiven \/ t.ownerId = u
         /\ r = "executor" => query.executorId # NotGiven \/ t.executorId = u
         /\ r = NotGiven => u \in {t.ownerId, t.executorId}
  <2>1. r \in Lists!Role
    BY DEF Counted
  <2> HIDE DEF r
  <2>2. Asks(t, Lists!Participant(u, r), after(1)) <=>
          /\ r = "owner" => "ownerId" \in after(1) \/ t.ownerId = u
          /\ r = "executor" => "executorId" \in after(1) \/ t.executorId = u
          /\ r = NotGiven => "OR" \in after(1) \/ u \in {t.ownerId, t.executorId}
    BY <2>1, ParticipantAsks
  <2> QED
    BY <1>1, <1>6, <1>7, <1>11, <2>2
<1>14. Asks(t, parts[2], after(2)) <=> (Lists!Pending(query) => t.isExecutorApprove = "null")
  BY <1>1, <1>8, UnansweredAsks
<1>15. Asks(t, parts[3], after(3)) <=>
         /\ query.active = "true" => t.status \notin Lists!Terminal
         /\ query.status # NotGiven => t.status = query.status
  BY <1>1, <1>11, StatusAsks
<1>16. Asks(t, parts[4], after(4)) <=>
         (query.ownerId # NotGiven =>
            \/ query.unassigned = "true" /\ r = NotGiven
            \/ t.ownerId = query.ownerId)
  BY <1>1, <1>6, ParametersAsk
<1>17. Asks(t, parts[5], after(5)) <=>
         (query.executorId # NotGiven =>
            query.unassigned = "true" \/ Drops(query) \/ t.executorId = query.executorId)
  BY <1>1, <1>7, ParametersAsk
<1>18. Asks(t, parts[6], after(6)) /\ Asks(t, parts[8], after(8)) /\ Asks(t, parts[9], after(9))
  BY <1>1, NothingAsks
<1>19. Asks(t, parts[7], after(7)) <=>
         (query.period = "today" =>
            query.overdue = "true" \/ t.finalDate \in {"earlierToday", "laterToday"})
  BY <1>1, <1>9, ParametersAsk
<1>20. Asks(t, parts[10], after(10)) <=>
         (query.isCompanyAction # NotGiven => t.isCompanyAction = query.isCompanyAction)
  BY <1>1, <1>11, ParametersAsk
<1>21. Asks(t, parts[11], after(11)) <=>
         /\ Answers(query) => t.isExecutorApprove = query.isExecutorApprove
         /\ Drops(query) => t.executorId # None
  BY <1>1, <1>7, <1>8, AnswerAsks
<1>22. Asks(t, parts[12], after(12)) <=> (query.urgent # NotGiven => t.urgent = query.urgent)
  BY <1>1, <1>11, ParametersAsk
<1>23. Asks(t, parts[13], after(13)) <=> t.isArchived = "false"
  BY <1>1, <1>11, IsAsks
<1>24. Asks(t, parts[14], after(14)) <=>
         (query.overdue = "true" => t.finalDate \in {"past", "earlierToday"})
  <2> DEFINE condition == query.overdue = "true"
  <2>1. parts[14] = Lists!When(condition, Lists!Overdue)
    BY <1>1
  <2> HIDE DEF condition
  <2>2. Asks(t, Lists!When(condition, Lists!Overdue), after(14)) <=>
          (condition => "finalDate" \in after(14) \/ t.finalDate \in {"past", "earlierToday"})
    BY OverdueAsks
  <2> QED
    BY <1>10, <2>1, <2>2 DEF condition
<1>25. Asks(t, parts[15], after(15)) <=>
         (query.unassigned = "true" =>
            /\ t.executorId = None /\ t.isExecutorApprove = "null"
            /\ r = NotGiven => t.ownerId = u)
  BY <1>1, <1>12, UnassignedAsks
<1>26. Asks(t, Lists!Object(parts), {}) <=> \A i \in 1..15 : Asks(t, parts[i], after(i))
  <2>1. \A i \in 1..15 : {} \cup Later(parts, 15, i) = after(i)
    BY DEF after
  <2>2. Asks(t, Lists!Object(parts), {}) <=>
          \A i \in 1..15 : Asks(t, parts[i], {} \cup Later(parts, 15, i))
    BY <1>1, ObjectAsks
  <2> QED
    BY <2>1, <2>2
<1>27. (\A i \in 1..15 : Asks(t, parts[i], after(i))) <=>
         /\ Asks(t, parts[1], after(1)) /\ Asks(t, parts[2], after(2)) /\ Asks(t, parts[3], after(3))
         /\ Asks(t, parts[4], after(4)) /\ Asks(t, parts[5], after(5)) /\ Asks(t, parts[6], after(6))
         /\ Asks(t, parts[7], after(7)) /\ Asks(t, parts[8], after(8)) /\ Asks(t, parts[9], after(9))
         /\ Asks(t, parts[10], after(10)) /\ Asks(t, parts[11], after(11))
         /\ Asks(t, parts[12], after(12)) /\ Asks(t, parts[13], after(13))
         /\ Asks(t, parts[14], after(14)) /\ Asks(t, parts[15], after(15))
  <2>1. ASSUME NEW i \in 1..15
        PROVE  \/ i = 1 \/ i = 2 \/ i = 3 \/ i = 4 \/ i = 5 \/ i = 6 \/ i = 7 \/ i = 8
               \/ i = 9 \/ i = 10 \/ i = 11 \/ i = 12 \/ i = 13 \/ i = 14 \/ i = 15
    OBVIOUS
  <2> QED
    BY <2>1
<1>28. (\A i \in 1..15 : Asks(t, parts[i], after(i))) <=> ShownIn(t, u, query)
  BY <1>13, <1>14, <1>15, <1>16, <1>17, <1>18, <1>19, <1>20, <1>21, <1>22, <1>23, <1>24,
     <1>25, <1>27 DEF ShownIn
<1>29. Lists!Matches(t, Lists!ListWhere(u, query)) <=> Asks(t, Lists!Object(parts), {})
  BY MatchingIsAsking DEF Lists!ListWhere, parts
<1> QED
  BY <1>26, <1>28, <1>29

\* An executor has no task that has none: what he does not have overwrites what he is.
LEMMA NoneUnassigned ==
  ASSUME NEW u, NEW query, NEW t, query.unassigned = "true", Lists!RoleOf(query) = "executor"
  PROVE  ~Lists!Matches(t, Lists!ListWhere(u, query))
<1> DEFINE parts == Lists!ListParts(u, query)
<1>1. DOMAIN parts = 1..15 /\ parts[15] = Lists!OneOf("executorId", {})
  <2>1. parts[15] = Lists!When(query.unassigned = "true", Lists!Unassigned(u, Lists!RoleOf(query)))
    BY DEF Lists!ListParts
  <2>2. Lists!Unassigned(u, Lists!RoleOf(query)) = Lists!OneOf("executorId", {})
    BY NotGivenIs DEF Lists!Unassigned
  <2>3. parts[15] = Lists!OneOf("executorId", {})
    BY <2>1, <2>2, WhenIs
  <2> QED
    BY <2>3 DEF Lists!ListParts
<1>2. Lists!Matches(t, Lists!ListWhere(u, query)) <=> Asks(t, Lists!Object(parts), {})
  BY MatchingIsAsking DEF Lists!ListWhere
<1> HIDE DEF parts
<1>3. Asks(t, Lists!Object(parts), {}) => Asks(t, parts[15], {} \cup Later(parts, 15, 15))
  <2>1. Asks(t, Lists!Object(parts), {}) <=>
          \A i \in 1..15 : Asks(t, parts[i], {} \cup Later(parts, 15, i))
    BY <1>1, ObjectAsks
  <2> QED
    BY <2>1
<1>4. {} \cup Later(parts, 15, 15) = {}
  BY DEF Later
<1>5. ~Asks(t, Lists!OneOf("executorId", {}), {})
  BY ColumnsAsk
<1> QED
  BY <1>1, <1>2, <1>3, <1>4, <1>5

\* The filters of the lists and of the counters, on the row as it is.
LEMMA RowIs ==
  ASSUME ListsInv
  PROVE  \E t \in Lists!TaskRow :
           /\ t = task
           /\ \A wheres : Lists!Listed(wheres) <=> \A where \in wheres : Lists!Matches(t, where)
<1>1. PICK t \in Lists!TaskRow : t = task
  BY DEF ListsInv
<1>2. ASSUME NEW wheres
      PROVE  Lists!Listed(wheres) <=> \A where \in wheres : Lists!Matches(t, where)
  BY <1>1 DEF Lists!Listed, Lists!Matches, Lists!MatchesColumns
<1> QED
  BY <1>1, <1>2
-----------------------------------------------------------------------------
(* What the counters count.                                                  *)

\* What all counters ask for, but for what is overwritten.
BaseShown(t, u, query, over) ==
  /\ query.role = "owner" => query.ownerId # NotGiven \/ "ownerId" \in over \/ t.ownerId = u
  /\ query.role = "executor" =>
       query.executorId # NotGiven \/ "executorId" \in over \/ t.executorId = u
  /\ query.role = NotGiven => "OR" \in over \/ u \in {t.ownerId, t.executorId}
  /\ query.executorId # NotGiven => "executorId" \in over \/ t.executorId = query.executorId
  /\ query.ownerId # NotGiven => "ownerId" \in over \/ t.ownerId = query.ownerId
  /\ "isArchived" \in over \/ t.isArchived = "false"
  /\ query.period = "today" =>
       "finalDate" \in over \/ t.finalDate \in {"earlierToday", "laterToday"}

LEMMA BaseAsks ==
  ASSUME NEW u, NEW query \in Lists!Parameters, NEW t, NEW over
  PROVE  Asks(t, Lists!StatsBase(u, query), over) <=> BaseShown(t, u, query, over)
<1> DEFINE parts == <<Lists!Participant(u, query.role), Lists!Equal(query, "executorId"),
                      Lists!Equal(query, "ownerId"), Lists!Is("isArchived", "false"),
                      Lists!Period(query)>>
           after(i) == over \cup Later(parts, 5, i)
<1>0. query.role \in Lists!Role
  BY DEF Lists!Parameters
<1>1. /\ DOMAIN parts = 1..5
      /\ parts[1] = Lists!Participant(u, query.role)
      /\ parts[2] = Lists!Equal(query, "executorId") /\ parts[3] = Lists!Equal(query, "ownerId")
      /\ parts[4] = Lists!Is("isArchived", "false") /\ parts[5] = Lists!Period(query)
  OBVIOUS
<1>2. Asks(t, Lists!StatsBase(u, query), over) <=> Asks(t, Lists!Object(parts), over)
  BY DEF Lists!StatsBase
<1> HIDE DEF parts
<1>3. /\ \A c : c \in DOMAIN parts[2] <=> query.executorId # NotGiven /\ c = "executorId"
      /\ \A c : c \in DOMAIN parts[3] <=> query.ownerId # NotGiven /\ c = "ownerId"
      /\ \A c : c \in DOMAIN parts[4] <=> c = "isArchived"
      /\ \A c : c \in DOMAIN parts[5] <=> query.period = "today" /\ c = "finalDate"
  <2>1. /\ \A c : c \in DOMAIN parts[2] <=> query.executorId # NotGiven /\ c = "executorId"
        /\ \A c : c \in DOMAIN parts[3] <=> query.ownerId # NotGiven /\ c = "ownerId"
        /\ \A c : c \in DOMAIN parts[5] <=> query.period = "today" /\ c = "finalDate"
    BY <1>1, ParametersAsk
  <2>2. DOMAIN parts[4] = {"isArchived"}
    BY <1>1, IsDomain
  <2> QED
    BY <2>1, <2>2
<1>4. /\ \A c : c \in after(1) <=>
           \/ c \in over \/ c \in DOMAIN parts[2] \/ c \in DOMAIN parts[3]
           \/ c \in DOMAIN parts[4] \/ c \in DOMAIN parts[5]
      /\ \A c : c \in after(2) <=>
           \/ c \in over \/ c \in DOMAIN parts[3] \/ c \in DOMAIN parts[4] \/ c \in DOMAIN parts[5]
      /\ \A c : c \in after(3) <=> c \in over \/ c \in DOMAIN parts[4] \/ c \in DOMAIN parts[5]
      /\ \A c : c \in after(4) <=> c \in over \/ c \in DOMAIN parts[5]
      /\ \A c : c \in after(5) <=> c \in over
  <2>1. /\ 1 + 1..5 = {2, 3, 4, 5} /\ 2 + 1..5 = {3, 4, 5} /\ 3 + 1..5 = {4, 5}
        /\ 4 + 1..5 = {5} /\ 5 + 1..5 = {}
    OBVIOUS
  <2> QED
    BY <2>1 DEF Later
<1>5. Asks(t, Lists!Object(parts), over) <=> \A i \in 1..5 : Asks(t, parts[i], after(i))
  BY <1>1, ObjectAsks
<1> HIDE DEF after
<1>6. (\A i \in 1..5 : Asks(t, parts[i], after(i))) <=>
        /\ Asks(t, parts[1], after(1)) /\ Asks(t, parts[2], after(2)) /\ Asks(t, parts[3], after(3))
        /\ Asks(t, parts[4], after(4)) /\ Asks(t, parts[5], after(5))
  <2>1. \A i \in 1..5 : i = 1 \/ i = 2 \/ i = 3 \/ i = 4 \/ i = 5
    OBVIOUS
  <2> QED
    BY <2>1
<1>7. Asks(t, parts[1], after(1)) <=>
        /\ query.role = "owner" =>
             query.ownerId # NotGiven \/ "ownerId" \in over \/ t.ownerId = u
        /\ query.role = "executor" =>
             query.executorId # NotGiven \/ "executorId" \in over \/ t.executorId = u
        /\ query.role = NotGiven => "OR" \in over \/ u \in {t.ownerId, t.executorId}
  <2>1. /\ "ownerId" \in after(1) <=> "ownerId" \in over \/ query.ownerId # NotGiven
        /\ "executorId" \in after(1) <=> "executorId" \in over \/ query.executorId # NotGiven
        /\ "OR" \in after(1) <=> "OR" \in over
    BY <1>3, <1>4
  <2>2. \A r \in Lists!Role :
          Asks(t, Lists!Participant(u, r), after(1)) <=>
            /\ r = "owner" => "ownerId" \in after(1) \/ t.ownerId = u
            /\ r = "executor" => "executorId" \in after(1) \/ t.executorId = u
            /\ r = NotGiven => "OR" \in after(1) \/ u \in {t.ownerId, t.executorId}
    BY ParticipantAsks
  <2> QED
    BY <1>0, <1>1, <2>1, <2>2
<1>8. Asks(t, parts[2], after(2)) <=>
        (query.executorId # NotGiven => "executorId" \in over \/ t.executorId = query.executorId)
  <2>1. "executorId" \in after(2) <=> "executorId" \in over
    BY <1>3, <1>4
  <2> QED
    BY <1>1, <2>1, ParametersAsk
<1>9. Asks(t, parts[3], after(3)) <=>
        (query.ownerId # NotGiven => "ownerId" \in over \/ t.ownerId = query.ownerId)
  <2>1. "ownerId" \in after(3) <=> "ownerId" \in over
    BY <1>3, <1>4
  <2> QED
    BY <1>1, <2>1, ParametersAsk
<1>10. Asks(t, parts[4], after(4)) <=> "isArchived" \in over \/ t.isArchived = "false"
  <2>1. "isArchived" \in after(4) <=> "isArchived" \in over
    BY <1>3, <1>4
  <2> QED
    BY <1>1, <2>1, IsAsks
<1>11. Asks(t, parts[5], after(5)) <=>
         (query.period = "today" =>
            "finalDate" \in over \/ t.finalDate \in {"earlierToday", "laterToday"})
  <2>1. "finalDate" \in after(5) <=> "finalDate" \in over
    BY <1>4
  <2> QED
    BY <1>1, <2>1, ParametersAsk
<1> QED
  BY <1>2, <1>5, <1>6, <1>7, <1>8, <1>9, <1>10, <1>11 DEF BaseShown

\* What is active.
ActiveShown(t, u, query, over) ==
  BaseShown(t, u, query, over) /\ t.status \notin Lists!Terminal

LEMMA ActiveAsks ==
  ASSUME NEW u, NEW query \in Lists!Parameters, NEW t \in Lists!TaskRow,
         NEW over, "status" \notin over
  PROVE  Asks(t, Lists!Spread(Lists!StatsBase(u, query), Lists!ActiveStatus), over) <=>
           ActiveShown(t, u, query, over)
<1> DEFINE base == Lists!StatsBase(u, query)
           values == Lists!TaskStatus \ Lists!Terminal
<1>1. t.status \in values <=> t.status \notin Lists!Terminal
  BY DEF Lists!TaskRow
<1>2. Asks(t, base, over \cup {"status"}) <=> BaseShown(t, u, query, over \cup {"status"})
  BY BaseAsks
<1>3. BaseShown(t, u, query, over \cup {"status"}) <=> BaseShown(t, u, query, over)
  BY DEF BaseShown
<1>4. Lists!ActiveStatus = Lists!OneOf("status", values)
  BY DEF Lists!ActiveStatus
<1> HIDE DEF base, values
<1>5. /\ DOMAIN Lists!OneOf("status", values) = {"status"}
      /\ Asks(t, Lists!OneOf("status", values), over) <=> t.status \in values
  BY OneOfAsks, ColumnsAsk
<1>6. Asks(t, Lists!Spread(base, Lists!ActiveStatus), over) <=>
        /\ Asks(t, base, over \cup DOMAIN Lists!ActiveStatus)
        /\ Asks(t, Lists!ActiveStatus, over)
  BY SpreadAsks
<1> QED
  BY <1>1, <1>2, <1>3, <1>4, <1>5, <1>6 DEF ActiveShown, base

\* One more filter than the active tasks have.
LEMMA ActiveAndAsks ==
  ASSUME NEW u, NEW query \in Lists!Parameters, NEW t \in Lists!TaskRow,
         NEW filter, "status" \notin DOMAIN filter
  PROVE  LET active == Lists!Spread(Lists!StatsBase(u, query), Lists!ActiveStatus)
         IN  Lists!Matches(t, Lists!Spread(active, filter)) <=>
               ActiveShown(t, u, query, DOMAIN filter) /\ Asks(t, filter, {})
<1> DEFINE active == Lists!Spread(Lists!StatsBase(u, query), Lists!ActiveStatus)
<1>1. Asks(t, active, {} \cup DOMAIN filter) <=> ActiveShown(t, u, query, DOMAIN filter)
  <2>1. {} \cup DOMAIN filter = DOMAIN filter
    OBVIOUS
  <2> QED
    BY <2>1, ActiveAsks
<1> HIDE DEF active
<1>2. Asks(t, Lists!Spread(active, filter), {}) <=>
        Asks(t, active, {} \cup DOMAIN filter) /\ Asks(t, filter, {})
  BY SpreadAsks
<1>3. Lists!Matches(t, Lists!Spread(active, filter)) <=> Asks(t, Lists!Spread(active, filter), {})
  BY MatchingIsAsking
<1> QED
  BY <1>1, <1>2, <1>3 DEF active

MyTurn(t, r) ==
  /\ t.isCompanyAction = IF r = "owner" THEN "true" ELSE "false"
  /\ t.isExecutorApprove \in Lists!Flag

\* Answered, and the turn of a side.
LEMMA MineAsks ==
  ASSUME NEW t, NEW r
  PROVE  LET mine == Lists!Spread(Lists!TurnOf(r), Lists!Answered)
         IN  /\ DOMAIN mine = {"isCompanyAction", "isExecutorApprove"}
             /\ Asks(t, mine, {}) <=> MyTurn(t, r)
<1> DEFINE turn == IF r = "owner" THEN "true" ELSE "false"
           mine == Lists!Spread(Lists!TurnOf(r), Lists!Answered)
<1>1. /\ DOMAIN Lists!TurnOf(r) = {"isCompanyAction"}
      /\ DOMAIN Lists!Answered = {"isExecutorApprove"}
  BY IsDomain, OneOfAsks DEF Lists!TurnOf, Lists!Answered
<1>2. Asks(t, Lists!Answered, {}) <=> t.isExecutorApprove \in Lists!Flag
  BY ColumnsAsk DEF Lists!Answered
<1>3. Asks(t, Lists!TurnOf(r), {} \cup {"isExecutorApprove"}) <=> t.isCompanyAction = turn
  <2>1. Lists!TurnOf(r) = Lists!Is("isCompanyAction", turn)
    BY DEF Lists!TurnOf
  <2> HIDE DEF turn
  <2> QED
    BY <2>1, IsAsks
<1>4. /\ DOMAIN mine = DOMAIN Lists!TurnOf(r) \cup DOMAIN Lists!Answered
      /\ Asks(t, mine, {}) <=>
           Asks(t, Lists!TurnOf(r), {} \cup DOMAIN Lists!Answered) /\ Asks(t, Lists!Answered, {})
  BY SpreadAsks
<1> HIDE DEF turn, mine
<1>5. Asks(t, mine, {}) <=> t.isCompanyAction = turn /\ t.isExecutorApprove \in Lists!Flag
  BY <1>1, <1>2, <1>3, <1>4
<1>6. DOMAIN mine = {"isCompanyAction", "isExecutorApprove"}
  BY <1>1, <1>4
<1> QED
  BY <1>5, <1>6 DEF MyTurn, turn, mine

\* What the owner is counted, and the executor, in any role: his side's turn.
LEMMA AlternativeAsks ==
  ASSUME NEW t, NEW u, NEW r, NEW column \in {"ownerId", "executorId"}
  PROVE  LET mine == Lists!Spread(Lists!TurnOf(r), Lists!Answered)
         IN  Lists!MatchesColumns(t, Lists!Spread(Lists!Is(column, u), mine)) <=>
               t[column] = u /\ MyTurn(t, r)
<1> DEFINE mine == Lists!Spread(Lists!TurnOf(r), Lists!Answered)
           own == Lists!Is(column, u)
           both == Lists!Spread(own, mine)
<1>1. /\ DOMAIN mine = {"isCompanyAction", "isExecutorApprove"}
      /\ Asks(t, mine, {}) <=> MyTurn(t, r)
  BY MineAsks
<1>2. /\ DOMAIN own = {column}
      /\ \A over : Asks(t, own, over) <=> column \in over \/ t[column] = u
  <2>1. DOMAIN own = {column}
    BY IsDomain
  <2>2. ASSUME NEW over PROVE Asks(t, own, over) <=> column \in over \/ t[column] = u
    <3> DEFINE values == {u}
    <3>1. own = Lists!OneOf(column, values) /\ (t[column] \in values <=> t[column] = u)
      BY DEF Lists!Is
    <3> HIDE DEF values, own
    <3>2. Asks(t, Lists!OneOf(column, values), over) <=> column \in over \/ t[column] \in values
      BY OneOfAsks
    <3> QED
      BY <3>1, <3>2
  <2> QED
    BY <2>1, <2>2
<1> HIDE DEF mine, own
<1>3. /\ DOMAIN both = DOMAIN own \cup DOMAIN mine
      /\ Asks(t, both, {}) <=> Asks(t, own, {} \cup DOMAIN mine) /\ Asks(t, mine, {})
  BY SpreadAsks
<1> HIDE DEF both
<1>4. Asks(t, both, {}) <=> t[column] = u /\ MyTurn(t, r)
  BY <1>1, <1>2, <1>3
<1>5. Lists!MatchesColumns(t, both) <=> Asks(t, both, {})
  BY <1>1, <1>2, <1>3 DEF Asks, Lists!MatchesColumns
<1> QED
  BY <1>4, <1>5 DEF both, mine, own

LEMMA TurnCounted ==
  ASSUME NEW u, NEW query \in Lists!Parameters, NEW t \in Lists!TaskRow
  PROVE  LET r == query.role
             active == Lists!Spread(Lists!StatsBase(u, query), Lists!ActiveStatus)
         IN  (\A where \in Lists!AwaitingAction(u, r, active) : Lists!Matches(t, where)) <=>
               /\ ActiveShown(t, u, query, {})
               /\ r # NotGiven => MyTurn(t, r)
               /\ r = NotGiven => \/ t.ownerId = u /\ MyTurn(t, "owner")
                                  \/ t.executorId = u /\ MyTurn(t, "executor")
<1> DEFINE r == query.role
           active == Lists!Spread(Lists!StatsBase(u, query), Lists!ActiveStatus)
           mine(side) == Lists!Spread(Lists!TurnOf(side), Lists!Answered)
           first == Lists!Spread(Lists!Is("ownerId", u), mine("owner"))
           second == Lists!Spread(Lists!Is("executorId", u), mine("executor"))
<1>1. CASE r # NotGiven
  <2>1. Lists!AwaitingAction(u, r, active) = {Lists!Spread(active, mine(r))}
    BY <1>1 DEF Lists!AwaitingAction
  <2>2. /\ DOMAIN mine(r) = {"isCompanyAction", "isExecutorApprove"}
        /\ Asks(t, mine(r), {}) <=> MyTurn(t, r)
    BY MineAsks
  <2> HIDE DEF mine
  <2>3. Lists!Matches(t, Lists!Spread(active, mine(r))) <=>
          ActiveShown(t, u, query, DOMAIN mine(r)) /\ Asks(t, mine(r), {})
    BY <2>2, ActiveAndAsks
  <2>4. ActiveShown(t, u, query, DOMAIN mine(r)) <=> ActiveShown(t, u, query, {})
    BY <2>2 DEF ActiveShown, BaseShown
  <2> HIDE DEF active
  <2> QED
    BY <1>1, <2>1, <2>2, <2>3, <2>4 DEF active
<1>2. CASE r = NotGiven
  <2>1. Lists!AwaitingAction(u, r, active) = {active, Lists!Either(first, second)}
    BY <1>2 DEF Lists!AwaitingAction
  <2>2. Lists!MatchesColumns(t, first) <=> t.ownerId = u /\ MyTurn(t, "owner")
    BY AlternativeAsks
  <2>3. Lists!MatchesColumns(t, second) <=> t.executorId = u /\ MyTurn(t, "executor")
    BY AlternativeAsks
  <2>4. Lists!Matches(t, active) <=> ActiveShown(t, u, query, {})
    BY ActiveAsks, MatchingIsAsking
  <2> HIDE DEF active, first, second
  <2>5. Lists!Matches(t, Lists!Either(first, second)) <=>
          Lists!MatchesColumns(t, first) \/ Lists!MatchesColumns(t, second)
    BY EitherAsks, MatchingIsAsking
  <2> QED
    BY <1>2, <2>1, <2>2, <2>3, <2>4, <2>5 DEF active
<1> QED
  BY <1>1, <1>2

\* Every counter, as it is worked out from the row.
LEMMA Counters ==
  ASSUME NEW u, NEW query \in Lists!Parameters, NEW t \in Lists!TaskRow,
         \A wheres : Lists!Listed(wheres) <=> \A where \in wheres : Lists!Matches(t, where)
  PROVE  LET stats == Lists!Stats(u, query)
         IN  /\ stats.awaitingAction <=>
                  /\ ActiveShown(t, u, query, {})
                  /\ query.role # NotGiven => MyTurn(t, query.role)
                  /\ query.role = NotGiven => \/ t.ownerId = u /\ MyTurn(t, "owner")
                                              \/ t.executorId = u /\ MyTurn(t, "executor")
             /\ stats.awaitingConfirmation <=>
                  /\ ActiveShown(t, u, query, {})
                  /\ t.isExecutorApprove = "null" /\ t.executorId # None
             /\ stats.unassigned <=>
                  /\ query.role # "executor" /\ query.executorId = NotGiven
                  /\ ActiveShown(t, u, query, {"ownerId", "executorId", "isExecutorApprove"})
                  /\ t.ownerId = u /\ t.executorId = None /\ t.isExecutorApprove = "null"
             /\ stats.overdue <=>
                  ActiveShown(t, u, query, {"finalDate"}) /\ t.finalDate \in {"past", "earlierToday"}
             /\ stats.urgent <=> ActiveShown(t, u, query, {}) /\ t.urgent = "true"
             /\ stats.underReview <=> BaseShown(t, u, query, {}) /\ t.status = "CHECKING"
             /\ stats.cancelled <=> BaseShown(t, u, query, {}) /\ t.status = "ANNULLED"
<1> DEFINE base == Lists!StatsBase(u, query)
           active == Lists!Spread(base, Lists!ActiveStatus)
           stats == Lists!Stats(u, query)
           parts == <<active, Lists!Is("ownerId", u), Lists!Is("executorId", None),
                      Lists!Unanswered>>
<1>1. /\ stats.awaitingAction <=> Lists!Listed(Lists!AwaitingAction(u, query.role, active))
      /\ stats.awaitingConfirmation <=>
           Lists!Listed({active, Lists!Spread(Lists!Unanswered, Lists!NotNull)})
      /\ stats.unassigned <=>
           /\ query.role # "executor" /\ query.executorId = NotGiven
           /\ Lists!Listed({Lists!Object(parts)})
      /\ stats.overdue <=> Lists!Listed({Lists!Spread(active, Lists!Overdue)})
      /\ stats.urgent <=> Lists!Listed({Lists!Spread(active, Lists!Is("urgent", "true"))})
      /\ stats.underReview <=> Lists!Listed({Lists!Spread(base, Lists!Is("status", "CHECKING"))})
      /\ stats.cancelled <=> Lists!Listed({Lists!Spread(base, Lists!Is("status", "ANNULLED"))})
  BY DEF Lists!Stats, Lists!Given
<1>2. Lists!Matches(t, active) <=> ActiveShown(t, u, query, {})
  BY ActiveAsks, MatchingIsAsking
<1>3. Lists!Listed(Lists!AwaitingAction(u, query.role, active)) <=>
        /\ ActiveShown(t, u, query, {})
        /\ query.role # NotGiven => MyTurn(t, query.role)
        /\ query.role = NotGiven => \/ t.ownerId = u /\ MyTurn(t, "owner")
                                    \/ t.executorId = u /\ MyTurn(t, "executor")
  BY TurnCounted
<1>4. Lists!Matches(t, Lists!Spread(Lists!Unanswered, Lists!NotNull)) <=>
        t.isExecutorApprove = "null" /\ t.executorId # None
  <2>1. DOMAIN Lists!NotNull = {"executorId"} /\ (Asks(t, Lists!NotNull, {}) <=> t.executorId # None)
    BY NotNullAsks
  <2>2. Asks(t, Lists!Unanswered, {} \cup {"executorId"}) <=> t.isExecutorApprove = "null"
    BY IsAsks DEF Lists!Unanswered
  <2>3. Asks(t, Lists!Spread(Lists!Unanswered, Lists!NotNull), {}) <=>
          Asks(t, Lists!Unanswered, {} \cup DOMAIN Lists!NotNull) /\ Asks(t, Lists!NotNull, {})
    BY SpreadAsks
  <2> QED
    BY <2>1, <2>2, <2>3, MatchingIsAsking
<1>5. Lists!Matches(t, Lists!Spread(active, Lists!Overdue)) <=>
        ActiveShown(t, u, query, {"finalDate"}) /\ t.finalDate \in {"past", "earlierToday"}
  <2>1. DOMAIN Lists!Overdue = {"finalDate"}
    BY OneOfAsks DEF Lists!Overdue
  <2>2. Asks(t, Lists!Overdue, {}) <=> t.finalDate \in {"past", "earlierToday"}
    BY ColumnsAsk DEF Lists!Overdue
  <2> QED
    BY <2>1, <2>2, ActiveAndAsks
<1>6. Lists!Matches(t, Lists!Spread(active, Lists!Is("urgent", "true"))) <=>
        ActiveShown(t, u, query, {}) /\ t.urgent = "true"
  <2>1. DOMAIN Lists!Is("urgent", "true") = {"urgent"}
    BY IsDomain
  <2>2. Asks(t, Lists!Is("urgent", "true"), {}) <=> t.urgent = "true"
    BY IsAsks
  <2>3. ActiveShown(t, u, query, {"urgent"}) <=> ActiveShown(t, u, query, {})
    BY DEF ActiveShown, BaseShown
  <2> QED
    BY <2>1, <2>2, <2>3, ActiveAndAsks
<1>7. ASSUME NEW status
      PROVE  Lists!Matches(t, Lists!Spread(base, Lists!Is("status", status))) <=>
               BaseShown(t, u, query, {}) /\ t.status = status
  <2>1. DOMAIN Lists!Is("status", status) = {"status"}
    BY IsDomain
  <2>2. Asks(t, Lists!Is("status", status), {}) <=> t.status = status
    BY IsAsks
  <2>3. Asks(t, base, {} \cup {"status"}) <=> BaseShown(t, u, query, {} \cup {"status"})
    BY BaseAsks
  <2>4. BaseShown(t, u, query, {} \cup {"status"}) <=> BaseShown(t, u, query, {})
    BY DEF BaseShown
  <2> HIDE DEF base
  <2>5. Asks(t, Lists!Spread(base, Lists!Is("status", status)), {}) <=>
          /\ Asks(t, base, {} \cup DOMAIN Lists!Is("status", status))
          /\ Asks(t, Lists!Is("status", status), {})
    BY SpreadAsks
  <2> QED
    BY <2>1, <2>2, <2>3, <2>4, <2>5, MatchingIsAsking
<1>8. Lists!Matches(t, Lists!Object(parts)) <=>
        /\ ActiveShown(t, u, query, {"ownerId", "executorId", "isExecutorApprove"})
        /\ t.ownerId = u /\ t.executorId = None /\ t.isExecutorApprove = "null"
  <2>1. /\ DOMAIN parts = 1..4
        /\ parts[1] = active /\ parts[2] = Lists!Is("ownerId", u)
        /\ parts[3] = Lists!Is("executorId", None) /\ parts[4] = Lists!Unanswered
    OBVIOUS
  <2>2. /\ DOMAIN Lists!Is("ownerId", u) = {"ownerId"}
        /\ DOMAIN Lists!Is("executorId", None) = {"executorId"}
        /\ DOMAIN Lists!Unanswered = {"isExecutorApprove"}
    BY IsDomain DEF Lists!Unanswered
  <2>3. Asks(t, active, {"ownerId", "executorId", "isExecutorApprove"}) <=>
          ActiveShown(t, u, query, {"ownerId", "executorId", "isExecutorApprove"})
    BY ActiveAsks
  <2>4. /\ Asks(t, Lists!Is("ownerId", u), {"executorId", "isExecutorApprove"}) <=> t.ownerId = u
        /\ Asks(t, Lists!Is("executorId", None), {"isExecutorApprove"}) <=> t.executorId = None
        /\ Asks(t, Lists!Unanswered, {}) <=> t.isExecutorApprove = "null"
    BY IsAsks DEF Lists!Unanswered
  <2> HIDE DEF parts, active
  <2>5. /\ {} \cup Later(parts, 4, 1) = {"ownerId", "executorId", "isExecutorApprove"}
        /\ {} \cup Later(parts, 4, 2) = {"executorId", "isExecutorApprove"}
        /\ {} \cup Later(parts, 4, 3) = {"isExecutorApprove"}
        /\ {} \cup Later(parts, 4, 4) = {}
    <3>1. 1 + 1..4 = {2, 3, 4} /\ 2 + 1..4 = {3, 4} /\ 3 + 1..4 = {4} /\ 4 + 1..4 = {}
      OBVIOUS
    <3> QED
      BY <2>1, <2>2, <3>1 DEF Later
  <2>6. Asks(t, Lists!Object(parts), {}) <=>
          \A i \in 1..4 : Asks(t, parts[i], {} \cup Later(parts, 4, i))
    BY <2>1, ObjectAsks
  <2>7. \A i \in 1..4 : i = 1 \/ i = 2 \/ i = 3 \/ i = 4
    OBVIOUS
  <2>8. (\A i \in 1..4 : Asks(t, parts[i], {} \cup Later(parts, 4, i))) <=>
          /\ Asks(t, active, {"ownerId", "executorId", "isExecutorApprove"})
          /\ Asks(t, Lists!Is("ownerId", u), {"executorId", "isExecutorApprove"})
          /\ Asks(t, Lists!Is("executorId", None), {"isExecutorApprove"})
          /\ Asks(t, Lists!Unanswered, {})
    BY <2>1, <2>5, <2>7
  <2>9. Lists!Matches(t, Lists!Object(parts)) <=> Asks(t, Lists!Object(parts), {})
    BY MatchingIsAsking
  <2> QED
    BY <2>3, <2>4, <2>6, <2>8, <2>9
<1> HIDE DEF base, active, parts, stats
<1>9. /\ stats.awaitingConfirmation <=>
           /\ ActiveShown(t, u, query, {})
           /\ t.isExecutorApprove = "null" /\ t.executorId # None
      /\ stats.unassigned <=>
           /\ query.role # "executor" /\ query.executorId = NotGiven
           /\ ActiveShown(t, u, query, {"ownerId", "executorId", "isExecutorApprove"})
           /\ t.ownerId = u /\ t.executorId = None /\ t.isExecutorApprove = "null"
      /\ stats.overdue <=>
           ActiveShown(t, u, query, {"finalDate"}) /\ t.finalDate \in {"past", "earlierToday"}
      /\ stats.urgent <=> ActiveShown(t, u, query, {}) /\ t.urgent = "true"
      /\ stats.underReview <=> BaseShown(t, u, query, {}) /\ t.status = "CHECKING"
      /\ stats.cancelled <=> BaseShown(t, u, query, {}) /\ t.status = "ANNULLED"
  BY <1>1, <1>2, <1>4, <1>5, <1>6, <1>7, <1>8
<1> QED
  BY <1>1, <1>3, <1>9 DEF stats

\* The list behind each counter.
LEMMA CountsListed == ListsInv => CountsAreListed
<1> SUFFICES ASSUME ListsInv, viewer # NotGiven PROVE CountsAreListed
  BY DEF CountsAreListed, Lists!CountsAreListed
<1>1. PICK u \in Lists!User : u = viewer.user
  BY DEF ListsInv
<1>2. PICK query \in Lists!Parameters : query = viewer.query
  BY DEF ListsInv
<1>3. PICK t \in Lists!TaskRow :
        /\ t = task
        /\ \A wheres : Lists!Listed(wheres) <=> \A w \in wheres : Lists!Matches(t, w)
  BY RowIs
<1> DEFINE r == query.role
           stats == Lists!Stats(u, query)
           anyones == [query EXCEPT !.executorId = NotGiven]
           ofAnyone == Lists!Stats(u, anyones)
           asked == Lists!Asked(query)
           active == [asked EXCEPT !.active = "true"]
           owned == query.ownerId \in {u, NotGiven}
           executed == query.executorId \in {u, NotGiven}
<1>4. ASSUME NEW q, Counted(q) PROVE Lists!List(u, q) <=> ShownIn(t, u, q)
  BY <1>3, <1>4, ListShows DEF Lists!List
<1>5. /\ r \in Lists!Role
      /\ query.ownerId \in Lists!User \cup {NotGiven}
      /\ query.executorId \in Lists!User \cup {NotGiven}
      /\ None \notin Lists!User /\ u # None
  BY ExecutorAssumption DEF Lists!Parameters, Lists!User
<1>6. /\ anyones \in Lists!Parameters
      /\ anyones.role = r /\ anyones.executorId = NotGiven
      /\ anyones.ownerId = query.ownerId /\ anyones.period = query.period
  BY DEF Lists!Parameters
<1>7. stats.overdue <=> Lists!List(u, [active EXCEPT !.overdue = "true"])
  <2> DEFINE q == [active EXCEPT !.overdue = "true"]
  <2>1. Lists!RoleOf(q) = r /\ ~Lists!Pending(q)
    BY DEF Lists!Asked, Lists!Query, Lists!RoleOf, Lists!Pending
  <2>2. Counted(q)
    BY <1>5, <2>1, NotGivenIs DEF Counted, Lists!Asked, Lists!Query
  <2>3. ShownIn(t, u, q) <=>
          ActiveShown(t, u, query, {"finalDate"}) /\ t.finalDate \in {"past", "earlierToday"}
    BY <2>1, NotGivenIs
    DEF ShownIn, Answers, Drops, ActiveShown, BaseShown, Lists!Asked, Lists!Query
  <2>4. stats.overdue <=>
          ActiveShown(t, u, query, {"finalDate"}) /\ t.finalDate \in {"past", "earlierToday"}
    BY <1>3, Counters
  <2> HIDE DEF q, stats
  <2> QED
    BY <1>4, <2>2, <2>3, <2>4 DEF q
<1>8. stats.urgent <=> Lists!List(u, [active EXCEPT !.urgent = "true"])
  <2> DEFINE q == [active EXCEPT !.urgent = "true"]
  <2>1. Lists!RoleOf(q) = r /\ ~Lists!Pending(q)
    BY DEF Lists!Asked, Lists!Query, Lists!RoleOf, Lists!Pending
  <2>2. Counted(q)
    BY <1>5, <2>1, NotGivenIs DEF Counted, Lists!Asked, Lists!Query
  <2>3. ShownIn(t, u, q) <=> ActiveShown(t, u, query, {}) /\ t.urgent = "true"
    BY <2>1, NotGivenIs
    DEF ShownIn, Answers, Drops, ActiveShown, BaseShown, Lists!Asked, Lists!Query
  <2>4. stats.urgent <=> ActiveShown(t, u, query, {}) /\ t.urgent = "true"
    BY <1>3, Counters
  <2> HIDE DEF q, stats
  <2> QED
    BY <1>4, <2>2, <2>3, <2>4 DEF q
<1>9. ASSUME NEW status \in {"CHECKING", "ANNULLED"}
      PROVE  Lists!List(u, [asked EXCEPT !.status = status]) <=>
               BaseShown(t, u, query, {}) /\ t.status = status
  <2> DEFINE q == [asked EXCEPT !.status = status]
  <2>1. Lists!RoleOf(q) = r /\ ~Lists!Pending(q)
    BY DEF Lists!Asked, Lists!Query, Lists!RoleOf, Lists!Pending
  <2>2. Counted(q)
    BY <1>5, <2>1, NotGivenIs DEF Counted, Lists!Asked, Lists!Query, Lists!TaskStatus
  <2>3. ShownIn(t, u, q) <=> BaseShown(t, u, query, {}) /\ t.status = status
    BY <2>1, NotGivenIs
    DEF ShownIn, Answers, Drops, BaseShown, Lists!Asked, Lists!Query, Lists!TaskStatus
  <2> HIDE DEF q
  <2> QED
    BY <1>4, <2>2, <2>3 DEF q
<1>10. /\ stats.underReview <=> Lists!List(u, [asked EXCEPT !.status = "CHECKING"])
       /\ stats.cancelled <=> Lists!List(u, [asked EXCEPT !.status = "ANNULLED"])
  <2>1. /\ stats.underReview <=> BaseShown(t, u, query, {}) /\ t.status = "CHECKING"
        /\ stats.cancelled <=> BaseShown(t, u, query, {}) /\ t.status = "ANNULLED"
    BY <1>3, Counters
  <2> HIDE DEF stats, asked
  <2> QED
    BY <1>9, <2>1
<1>11. /\ stats.unassigned <=>
            /\ r # "executor" /\ query.executorId = NotGiven
            /\ ActiveShown(t, u, query, {"ownerId", "executorId", "isExecutorApprove"})
            /\ t.ownerId = u /\ t.executorId = None /\ t.isExecutorApprove = "null"
       /\ ofAnyone.unassigned <=>
            /\ r # "executor"
            /\ ActiveShown(t, u, anyones, {"ownerId", "executorId", "isExecutorApprove"})
            /\ t.ownerId = u /\ t.executorId = None /\ t.isExecutorApprove = "null"
  <2>1. stats.unassigned <=>
            /\ r # "executor" /\ query.executorId = NotGiven
            /\ ActiveShown(t, u, query, {"ownerId", "executorId", "isExecutorApprove"})
            /\ t.ownerId = u /\ t.executorId = None /\ t.isExecutorApprove = "null"
    BY <1>3, Counters
  <2>2. ofAnyone.unassigned <=>
            /\ anyones.role # "executor" /\ anyones.executorId = NotGiven
            /\ ActiveShown(t, u, anyones, {"ownerId", "executorId", "isExecutorApprove"})
            /\ t.ownerId = u /\ t.executorId = None /\ t.isExecutorApprove = "null"
    <3> HIDE DEF anyones
    <3> QED
      BY <1>3, <1>6, Counters
  <2> HIDE DEF anyones, ofAnyone, stats
  <2> QED
    BY <1>6, <2>1, <2>2
<1>12. stats.unassigned <=> ofAnyone.unassigned /\ ~Lists!Given(query.executorId)
  <2>1. ActiveShown(t, u, query, {"ownerId", "executorId", "isExecutorApprove"}) <=>
          ActiveShown(t, u, anyones, {"ownerId", "executorId", "isExecutorApprove"})
    BY <1>6 DEF ActiveShown, BaseShown
  <2> QED
    BY <1>11, <2>1 DEF Lists!Given
<1>13. owned \/ r # "owner" =>
         (ofAnyone.unassigned <=> Lists!List(u, [active EXCEPT !.unassigned = "true"]))
  <2> DEFINE q == [active EXCEPT !.unassigned = "true"]
  <2>1. q.unassigned = "true" /\ Lists!RoleOf(q) = r /\ ~Lists!Pending(q)
    BY DEF Lists!Asked, Lists!Query, Lists!RoleOf, Lists!Pending
  <2>2. CASE r = "executor"
    <3>1. ~Lists!List(u, q)
      BY <1>3, <2>1, <2>2, NoneUnassigned DEF Lists!List
    <3> QED
      BY <1>11, <2>2, <3>1
  <2>3. CASE r # "executor" /\ (owned \/ r # "owner")
    <3>1. Counted(q)
      BY <1>5, <2>1, <2>3, NotGivenIs DEF Counted, Lists!Asked, Lists!Query
    <3>2. ShownIn(t, u, q) <=>
            /\ ActiveShown(t, u, anyones, {"ownerId", "executorId", "isExecutorApprove"})
            /\ t.ownerId = u /\ t.executorId = None /\ t.isExecutorApprove = "null"
      BY <1>5, <1>6, <2>1, <2>3, NotGivenIs
      DEF ShownIn, Answers, Drops, ActiveShown, BaseShown, Lists!Asked, Lists!Query, Lists!Role
    <3> HIDE DEF q, ofAnyone
    <3> QED
      BY <1>4, <1>11, <2>3, <3>1, <3>2 DEF q
  <2> QED
    BY <2>2, <2>3
<1>14. (IF r = "executor" THEN stats ELSE ofAnyone).awaitingConfirmation
         <=> Lists!Confirmation(u, query)
  <2>1. CASE r = "executor"
    <3> DEFINE q == [asked EXCEPT !.route = "pending-approval", !.active = "true"]
    <3>1. Lists!RoleOf(q) = r /\ Lists!Pending(q)
      BY <2>1 DEF Lists!Asked, Lists!Query, Lists!RoleOf, Lists!Pending
    <3>2. Counted(q)
      BY <1>5, <3>1, NotGivenIs DEF Counted, Lists!Asked, Lists!Query
    <3>3. ShownIn(t, u, q) <=> ActiveShown(t, u, query, {}) /\ t.isExecutorApprove = "null"
      BY <3>1, NotGivenIs
      DEF ShownIn, Answers, Drops, ActiveShown, BaseShown, Lists!Asked, Lists!Query
    <3>4. ActiveShown(t, u, query, {}) => t.executorId # None
      BY <1>5, <2>1 DEF ActiveShown, BaseShown
    <3>5. Lists!Confirmation(u, query) <=> Lists!List(u, q)
      BY <2>1 DEF Lists!Confirmation
    <3>6. stats.awaitingConfirmation <=>
            ActiveShown(t, u, query, {}) /\ t.isExecutorApprove = "null" /\ t.executorId # None
      BY <1>3, Counters
    <3> HIDE DEF q, stats
    <3> QED
      BY <1>4, <2>1, <3>2, <3>3, <3>4, <3>5, <3>6
  <2>2. CASE r # "executor"
    <3> DEFINE q == [asked EXCEPT !.active = "true", !.isExecutorApprove = "null"]
    <3>1. Lists!RoleOf(q) = r /\ ~Lists!Pending(q)
      BY DEF Lists!Asked, Lists!Query, Lists!RoleOf, Lists!Pending
    <3>2. Counted(q)
      BY <1>5, <2>2, <3>1, NotGivenIs DEF Counted, Lists!Asked, Lists!Query
    <3>3. ShownIn(t, u, q) <=>
            /\ ActiveShown(t, u, anyones, {})
            /\ t.isExecutorApprove = "null" /\ t.executorId # None
      BY <1>6, <2>2, <3>1, NotGivenIs
      DEF ShownIn, Answers, Drops, ActiveShown, BaseShown, Lists!Asked, Lists!Query
    <3>4. Lists!Confirmation(u, query) <=> Lists!List(u, q)
      BY <2>2 DEF Lists!Confirmation
    <3>5. ofAnyone.awaitingConfirmation <=>
            ActiveShown(t, u, anyones, {}) /\ t.isExecutorApprove = "null" /\ t.executorId # None
      BY <1>3, <1>6, Counters
    <3> HIDE DEF q, ofAnyone
    <3> QED
      BY <1>4, <2>2, <3>2, <3>3, <3>4, <3>5
  <2> QED
    BY <2>1, <2>2
<1>15. /\ stats.awaitingAction => Lists!Turn(u, query)
       /\ r # NotGiven \/ (owned /\ executed) => (Lists!Turn(u, query) => stats.awaitingAction)
  <2> DEFINE q(side, a) == [asked EXCEPT !.active = "true", !.role = side, !.isExecutorApprove = a,
                              !.isCompanyAction = IF side = "owner" THEN "true" ELSE "false"]
             Shown(side) ==
               /\ side = "owner" => query.ownerId # NotGiven \/ t.ownerId = u
               /\ side = "executor" => query.executorId # NotGiven \/ t.executorId = u
               /\ query.executorId # NotGiven => t.executorId = query.executorId
               /\ query.ownerId # NotGiven => t.ownerId = query.ownerId
               /\ t.isArchived = "false" /\ t.status \notin Lists!Terminal
               /\ query.period = "today" => t.finalDate \in {"earlierToday", "laterToday"}
  <2>1. ASSUME NEW side \in {"owner", "executor"}, NEW a \in Lists!Flag
        PROVE  Lists!List(u, q(side, a)) <=>
                 /\ Shown(side) /\ t.isExecutorApprove = a
                 /\ t.isCompanyAction = IF side = "owner" THEN "true" ELSE "false"
    <3>1. Lists!RoleOf(q(side, a)) = side /\ ~Lists!Pending(q(side, a))
      BY DEF Lists!Asked, Lists!Query, Lists!RoleOf, Lists!Pending
    <3>2. Counted(q(side, a))
      BY <3>1, NotGivenIs DEF Counted, Lists!Asked, Lists!Query, Lists!Flag, Lists!Role
    <3>3. ShownIn(t, u, q(side, a)) <=>
            /\ Shown(side) /\ t.isExecutorApprove = a
            /\ t.isCompanyAction = IF side = "owner" THEN "true" ELSE "false"
      BY <3>1, NotGivenIs DEF ShownIn, Answers, Drops, Lists!Asked, Lists!Query, Lists!Flag
    <3> HIDE DEF q, Shown
    <3> QED
      BY <1>4, <3>2, <3>3
  <2>2. Lists!Turn(u, query) <=>
          \E side \in {"owner", "executor"}, a \in Lists!Flag :
            r \in {side, NotGiven} /\ Lists!List(u, q(side, a))
    BY DEF Lists!Turn
  <2>3. stats.awaitingAction <=>
          /\ ActiveShown(t, u, query, {})
          /\ r # NotGiven => MyTurn(t, r)
          /\ r = NotGiven => \/ t.ownerId = u /\ MyTurn(t, "owner")
                             \/ t.executorId = u /\ MyTurn(t, "executor")
    BY <1>3, Counters
  <2> HIDE DEF q, stats, Shown
  <2>4. ASSUME NEW side \in {"owner", "executor"}
        PROVE  (\E a \in Lists!Flag : Lists!List(u, q(side, a))) <=> Shown(side) /\ MyTurn(t, side)
    BY <2>1 DEF MyTurn
  <2>5. Lists!Turn(u, query) <=>
          \/ r \in {"owner", NotGiven} /\ Shown("owner") /\ MyTurn(t, "owner")
          \/ r \in {"executor", NotGiven} /\ Shown("executor") /\ MyTurn(t, "executor")
    BY <2>2, <2>4
  <2>6. CASE r # NotGiven
    <3>1. ActiveShown(t, u, query, {}) <=> Shown(r)
      BY <1>5, <2>6, NotGivenIs DEF ActiveShown, BaseShown, Shown, Lists!Role
    <3> QED
      BY <1>5, <2>3, <2>5, <2>6, <3>1, NotGivenIs DEF Lists!Role
  <2>7. CASE r = NotGiven
    <3>1. /\ ActiveShown(t, u, query, {}) /\ t.ownerId = u => Shown("owner")
          /\ ActiveShown(t, u, query, {}) /\ t.executorId = u => Shown("executor")
      BY <2>7 DEF ActiveShown, BaseShown, Shown
    <3>2. owned /\ executed =>
            /\ Shown("owner") => ActiveShown(t, u, query, {}) /\ t.ownerId = u
            /\ Shown("executor") => ActiveShown(t, u, query, {}) /\ t.executorId = u
      BY <2>7, NotGivenIs DEF ActiveShown, BaseShown, Shown
    <3> QED
      BY <2>3, <2>5, <2>7, <3>1, <3>2, NotGivenIs
  <2> QED
    BY <2>6, <2>7
<1> HIDE DEF stats, ofAnyone, asked
<1> QED
  BY <1>1, <1>2, <1>7, <1>8, <1>10, <1>12, <1>13, <1>14, <1>15
  DEF CountsAreListed, Lists!CountsAreListed, stats, ofAnyone, asked
-----------------------------------------------------------------------------
(* The feeds.                                                                *)

\* What its peer has not read is not one's own to read: of what others wrote, the feed
\* shows as unread what the badge counts.
LEMMA UnreadAlike ==
  ASSUME ListsInv, NEW u \in Lists!User
  PROVE  {i \in cursor[u] + 1..Len(comments) : comments[i] # u}
           = {i \in Lists!ShownUnread(u) : comments[i] # u}
<1>1. cursor[u] \in Nat /\ Len(comments) \in Nat /\ u # None
  BY ExecutorAssumption DEF ListsInv, Lists!User
<1>2. ASSUME NEW i \in 1..Len(comments), comments[i] # u
      PROVE  i \in Lists!ShownUnread(u) <=> cursor[u] < i
  BY <1>1, <1>2 DEF Lists!ShownUnread
<1>3. Lists!ShownUnread(u) \subseteq 1..Len(comments)
  BY DEF Lists!ShownUnread
<1> HIDE DEF Lists!ShownUnread
<1> QED
  BY <1>1, <1>2, <1>3

\* The tasks of a profile in a role, archived or not.
LEMMA TakesAsk ==
  ASSUME NEW t, NEW u, NEW r \in Lists!Role
  PROVE  /\ Lists!Matches(t, Lists!Participant(u, r)) <=> Takes(t, u, r)
         /\ Lists!Matches(t, Lists!Spread(Lists!Participant(u, r), Lists!Is("isArchived", "false")))
              <=> Takes(t, u, r) /\ t.isArchived = "false"
<1> DEFINE here == Lists!Is("isArchived", "false")
<1>1. ASSUME NEW over, "ownerId" \notin over, "executorId" \notin over, "OR" \notin over
      PROVE  Asks(t, Lists!Participant(u, r), over) <=> Takes(t, u, r)
  <2>1. Asks(t, Lists!Participant(u, r), over) <=>
          /\ r = "owner" => "ownerId" \in over \/ t.ownerId = u
          /\ r = "executor" => "executorId" \in over \/ t.executorId = u
          /\ r = NotGiven => "OR" \in over \/ u \in {t.ownerId, t.executorId}
    BY ParticipantAsks
  <2>2. r = "owner" \/ r = "executor" \/ r = NotGiven
    BY DEF Lists!Role
  <2> QED
    BY <1>1, <2>1, <2>2, NotGivenIs DEF Takes
<1>2. DOMAIN here = {"isArchived"} /\ (Asks(t, here, {}) <=> t.isArchived = "false")
  <2>1. DOMAIN here = {"isArchived"}
    BY IsDomain
  <2>2. Asks(t, here, {}) <=> "isArchived" \in {} \/ t.isArchived = "false"
    BY IsAsks
  <2> QED
    BY <2>1, <2>2
<1> HIDE DEF here
<1>3. Asks(t, Lists!Spread(Lists!Participant(u, r), here), {}) <=>
        Asks(t, Lists!Participant(u, r), {} \cup DOMAIN here) /\ Asks(t, here, {})
  BY SpreadAsks
<1>4. Asks(t, Lists!Participant(u, r), {} \cup DOMAIN here) <=> Takes(t, u, r)
  BY <1>1, <1>2
<1>5. Asks(t, Lists!Participant(u, r), {}) <=> Takes(t, u, r)
  BY <1>1
<1> QED
  BY <1>2, <1>3, <1>4, <1>5, MatchingIsAsking DEF here

LEMMA FeedsAgreed == ListsInv => FeedsAgree
<1> SUFFICES ASSUME ListsInv, viewer # NotGiven PROVE FeedsAgree
  BY DEF FeedsAgree, Lists!FeedsAgree
<1>1. PICK u \in Lists!User : u = viewer.user
  BY DEF ListsInv
<1>2. PICK t \in Lists!TaskRow :
        /\ t = task
        /\ \A wheres : Lists!Listed(wheres) <=> \A w \in wheres : Lists!Matches(t, w)
  BY RowIs
<1>3. NotGiven \in Lists!Role /\ {"owner", "executor"} \subseteq Lists!Role
  BY DEF Lists!Role
<1>4. ASSUME NEW r \in Lists!Role PROVE Lists!InFeed(u, r) <=> Takes(t, u, r)
  BY <1>2, <1>4, TakesAsk DEF Lists!InFeed
<1>5. /\ Takes(t, u, NotGiven) <=> Lists!Opens(u)
      /\ Takes(t, u, "owner") <=> t.ownerId = u
      /\ Takes(t, u, "executor") <=> t.executorId = u
      /\ Lists!Opens(u) <=> t.ownerId = u \/ t.executorId = u
  BY <1>2, ParameterAssumption DEF Takes, Lists!Opens, Lists!IsParticipant
<1>6. Lists!Listed({Lists!Spread(Lists!Participant(u, NotGiven), Lists!Is("isArchived", "false"))})
        <=> Lists!Opens(u) /\ t.isArchived = "false"
  <2>1. Lists!Matches(t, Lists!Spread(Lists!Participant(u, NotGiven), Lists!Is("isArchived", "false")))
          <=> Takes(t, u, NotGiven) /\ t.isArchived = "false"
    BY <1>3, TakesAsk
  <2> QED
    BY <1>2, <1>5, <2>1
<1>7. Lists!Calendar(u, NotGiven) <=> Lists!Opens(u) /\ t.isArchived = "false"
  BY <1>6 DEF Lists!Calendar
<1>8. Lists!List(u, Lists!Query) <=> Lists!Opens(u) /\ t.isArchived = "false"
  <2> DEFINE q == Lists!Query
  <2>1. Lists!RoleOf(q) = NotGiven /\ ~Lists!Pending(q)
    BY DEF Lists!Query, Lists!RoleOf, Lists!Pending
  <2>2. Counted(q)
    BY <1>3, <2>1, NotGivenIs DEF Counted, Lists!Query
  <2>3. ShownIn(t, u, q) <=> Takes(t, u, NotGiven) /\ t.isArchived = "false"
    BY <2>1, NotGivenIs DEF ShownIn, Answers, Drops, Takes, Lists!Query
  <2> HIDE DEF q
  <2>4. Lists!List(u, q) <=> ShownIn(t, u, q)
    BY <1>2, <2>2, ListShows DEF Lists!List
  <2> QED
    BY <1>5, <2>3, <2>4 DEF q
<1>9. ASSUME Lists!WithComments(u, NotGiven).found
      PROVE  /\ Lists!WithComments(u, NotGiven).unreadCount
                  = Lists!Cardinality({i \in Lists!AllComments(u, NotGiven).unread : comments[i] # u})
             /\ Lists!WithComments(u, NotGiven).lastComment \in Lists!AllComments(u, NotGiven).shown
  <2>1. /\ comments # <<>>
        /\ Lists!Listed({Lists!TasksWithComments(u, NotGiven)})
    BY <1>9 DEF Lists!WithComments
  <2>2. Lists!InFeed(u, NotGiven)
    BY <1>3, <1>4, <1>5, <1>6, <2>1 DEF Lists!TasksWithComments
  <2>3. /\ Lists!WithComments(u, NotGiven).unreadCount = Lists!CountUnread(u)
        /\ Lists!WithComments(u, NotGiven).lastComment = Len(comments)
    BY <2>1 DEF Lists!WithComments
  <2>4. /\ Lists!AllComments(u, NotGiven).unread = Lists!ShownUnread(u)
        /\ Lists!AllComments(u, NotGiven).shown = 1..Len(comments)
    BY <2>2 DEF Lists!AllComments
  <2>5. Len(comments) \in 1..Len(comments)
    BY <2>1 DEF ListsInv
  <2> QED
    BY <2>3, <2>4, <2>5, UnreadAlike DEF Lists!CountUnread
<1> QED
  BY <1>1, <1>2, <1>3, <1>4, <1>5, <1>7, <1>8, <1>9 DEF FeedsAgree, Lists!FeedsAgree
-----------------------------------------------------------------------------
(* Each action keeps the types, which is all that the lists need.            *)

LEMMA InitListsInv == Lists!Init => ListsInv
  BY DEF Lists!Init, ListsInv

LEMMA NextListsInv == ListsInv /\ [Next]_vars => ListsInv'
<1> SUFFICES ASSUME ListsInv, [Next]_vars PROVE ListsInv'
  OBVIOUS
<1>1. CASE UNCHANGED taskVars
  BY <1>1 DEF taskVars, ListsInv
<1>2. CASE Lists!Update
  <2>1. UNCHANGED <<comments, cursor, viewer>>
    BY <1>2 DEF Lists!Update
  <2>2. ASSUME NEW e \in Executor, Lists!SetExecutor(e) PROVE task' \in Lists!TaskRow
    BY <2>2 DEF Lists!SetExecutor, ListsInv, Lists!TaskRow, Lists!Approval
  <2>3. ASSUME NEW a \in Lists!Flag, Lists!Sets("isExecutorApprove", a) PROVE task' \in Lists!TaskRow
    BY <2>3 DEF Lists!Sets, ListsInv, Lists!TaskRow, Lists!Approval
  <2>4. ASSUME NEW status \in Lists!TaskStatus, Lists!Sets("status", status)
        PROVE  task' \in Lists!TaskRow
    BY <2>4 DEF Lists!Sets, ListsInv, Lists!TaskRow
  <2>5. ASSUME NEW b \in Lists!Flag, Lists!Sets("isCompanyAction", b) PROVE task' \in Lists!TaskRow
    BY <2>5 DEF Lists!Sets, ListsInv, Lists!TaskRow
  <2>6. ASSUME NEW b \in Lists!Flag, Lists!Sets("isArchived", b) PROVE task' \in Lists!TaskRow
    BY <2>6 DEF Lists!Sets, ListsInv, Lists!TaskRow
  <2>7. task' \in Lists!TaskRow
    BY <1>2, <2>2, <2>3, <2>4, <2>5, <2>6 DEF Lists!Update, Lists!Archive, Lists!Flag
  <2> QED
    BY <2>1, <2>7 DEF ListsInv
<1>3. CASE Lists!Annul
  BY <1>3 DEF Lists!Annul, Lists!Sets, ListsInv, Lists!TaskRow, Lists!TaskStatus
<1>4. CASE Lists!TimePasses
  <2>1. PICK i \in 1..3 : Lists!Sets("finalDate", Lists!Deadline[i + 1])
    BY <1>4 DEF Lists!TimePasses
  <2>2. Lists!Deadline[i + 1] \in {Lists!Deadline[j] : j \in 1..4}
    OBVIOUS
  <2>3. task' \in Lists!TaskRow
    BY <2>1, <2>2 DEF Lists!Sets, ListsInv, Lists!TaskRow
  <2> QED
    BY <1>4, <2>3 DEF Lists!TimePasses, ListsInv
<1>5. ASSUME NEW u \in Lists!User, Lists!CreateComment(u) PROVE ListsInv'
  BY <1>5 DEF Lists!CreateComment, ListsInv
<1>6. ASSUME NEW u \in Lists!User, Lists!ListComments(u) PROVE ListsInv'
  BY <1>6 DEF Lists!ListComments, ListsInv
<1>7. ASSUME NEW u \in Lists!User, NEW query \in Lists!Parameters, Lists!Look(u, query)
      PROVE  ListsInv'
  BY <1>7 DEF Lists!Look, ListsInv
<1>8. CASE TaskStep
  BY <1>2, <1>3, <1>4, <1>5, <1>6, <1>7, <1>8 DEF TaskStep, Lists!Next
<1> QED
  BY <1>1, <1>8
  DEF Next, vars, PostStep, PartnerStep, DialogStep, ScrollStep, PublicationStep, ProfileStep

\* Whatever has become of the task, whoever looks, and whichever role, owner, executor and
\* period is asked for: what a counter of the dashboard counts is what the list behind it
\* shows, but for what the parameters that a filter overwrites in the one or in the other
\* make of it (getStats, buildListWhere).
THEOREM CountersAreListed == Spec => []CountsAreListed
<1>1. Init => ListsInv
  BY InitListsInv DEF Init
<1> QED
  BY <1>1, NextListsInv, CountsListed, PTL DEF Spec

\* Whoever looks, the task is in the calendar, the list and the feeds of those alone who may
\* open it, and the badge counts what the feed shows as unread, whoever was its executor
\* when its comments were written and read (countUnreadCommentsByTask, toCommentResponse).
THEOREM FeedsAlwaysAgree == Spec => []FeedsAgree
<1>1. Init => ListsInv
  BY InitListsInv DEF Init
<1> QED
  BY <1>1, NextListsInv, FeedsAgreed, PTL DEF Spec
=============================================================================
