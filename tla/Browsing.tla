------------------------------ MODULE Browsing ------------------------------
(***************************************************************************)
(* What one profile looks through and keeps, put together: the lists of    *)
(* its tasks, the posts of others and its favorites, its partners, its     *)
(* dialogs, the messages of one of them, a publication, and the profile    *)
(* itself.  The parts share no row.                                        *)
(***************************************************************************)
EXTENDS Naturals, Sequences, FiniteSets

CONSTANTS
  Handler,
  Mine, Theirs, Person, Group, Stranger, Ungrouped, MaxSaved, \* see Showcase
  Partner, Otherwise, Named, Row, Titled, NoPartner, LastTime, \* see Partners
  Profile, Manager, Conversation,                            \* see Dialogs
  Message, Instant, Limit, Side,                             \* see Paging
  Owner, Executor, None, NotGiven, MaxComment,               \* see TaskLists
  Url, Other,                                                \* see Publications
  Address, Key, Value                                        \* see Profiles

VARIABLES
  role, roleOf, post, group, favorite, saved, saving,
  kind, row, clock, reader,
  between, hidden, unread, knew, raced, sending,
  createdAt, removed, hiddenFor, scroll,
  task, comments, cursor, viewer,
  publication, editing,
  profile, issued, said, since, racing, updating

postVars == <<role, roleOf, post, group, favorite, saved, saving>>
partnerVars == <<kind, row, clock, reader>>
dialogVars == <<between, hidden, unread, knew, raced, sending>>
scrollVars == <<createdAt, removed, hiddenFor, scroll>>
taskVars == <<task, comments, cursor, viewer>>
publicationVars == <<publication, editing>>
profileVars == <<profile, issued, said, since, racing, updating>>
vars == <<postVars, partnerVars, dialogVars, scrollVars, taskVars, publicationVars, profileVars>>

Posts == INSTANCE Showcase WITH handler <- saving
Others == INSTANCE Partners
Chats == INSTANCE Dialogs WITH handler <- sending
Scrolls == INSTANCE Paging
Lists == INSTANCE TaskLists
Published == INSTANCE Publications WITH handler <- editing
Self == INSTANCE Profiles WITH handler <- updating, raced <- racing

ASSUME PlatformAssumption == Other \in Nat \ {0}
ASSUME NotGivenAssumption == NotGiven \notin Published!Platform \cup {None}
ASSUME ParameterAssumption ==
  NotGiven \notin {"owner", "executor", "today"} \cup Lists!Approval \cup Lists!TaskStatus
ASSUME ExecutorAssumption == None \notin Executor \cup {Owner}
ASSUME PostAssumption == Mine \cap Theirs = {} /\ IsFiniteSet(Mine \cup Theirs)
ASSUME PersonAssumption == Person \cap (Mine \cup Theirs) = {}
ASSUME RowAssumption == IsFiniteSet(Row) /\ NoPartner \notin Partner
ASSUME ScrollAssumption ==
  /\ IsFiniteSet(Message) /\ Message \subseteq Nat /\ Instant \subseteq Nat \ {0}
  /\ Limit \in Nat \ {0} /\ Side \in Nat \ {0}
ASSUME GroupAssumption ==
  Group \cap Stranger = {} /\ Ungrouped \notin Group \cup Stranger
-----------------------------------------------------------------------------
Init ==
  /\ Posts!Init
  /\ Others!Init
  /\ Chats!Init
  /\ Scrolls!Init
  /\ Lists!Init
  /\ Published!Init
  /\ Self!Init

PostStep ==
  /\ Posts!Next
  /\ UNCHANGED <<partnerVars, dialogVars, scrollVars, taskVars, publicationVars, profileVars>>

PartnerStep ==
  /\ Others!Next
  /\ UNCHANGED <<postVars, dialogVars, scrollVars, taskVars, publicationVars, profileVars>>

DialogStep ==
  /\ Chats!Next
  /\ UNCHANGED <<postVars, partnerVars, scrollVars, taskVars, publicationVars, profileVars>>

ScrollStep ==
  /\ Scrolls!Next
  /\ UNCHANGED <<postVars, partnerVars, dialogVars, taskVars, publicationVars, profileVars>>

TaskStep ==
  /\ Lists!Next
  /\ UNCHANGED <<postVars, partnerVars, dialogVars, scrollVars, publicationVars, profileVars>>

PublicationStep ==
  /\ Published!Next
  /\ UNCHANGED <<postVars, partnerVars, dialogVars, scrollVars, taskVars, profileVars>>

ProfileStep ==
  /\ Self!Next
  /\ UNCHANGED <<postVars, partnerVars, dialogVars, scrollVars, taskVars, publicationVars>>

Next ==
  \/ PostStep \/ PartnerStep \/ DialogStep \/ ScrollStep \/ TaskStep
  \/ PublicationStep \/ ProfileStep

Spec == Init /\ [][Next]_vars
-----------------------------------------------------------------------------
(* The properties of the parts that are proved for every instance.          *)

\* What is counted of a task is what is listed (TaskLists).
CountsAreListed == Lists!CountsAreListed

\* A task is in the calendar, the lists and the feeds of those who may open it (TaskLists).
FeedsAgree == Lists!FeedsAgree

\* A pair has one dialog unless two requests looked for it at once (Dialogs).
OneDialogEach == Chats!OneDialogEach

\* The badge leaves out what its reader has hidden knowingly alone (Dialogs).
HiddenHasNothingNew == Chats!HiddenHasNothingNew

\* The link of the older kind is one of the links shown (Publications).
UrlIsShown == Published!UrlIsShown

\* A confirmed address was confirmed, and the person is what was said of it (Profiles).
UpdatesAddUp == Self!UpdatesAddUp

\* What the feed shows can be opened, applied to and saved (Showcase).
FeedIsOpen == Posts!FeedIsOpen

\* Favorites are in groups of their owner's, counted as they are listed (Showcase).
GroupsAgree == Posts!GroupsAgree

\* The partners are the same in whichever order they are asked for (Partners).
SortsAgree == Others!SortsAgree

\* Scrolling leaves no message out and shows none twice (Paging).
ScrollIsComplete == Scrolls!ScrollIsComplete
=============================================================================
