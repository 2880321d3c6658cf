# project-back: models, checks and proofs

This directory holds the formal development of the backend under `src/src`: TLA+ modules
translated from its services, the TLC configurations that check them on small instances, and
the proofs TLAPS checks for every instance. Paths below are relative to the repository, so
`tasks.service.ts:1098` is line 1098 of `src/src/tasks/tasks.service.ts`.

The backend is a NestJS process over PostgreSQL (Prisma), Redis (BullMQ queues, a throttle) and an
S3-like object storage. Companies and creators publish *posts*; others *apply* to them; an accepted
application becomes a *task*; a completed task becomes a *publication*. Around that are accounts
with several profiles, refresh sessions, invites to a company's team, a Prime subscription, a chat,
comments on tasks, notifications over four channels and a daily deadline reminder.

Almost everything hard in it has one cause. A handler reads a row, checks it in TypeScript, then
writes it in a *later* database call that names the row by id alone: there is no row version, no
`SELECT FOR UPDATE`, and the default isolation level. Between the two calls any other handler may
run. The models keep exactly that structure and ask which promises survive it.

## 1. Inventory

For each part: its state, its operations, whom it talks to, what is hard, what makes it correct.

**Tasks** (`tasks.service.ts`: create, update, annulment and deadline requests). State: the `Task`
row (status, executor, approval, archive flag, deadline, post), `TaskAnnulmentRequest` and
`TaskDeadlineExtensionRequest` rows. Operations: create, update, request, confirm and reject for
both kinds of request. Interacts with publications (awaited after the commit of an update that
completes the task), posts (a move), applications (a task hangs on one), notifications (awaited or
not). Hard: checks on a row read before the transaction; look-up of a pending request apart from
its insert; a request confirmed by id whatever has become of it; an exception after the commit.
Correct when only the other side resolves a request, a task is annulled by agreement only, the
owner never becomes executor, an approval is the present executor's, archiving obeys its rule.

**Publications** (`publications.service.ts`). State: one `Publication` per task (unique index), with
one link of the older kind (`externalUrl`, under the platform of the task) and a JSON column of links by
platform. Created by the update that completes a task, in three awaited steps; moved with its task;
changed by a `PATCH`. Hard: both kinds of links are worked out from the row that was read earlier,
and the column is written whole. Correct when a completed task gets one
publication, once, for the post of its task, and the address shown is one of its links.

**Applications** (`applications.service.ts`). State: one row per post and applicant. Apply,
withdraw, decide; a decision to accept may make a task. Interacts with posts, tasks, billing (the
owner's subscription), chat (the cover letter). Hard: withdrawal and decision both read, check and
write by id; the post may be closed or deleted meanwhile. Correct when decisions are final, each
makes at most one task, and a task hangs on an accepted application of its own post.

**Posts** (`posts.service.ts`). State: the row with its archive, private and template flags, media
rows and objects. Create, update, remove, publish from template, upload and remove media. Hard: the
flags are derived from a row read earlier; deletion cascades; publishing copies objects one by one
with compensation on failure; who sees a post is decided in four places by the same flags.

**Auth** (`auth.service.ts`). State: `RefreshSession` rows, the password hash, cookies. Register,
login, refresh, switch profile, log out, reset the password. Hard: a refresh reads, revokes and
issues in four awaits; a reset writes the password and revokes in two. Correct when a token buys
one session, a replaced session is dead, a reset ends the older ones.

**Accounts, memberships, invites** (`invites.service.ts`, `account-membership.service.ts`,
`accounts.service.ts`). State: `Account`, `AccountMembership` (unique pair), `AccountInvite`.
Invite, accept, revoke. Interacts with billing and the mail queue. Hard: the five reads of an
invite before its insert; the invite is not looked at again when it is accepted; the letter is
queued after the insert and its failure has to delete it. Correct when members came by an open
invite of their kind and a team grows with Prime only.

**Billing** (`prime-subscription.service.ts`). State: two columns of the profile. Activate, cancel;
every reader that finds it over writes EXPIRED.

**Chat** (`chat.service.ts`, `chat-read.util.ts`, `chat.gateway.ts`). State: conversations, their
two participants (read cursor, unread anchor, unread mark, dialog pin), messages, message media and
objects, message pins, hidden messages. Find or make a dialog, hide it and show it again, send, edit,
remove an attachment, pin, hide, mark read and unread, scroll. Hard: nothing but a look before the insert
makes a pair have one dialog; the cursor is a time, and a message is visible later than its time; attachments are
removed in two places; pins are checked before they are written; an applicant may only write after
the company did.

**Task comments** (`tasks.service.ts` from 2240, `task-comments.gateway.ts`). Built like the chat:
comments, media, pins, a read cursor for each participant, and a room of sockets told of every change.
Hard: a comment is visible later than the time it carries, and the cursor is a time; files go before their comment, one by one; a copy of a file shares its object; the room is told
after awaits that may fail.

**Task lists** (`tasks.service.ts`: list, stats, calendar, feeds). They only read, through filters put
together by spreading objects over one another, where a later one overwrites an earlier one of the same
name; the parameters of the counters are among what is overwritten. Correct when a counter counts what its list shows, and nobody is shown what they may not open.

**Media and file templates** (`media/`, `file-templates/`, the upload and removal handlers of posts
and tasks). Rows and stored objects, changed one after the other; caps checked before the insert.
Correct when a row has its object, and a publication that fails is taken back whole.

**Notifications** (`notifications.service.ts`), **throttle** (`chat-email-throttle.service.ts`),
**reminders** (`deadline-reminder.service.ts`), **push**, **integrations**, **mail queue**. One
notice goes to four channels that fail separately. The throttle counts letters in a window in Redis,
or in memory without it. A queued letter is tried several times, each attempt ended by a timer while
the SMTP dialogue goes on. The daily reminder of every process claims a row, sends, and gives the row back on
failure. Integrations bind a messenger chat by a token brought back from it. Correct when notices are spaced
and counted, every letter is sent or given up, a claimed reminder is made, a chat serves one user.

**Favorites, partners, users and profiles.** Favorites look a group and a post up before
they write; a partner list comes from two queries, or by name from three of which two run at once, in an order that
depends on the sorting asked for; a profile is updated by merging a JSON column with what was read, while its address is being confirmed.

**Settings, task templates, geocoding, attribution.** One row of one owner, or reads only.

The hazards that the properties are for are listed with their lines in `PROJECT.json`.

## 2. How the models are written

* A handler is cut at its awaits. What it read before an await and uses after it is in its local
  state (`handler[h]`); other handlers run in between. A `$transaction`, and a single statement, is
  one step. The set `Handler` bounds how many requests are in flight.
* Where several reads and checks come with no write between them and only the last reading matters,
  or what is read never changes, they are one step; the comment on the action says so.
* A request the code refuses before any write changes nothing, and is no action: a guard is false.
* A crash, or an exception of an awaited call, ends a handler where it stands: what was committed
  stays. TaskLifecycle, Applications, Dialogs and MessengerLinks have `Fail` for one handler; Sessions, Memberships,
  ChatMessages, TaskComments and MediaStore `Crash` for the process with all of them (the handlers that fail by
  themselves fail in their own actions). In Notifications there are several processes, and a crash takes what one of
  them had in memory. In ChatReads, Publications, Profiles and Showcase a request ends with its one write, and one
  that dies before it has changed nothing.
* Data that no property tells apart is left out: texts, briefs, titles, counters, the activity log.
  Tokens are the rows they name. Time is what it changes: a session or an invite expires, a
  subscription runs out; where times are compared (ChatReads, TaskComments, ChatNotices, Partners) it is a counter.
* *History variables* are written and never read by an action. `raced`, in most modules, says on what two conflicting
  requests overlapped; `changed` and `turned` in Memberships say the invite or the subscription changed under a
  handler; the others (`struck`, `doomed`, `cut`, `lost`, `knew`, ...) are explained where they are declared. They let
  a property say precisely *when* the code keeps a promise: always, or unless this overlap happened.
  The exception in each such property is real: dropping it makes TLC find the race.
* A definition marked `mutant` is a copy of another with one plausible mistake. No action uses it;
  `PROJECT.json` names, for each property, the mutant that breaks it.

## 3. The modules

| Module | Models | State | Actions |
|---|---|---|---|
| `TaskLifecycle` | one task from its insertion, its requests, its publication | `task`, `requests`, `publication`, `handler`, `approvedBy` | `UpdateRead`/`UpdateWrite` = `update`; `FindPublication`, `ReadCompletedTask`, `CreatePublication` = `createFromCompletedTask`; `RequestAnnulment`, `RequestDeadlineExtension`, then `FindNoPending`, `InsertRequest`; `BeginResolve`, `PickPending`, then `ConfirmAnnulment`, `RejectAnnulment`, `ConfirmDeadlineExtension`, `RejectDeadlineExtension` |
| `Applications` | one post, the applications to it, the tasks made from them | `post`, `application`, `tasks`, `prime`, `handler`, `raced` | `Apply`/`InsertApplication`; `Withdraw`/`WriteWithdrawn`; `UpdateStatus`/`ReadSubscription`/`WriteStatus` (with `createFromAcceptedApplication`); `MoveTask`/`WriteMove`; `UpdatePost`/`WritePost`; `RemovePost`/`DeletePost` |
| `Sessions` | the refresh sessions of one account | `membership`, `session`, `handler`, `older`, `interrupted` | `Login`; `Refresh`/`ReadMembership`; `SwitchProfile`; `Revoke`/`Issue` = `buildAuthResponse`; `End` = logout or expiry; `ResetPassword`/`RevokeAll` |
| `Memberships` | who has access to one company profile | `registered`, `member`, `invite`, `prime`, `handler`, `mailed`, `raced`, `interrupted` | `CreateInvite`, `AssertPrime`, `CheckInvitee`, `CheckPending`, `InsertInvite`, `MailInvite`, `DeleteInvite`; `AcceptInvite`, `AcceptPrime`, `AcceptCheck`, `WriteAccepted`; `RevokeMembership`; `ActivateStub`/`DeactivateStub`/`WriteSubscription`; `GetSubscription`/`WriteExpired` = `syncAndMap` |
| `ChatReads` | what one participant has read of one dialog | `clock`, `message`, `reader`, `handler`, `seen`, `raced` | `CreateMessage`/`CommitMessage`; `MarkAsRead`/`WriteRead`; `MarkUnread`/`WriteUnread`; `MarkDialogUnread`/`WriteMark`; `HideMessage`, `RemoveMessage` |
| `ChatMessages` | what messages consist of, pins, who may write | `message`, `pin`, `file`, `applied`, `handler`, `raced`, `interrupted` | `Apply`/`SendCoverLetter`; `CreateMessage`/`InsertMessage`; `UpdateMessage`/`WriteContent`; `RemoveAttachment`/`DeleteFile`/`DeleteRow`; `PinMessage`/`UpsertPin`, `Unpin` |
| `Accounts` | `Sessions` and `Memberships`, side by side | theirs, the latter's `handler` as `inviting`, `raced` as `paired`, `interrupted` as `died` | `SessionStep`, `InviteStep` |
| `Chat` | `ChatReads` and `ChatMessages`, side by side | theirs, the latter's `message` as `content`, `handler` as `writing`, `raced` as `contended`, `interrupted` as `died` | `ReadStep`, `ContentStep` |
| `TaskContract` | what the two sides of a task promise each other | `annulled`, `deadline`, `ask`, `word` | `Request`, `Agree`, `Decline`; `Say` and `Change`, the owner's word on the deadline |
| `TaskComments` | the comments of one task, their files, pins, cursors, and what the room hears | `executor`, `comment`, `object`, `pinned`, `clock`, `cursor`, `heard`, `handler` | `ChangeExecutor`; `CreateComment`/`FindReply`/`StampComment` (createdAt) and `InsertComment` (the commit)/`Announce`; `UpdateComment`/`WriteEdit`/`AnnounceEdit`; `DeleteComment`/`DeleteFile`/`DeleteRow`/`AnnounceDelete`; `PinComment`/`WritePin`, `UnpinComment`; `MarkRead`/`FindLatest`/`ReadAt`/`WriteRead` |
| `MediaStore` | rows and objects of the files of templates, posts, tasks and file templates | `row`, `object`, `home`, `template`, `post`, `task`, `handler` | `Upload`/`PutObject`/`CountMedia`/`InsertMedia`; `SendFile`/`CopyObject`; `CopyTaskMediaToConversation`/`CopyToConversation`; `RemoveMedia`/`DropObject`/`DropRow`; `PublishFromTemplate`/`CreatePost`/`CopyItem`/`InsertItem`/`Published`, `UndoPost`/`UndoFiles`; `CreateTask`/`ShareItem`/`DuplicateItem`/`InsertTask`; `RemoveTemplate` |
| `ChatNotices` | one recipient's notices of a conversation, and the throttle | `clock`, `entry`, `call` | `Notify`, `SkipMail`/`AskMail`, `SkipMessenger`/`AskMessenger` (each asks the throttle: `Decide` = `shouldSend`), `Tick` |
| `MailQueue` | the job of a letter | `job`, `adrift` | `Enqueue`, `Process`, `Deliver`, `SmtpRefuses`, `SmtpTimeout` and then `LateDelivery` or `NeverArrives`, `Stall` |
| `Reminders` | the daily job of every process, one task, one window | `open`, `log`, `run`, `off`, `bell` | `HandleDailyCron`, `Claim`, then `notify`: `IsInAppEnabled`, `InsertNotice`, `Notified`; `GiveBack`, `GiveBackFails`, `Close`; `Update` of the setting |
| `MessengerLinks` | the bindings of one provider | `token`, `connection`, `call` | `CreateLink`, `ReadToken`/`Bind` = the webhook, `Unlink`/`Revoke`, `SendToUser`/`SendToChat`, `Expire` |
| `Notifications` | the four above in the same processes | theirs | theirs, and `Crash(s)`, which takes what process `s` had in memory |
| `Showcase` | the posts and profiles of others as one profile sees them, and its favorites | `role`, `roleOf`, `post`, `group`, `favorite`, `saved`, `handler` | `UpdatePost`, `DeletePost`; `CreateGroup`, `DeleteGroup`; `AddFavorite`/`LookAtPost`/`LookAtGroup`/`Upsert`, `AddFavoriteUser`, `MoveFavorite`/`Move`, `RemoveFavorite`/`Remove`; operators `CanView`, `CanApply`, `Feed`, `Options`, `Search`, `ListFavorites` |
| `Partners` | the four partner lists, put together from two or three queries | `kind`, `row`, `clock`, `reader` | `Write`, `Change`; `TasksByRecent`, `ApplicantsByRecent`, `CompaniesAggregated` then `FindUsers`; `TasksByName`, `ApplicantsByName`, which begin with either of two queries (`FindFirst`, `CountFirst`), the other (`CountProfiles`, `FindProfiles`), then `CountTasks`, `CountApplications` |
| `Dialogs` | finding, making, hiding and showing dialogs | `between`, `hidden`, `unread`, `handler` | `FindOrCreate`/`Unhide`/`Create`, `HideConversation`, `ListMessages`, `CreateMessage`/`ShowConversation`/`CommitMessage` |
| `Paging` | a client that scrolls through a dialog while messages come and go | `createdAt`, `removed`, `hiddenFor`, `scroll` | `LastPage`, `Around`, `Older`, `Newer`; `CreateMessage`, `RemoveMessage`, `HideMessage` |
| `TaskLists` | every list, counter, calendar and feed over one task in any state | `task`, `comments`, `cursor`, `viewer` (whose dashboard is looked at, with which parameters) | `Update`, `Annul`, `TimePasses`, `CreateComment`, `ListComments`, `Look`; operators `ListWhere`, `Stats`, `Calendar`, `InFeed`, `WithComments` |
| `Publications` | the links of one publication, and who sees it | `publication`, `handler` | `Update`, then `WriteLinks`, `WriteUrl`, `ClearUrl` or `WriteRest` |
| `Profiles` | the update of a profile and the confirmation of its address | `profile`, `issued`, `handler` | `Update`/`WriteUser`, `SendConfirmEmail`, `ConfirmEmail`/`WriteConfirmed`, `TokensExpire` |
| `Browsing` | the seven above, side by side | theirs | theirs |
| `TaskLifecycleProofs`, `ApplicationsProofs`, `AccountsProofs`, `ChatProofs`, `TaskCommentsProofs`, `MediaStoreProofs`, `NotificationsProofs`, `BrowsingProofs` | theorems (section 5) | | |

(The history variables are left out of the table.) Each module that is run has an `MC` module with the instance TLC
checks: the bodies clients send, the symmetry (handlers, row ids and interchangeable users are permuted; runs with a
liveness property use none), and the state constraint `Small` where there is one.

How they meet. A task starts where Applications ends: `CreatedFromAcceptedApplication` in TaskLifecycle's
`Init` is the row `InsertTask` of Applications makes. Both follow the same `update`: TaskLifecycle has
all of it for one task, Applications the move of a task that disconnects its application, with the
tasks of all applicants. Sessions and Memberships meet in the membership rows: Sessions has them
appear and disappear freely, which covers everything Memberships does. `Accounts` puts the two side by side, and
each step is of one of them. Applications and
Memberships share the subscription: `SubscriptionTurns` is any change of whether it is active.
ChatReads, ChatMessages and Dialogs share the message rows: the first has
their times and visibility, the second their content, the third whether there is something new. `Chat` puts the first
two side by side, again one step at a time: neither reads what the other has of a message.
The runs of Memberships and ChatMessages run these compositions with the other half at rest (`InviteSpec` and
`ContentSpec` in their `MC` modules); the theorems are about the whole.
TaskComments and TaskLists share the comments in the same way. The parts of Notifications share the processes: a
crash is one action of the notices, the reminders and perhaps of an attempt at a letter (`Stall`), while a request of the
integrations (`Fail`) is cut off by itself, from whatever cause. The seven parts of Browsing share no row; they are put side by side as
one profile sees them, and `MCBrowsing` looks at one of them in a behaviour, in which whoever looks at the lists of
tasks (`Look`) does so last, for a look changes nothing: every state of the task is still looked at, by the owner and by an executor.

TaskLifecycle implements TaskContract under the mapping at its end (`Contract`): whether the task is annulled is its
status, an ask is a request row, an answer the status and the resolver of that row, and the owner's word is what the
owner's updates on their way to the database carry. The contract has no handlers, approvals, publications or
failures, and says: what is asked stays asked, only the other side answers, the deadline moves by an
agreement or by the owner's word, and the task is annulled by an agreement alone.

## 4. The runs

| Run | Instance | States | Question |
|---|---|---|---|
| `TaskSerial` | owner, two others, two posts, one request row, one date, **one** handler, no failures | 0.8 M | what the checks of `update` and of the requests promise when nothing overlaps, and that a completed task gets its publication |
| `TaskOverlapping` | the same users, one post, **two** handlers, any of which may fail | 0.6 M | that the detailed module implements `TaskContract` however handlers interleave |
| `ApplicationsOverlapping` | two applicants, two tasks, two handlers that may fail | 2.5 M | which promises survive which overlaps |
| `SessionsOverlapping` | three sessions, two profiles, two handlers, crashes | 1.0 M | one token, one session; dead is dead; a reset ends the older |
| `MembershipsOverlapping` | owner, manager, partner, two invites, two handlers, crashes | 1.3 M | one open invite for an account; access by an open invite only, with Prime where it takes Prime |
| `ChatReadsOverlapping` | three messages, two handlers | 3.7 M | what counts as read and unread |
| `ChatMessagesOverlapping` | two messages, two attachments each, two handlers, crashes | 1.1 M | no message is left without what it shows, and an applicant waits |
| `TaskCommentsOverlapping` | two comments, one shared file, two executors, two handlers, failing storage, crashes | 0.6 M | nothing empty, files go with their comment, nothing unseen is read unless it was overtaken, the room hears the truth |
| `MediaOverlapping` | three keys, a cap of one report, two handlers, failing storage, crashes | 2.2 M | rows have their objects, the cap is nearly kept, a published post is complete |
| `NotificationsOverlapping` | three messages, two processes, a window of one tick and three instants, a letter with three attempts, two recipients, two users with two chats and two tokens | 0.6 M | spacing and counts, one letter for one job, claims kept, chats of one user, every letter settled |
| `BrowsingOverlapping` | per part two handlers; one post on each side, one person, a group of one's own and another; two rows, three partners; two profiles, two dialogs; four messages at two instants, one on a page; an owner, two executors, two comments; two urls, two platforms; two addresses, two keys | 0.9 M | what is counted is what is shown, and what is shown may be opened; what merges with an old reading |
| `TaskListsScope` | the tasks of `BrowsingOverlapping` | | one promise the code does not keep (section 6) |

*Are the bounds enough?* Every race in this code is between a read and a write of one handler and a
write of another: two handlers show all of them, and only `ReportsNearCap` counts handlers. One task, post,
account, profile or dialog is enough because no handler writes two of a kind, except that an
application needs another post to move a task to (`Elsewhere`), that `move` and publication need two
posts, and that sessions need a second profile. Two applicants show that what one does leaves the
other alone; two task rows are a second acceptance; three sessions are two refreshes of one
token or a chain of two; two invites are a pair made at once or one after the other; three
messages are one read, one overtaken and one that overtakes, or one let through, one refused and the digest that counts
it; three keys are a file, its copy and an upload meanwhile; two instants for four messages put several at one
instant on both sides of a page. One date suffices for deadlines
since the comparison is with the one that was read (0 is none), and a task without a deadline can
get the date twice. A window of one tick and a clock up to two has all three orders of "within", "at its end" and
"after". Three attempts are one cut off, one refused and one that succeeds.

The state constraints drop no interesting case. `Small` in Sessions bounds the number of sessions
to two only where a second profile is in play; in Memberships it stops
new invites being begun when no row is left, and once both rows are used there is no crash and the subscription is
no longer written: it was never taken out, or it is active and may run out; in ChatMessages and TaskComments it tries pins while there is one message, since pins on another do not
touch it; in TaskComments it moves cursors over plain comments, since a cursor knows only times and authors, and gives
files, edits and answers to comments of the executor, one being written at a time, since each side may change its own comments and the sides do not
differ; one participant reads, and no more times are given than there are comments (one that is stamped and lost leaves room for one less): two plain
comments stamped in one order and committed in the other, with a look-up between, are in it; in MediaStore it has
one copy of a task's files to a dialog at a time and none beside a publication, since the two write to different
places; in Notifications the four parts are looked at one after the other (`OneAtATime`: they share processes
and no variable), a reminder is made again once and to one recipient, one recipient at a time has reminders switched off, and messages come in the order of
their names. Browsing has no constraint: `OneNext` of its `MC` module takes one part, and varies flags, saved profiles, comments and hidden dialogs one
at a time; the counters are asked for a period, or for an owner, an executor or both, of a task that is neither urgent nor commented on
(`FewParameters`: these parameters and columns meet in no filter but for the deadline, which a period is tried on), and an answer
about partners is closed before the next row is written. Deadlock is checked in every run but
the three where keys, instants or attempts are used up and nothing is left to do (`MediaOverlapping`,
`NotificationsOverlapping`, `BrowsingOverlapping`).

*Bodies.* `PATCH` bodies are enumerated: each field alone and the pairs that interact (a new executor
with an approval, a completion with a move), forbidden ones (the owner as executor, ANNULLED, an
executor sending a date with a status) included, so that a guard that vanished would show.

*Fairness.* `FairSpec` of TaskLifecycle: weak fairness of `Continue(h)` for each handler. An
admitted handler goes on to its end because the event loop always resumes an awaited call. There is
no fairness on requests coming in, and none on failing. `CompletedGetsPublished` needs it: `TaskSerial`
passes with it when nothing fails; with a notification that throws it does not hold (section 6).
`FairSpec` of Notifications: weak fairness of `Process` and `SmtpTimeout` for each letter. The queue's worker takes up
a waiting job and the timer of `deliverMail` fires. Nothing is assumed of the mail server: `Deliver`, `SmtpRefuses`
and `LateDelivery` may never happen, and `LettersSettle` holds because of the timer alone.

*What the properties say.* Always, whatever overlaps or dies: `ImplementsContract`; `ReplacedIsDead`;
`NothingReadUnseen` of the chat and of the comments (but for a message or comment that was overtaken on its way, and a task marked when it had no comment);
`NoEmptyComment`, `FilesGoWithComment`; `RowHasObject` (but for what was struck), `ReportsNearCap`; all six of Notifications, where
`ClaimMeansReminded` excepts who had reminders switched off when `notify` asked, and a row that was not given back; `CountsAreListed` (but where the code overwrites
a parameter in a list or a counter: the property names each place and says what holds there), `FeedsAgree`, `FeedIsOpen`, `GroupsAgree`,
`SortsAgree` (by name, the total may be off by as many as rows were written between its statement and the list's), `HiddenHasNothingNew`,
`ScrollIsComplete`, `UrlIsShown`. With one handler at a time:
`ApprovalIsCurrent`, `ResolvedOnce`, `CompletedGetsPublished`. Unless a named overlap, crash or change happened: the
others (`DecisionIsFinal`, `TaskOnlyWhileAccepted`, `OneTaskPerApplication`;
`RefreshedOnce`, `GivenUpForSuccessor`, `ResetEndsSessions`;
`OneOpenInvite`, `OpenInviteGrants`; `SeenIsRead`; `MessageStands`, `ApplicantWaits`; `RoomAgrees`;
`PublishedIsComplete`; `OneDialogEach`, `UpdatesAddUp`).

## 5. What is proved

`TaskLifecycleProofs` proves, for every set of users, posts, dates, handlers, request rows and bodies:

* `Invariance`: `Spec => []Inv`, and from it `TypeCorrect` (`[]TypeOK`), `OwnerNeverExecutes`
  (`[]ExecutorIsNotOwner`) and `NobodyResolvesAlone` (`[]ResolvedByOther`);
* `AnnulmentNeedsAgreement` (`AnnulledByAgreement`) and `DeadlineNeedsAgreement`
  (`DeadlineByOwnerOrAgreement`), step properties that use the invariant;
* `PublicationStays` (`PublicationTakenOnce`);
* `KeepsTheContract` (`ImplementsContract`), the refinement;
* `ApprovalFollowsExecutor` (`ApprovalIsCurrent`) and `ResolutionIsFinal` (`ResolvedOnce`), for requests served one at a time.

*The refinement.* `KeepsTheContract` is `Spec => ImplementsContract`. Each step of TaskLifecycle is a step of
TaskContract under the mapping, or leaves all the contract sees alone. It stands on `Invariance`: a confirmation
maps to `Agree` because by `ResolveIsSafe` the verdict in flight is about a row that exists and somebody else made,
and the write of an update to `Change` because by `UpdateIsSafe` a deadline in the patch is the owner's word. `AskedStep` says
what one change of one row is in the contract, `UnseenStep` and `SayStep` do every action that changes no task and no request, and `WordShrinks`
what becomes of the owner's word when a handler ends. The run `TaskOverlapping` shows the same on its instance.

The assumptions are those named in `TaskLifecycle`: the owner is a user and NULL is none
(`OwnerAssumption`), dates are positive numbers, bodies are well-typed and an absent field is no value
(`DateAssumption`, `DtoAssumption`, `KeepAssumption`), `InsertAssumption`, `NoneAssumption`. TLC evaluates them in every
run of the module. The invariants in this list that no run names (`ExecutorIsNotOwner`, `ResolvedByOther`,
`AnnulledByAgreement`, `DeadlineByOwnerOrAgreement`, `PublicationTakenOnce`, and `LinkedOnce`,
`LinkedTaskKeepsPost`, `TemplateIsPrivate` of Applications below) were checked before they were proved; the proof
now says more than the run did.

*The argument.* `ExecutorIsNotOwner` and `ResolvedByOther` are true and not inductive, for the reason the code
is hard: a write is made from a reading that may be old. The write of a patch keeps the executor
apart from the owner only if the patch in the handler's local state does not name the owner. `Inv`
therefore adds that every handler between reading and writing carries something safe:
`UpdateIsSafe` (a patch in flight does not make the owner executor, and one with a deadline comes from the owner)
and `ResolveIsSafe` (a verdict in flight is about a row that exists and was made by somebody else). The second is stable
because no row is deleted and `by` is never written after the insert, so a stale reading of it is still true. That is
also why these properties survive the overlaps and `ApprovalIsCurrent` or `ResolvedOnce` do not. The proof
has one lemma for each action; `QuietStep`, `LastStep` and `RequestStep` are what several of them share.

*One at a time.* The run `TaskSerial` has a single handler. The two theorems say more: there may be as many handlers as one
likes, as long as no two are busy together (`ServedOneAtATime`, a hypothesis on the behaviour: `Spec /\ []ServedOneAtATime => ...`, and it is
dropped nowhere else). The invariant `SerialInv` says that what a handler has read is still so
when it writes (`IsCurrent`): its patch comes from the owner or from the executor the row has now, takes the approval back
if it changes the executor, and a request about to be resolved is open.

`AccountsProofs` proves of the sessions, for every set of profiles, sessions and handlers, `TypeCorrect`,
`ReplacedStaysDead` (`[]ReplacedIsDead`), `SuccessorFollows` (`[]GivenUpForSuccessor`), `RefreshBuysOne` (`[]RefreshedOnce`) and
`ResetEndsThem` (`[]ResetEndsSessions`), from `NoneAssumption` (no session is NULL) and `OwnAssumption` (the own profile is none
of the others). None is inductive. That a replaced session is dead needs to know that the handler
about to insert the new row has revoked the old one (`RevokedFirst`), and that nothing in flight or in the
table names a row that is not there (`NothingDangles`), or the new row could be somebody's dead
parent. That a session given up has its successor needs more than what it says: "somebody still holds the token"
is lost when the handler that holds it is refused for want of a membership. `SuccessorOwed` therefore says that the
one that holds it is past the revocation, from where no refusal is possible. `DeathStep` does the
steps that issue nothing, `IssueInv` the one that does. The last two are about what a request has met on its way, and have an
invariant of their own on top (`HistoryInv`): a refresh that met no other with its token is the only one that holds it, and nothing
was issued for it yet (`CleanAlone`), so that no two such successors exist (`OneClean`); and whoever
holds the token of a session older than the reset has met the reset (`HolderHasMet`), so that what it issues is excepted. That
marking only ever adds (`MarkedAdds`) is what keeps the overlaps of others true. `SessionsAreSafe` says that all four hold
of Accounts as a whole.

`AccountsProofs` proves of the invites, for every set of managers, partners, invites and requests, `OneInviteIsOpen`
(`[]OneOpenInvite`) and `AccessIsGranted` (`OpenInviteGrants`), from `AccountAssumption` (the owner, the managers and the partners are
different accounts). Both are about what a request found before it writes, so `InviteInv` says what that is still worth. Who is
about to insert an invite for an account nobody else is making one for has found none open there, and none has been opened since
(`MakesOne`); the letter goes out for an invite that is there (`SendsOne`). Who is about to accept carries an invite that was
mailed, is addressed to its account and of the kind of that account, is open unless it has changed since, and found Prime
unless the subscription has turned since (`Grants`, `Accepts`). A membership is then given in one step alone, `WriteAccepted`.

`ApplicationsProofs` proves, for every set of applicants, task rows, handlers and bodies, `TypeCorrect`,
`OneTaskLinked` (`[]LinkedOnce`), `LinkedTaskStays` (`[]LinkedTaskKeepsPost`), `OneTaskMade`
(`[]OneTaskPerApplication`), `TaskNeedsAcceptance` (`[]TaskOnlyWhileAccepted`) and `DecisionsAreFinal`
(`DecisionIsFinal`), from `NoneAssumption` (no applicant is NULL) and `DtoAssumption` (bodies are well-typed).
`OneTaskLinked` and `LinkedTaskStays` hold whatever overlaps, the last three wherever nothing did, and for those the invariant
has to say what "nothing overlapped" gives: `OverlapsAreNoted` (two handlers that contend for a row are in
`raced`) makes a reading that is old a reading that was raced, so by `ReadingsAreCurrent` a withdrawal or
a decision about to be written still finds the application undecided. `MadeByAcceptance` ties a task, wherever it has
been moved, to an acceptance that stands, unless the post was deleted; `DeletedIsEmpty` closes
that exception, since nothing comes after the deletion. `EnterInv` does every admission, and `WriteStep`
every write: a handler that writes an application disturbs only readings that are then raced.
`TemplatesArePrivate` (`[]TemplateIsPrivate`, with `KeepAssumption`) adds to it `PatchesArePrivate`: a patch on its way was
computed from the flags the post still has, or the post is raced.

`ChatProofs` proves of the reading, for every set of messages and handlers, `NothingIsReadUnseen` (`[]NothingReadUnseen`) and
`SeenStaysRead` (`[]SeenIsRead`). The invariant `ReadsInv` says of every request about to set the cursor what is asked of the
cursor itself: whatever is there up to the time it carries was looked at (`Looked`), and, if nothing overlapped,
nothing seen before is later than that time (`Upto`). That is inductive because the clock only grows, and because a message
inserted but not yet sent is counted among those that were open at the look. That the last message is the latest of what is visible
(`LatestIsLast`) is by well-foundedness of the natural numbers: there is a least bound. `ReadsAreSafe` says that both hold of
Chat as a whole.

`ChatProofs` proves of the messages, for every set of messages, attachments and requests, `MessagesAlwaysStand`
(`[]MessageStands`) and `ApplicantAlwaysWaits` (`ApplicantWaits`), from `UserAssumption` (the company and the applicant are two). The
invariant `ContentInv` says of a message that no two requests have been changing at once that at most one is at it now, and
that what it is about to write leaves the message something (`EditFits`): the text is there or an attachment other than the one
it takes. With pins it is the same: whoever is about to pin still finds of the other's pin what it was checked against (`PinFits`), so
that a shared pin stays alone. An object that is missing is one whose row is about to go (`FilesStand`, until a crash). A message
under way may be written unless it was overtaken (`SendFits`): what gives an applicant the right is lost only by an application, or when
the company's message goes with its attachment, and both mark what is on its way (`Overtaken`). `Enters` does every admission, and
`PartsStay` puts together what the other steps leave of each part.

`NotificationsProofs` proves, for every number of messages, processes, letters, attempts, recipients, users, chats and
tokens, the five invariants of the run: `NoticesStayApart`, `DigestsCount`, `CopiesAreExplained`, `ClaimsAreKept`,
`ChatsServeOneUser`. The invariant has a part for each module. A keeper that refuses has not lapsed, so what it remembers
of the last notice is still true; and its count lies between the number of messages refused and twice that number less those that
have yet to ask again, which is what makes a digest at most twice too high. A job that runs has attempts left, and deliveries and attempts adrift never
exceed the attempts cut off, plus one for a job that succeeded. A claimed recipient is accounted for by a bell, by having been found switched off (`silent`), by a loss or by the process
that works on it. A webhook, an unlinking and a delivery carry rows read earlier; they are safe because rows of tokens and connections are never deleted and
two connections never name one chat, so that no reading can have gone wrong in the meantime in a way that matters. Every action leaves
the other three parts alone, but for the crash of a process, which ends notices, reminders and an attempt at a letter at once (`ChatCrashInv`, `CronCrashInv`). Assumed: `WindowAssumption`,
`EndAssumption`, `NeverAssumption`, `KeeperAssumption`, `AttemptsAssumption`, `NoneAssumption` of Notifications.

`TaskCommentsProofs` proves, for every set of people, comments and files and any number of requests, `CommentsAreNotEmpty`
(`[]NoEmptyComment`), `FilesGo` (`[]FilesGoWithComment`), `NothingIsReadUnseen` (`[]NothingReadUnseen`) and `TheRoomAgrees`
(`[]RoomAgrees`), from `OwnerAssumption`, `BlankAssumption` and `NoneAssumption`. The invariant says what a request in flight may
still rely on (`Fits`): an edit was checked against files that no request but a deletion of the same comment removes; a deletion has
removed what it no longer lists; a reader that looked at the last comment has looked at all up to its time but for those that were stamped earlier and not
committed yet, which he has noted (`Behind`, `ReadsFit`): what is stamped after the look is later by the clock (`WayStays`), and the last comment bounds the
others (`LatestIsLast`, by well-foundedness). `CommentsStay` is what a commit may add: a comment that was on its way. The room
is told after the write, so for a comment nobody raced on there is one request at work, and what it will tell is what the table says
(`RoomFits`).

`MediaStoreProofs` proves, for every set of keys, any number of requests and every cap, `TypeCorrect`, `RowsHaveObjects` (`[]RowHasObject`),
`PublishedComplete` (`[]PublishedIsComplete`) and `ReportsStayNearCap` (`[]ReportsNearCap`), from `CapAssumption` and `HandlerAssumption`
(finitely many requests are in flight). Who will write a row holds a key with an object, or one that somebody struck
(`Holds`); the undo of a publication removes the objects of its own copies alone, which no other row can name, since a key is given for
one place (`RowsAtHome`). A post is complete because the publisher counts: the files it found are those left plus those made, plus one
in hand (`Publishes`, `MadeFits`), and no two publish (`OnePublishes`). The cap is a count of another kind (`ReportFits`): the rows and the
requests about to insert one are together fewer than the cap and the number of requests, since whoever comes to insert has counted fewer rows
than the cap, and there are at most as many at that point as there are requests.

`BrowsingProofs` is about the parts of Browsing: each is proved under every interleaving with the others, which leave its variables alone.

* *Publications*: `UrlStaysShown` (`[]UrlIsShown`) for every set of links, any number of platforms and of requests, from
  `PlatformAssumption` and `NotGivenAssumption` (platforms are numbered from 1, and an absent key is none of them). The invariant only adds types: a request writes
  both kinds of links in one statement, or one that the other is made from, so that the stale row it read does
  no harm. The work is in the lemmas on links (`OverType`, `FirstLinkIsOne`, `MergeType`).
* *Dialogs*: `PairsHaveOneDialog` (`[]OneDialogEach`) and `BadgeIsComplete` (`[]HiddenHasNothingNew`) for
  every set of profiles, dialogs and handlers. `OneEach` counts a request that is about to insert a dialog as the dialog
  it will make; `HiddenIsKnown` and `SendsInTurn` follow a message from the row lock it holds on the dialog, through the participants it
  has shown the dialog to, to its commit.
* *Profiles*: `ProfileAddsUp` (`[]UpdatesAddUp`). What a request read of a column is what is stored, unless the column is in its
  `stale` (`ReadIsStored`).
* *Showcase*: `FeedCanBeOpened` (`[]FeedIsOpen`) and `GroupsOfFavoritesAgree` (`[]GroupsAgree`), from `PostAssumption`,
  `PersonAssumption` and `GroupAssumption` (what is one's own, another's, a person's or a group's is not also something else's). A favorite lies in a
  group of its owner or in none (`IsKept`), and a request about to save has looked at the post and at a group that the owner had then (`SavedAs`);
  should the group have gone since, the foreign key refuses the write.
* *Partners*: `PartnersAgree` (`[]SortsAgree`), for any finite set of rows. Each order makes its answer from what its first query
  found, so that the invariant says what it found for every group (`GroupsFound`, with `GroupsOf` over the rows of the moment) and, by name, what the
  profiles found are (`NamesFound`, `ProfilesFound`). By name list and count are two statements: `TotalFound` and `ListFound` say of whichever came first that it is
  as near to what is there now as rows were written since, because one row brings or takes one profile at most (`OneRow`, `OneMore`, `NearStill`).
  `FiniteImage` and a bijection between groups and partners show that the two counts are of one thing.
* *Paging*: `ScrollLeavesNoneOut` (`[]ScrollIsComplete`), for every finite set of messages, every set of instants and every length of a page.
  What a page shows of an ordered set is its front (`Front`, `PageCut`), all of it if the page is not full (`PageFull`): proved
  for any strict order, by counting and without induction, so that it serves both directions and messages at one instant, told apart by their ids.
  `Covered` says that whatever the client could have had lies beyond an end it has not reached.

* *Lists of tasks*: `CountersAreListed` (`[]CountsAreListed`) and `FeedsAlwaysAgree` (`[]FeedsAgree`), for any owner, executors and
  number of comments, and every parameter of the counters, from `ParameterAssumption` (a parameter that is not given is none of the values one may have) and
  `ExecutorAssumption` (NULL is no profile). The invariant (`ListsInv`) is types alone, for the properties say of every state what two ways of asking show of it; the
  work is in what the filters mean, one overwriting another included. `ObjectAsks`: objects spread one after the other ask for what each asks for of the columns
  that no later one overwrites (`Asks(t, where, over)`, where `over` are the columns overwritten). `PartsSay` applies it to the fifteen parts of `buildListWhere`, for the queries
  behind the counters with any parameters (`Counted`), `ShownIn` says what such a list shows, `BaseShown`, `ActiveShown` and `Counters` what `getStats`
  counts, and `CountsListed` compares the two. For the queries outside `Counted` the list is wider than the profile's own tasks: `TaskListsScope` shows it
  (section 6).

The properties of the parts of Browsing are stated in `Browsing`, so that the run checks the very formula.

Only model-checked: liveness (`CompletedGetsPublished`, `LettersSettle`).
Liveness under fairness and ENABLED are out of reach of the prover, as is induction over data; no
definition is recursive.

## 6. Disagreements

One is a run that TLC ends with a counterexample. `TaskListsScope`: `GET /tasks` lists, by its own description, "Задачи, где
пользователь owner или executor" (`tasks.controller.ts:70`). The search word's OR overwrites the OR of the
participants, and the filters on a missing answer and on the executor's name overwrite the one on the executor
(`tasks.service.ts:759`), so that tasks are listed for somebody who is neither.

Others were met while modelling; each can be had from the model by dropping an exception, an assumption or a bound:

* two overlapping requests leave two pending rows, where the second is to be told
  "Запрос на аннулирование уже отправлен" (`tasks.service.ts:1260`);
* a task completed while its annulment is pending is annulled by the confirmation, which does not look at
  the status (`tasks.service.ts:1386`);
* a notification that throws after the commit keeps the publication from being made, and sending the same
  PATCH again changes no status (`tasks.service.ts:1208`);
* `PATCH {isTemplate: true}` on a published post, then `DELETE`, takes its applications and tasks with it
  (`posts.service.ts:232`, 384);
* without a subscription accepting makes no task (`applications.service.ts:382`);
* the owner of a task may neither edit nor delete the comments of the executor (`tasks.service.ts:2887`, 2940), where the
  routes say "owner — любой; executor — только свой" (`tasks.controller.ts:519`, 555);
* uploads at once pass the cap on report files, each having counted before the others insert (`tasks.service.ts:2143`);
* copying files of a task to a dialog refuses one that came from the post or its template, whose key is not under the task
  (`media.service.ts:151`), and leaves the copies made before it;
* two letters go out in one window when Redis fails in between, one from each keeper (`chat-email-throttle.service.ts:82`);
* a chat whose binding was revoked stays with its former user: another one is refused there
  (`integrations.service.ts:138`);
* a counter and the list behind it differ where a filter overwrites a parameter. The lists of tasks without an executor and of the owner's without an answer drop the
  executor asked for, which the counters keep (`tasks.service.ts:774`, 892): with `executorId` the first counter is 0 (463), while the list shows
  tasks. The first counter drops `ownerId` (468), its list in the role of the owner does not (887). Without a role, the list of a role drops that it is the
  viewer's where somebody else is asked for (744). `overdue` drops a period of the deadline (476), in both;
* the days of a period are cut by the server's clock in the counters and by `tzOffset` in the lists, and without `dateField` the counters take
  `finalDate` and the lists `createdAt` (`tasks.service.ts:923`, 717): read from the code, no property has it;
* the total of a list of partners by name is of another moment than the list (`partners.service.ts:279`, 401);
* a comment stamped earlier and committed after a later one was read is behind the cursor and counts as read (`tasks.service.ts:2790`, 2552), as a message of the
  chat does;
* with reminders switched off in the application a row of the log stands for no reminder there, and switching them on again the same day brings none
  (`notifications.service.ts:53`, `deadline-reminder.service.ts:168`);
* a token that confirms an address names the profile, not the address: it confirms whichever the profile has by then
  (`UpdatesAddUp` allows for it with `since`);
* the platform of a lone older link is named in two ways (`publications.service.ts:480`, 499), which would show if there could be
  one (`UrlIsShown` says that there cannot); and a PATCH with a platform and such a link files the link under the
  platform the row had before.

Seen while the exceptions in the properties were made precise, and covered by those exceptions: an
approval or an archive flag decided on a stale row is written over a new executor or status; two
resolutions of one request both succeed, the later one standing; a publication may keep the post a
task was moved away from; a confirmed extension may pull the deadline back when the owner has moved
it further meanwhile; a withdrawal may be written over an acceptance and leave its task; two
refreshes with one cookie give two sessions; an access token that outlives its session opens a new one by
switching profiles, even after a reset; an invite whose acceptances overlap gives access again after
a revocation; two invites to an address made at once are both open; EXPIRED is written over a new
activation; a message inserted earlier and committed later than the last one read is read unseen; two
removals of the last two attachments leave an empty message; an applicant is barred again when the
company's only message goes with its attachment. `POST /tasks` accepts every status, the terminal ones too;
the runs start from PREPARING, the theorems from any set of statuses. After a change of executor the old and the new one may annul a task
between them, without its owner.

## 7. What is not modelled

Listed with reasons in `PROJECT.json`. Not at all: task templates and push subscriptions (rows of one owner, written whole by single
statements), actor attribution (a label on rows), geocoding (a call to an outside service), infrastructure.

Of components that are modelled in part: the texts of posts, profiles and answers, and the words a list is searched by, except where
a filter on them overwrites another (TaskLists) or decides the order of two queries (Partners); sorting and pages of the task lists, and their filters on posts, assignees and periods of
`createdAt` and `updatedAt`, on columns nothing else refers to; the pin of a dialog, the search in it, forwarding of messages, presence (`chat.gateway.ts`) and the broadcasts of the chat;
who sits in the room of a task; e-mail confirmation at registration and the cookies; the list of notices and its read marks; the row of
the settings (ChatNotices reads any value of it at any time, Reminders the one type it is about); who acted for whom; a call to Redis that took effect
and was not answered (ChatNotices lets one that fails change nothing there); switching profiles without the refresh cookie
(`auth.service.ts:740`: it revokes nothing and opens a session, as `Login` of Sessions does for the own profile).

One hazard is covered by a theorem and no run: the template flags of a post worked out from an old reading (`posts.service.ts:232`). `TemplatesArePrivate`
says that they are right where no two handlers overlapped on the post.

## 8. Plan

Done, in the order of weight: TaskLifecycle, Applications and Sessions with their proofs, Memberships, ChatReads,
ChatMessages; TaskContract and the refinement; TaskComments, MediaStore, Notifications with its four parts, Browsing with its seven;
Accounts and Chat, which put together what is about one account and one dialog; the proofs of every property but
those of liveness.

Next proofs: what lists show for every query, those outside `Counted` included, and that the parts of Chat and Accounts implement abstract specifications
of their own, as TaskLifecycle does. Next modules: forwarding a message with its files, and presence, in which two sockets of one profile come and go.
