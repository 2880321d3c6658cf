SPECIFICATION OneSpec
CONSTANTS
  Handler = {h1, h2}
  Mine = {m1}
  Theirs = {p1}
  Person = {x1}
  Group = {g1}
  Stranger = {g0}
  Ungrouped = Ungrouped
  MaxSaved = 2
  Partner = {p1, p2, p3}
  Otherwise = {p3}
  Named = {p1}
  Row = {r1, r2}
  Titled = {r1}
  NoPartner = NoPartner
  LastTime = 4
  Profile = {u, w}
  Manager = {w}
  Conversation = {c1, c2}
  Message = {1, 2, 3, 4}
  Instant = {1, 2}
  Limit = 1
  Side = 1
  Owner = o
  Executor = {e1, e2}
  None = None
  NotGiven = NotGiven
  MaxComment = 2
  Url = {u1, u2}
  Other = 2
  Address = {a1, a2}
  Key = {k1, k2}
  Value = {v1}
SYMMETRY Interchangeable
INVARIANT CountsAreListed
INVARIANT FeedsAgree
INVARIANT GroupsAgree
INVARIANT FeedIsOpen
INVARIANT SortsAgree
INVARIANT HiddenHasNothingNew
INVARIANT OneDialogEach
INVARIANT ScrollIsComplete
INVARIANT UrlIsShown
INVARIANT UpdatesAddUp
CHECK_DEADLOCK FALSE
