SPECIFICATION FairSpec
CONSTANTS
  Message = {1, 2, 3}
  Server = {s1, s2}
  Window = 1
  End = 2
  Never = Never
  Letter = {l1}
  Attempts = 3
  Recipient = {owner, executor}
  User = {u1, u2}
  Chat = {c1, c2}
  Token = {t1, t2}
  Call = {h1, h2}
  None = None
CONSTRAINT Small
INVARIANT NoticesApart
INVARIANT DigestCountsRefused
INVARIANT CopiesExplained
INVARIANT ClaimMeansReminded
INVARIANT ChatServesOneUser
CHECK_DEADLOCK FALSE
PROPERTY LettersSettle
