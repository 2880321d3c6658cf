SPECIFICATION Spec
CONSTANTS
  Own = own
  Other = {company}
  SessionId = {s1, s2, s3}
  Handler = {h1, h2}
  None = None
CONSTRAINT Small
SYMMETRY Interchangeable
INVARIANT ReplacedIsDead
INVARIANT RefreshedOnce
INVARIANT GivenUpForSuccessor
INVARIANT ResetEndsSessions
