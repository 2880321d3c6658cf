SPECIFICATION FairSpec
CONSTANTS
  o = o
  e1 = e1
  e2 = e2
  p1 = p1
  p2 = p2
  Owner = o
  None = None
  Keep = Keep
  User = {o, e1, e2}
  Post = {p1, p2}
  Handler = {h1}
  RequestId = {r1}
  Date <- OneDate
  OwnerDto <- SerialOwnerDto
  ExecutorDto <- SerialExecutorDto
  InsertStatus <- Preparing
  MayFail = FALSE
INVARIANT ApprovalIsCurrent
PROPERTY ResolvedOnce
PROPERTY CompletedGetsPublished
