SPECIFICATION Spec
CONSTANTS
  o = o
  e1 = e1
  e2 = e2
  p1 = p1
  p2 = p2
  Owner = o
  None = None
  Keep = Keep
  User = {o, e1, e2}
  Post = {p1}
  Handler = {h1, h2}
  RequestId = {r1}
  Date <- OneDate
  OwnerDto <- OverlapOwnerDto
  ExecutorDto <- OverlapExecutorDto
  InsertStatus <- Preparing
  MayFail = TRUE
SYMMETRY Interchangeable
PROPERTY ImplementsContract
