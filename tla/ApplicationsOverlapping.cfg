SPECIFICATION Spec
CONSTANTS
  Applicant = {a1, a2}
  None = None
  Here = Here
  Elsewhere = Elsewhere
  TaskId = {t1, t2}
  Handler = {h1, h2}
  Keep = Keep
  PostDto <- FlagDto
SYMMETRY Interchangeable
INVARIANT TaskOnlyWhileAccepted
INVARIANT OneTaskPerApplication
PROPERTY DecisionIsFinal
