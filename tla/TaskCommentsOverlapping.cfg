SPECIFICATION Spec
CONSTANTS
  a = a
  None = None
  Blank = Blank
  Owner = o
  Executor = {e1, e2}
  CommentId = {c1, c2}
  File = {f1}
  Text <- Texts
  Handler = {h1, h2}
CONSTRAINT Small
SYMMETRY Interchangeable
INVARIANT NoEmptyComment
INVARIANT FilesGoWithComment
INVARIANT NothingReadUnseen
INVARIANT RoomAgrees
