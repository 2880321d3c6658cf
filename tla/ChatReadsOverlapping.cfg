SPECIFICATION Spec
CONSTANTS
  MessageId = {m1, m2, m3}
  Handler = {h1, h2}
  None = None
SYMMETRY Interchangeable
INVARIANT NothingReadUnseen
INVARIANT SeenIsRead
