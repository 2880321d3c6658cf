SPECIFICATION ContentSpec
CONSTANTS
  Company = company
  Applicant = applicant
  MessageId = {m1, m2}
  Item = {x, y}
  Handler = {h1, h2}
  None = None
CONSTRAINT Small
SYMMETRY Interchangeable
INVARIANT MessageStands
PROPERTY ApplicantWaits
