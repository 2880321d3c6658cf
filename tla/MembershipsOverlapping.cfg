\* A company profile with one manager and one partner to invite, two invites,
\* two requests in flight.
SPECIFICATION InviteSpec
CONSTANTS
  Owner = owner
  Manager = {manager}
  Partner = {partner}
  InviteId = {i1, i2}
  Handler = {h1, h2}
  Own = own
  Other = {}
  SessionId = {s1}
  None = None
CONSTRAINT Small
SYMMETRY Interchangeable
INVARIANT OneOpenInvite
PROPERTY OpenInviteGrants
