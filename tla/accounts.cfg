SPECIFICATION Spec
CONSTANTS
  Sessions = {s1, s2, s3}
  None = None
INVARIANTS AccountsSound ExpiredIsSignedOut
PROPERTIES VisitsEnd
