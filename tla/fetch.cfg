SPECIFICATION Spec
CONSTANTS
  Names = {a, b}
  Public = {open}
  Refused = {closed}
  MaxRedirects = 2
  MaxBytes = 2
  MaxChunk = 2
INVARIANTS CallSound ConnectsWhereAllowed 
PROPERTIES EveryCallReturns
CHECK_DEADLOCK FALSE
