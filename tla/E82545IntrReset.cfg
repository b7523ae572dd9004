\* A host that does not read ICR after a reset.
SPECIFICATION IntrSpec
CONSTANTS
  Bits = {b1, b2, b3}
  Careful = FALSE
INVARIANT CausesReachHost
