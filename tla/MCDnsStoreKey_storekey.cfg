\* Two helpers one after the other; the LAN changes or the key gets lost; calls fail.
SPECIFICATION Spec
CONSTANTS
  Helpers = {h1, h2}
  None = None
  Stale = Stale
  MaxEvents = 2
  MaxFaults = 1
CHECK_DEADLOCK FALSE
INVARIANT KeyInv KeyStaysAway
PROPERTY KeyFollows
