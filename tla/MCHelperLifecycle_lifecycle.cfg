\* One interface, two helpers in turn, against crashes, faults and timeouts.
SPECIFICATION Spec
CONSTANTS
  Helpers = {h1, h2}
  None = None
  Events = {"kill", "device", "daemon", "reuse"}
  MaxFaults = 1
INVARIANT FilesInv
PROPERTY OneTunnel ConfirmedCleanup EveryWaitEnds
