CONSTANTS
  Handle = {h1, h2, h3}
  MaxMounts = 2
  NoHandle = NoHandle
  MaxDrops = 2
  MaxSubmits = 2
SPECIFICATION Spec
INVARIANTS
  OneHandlePerEffect
  LiveFlagHonest
  NoAnonymousRequests
PROPERTIES
  SessionEndsForReason
  EventuallyLive
