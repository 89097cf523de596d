\* Two sessions, of which one goes on to read; an inherited item and another.
SPECIFICATION FairSpec
CONSTANTS
  Sessions = {s1, s2}
  Everyone = Everyone
  NoLegacy = NoLegacy
  LegacyOwner = s1
  LegacyItems = 1
  Readers = {s1}
  MaxItems = 2
  MaxQueue = 2
INVARIANTS OneHeir NoEarlyResend
PROPERTIES KeepsPromise EveryItemShown
