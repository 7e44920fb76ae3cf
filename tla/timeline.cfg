CONSTANTS
  Agents = {a1}
  Asks = {q1}
  Users = {u1}
  Events = {e1, e2}
  NoEvent = NoEvent
  MaxEntries = 4
  MaxCalls = 4
  MaxFaults = 1
SPECIFICATION FairSpec
INVARIANT TypeOK
INVARIANT OneEntryPerEvent
PROPERTY NoEntryVanishes
INVARIANT DeletedForGood
CHECK_DEADLOCK FALSE
PROPERTY StatementsEnd
