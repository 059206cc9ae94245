SPECIFICATION FairSpec
CONSTANTS
  s1 = s1
  s2 = s2
  Sessions = {s1, s2}
  Main = Main
  l1 = l1
  Slots = {Main, l1}
  None = None
INVARIANTS
  PageSound
  ShownIsActive
PROPERTIES
  ConversationKept
  Unlocks
