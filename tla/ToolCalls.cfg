SPECIFICATION FairSpec
CONSTANTS
  t1 = t1
  t2 = t2
  Turns = {t1, t2}
  Requests <- ReadWriteOrDestroy
  AllowedLevels = {"write"}
  ApprovalLevels = {}
  MaxRetries = 1
  MaxAged = 1
  MaxEntries = 1
  Nobody = Nobody
INVARIANTS
  LockAccounted
  OneFetchPerToken
  EffectsOnce
  ToldTruly
  DecisionsHold
PROPERTIES
  CallsEnd
