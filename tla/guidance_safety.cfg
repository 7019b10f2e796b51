SPECIFICATION Spec
CONSTANTS
  own = own
  foreign = foreign
  plain = plain
  framed = framed
  None = None
  Docs = {own, foreign}
  Controls = {plain, framed}
  MaxTime = 1
  MaxChanges = 1
  MaxCalls = 1
  Origin <- MCOrigin
  Allowed <- MCAllowed
  Framed <- MCFramed
  Looks <- MCLooks
  Tiers <- MCTiers
  Cards <- MCCards
  UsedTokens <- MCUsedTokens
INVARIANTS
  SensitiveIsNotPresented
  RefusalStands
  LedgerIsComplete
PROPERTIES
  PresentedWhereJudged
CHECK_DEADLOCK FALSE
