SPECIFICATION FairSpec
CONSTANTS
  kit = kit
  nipper = nipper
  Tabs = {t1, t2}
  Loose = {kit}
  Bundled = {kit, nipper}
  Per <- InBundle
  MaxPerLine = 3
  Levels = {0, 2, 4}
  Quantities = {1, 2}
  MaxClicks = 2
  MaxShelfMoves = 1
  MaxLost = 1
  Ids = {1, 2, 3, 4}
  NumberOf <- Numbers
  Instants = {1, 2}
  Ratings = {1, 2}
  PageSize = 1
  MaxChanges = 2
  MaxEvents = 3
  None = None
  Absent = Absent
CHECK_DEADLOCK FALSE
INVARIANT BundlesWhole
INVARIANT ChoicesInClickOrder
INVARIANT AdditionsAddUp
INVARIANT EveryRowSeenOnce
INVARIANT NewestAnswerShown
PROPERTY EveryClickAnswered
