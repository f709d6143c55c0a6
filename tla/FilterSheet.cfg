SPECIFICATION Spec
CONSTANTS
  kit = kit
  nipper = nipper
  Tabs = {t1, t2}
  Loose = {kit}
  Bundled = {kit, nipper}
  Per <- InBundle
  MaxPerLine = 3
  Levels = {0, 4}
  Quantities = {1, 2}
  MaxClicks = 2
  MaxShelfMoves = 1
  MaxLost = 1
  Ids = {1, 2}
  NumberOf <- Numbers
  Instants = {1, 2}
  Ratings = {1, 2}
  PageSize = 1
  MaxChanges = 2
  MaxEvents = 4
  None = None
  Absent = Absent
CHECK_DEADLOCK FALSE
INVARIANT CountIsOfTheDraft
