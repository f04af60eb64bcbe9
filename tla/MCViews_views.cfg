SPECIFICATION Spec
CONSTANTS
  t1 = t1
  t2 = t2
  k1 = k1
  k2 = k2
  Tabs = {t1, t2}
  Kneeboards = {k1, k2}
  NoTab = NoTab
  NoKneeboard = NoKneeboard
  c1 = c1
  c2 = c2
  Calls = {c1, c2}
  Changing = {t1}
  FirstTabs <- TwoTabs
  FirstViews <- TwoViews
  MaxPage = 3
  MaxInputs = 4
INVARIANTS TypeOK PagesExist NearestBookmark ViewsShowTabs
PROPERTIES BookmarksInOrder GazeGetsFocus
CHECK_DEADLOCK FALSE
