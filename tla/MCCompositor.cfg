SPECIFICATION SceneSpec
CONSTANTS
  Views = {v1, v2}
  Keyboards = {k1}
  Desktops <- MCDesktops
  Points <- MCPoints
  Threshold = 1
  MinSize <- MCMinSize
  Box <- SmallBox
  FirstGeometry <- MCFirstGeometry
  Cascade = 1
  Step = 1
  ClientSizes <- MCSizes
  EdgeSets = {{"left", "top"}}
  Events = {"move", "resize", "minimize", "unplug", "keep", "maximize", "fullscreen"}
  Parts = {"main", "child"}
  MaxButtons = 2
  MaxGrabs = 2
  Keys = {"Up", "Down", "Left", "Right"}
  None = None
  Orphan = Orphan
  Freed = Freed
SYMMETRY ViewSymmetry
INVARIANTS
  GrabOnLiveView
  FocusedIsTopAndActive
  ClientsToldState
  RestoresOwnPlace
