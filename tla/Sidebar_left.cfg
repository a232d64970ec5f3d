CONSTANTS
  w1 = w1
  w2 = w2
  g = g
  p = p
  d = d
  None = None
  Workspaces <- MCWorkspaces
  Channels <- MCChannels
  Home <- MCHome
  Private = {p}
  General = {g}
  MaxChanges = 2
  MaxLosses = 0
SPECIFICATION SidebarSpec
PROPERTIES LostIsLeft
CHECK_DEADLOCK FALSE
