CONSTANTS
  Projects <- MCShort
  DashD <- MCDashD
  Relative <- MCRelative
  Names <- MCNames
  Stems <- MCStems
  Folder <- MCFolder
  None = None
  Target = {lib, app}
  Edge = {link}
  Req = {flag, dir}
  Blank = Blank
  Newline = Newline
  Null = Null
  PerPreset = PerPreset
  Default = Default
  Unset = Unset
SPECIFICATION MCSpec
INVARIANT VerifiedFixPreserves
CHECK_DEADLOCK FALSE
