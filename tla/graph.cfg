CONSTANTS
  Projects <- MCProjects
  DashD <- MCDashD
  Relative <- MCRelative
  Names <- MCNames
  Stems <- MCStems
  Folder <- MCFolder
  None = None
  Target = {lib, app}
  Edge = {link}
  Req = {flag, dir}
  Blank = Blank
  Newline = Newline
  Null = Null
  PerPreset = PerPreset
  Default = Default
  Unset = Unset
SPECIFICATION MCSpec
INVARIANTS
  RowsMatchCMake DuplicatesExact CyclesExact RedundantStillLinked LinksExplained OvershareSafe
  AffectedExact ShadowedHarmless PlainPlansVerify ComparisonsExact PatchesKeepTheRest
  PresetSeeds
CHECK_DEADLOCK FALSE
