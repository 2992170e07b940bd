SPECIFICATION SpecEntities
CONSTANTS
  ControlFields <- MixedControlFields
  OtherFields <- MCOtherFields
  Raw = {0, 1}
  Off = 0
  On = 1
  StatusFields <- MCStatusFields
  Defaults <- MixedDefaults
  Decodes <- MixedDecodes
  UserWrites <- MixedUserWrites
  WorkModes = {1}
  Reports <- MCReports
  ReportedControls <- MixedReportedControls
  MaxOrder = 4
  NoControl = NoControl
  NoValue = NoValue
  Entities = {}
INVARIANT MergeCoversUnsentWrites
