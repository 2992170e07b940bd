SPECIFICATION SpecEntities
CONSTANTS
  ControlFields <- MCControlFields
  OtherFields <- MCOtherFields
  Raw = {0, 1, 2}
  Off = 0
  On = 1
  StatusFields <- MCStatusFields
  Defaults <- MCDefaults
  Decodes <- MCDecodes
  UserWrites <- MCUserWrites
  WorkModes = {1}
  Reports <- MCReports
  ReportedControls <- MCReportedControls
  MaxOrder = 6
  NoControl = NoControl
  NoValue = NoValue
  Entities <- MCEntities
INVARIANTS
  TypeOK
  PendingStatusExact
  PendingControlExact
  NoQueuedWriteDropped
  EntityViewFresh
PROPERTIES
  SendKeepsMergeBase
  ImplementsCommandQueue
