SPECIFICATION FairSpec
CONSTANTS
  Devices = {ac}
  KeepAlive = 10
  RequestTimeout = 5
  Handle = 2
  MaxBackoff = 10
  StatusReads = 2
  MaxWrites = 2
INVARIANTS
  TypeOK
  WaitCoversNextRequest
  ReconnectPrompt
  RegistrationRenewed
PROPERTIES
  ReconnectPosts
  BackoffHonoured
  RecoversWhenAnswering
  LapsesWhenSilent
