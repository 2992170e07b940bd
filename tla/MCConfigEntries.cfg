SPECIFICATION FairSpec
CONSTANTS
  Entries = {e1, e2}
  Devices = {d1, d2}
  Addresses = {a1, a2, a3}
  d1 = d1
  d2 = d2
  a1 = a1
  a2 = a2
  a3 = a3
  Reach <- MCReach
  Found <- MCFound
  Tuned = {e1}
  NoForm = NoForm
INVARIANTS
  TypeOK
  AddressesUnique
  ControllerFollowsEntry
  SomeAddressCorrectable
PROPERTIES
  DiscoveryProgresses
  RecoversAddresses
