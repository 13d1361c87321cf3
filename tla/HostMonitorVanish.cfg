\* The comments of poll() against a domain that vanishes at the wrong moment.
SPECIFICATION FairSpec
CONSTANTS
  host = host
  guest1 = guest1
  guest2 = guest2
  DomainID <- MCDomainID
  Instance <- MCInstance
  Uuid <- MCUuid
  CallsMayFail = FALSE
PROPERTIES
  VanishedIsRemoved
