\* The comments of poll() against a domain that boots between count and list.
SPECIFICATION Spec
CONSTANTS
  host = host
  guest1 = guest1
  guest2 = guest2
  DomainID <- MCDomainID
  Instance <- MCInstance
  Uuid <- MCUuid
  CallsMayFail = FALSE
INVARIANTS
  OnlyDisappearedAreRemoved
