\* Libvirt calls that may fail, crashes and restarts.
SPECIFICATION FairSpec
CONSTANTS
  host = host
  guest1 = guest1
  guest2 = guest2
  DomainID <- MCDomainID
  Instance <- MCInstance
  Uuid <- MCUuid
  CallsMayFail = TRUE
INVARIANTS
  TypeOK
  TrackersFollowWatcher
  OneTrackerPerInstance
  FalseNoticeNeedsShortListing
PROPERTIES
  ReportsCurrentListing
  ImplementsFeed
  KeepsReporting
  FlagIsHonoured
  VanishedIsRemovedOrStops
  RunningIsReported
