\* The algorithms against their references, and paging while mail arrives.
SPECIFICATION Spec
CONSTANTS
  Mail <- MCMail
  Views <- MCViews
  PageSize = 1
  MaxRows = 2
  MaxChanges = 2
  MaxFaults = 1
  MAX_ATTACHMENTS = 2
  MAX_ATTACHMENT_BYTES = 2
  MAX_TOTAL_ATTACHMENT_BYTES = 3
  Width = 3
  SpfMaxLookups = 2
  MaxParts = 3
  MaxReceived = 2
  ContentIds = {"none", "c1", "c2"}
  TypeNames = {"none", "application", "octet-stream", "image", "png", "pdf"}
  Chunks <- MCChunks
  PartTypes <- MCPartTypes
  SrsDays <- MCSrsDays
  Zones <- MCZones
  Clients <- MCClients
  MaxBody = 5
  Letters = {"a", "b", " "}
  RuleSets <- MCRuleSets
  MaxText = 4
CHECK_DEADLOCK FALSE
INVARIANTS
  PagingMissesNothing
  MimeRoundTrip
  UploadsAreDownloaded
  EmbeddedPartsAreFound
  SrsExpires
  SpfAnswers
  BodySurvivesTransport
  LabelsMatchKeywords
