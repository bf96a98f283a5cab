SPECIFICATION MCSpec
CONSTANTS
  AdminIds = {1, 2}
  AdminSessions = {1, 2}
  Roles = {"super", "support"}
  Periods = {1, 2}
  MaxSecret = 2
  Releases = {1, 2}
  OwnerReleases = {2}
  Candidates = {1, 2}
  EligibleCandidates = {1}
  Percents = {0, 50}
  Customers = {1}
  Keys = {1}
  Tokens = {1, 2}
  DownloadCohort = {}
  UpdateCohort <- Cohort
  Publications = {1}
  Evidences = {"e1", "e2"}
  MaxRevision = 4
  Requests = {1}
  Links = {1, 2}
  Clients = {c1, c2}
  MaxMixed = 2
  MaxInUse = 4
SYMMETRY Symmetry
CONSTRAINT Limits
CHECK_DEADLOCK FALSE
INVARIANTS
  SuperStays
  TicketOnce
  LinksOpenRequests
PROPERTIES
  ReleaseHistory
  CommandsFollowView
  PublicationHistory
  AnswerKeepsOpen
