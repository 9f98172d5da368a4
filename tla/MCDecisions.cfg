SPECIFICATION DecisionsSpec
CONSTANTS
  EntrySets <- MCEntrySets
  WindowSets <- MCWindowSets
  None = None
  Kinds = {"broker_state", "ledger_close"}
  Providers = {"p1", "p2"}
  KindOf <- MCKindOf
  Histories <- MCHistories
  Absent = Absent
  MaxPackets = 2
  Intents = {"i1", "i2"}
  MaxRecords = 3
  Positions <- MCPositions
  Pending = {0, 2}
  Limits = {1, 3}
  Multipliers = {5000, 10000}
  BreachSets <- MCBreachSets
  NoRequest = NoRequest
  NetPositions <- MCNetPositions
  Tolerances <- MCTolerances
  WorkingOrders = {"o1"}
  Fills = {"f1"}
  Permissions = {"tradeable", "withdrawn"}
  NoArtifact = NoArtifact
  NoEvaluation = NoEvaluation
  Targets = {"opsd", "broker_gateway"}
  MaxSightings = 2
  MaxAttempts = 4
  NoSubject = NoSubject
  Vectors <- MCVectors
  Declarations <- MCDeclarations
  Blank = Blank
  ValidationRequests <- MCValidations
  Publications <- MCPublications
  Certifications <- MCCertifications
  Bindings <- MCBindings
  NotSubmitted = NotSubmitted
  Releases = {"d1"}
  Corrections <- MCCorrections
  NoCorrection = NoCorrection
  NoReport = NoReport
  Runs = {"r1", "r2"}
  Families = {"f1", "f2"}
  DecisionIds = {"d1"}
  RunSubmissions <- MCRunSubmissions
  DecisionSubmissions <- MCDecisionSubmissions
  NotRecorded = NotRecorded
  MaxAudit = 4
  Payloads = {"x", "y"}
  Artifacts = {"a1"}
  NoPacket = NoPacket
  MaxPacketTime = 2
  MaxHeldPackets = 1
  MaxPromotions = 3
  Bundles <- MCBundles
  Registrations <- MCRegistrations
  ReplayContexts <- MCReplayContexts
  Preflights <- MCPreflights
  PacketShapes <- MCPacketShapes
  NotScreened = NotScreened
  FeatureRequests <- MCFeatureRequests
  RollRequests <- MCRollRequests
  NotAsked = NotAsked
  Deployments = {"d1", "d2"}
  Incidents = {"n1"}
  MaxStarts = 2
  LaneReadings <- MCLaneReadings
  FidelityReadings <- MCFidelityReadings
  EarlyRequests <- MCEarlyRequests
  FastRequests <- MCFastRequests
  BarRequests <- MCBarRequests
  NoReference = NoReference
  NotBuilt = NotBuilt
  NaN = NaN
INVARIANTS
  SlicesFollowTheSchedule
  WorseIsNeverMilder
  EmergenciesFailSafe
  RestartsAreCounted
  LadderIsClimbedAgain
  FaultsArePropagated
  ReferencesResolve
  AuditRebuildsTheStore
  ReplayedIsWhatWasFrozen
  LanesAreEarned
  EntriesAreCurrent
  DecisionsTypeOK
PROPERTIES
  RecordsStand
  DriftIsDeclared
CHECK_DEADLOCK FALSE
