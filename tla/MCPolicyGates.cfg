SPECIFICATION GatesSpec
CONSTANTS
  Candidates = {"c1", "c2"}
  Accesses <- MCAccesses
  Incidents <- MCIncidents
  ProtocolRequests <- MCProtocolRequests
  TuningBatches <- MCTuningBatches
  NoDecision = NoDecision
  FinalistCap = 2
  MaxBatches = 3
  MaxAccesses = 2
  FundedFamilies = {"f1", "f2"}
  NoFunding = NoFunding
  BudgetLimits <- MCBudgetLimits
  BudgetRequests = {0, 1, 2, 3}
  ClosureReviews <- MCClosureReviews
  MaxSpend = 1
  MaxDecisions = 2
  NoAssessment = NoAssessment
  SignalSets <- MCSignalSets
  RecoveryRequests <- MCRecoveryRequests
  LedgerCloses <- MCLedgerCloses
  RestoreDrills <- MCRestoreDrills
  Labels <- MCLabels
  Reporters = {"watchdog", "guardian", "broker"}
  RequiredPaths <- MCRequiredPaths
  MaxPathEvents = 2
  NoCertificate = NoCertificate
  Traces <- MCTraces
  ReplayTerms <- ReplayCertificationRequest
  ParityStudies <- MCParityStudies
  Calibrations <- MCCalibrations
  StageBatches <- MCStageBatches
  OvernightBatches <- MCOvernightBatches
  StageTerms <- MCStageTerms
  MaxEvidence = 2
  MaxEvidenceTime = 2
  Finalists = {"c1", "c2"}
  NoEvidence = NoEvidence
  Screens <- MCScreens
  SymbolCertifications <- MCSymbolCertifications
  FitRequests <- MCFitRequests
  DollarRequests <- MCDollarRequests
  SelectionTerms <- MCSelectionTerms
  MaxFitReports = 2
  MaxFitTime = 1
  NoExpiry = NoExpiry
  EnvelopeProfile <- MCEnvelopeProfile
  RiskProfiles <- MCRiskProfiles
  EnvelopeReadings <- MCEnvelopeReadings
  EnvelopeCalls <- MCEnvelopeCalls
  LaneDefaults <- MCLaneDefaults
  LaneOrders <- MCLaneOrders
  OvernightRequests <- MCOvernightRequests
  EngineQuestions <- MCEngineQuestions
  LaneSessions = {"overnight", "regular_comex", "degraded_data"}
  WaiverOffers <- MCWaiverOffers
  MaxLaneWaivers = 2
  MaxLaneTime = 2
  MaxLanePosition = 2
  NoBound = NoBound
  NotANumber = NotANumber
  NoLaneRecord = NoLaneRecord
  Operator = "op"
  StepForms <- MCStepForms
  ExceptionCases <- MCExceptionCases
  CoolingOff = 1
  MaxSteps = 3
INVARIANTS
  RunsAnswerForOneBatch
  SpendingIsGoverned
  EntriesRestOnEvidence
  PassedPathsAreWhole
  EvidencePrecedesTrading
  AdvancesOnOneSymbol
  RiskIsGoverned
  GatesTypeOK
PROPERTIES
  ContaminationIsFinal
CHECK_DEADLOCK FALSE
