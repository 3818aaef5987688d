SPECIFICATION ListSpec
CONSTANTS
  MaxBraceAlternatives = 8
  MaxBraceExpanded = 32
  MaxBraceNestDepth = 4
  MaxPatternSegments = 64
  Jobs <- MCJobs
  Scopes <- MCScopes
  Callers = {"alice", "bob"}
  SubjectOf <- MCSubjectOf
  KeyOf <- MCKeyOf
  Names <- MCNames
  Histories <- MCHistories
  KnownTools = {"jenkins_list_jobs", "jenkins_get_job"}
  JobLabel <- MCJobLabel
  BranchLabel <- MCBranchLabel
  MaxDepth = 1
  ScanNodes = 5
  PageSize = 2
  CollectPages = 2
  Limits = {3}
  Offsets = {0}
  PatternLen = 4
INVARIANTS
  MatchesReference
  AcceptedRulesBite
  ListAgreesWithCalls
  PagesAddUp
  TokensStayWithSubject
CHECK_DEADLOCK FALSE
