SPECIFICATION Spec
CONSTANTS
  j1 = j1
  j2 = j2
  Job = {j1, j2}
  Concurrency = 1
SYMMETRY Symmetry
INVARIANTS MatchMeansAgreement DangerousIsLogged DisagreementIsRecorded NoVerdictNotCounted
PROPERTY BusyMeansBusy
