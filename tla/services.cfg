CONSTANTS
  NumRecords = 2
  MaxRev = 3
  MaxBoot = 4
  MayFlip = {"settled", "publishing"}
  k1 = k1
  k2 = k2
  k3 = k3
  NumReports = 3
  Keys = {k1, k2, k3}
  KeyOf <- MCKeyOf
  CorroborationKeys = 2
  NegationKeys = 2
  MaxHops = 2
  MaxEvents = 2
  Callers = {c1, c2}
  Processes = {c1, c2}
  ProcessOf <- MCProcessOf
  Nobody = Nobody
  MaxIssued = 3
SPECIFICATION ServicesSpec
INVARIANTS SettledInSync ErasedEnds HeadFound WitnessesExact ReportsMeet GrantIsTrue StoredBeforeUsed
PROPERTIES NothingGoesOut NoReportLost
SYMMETRY Symmetry
CHECK_DEADLOCK FALSE
