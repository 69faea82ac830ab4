CONSTANTS
  MaxIdLength = 4
  IntMax = 7
  DefaultTimeout = 5
  PortMax = 65535
  Files <- MCFiles
  Lines <- MCLines
  Documents <- MCDocuments
  Environments <- MCEnvironments
  Configurations <- MCConfigurations
  Options <- MCOptions
SPECIFICATION LaunchSpec
\* A program exits.
CHECK_DEADLOCK FALSE
INVARIANTS LaunchTypeOK OnlyValidIsContacted ConstructedAsWritten ExpansionIsSinglePass
