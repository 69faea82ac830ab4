CONSTANTS
  l1 = l1
  Listers = {l1}
  UpstreamCount = 2
  Families = {"templates", "prompts"}
  Unmergeable = {"prompts"}
  MaxClears = 1
  MaxFaults = 1
SPECIFICATION FairCatalogSpec
INVARIANTS CachedIsExact QuietInvalidationIsFresh AskedCompletesRecord
PROPERTIES PollingFillsCache
