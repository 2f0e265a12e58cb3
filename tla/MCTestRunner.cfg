SPECIFICATION Spec
CONSTANTS
  UINT64_RANGE = 8
  MaxJobs = 4
  global_seed = 6
  Suites <- MCSuites
  Filters <- MCFilters
INVARIANTS TypeOK WorkTiled PoolExact ReportExact
PROPERTY AllReported
