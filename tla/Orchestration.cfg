SPECIFICATION FairSpec
CONSTANTS
  raw = raw
  profile = profile
  mart = mart
  report = report
  missing = missing
  first = first
  second = second
  backfill = backfill
  rawFull = rawFull
  rawStored = rawStored
  profiled = profiled
  built = built
  today = today
  None = None
  Requests = {first, second, backfill}
  Assets = {raw, profile, mart, report, missing}
  Registered = {raw, profile, mart, report}
  Watermarks = {today}
  Outputs = {rawFull, rawStored, profiled, built}
  Dependencies <- MCDependencies
  MaxAttempts <- MCMaxAttempts
  Asset <- MCAsset
  Watermark <- MCWatermark
  Backfills = {backfill}
  Hooked = {backfill}
  Mortal = {backfill}
  Faulty = {backfill}
  Compute <- MCCompute
  Safe <- MCSafe
CHECK_DEADLOCK FALSE
INVARIANTS RowsSound DependenciesFirst SkipsExact
PROPERTIES EveryRunEnds
