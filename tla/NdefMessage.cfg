SPECIFICATION Spec
CONSTANTS
  AppRecords = {r1}
  PoolSize = 2
  ShortMax = 4
  TypeObjects = {t1}
  Null = Null
  Values <- MCValues
  Raw <- MCRaw
  Ids <- MCIds
  Payloads <- MCPayloads
  UriPrefix <- MCUriPrefix
  Foreign <- MCForeign
  Cuts = {0, 1}
INVARIANT WellFramed LengthIsEncoded RoundTrip
