SPECIFICATION Spec
CONSTANTS
  Cards <- AllCards
  CompModes = {"NFC", "EMV", "ISO"}
  FSDIs = {2, 8}
  DIDs <- NoDid
  MaxBRs = {1, 2, 3}
  MaxRetriesRATS = 1
  ApduLens = {12, 14, 30, 254, 600}
INVARIANTS ParametersAgree BestRates GuardTimeKept
PROPERTIES RatesFollowCard
