SPECIFICATION CachedSpec
CONSTANTS
  gateway = gateway
  verify1 = verify1
  verify2 = verify2
  clean = clean
  invented = invented
  broken = broken
  CPEs = {gateway, verify1, verify2, clean, invented, broken}
  MatchOf <- MCMatchOf
  Malformed = "malformed"
  CVEsOf <- MCCVEsOf
  Registered <- MCRegistered
  Score <- MCScore
  MaxCPEs = 3
  ResultsPerCPE = 3
  MaxPerPage = 2
  Entities <- MCEntities
INVARIANTS
  NoneExist
