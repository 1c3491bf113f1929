SPECIFICATION MatcherSpec
CONSTANTS
  Scripts <- MCScripts
  Letters = {"a", "b"}
  Length = 7
  Fragile <- MCFragile
  MaxDamage = 2
  Number <- MCNumber
  Noise = "noise"
  Unit = 60
  kMinScore = 2
  kMargin = 2
  kMinVotes = 3
  kMaxSpread = 2
  kMinWindows = 3
  Lateness <- MCLateness
  Tolerance = 2
  MaxWindows = 5
INVARIANTS
  DamageIsLocal
  VotesAreRight
  LocksOnLargestAgreement
  FewStraysNoHarm
CHECK_DEADLOCK FALSE
