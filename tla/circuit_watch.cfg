CONSTANTS
  PolicyCount = 4
  Pattern <- MCPattern
  HasBreaker = {1, 3, 4}
  Tools = {"get_a", "put_b", "del_c"}
  Matches <- MCMatches
  Room = 2
  MaxEvents = 5
SPECIFICATION FairSpec
INVARIANTS TypeOK GaugeNeverLies TransitionsAddUp
PROPERTIES GaugeCatchesUp
CHECK_DEADLOCK FALSE
