\* Any two commands of generate and init-db over every kind of volume.
SPECIFICATION FairSpec
CONSTANTS
  g1 = g1
  g2 = g2
  Proc = {g1, g2}
  Commands <- AllCommands
  Earlier = Earlier
  Nothing = Nothing
  Nobody = Nobody
  MaxPuts = 1
  MaxKills = 1
INVARIANTS
  TypeOK
  DoneMeansSwitched
  NoLeakedRows
PROPERTIES
  OnlyIfEmptyNeverReplaces
  RetiredOnlyWhenReplaced
  DivergentEstateKept
  CommandsEnd
CHECK_DEADLOCK FALSE
