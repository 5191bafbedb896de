SPECIFICATION FairSpec
CONSTANTS
  c1 = c1  c2 = c2
  i1 = i1  i2 = i2
  r1 = r1  r2 = r2
  None = None
  Callers <- MCTwoCallers
  Ids <- MCIds
  Rigs <- MCRigs
  ChannelCap = 1
INVARIANTS TypeOK NoLeak OneOwner CommandsTracked
PROPERTIES TakenByCommand ShutdownDrains Linearizable EveryCommandAnswered DevicesDisappear
