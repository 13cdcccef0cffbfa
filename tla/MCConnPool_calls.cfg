CONSTANTS
  c1 = c1
  c2 = c2
  Client = {c1, c2}
  Main = Main
  Maint = Maint
  Configs <- SmallConfigs
  Uses <- AllUses
  eviction_ch_cap = 1
  NumConn = 6
SPECIFICATION FairSpec
INVARIANTS TypeOK PoolConsistent ActiveCounted NoLeak
PROPERTY CallsReturn
CHECK_DEADLOCK FALSE
