CONSTANTS
  Thread = {1, 2, 3, 4}
  Uses <- AllUses
  MaxCalls = 2
SPECIFICATION FairSpec
INVARIANTS TypeOK ExactlyOnce SlotOrder TokenMeansSpace NobodyWaitsInVain ClosedMeansDrained PartnerIsThere
PROPERTY CloseReleasesReaders
CHECK_DEADLOCK FALSE
