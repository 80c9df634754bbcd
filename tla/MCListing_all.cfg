CONSTANTS
  NoValue = NoValue
  BodyLength = 3
  MaxPasses = 3
  Tasks <- ListingTasks
SPECIFICATION FairListingSpec
INVARIANTS ListingReassembles ListingClosed
PROPERTIES ListingPrinted
