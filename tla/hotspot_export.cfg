SPECIFICATION Spec
CONSTANTS
    Names <- EightBuckets
    Tables <- SmallAndWide
    ActivityUnit = 10
    ChipSize = 4000000
    BasePower = 5
    DynamicScale = 2
    Missing = Missing
INVARIANTS ColumnsMatchBlocks ColumnsAreCanonical StripesMeet PowerFollowsActivity
