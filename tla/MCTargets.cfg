CONSTANTS
    Addresses = 7
    RangeLists <- MCRangeLists
    PortSpecs <- MCPortSpecs
    MaxUint = 1000
    Beyond = 0
    Garbage = Garbage
SPECIFICATION FairSpec
INVARIANTS TypeOK FindsFirst
PROPERTIES RankedTarget PortOwnsPoint SearchEnds
