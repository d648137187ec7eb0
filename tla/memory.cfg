SPECIFICATION LiveSpec
CONSTANTS
    Handles = {h1, h2}
    Owners = {o1, o2}
    NoOne = NoOne
    Byte = {0, 1}
    Zero = 0
    Junk = Junk
    Arguments <- SomeArguments
    Offsets <- SomeOffsets
    MaxRequest = 2
    DefaultCapacity = 2
    MaxInt = 5
INVARIANTS InBounds NoJunk NoUseAfterFree
PROPERTIES ImplementsFile GrowthEnds
