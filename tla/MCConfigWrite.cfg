CONSTANTS
    number = number
    switch = switch
    time = time
    select = select
    cleanCycle = cleanCycle
    cleanTime = cleanTime
    fillWashState = fillWashState
    dayMinWater = dayMinWater
    dayMaxWater = dayMaxWater
    sleepStart = sleepStart
    sleepEnd = sleepEnd
    sleepState = sleepState
    units = units
    Platforms = {number, switch, select}
    Fields = {cleanCycle, cleanTime, fillWashState, dayMinWater, dayMaxWater, units}
    RowFields = {units}
    Group <- MCGroup
    WrittenBy <- MCWrittenBy
    ZeroDefault <- MCZeroDefault
    Scale <- MCScale
    Thresholds <- MCThresholds
    Asked <- MCAsked
    Initial <- MCInitial
    None = none
    VendorLags = TRUE
    MaxWrites = 3
    MaxFaults = 2
SPECIFICATION FairSpec
INVARIANT TypeOK
INVARIANT NothingBlanked
INVARIANT CacheShowsOnlyHeld
INVARIANT NoDrift
INVARIANT ThresholdsHeld
PROPERTY EventuallyCoherent
