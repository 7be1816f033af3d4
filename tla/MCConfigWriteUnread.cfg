CONSTANTS
    number = number
    switch = switch
    time = time
    select = select
    cleanCycle = cleanCycle
    cleanTime = cleanTime
    fillWashState = fillWashState
    dayMinWater = dayMinWater
    dayMaxWater = dayMaxWater
    sleepStart = sleepStart
    sleepEnd = sleepEnd
    sleepState = sleepState
    units = units
    Platforms = {time, switch}
    Fields = {sleepStart, sleepEnd, sleepState}
    RowFields = {}
    Group <- MCGroup
    WrittenBy <- MCWrittenBy
    ZeroDefault <- MCZeroDefault
    Scale <- MCScale
    Thresholds <- MCThresholds
    Asked <- MCAsked
    Initial <- MCInitial
    None = none
    VendorLags = FALSE
    MaxWrites = 1
    MaxFaults = 1
SPECIFICATION Spec
INVARIANT VendorHoldsOnlyChosen
