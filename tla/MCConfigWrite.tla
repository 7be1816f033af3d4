--------------------------- MODULE MCConfigWrite ---------------------------
(* ConfigWrite with whole groups: flush (its interval, stored finer than it *)
(* is shown, and its duration by number, its flag by switch), the           *)
(* thresholds of the water group (by number), sleep (its window by time,    *)
(* its flag by switch), and the units of the device row (by select).        *)
EXTENDS ConfigWrite

CONSTANTS
    number, switch, time, select,
    cleanCycle, cleanTime, fillWashState,
    dayMinWater, dayMaxWater,
    sleepStart, sleepEnd, sleepState,
    units

MCGroup ==
    [f \in Fields |-> CASE f \in {cleanCycle, cleanTime, fillWashState} -> "flush"
                        [] f \in {dayMinWater, dayMaxWater} -> "water"
                        [] f \in {sleepStart, sleepEnd, sleepState} -> "sleep"
                        [] f = units -> "units"]

MCWrittenBy ==
    [f \in Fields |-> CASE f \in {fillWashState, sleepState} -> switch
                        [] f \in {sleepStart, sleepEnd} -> time
                        [] f = units -> select
                        [] OTHER -> number]

\* BowlConfig.from_api reads the others as None.
MCZeroDefault == Fields \cap {cleanCycle, dayMinWater, dayMaxWater, sleepStart, sleepEnd}

MCScale == [f \in Fields |-> IF f = cleanCycle THEN 2 ELSE 1]

\* What the flush duration is set to matters to nobody here: it only has to
\* be there.
MCAsked ==
    [f \in Fields |-> CASE f = cleanCycle -> {1, 2}
                        [] f = cleanTime -> {}
                        [] f \in {fillWashState, sleepState} -> {0}
                        [] f \in {dayMinWater, dayMaxWater} -> {0}
                        [] f \in {sleepStart, sleepEnd} -> {1}
                        [] f = units -> {2}]

\* The interval is one and a half of the unit it is shown in.
MCInitial ==
    [f \in Fields |-> CASE f \in {cleanCycle, dayMaxWater, sleepEnd} -> 3
                        [] f \in {dayMinWater, sleepStart} -> 2
                        [] OTHER -> 1]

MCThresholds == {<<dayMinWater, dayMaxWater>>} \cap (Fields \X Fields)

----------------------------------------------------------------------------
(* The conversions against what they are meant to be, on small inputs.     *)

\* The largest number of whole units.
ASSUME ShownIsFloor ==
    \A scale \in 1 .. 7, raw \in 0 .. 60 :
        Shown(scale, raw) = CHOOSE n \in 0 .. raw : n * scale <= raw /\ (n + 1) * scale > raw

\* The minute of the day a clock shows that started at midnight.
ASSUME MinutesAreTheClock ==
    \A minutes \in {0, 1, 59, 60, 719, 1439, 1440, 1441, 2000} :
        MinutesToTime(minutes) =
            CHOOSE t \in Time : (minutes - TimeToMinutes(t)) \in {0, 1440}

\* The whole hour nearest on the side of zero.
ASSUME OffsetIsTruncated ==
    \A hours \in -12 .. 14, rest \in {0, 1800, 2700} :
        /\ OffsetHours(hours * 3600 + rest) = IF hours < 0 /\ rest > 0 THEN hours + 1 ELSE hours

============================================================================
