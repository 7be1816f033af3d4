---------------------------- MODULE Conversions ----------------------------
(***************************************************************************)
(* The conversions between what the vendor sends and what an entity shows: *)
(* pure functions of integers.  The numbers of the wire are naturals, but  *)
(* for the time zone's offset.                                             *)
(***************************************************************************)
EXTENDS Integers

CONSTANT None       \* unknown, disabled, or not an option

MinutesPerHour == 60
HoursPerDay == 24
SecondsPerHour == 3600
DeviceType9Inch == 0
DeviceType7Inch == 1
UnitsFluidOunces == 2

----------------------------------------------------------------------------
(* A setting stored in seconds and shown in minutes, days or months: scale *)
(* seconds are one of them.  A setting shown as it is stored has scale 1.  *)

Shown(scale, raw) == raw \div scale

\* Faulty variant: the setter without the guard (the vendor's own app).
SetAlways(scale, raw, value) == value * scale

\* _unchanged_keeps_raw: the value on display changes nothing.
SetShown(scale, raw, value) ==
    IF Shown(scale, raw) = value THEN raw ELSE value * scale

----------------------------------------------------------------------------
(* Times of day.                                                           *)

Time == [hour : 0 .. HoursPerDay - 1, minute : 0 .. MinutesPerHour - 1]

MinutesToTime(minutes) ==
    [hour |-> (minutes \div MinutesPerHour) % HoursPerDay, minute |-> minutes % MinutesPerHour]

TimeToMinutes(time) == time.hour * MinutesPerHour + time.minute

----------------------------------------------------------------------------
(* The enums.  A device type outside its enum is shown as 9 inches where   *)
(* nobody acts on it, and as no option where it could be "corrected".      *)

BowlSizeInches(deviceType) == IF deviceType = DeviceType7Inch THEN 7 ELSE 9

DeviceTypeOf(inches) == IF inches = 7 THEN DeviceType7Inch ELSE DeviceType9Inch

BowlSizes == {7, 9}

BowlSizeOption(deviceType) ==
    IF \E inches \in BowlSizes : DeviceTypeOf(inches) = deviceType
    THEN CHOOSE inches \in BowlSizes : DeviceTypeOf(inches) = deviceType
    ELSE None

WaterUnit(units) == IF units = UnitsFluidOunces THEN "fl. oz." ELSE "mL"

\* _int_flag: an absent flag is unknown, not off.
IntFlag(value) == IF value = None THEN None ELSE value = 1

----------------------------------------------------------------------------
(* The filter, and the thresholds.                                         *)

\* _filter_seconds_remaining: floored at zero, and unknown when the bowl
\* does not track its filter.
FilterSecondsLeft(canUse, used) ==
    IF canUse = 0 THEN None ELSE IF used < canUse THEN canUse - used ELSE 0

\* filter_life_percent: left of whole, times a hundred.
FilterLife(canUse, used) ==
    IF canUse = 0 THEN None ELSE [left |-> FilterSecondsLeft(canUse, used), whole |-> canUse]

\* to_water_payload: the thresholds it does not raise for.
WaterPair(min, max) == (min = 0 /\ max = 0) \/ min < max

----------------------------------------------------------------------------

\* ha_utc_offset_hours: truncated toward zero, not floored.
OffsetHours(seconds) ==
    IF seconds >= 0 THEN seconds \div SecondsPerHour ELSE - ((- seconds) \div SecondsPerHour)

============================================================================
