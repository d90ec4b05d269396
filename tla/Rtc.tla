-------------------------------- MODULE Rtc --------------------------------
(***************************************************************************)
(* The wall clock: the real-time clock driver (src/modules/rtc/rtc.c) and  *)
(* the conversions between calendar and Unix time (src/kernel/sys/time.c). *)
(* The chip raises an interrupt after each of its updates; rtc_handler     *)
(* reads its registers and sets the kernel's time.                         *)
(*                                                                         *)
(* The chip's calendar is followed from day to day by the Gregorian rule   *)
(* for the next day, which the arithmetic of time.c is checked against.    *)
(***************************************************************************)
EXTENDS Integers

CONSTANTS
    Formats,     \* the chips: whether status register B says binary and hour24, and
                 \* FADT->century that there is a century register; bound: its lastYear
    FirstYear,   \* bound: the year in which the driver is attached
    Tods         \* bound: times of day, in seconds, at which the chip is read

VARIABLES
    fmt,                \* the chip
    year, month, day,   \* its date
    daysSinceEpoch,     \* the days from 1970-01-01 to that date
    tod,                \* the chip's time of day in seconds
    kernelTime,         \* kernelTime.sec; OVERFLOW after an int overflow
    attached            \* the driver has been attached

vars == <<fmt, year, month, day, daysSinceEpoch, tod, kernelTime, attached>>

OVERFLOW == -1

Leap(y) == y % 4 = 0 /\ (y % 100 # 0 \/ y % 400 = 0)

MonthDays(y, m) ==
    IF m = 2 THEN (IF Leap(y) THEN 29 ELSE 28) ELSE IF m \in {4, 6, 9, 11} THEN 30 ELSE 31

-----------------------------------------------------------------------------
(* time.c                                                                  *)

_time_days_from_civil(y0, m, d) ==
    LET y == IF m <= 2 THEN y0 - 1 ELSE y0
        era == y \div 400
        yoe == y - era * 400
        doy == ((153 * (IF m > 2 THEN m - 3 ELSE m + 9) + 2) \div 5) + d - 1
        doe == (yoe * 365) + (yoe \div 4) - (yoe \div 100) + doy
    IN  (era * 146097) + doe - 719468

\* Variant: the last day of a 400-year cycle is not treated apart.
CivilFromDaysNoCycle(days) ==
    LET time == days + 719468
        era == time \div 146097
        doe == time - era * 146097
        yoe == (doe - (doe \div 1460) + (doe \div 36524)) \div 365
        doy == doe - ((365 * yoe) + (yoe \div 4) - (yoe \div 100))
        mp == ((5 * doy) + 2) \div 153
        m == IF mp < 10 THEN mp + 3 ELSE mp - 9
        y == yoe + era * 400
    IN  <<IF m <= 2 THEN y + 1 ELSE y, m, doy - (((153 * mp) + 2) \div 5) + 1>>

_time_civil_from_days(days) ==
    LET time == days + 719468
        era == time \div 146097
        doe == time - era * 146097
        yoe == (doe - (doe \div 1460) + (doe \div 36524) - (doe \div 146096)) \div 365
        doy == doe - ((365 * yoe) + (yoe \div 4) - (yoe \div 100))
        mp == ((5 * doy) + 2) \div 153
        m == IF mp < 10 THEN mp + 3 ELSE mp - 9
        y == yoe + era * 400
    IN  <<IF m <= 2 THEN y + 1 ELSE y, m, doy - (((153 * mp) + 2) \div 5) + 1>>

\* The sum is computed in int, as are the 86400-second days.
FitsInt(days, secs) ==
    IF days >= 0 THEN days < 24855 \/ (days = 24855 /\ secs <= 11647) ELSE days > -24855

time_conv_to_unix64(t) ==
    LET days == _time_days_from_civil(t.year, t.month, t.dayOfMonth)
        secs == (t.hours * 60 * 60) + (t.minutes * 60) + t.seconds
    IN  IF FitsInt(days, secs) THEN (days * 86400) + secs ELSE OVERFLOW

time_conv_to_systime64(sec) ==
    LET date == _time_civil_from_days(sec \div (60 * 60 * 24))
    IN  [seconds |-> sec % 60, minutes |-> (sec \div 60) % 60,
         hours |-> (sec \div (60 * 60)) % 24,
         dayOfMonth |-> date[3], month |-> date[2], year |-> date[1]]

-----------------------------------------------------------------------------
(* rtc.c                                                                   *)

\* The chip: a value in its data format, and the hours with the PM bit.
Encoded(v) == IF fmt.binary THEN v ELSE 16 * (v \div 10) + (v % 10)

EncodedHours(h) ==
    IF fmt.hour24 THEN Encoded(h)
    ELSE Encoded(IF h % 12 = 0 THEN 12 ELSE h % 12) + (IF h >= 12 THEN 128 ELSE 0)

\* ((bcd & 0xF0) >> 1) + ((bcd & 0xF0) >> 3) + (bcd & 0x0F)
rtc_bcd_to_bin(bcd) == (8 * (bcd \div 16)) + (2 * (bcd \div 16)) + (bcd % 16)

Decoded(v) == IF fmt.binary THEN v ELSE rtc_bcd_to_bin(v)

To24(h) == IF ~fmt.hour24 /\ h >= 128 THEN ((h - 128) + 12) % 24 ELSE h

\* What rtc_handler assembles from the registers when the chip shows this time.
ReadTime(y, m, d, t) ==
    LET century == IF fmt.century THEN Encoded(y \div 100) ELSE 19
    IN  [seconds |-> Decoded(Encoded(t % 60)),
         minutes |-> Decoded(Encoded((t \div 60) % 60)),
         hours |-> To24(Decoded(EncodedHours(t \div 3600))),
         dayOfMonth |-> Decoded(Encoded(d)), month |-> Decoded(Encoded(m)),
         year |-> (Decoded(century) * 100) + Decoded(Encoded(y % 100))]

\* The time is set only through the interrupt that attach asks for.
rtc_handler ==
    /\ attached
    /\ kernelTime' = time_conv_to_unix64(ReadTime(year', month', day', tod'))
    /\ UNCHANGED <<fmt, attached>>

Init ==
    /\ year = FirstYear /\ month = 1 /\ day = 1
    /\ daysSinceEpoch = 365 * (FirstYear - 1970)
          + ((FirstYear - 1969) \div 4) - ((FirstYear - 1901) \div 100) + ((FirstYear - 1601) \div 400)
    /\ fmt \in Formats /\ tod \in Tods
    /\ kernelTime = 0 /\ attached = FALSE

attach ==
    /\ ~attached
    /\ attached' = TRUE
    /\ UNCHANGED <<fmt, year, month, day, daysSinceEpoch, tod, kernelTime>>

\* The chip finishes an update later on the same day, ...
UpdateSameDay ==
    /\ tod' \in {t \in Tods : t > tod}
    /\ UNCHANGED <<year, month, day, daysSinceEpoch>>
    /\ rtc_handler

\* ... or on the next day.
UpdateNextDay ==
    /\ IF day < MonthDays(year, month)
       THEN day' = day + 1 /\ UNCHANGED <<month, year>>
       ELSE /\ day' = 1
            /\ month' = IF month = 12 THEN 1 ELSE month + 1
            /\ year' = IF month = 12 THEN year + 1 ELSE year
    /\ year' <= fmt.lastYear
    /\ daysSinceEpoch' = daysSinceEpoch + 1
    /\ tod' \in Tods
    /\ rtc_handler

Next == attach \/ UpdateSameDay \/ UpdateNextDay

Spec == Init /\ [][Next]_vars

-----------------------------------------------------------------------------

Set == attached /\ kernelTime # 0

Exact == IF FitsInt(daysSinceEpoch, tod) THEN (daysSinceEpoch * 86400) + tod ELSE OVERFLOW

\* The hours that rtc_handler converts rightly: all of a chip in 24-hour format.  In
\* 12-hour format the hour 12 keeps its value in the morning and becomes 24 % 24 = 0
\* in the afternoon, and the BCD conversion removes the PM bit before it is tested.
HourKnown ==
    fmt.hour24 \/ tod \div 3600 \in 1..11 \/ (fmt.binary /\ tod \div 3600 \in 13..23)

\* Without a century register rtc_handler assumes 19, and converts that from BCD too,
\* to 13: such a chip is right in binary and before 2000 only.
CenturyKnown == fmt.century \/ (fmt.binary /\ year \div 100 = 19)

\* For a chip in 24-hour format with a century register, the kernel's time after an
\* interrupt is the number of seconds that have passed since the epoch, through every
\* month end, leap year and century, until 2038-01-19 03:14:08, where the sum in
\* time_conv_to_unix64 leaves int.  Of a chip in 12-hour format it is so at the hours
\* HourKnown names, of one without a century register in the years of CenturyKnown.
KernelTimeExact ==
    Set /\ HourKnown /\ CenturyKnown => kernelTime = Exact

\* rtc.c:87: "if 12 hour format, convert to 24 hour format".  The hour that rtc_handler
\* passes on is the hour of the day, whatever the chip's format.
HoursAre24 == Set => ReadTime(year, month, day, tod).hours = tod \div 3600

\* The calendar that time_conv_to_systime64 computes back from the kernel's time
\* is the chip's, and the two day conversions of time.c are inverses of each other
\* on every day of the years considered.
RoundTrip ==
    /\ Set /\ kernelTime = Exact /\ Exact # OVERFLOW =>
          time_conv_to_systime64(kernelTime) =
              [seconds |-> tod % 60, minutes |-> (tod \div 60) % 60, hours |-> tod \div 3600,
               dayOfMonth |-> day, month |-> month, year |-> year]
    /\ _time_civil_from_days(daysSinceEpoch) = <<year, month, day>>
=============================================================================
