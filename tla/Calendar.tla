------------------------------ MODULE Calendar ------------------------------
(***************************************************************************)
(* The calendar of rtc_calendar.c: civil time to and from minutes since    *)
(* 1970, and the registers of the PCF8563.                                 *)
(*                                                                         *)
(* Time is counted in minutes, not seconds: what a person sets has no      *)
(* seconds, and the year 2099 in seconds is beyond TLC's integers.  The    *)
(* year is 1900 to 2099 as in the code, the divisions of negative numbers  *)
(* round down, which is what the corrections of the C code come to.        *)
(***************************************************************************)
EXTENDS Integers, Sequences

MinutesPerDay == 1440

(* What a function that fails returns instead of a time.                   *)
NoTime == [year |-> 0]

LeapYear(y) == y % 4 = 0 /\ (y % 100 # 0 \/ y % 400 = 0)

DaysInMonth(y, m) ==
  IF m = 2 /\ LeapYear(y)
  THEN 29
  ELSE <<31, 28, 31, 30, 31, 30, 31, 31, 30, 31, 30, 31>>[m]

OffsetValid(offset) == offset \in -1439..1439

CalendarValid(t) ==
  /\ t.year \in 1900..2099
  /\ t.month \in 1..12
  /\ t.day \in 1..DaysInMonth(t.year, t.month)
  /\ t.hour \in 0..23
  /\ t.minute \in 0..59
  /\ t.weekday \in 0..6
  /\ OffsetValid(t.offset)

(* Years begin in March, so that the leap day is the last of its year.     *)
DaysFromCivil(y, m, d) ==
  LET adjusted == IF m <= 2 THEN y - 1 ELSE y
      era == adjusted \div 400
      yearOfEra == adjusted - era * 400
      shifted == IF m > 2 THEN m - 3 ELSE m + 9
      dayOfYear == (153 * shifted + 2) \div 5 + d - 1
      dayOfEra == yearOfEra * 365 + yearOfEra \div 4 - yearOfEra \div 100 + dayOfYear
  IN  era * 146097 + dayOfEra - 719468

ToUnix(t) ==
  DaysFromCivil(t.year, t.month, t.day) * MinutesPerDay
    + t.hour * 60 + t.minute - t.offset

CivilFromDays(days) ==
  LET z == days + 719468
      era == z \div 146097
      dayOfEra == z - era * 146097
      yearOfEra == (dayOfEra - dayOfEra \div 1460 + dayOfEra \div 36524
                      - dayOfEra \div 146096) \div 365
      dayOfYear == dayOfEra - (365 * yearOfEra + yearOfEra \div 4 - yearOfEra \div 100)
      shifted == (5 * dayOfYear + 2) \div 153
      month == IF shifted < 10 THEN shifted + 3 ELSE shifted - 9
  IN  [year |-> yearOfEra + era * 400 + IF month <= 2 THEN 1 ELSE 0,
       month |-> month,
       day |-> dayOfYear - (153 * shifted + 2) \div 5 + 1]

FromUnix(minutes, offset) ==
  LET local == minutes + offset
      days == local \div MinutesPerDay
      ofDay == local % MinutesPerDay
      civil == CivilFromDays(days)
  IN  IF OffsetValid(offset) /\ civil.year \in 1900..2099
      THEN [year |-> civil.year, month |-> civil.month, day |-> civil.day,
            hour |-> ofDay \div 60, minute |-> ofDay % 60,
            weekday |-> (days + 4) % 7, offset |-> offset]
      ELSE NoTime

-----------------------------------------------------------------------------
(* The registers: binary coded decimals, the century in the month's top    *)
(* bit, minute to year in the order of the chip.                           *)

ToBcd(v) == (v \div 10) * 16 + (v % 10)
FromBcd(b) == (b \div 16) * 10 + (b % 16)
ValidBcd(b) == b % 16 <= 9 /\ b \div 16 <= 9

(* Mutant: the century is not written.                                     *)
EncodeNoCentury(utc) ==
  <<ToBcd(utc.minute), ToBcd(utc.hour), ToBcd(utc.day), ToBcd(utc.weekday),
    ToBcd(utc.month), ToBcd(utc.year % 100)>>

Encode(utc) ==
  <<ToBcd(utc.minute), ToBcd(utc.hour), ToBcd(utc.day), ToBcd(utc.weekday),
    ToBcd(utc.month) + (IF utc.year < 2000 THEN 128 ELSE 0), ToBcd(utc.year % 100)>>

(* The chip lost its supply: the low-voltage bit is set and the time is    *)
(* refused whatever it says.                                               *)
LowVoltage == <<>>

Decode(regs) ==
  IF regs = LowVoltage \/ \E i \in 1..6 : ~ValidBcd(regs[i] % (IF i = 5 THEN 32 ELSE 256))
  THEN NoTime
  ELSE LET t == [year |-> (IF regs[5] >= 128 THEN 1900 ELSE 2000) + FromBcd(regs[6]),
                 month |-> FromBcd(regs[5] % 32), day |-> FromBcd(regs[3]),
                 hour |-> FromBcd(regs[2]), minute |-> FromBcd(regs[1]),
                 weekday |-> FromBcd(regs[4]), offset |-> 0]
       IN  IF CalendarValid(t) THEN t ELSE NoTime

ReadLocal(regs, offset) ==
  LET utc == Decode(regs)
  IN  IF utc = NoTime THEN NoTime ELSE FromUnix(ToUnix(utc), offset)

-----------------------------------------------------------------------------
(* The editor of the Set Time screen: year, month, day, hour, minute.      *)

LastDay(t) == DaysInMonth(t.year, t.month)

(* v moved by delta within a ring of values.                               *)
Cycled(v, delta, lo, hi) ==
  IF v + delta > hi THEN lo ELSE IF v + delta < lo THEN hi ELSE v + delta

Moved(t, field, delta) ==
  CASE field = 0 -> [t EXCEPT !.year = Cycled(@, delta, 2000, 2099)]
    [] field = 1 -> [t EXCEPT !.month = Cycled(@, delta, 1, 12)]
    [] field = 2 -> [t EXCEPT !.day = Cycled(@, delta, 1, LastDay(t))]
    [] field = 3 -> [t EXCEPT !.hour = (@ + delta + 24) % 24]
    [] OTHER     -> [t EXCEPT !.minute = (@ + delta + 60) % 60]

(* The day is cut to the month, and the weekday recomputed.                *)
AdjustManualTime(t, field, delta) ==
  LET moved == Moved(t, field, delta)
      cut == [moved EXCEPT !.day = IF @ > LastDay(moved) THEN LastDay(moved) ELSE @]
      normal == FromUnix(ToUnix(cut), cut.offset)
  IN  IF normal = NoTime THEN cut ELSE normal
=============================================================================
