------------------------------ MODULE ExcelDates ------------------------------
(***************************************************************************)
(* What a date serial stands for: days_from_civil, civil_from_days,         *)
(* write_date and write_time in crates/leanrows-core/src/xlsx/cell.rs.       *)
(***************************************************************************)
EXTENDS Integers, TLC

\* Days since 1970-01-01 of a date of the Gregorian calendar.
DaysFromCivil(y, month, day) ==
    LET shifted == IF month <= 2 THEN y - 1 ELSE y
        era == shifted \div 400
        ofEra == shifted - era * 400
        index == (month + 9) % 12
        dayOfYear == (153 * index + 2) \div 5 + day - 1
    IN  era * 146097 + ofEra * 365 + ofEra \div 4 - ofEra \div 100 + dayOfYear - 719468

YearOfEra(ofEra) ==
    (ofEra - ofEra \div 1460 + ofEra \div 36524 - ofEra \div 146096) \div 365

CivilAt(y, dayOfYear, index) ==
    [year |-> y + (IF index < 10 THEN 0 ELSE 1),
     month |-> IF index < 10 THEN index + 3 ELSE index - 9,
     day |-> dayOfYear - (153 * index + 2) \div 5 + 1]

CivilInYear(y, dayOfYear) == CivilAt(y, dayOfYear, (5 * dayOfYear + 2) \div 153)

CivilInEra(era, ofEra, y) ==
    CivilInYear(era * 400 + y, ofEra - (365 * y + y \div 4 - y \div 100))

CivilFromDays(days) ==
    LET era == (days + 719468) \div 146097
        ofEra == days + 719468 - era * 146097
    IN  CivilInEra(era, ofEra, YearOfEra(ofEra))

NoDate == [year |-> 0, month |-> 0, day |-> 0]

\* Faulty variant: the days from March 1900 on follow the calendar.
CivilFrom1900(days) == CivilFromDays(DaysFromCivil(1899, 12, 31) + days)

\* The 1900 system has a day 0, and a 29 February 1900 as day 60.
DateIn1900(days) ==
    CASE days = 0 -> [year |-> 1900, month |-> 1, day |-> 0]
      [] days = 60 -> [year |-> 1900, month |-> 2, day |-> 29]
      [] days \in 1 .. 59 -> CivilFromDays(DaysFromCivil(1899, 12, 31) + days)
      [] OTHER -> CivilFromDays(DaysFromCivil(1899, 12, 30) + days)

\* write_date
DateInRange(date) == IF date.year \in 1900 .. 9999 THEN date ELSE NoDate

DateOf(days, date1904) ==
    DateInRange(IF date1904 THEN CivilFromDays(DaysFromCivil(1904, 1, 1) + days)
                ELSE DateIn1900(days))

\* The text of a date and of a time of day; the layout does not matter.
DateText(date) == ToString(<<date.year, date.month, date.day>>)
TimeText(seconds) ==
    ToString(<<"time", seconds \div 3600, (seconds \div 60) % 60, seconds % 60>>)

=============================================================================
