---------------------------- MODULE ExcelCalendar ----------------------------
(***************************************************************************)
(* A walk through the calendar, year by year, that the dates of serials are  *)
(* checked against.                                                         *)
(***************************************************************************)
EXTENDS ExcelDates

CONSTANT LastYear   \* the walk ends here, after the last year that is shown

ASSUME CalendarAssumption == LastYear \in Nat

VARIABLES
    calendarYear,   \* the year that the walk is in
    daysBefore      \* days of the years before it, since the end of 1899

dateVars == <<calendarYear, daysBefore>>

(* The calendar as it is defined, with the leap day that Excel gives 1900.   *)

IsLeap(y) == (y % 4 = 0 /\ y % 100 # 0) \/ y % 400 = 0 \/ y = 1900

DaysIn(y, month) ==
    CASE month = 2 -> IF IsLeap(y) THEN 29 ELSE 28
      [] month \in {4, 6, 9, 11} -> 30
      [] OTHER -> 31

\* Days of a year before each of its months, and after the last.
DaysBefore(y) ==
    LET sum[month \in 1 .. 13] ==
            IF month = 1 THEN 0 ELSE sum[month - 1] + DaysIn(y, month - 1)
    IN  sum

\* The walk sets out from the last year that has no dates.
DatesInit == calendarYear = 1899 /\ daysBefore = -365

NextYear ==
    /\ calendarYear < LastYear
    /\ calendarYear' = calendarYear + 1
    /\ daysBefore' = daysBefore + DaysBefore(calendarYear)[13]

\* The first day of 1904 by its number in the 1900 system.
FirstOf1904 == 1462

\* Serials run through the calendar: each month of each year begins and ends on
\* the day that counting from the first day of the system gives, in both date
\* systems, with Excel's 29 February 1900 and day 0 in one of them; and what is
\* outside the years 1900 to 9999 is not a date.
DatesFollowTheCalendar ==
    LET Stands(serial, month, day) ==
            LET date == IF calendarYear > 9999 THEN NoDate
                        ELSE [year |-> calendarYear, month |-> month, day |-> day]
            IN  /\ DateOf(serial, FALSE) = date
                /\ serial >= FirstOf1904 => DateOf(serial - FirstOf1904, TRUE) = date
        first == DaysBefore(calendarYear)
    IN  calendarYear >= 1900 =>
        /\ DateOf(0, FALSE) = [year |-> 1900, month |-> 1, day |-> 0]
        /\ \A month \in 1 .. 12 :
              /\ Stands(daysBefore + first[month] + 1, month, 1)
              /\ Stands(daysBefore + first[month + 1], month, DaysIn(calendarYear, month))

=============================================================================
