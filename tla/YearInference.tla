---------------------------- MODULE YearInference ----------------------------
(***************************************************************************)
(* How src/app/parsing/formats/autosupport_format.py dates a log whose     *)
(* time stamps carry no year: backwards from a reference time, the file's  *)
(* mtime.                                                                  *)
(*                                                                         *)
(* A time is an integer, in UTC, and its unit is about a day: a clock with *)
(* an offset of one is in another day than Greenwich.  A year has          *)
(* YearLength units, of which the one at LeapUnit only exists in leap      *)
(* years, every fourth one.  A stamp is what a line of the file says: the  *)
(* place within the year on the clock of the cluster, and that clock's     *)
(* offset from UTC.                                                        *)
(***************************************************************************)
EXTENDS Integers, Sequences, SequencesExt

CONSTANTS
    YearLength,          \* units of a leap year
    LeapUnit,            \* the unit that stands for February 29
    _FUTURE_SLACK,       \* how far after the reference the newest line may be
    _ROLLOVER_TOLERANCE, \* how far out of order two lines may be
    NoTime               \* None: a line without a readable time

ASSUME CalendarAssumption ==
    /\ YearLength \in Nat \ {0, 1}
    /\ LeapUnit \in 0..(YearLength - 1)
    /\ _FUTURE_SLACK \in Nat
    /\ _ROLLOVER_TOLERANCE \in Nat
    /\ NoTime \notin Int \cup [place : Int, offset : Int]

IsLeap(year) == year % 4 = 0

\* The first unit of a year.
NewYear(year) == year * (YearLength - 1) + (year + 3) \div 4

YearOf(time) ==
    CHOOSE year \in 0..time : NewYear(year) <= time /\ time < NewYear(year + 1)

\* The line that is written at a time, on a clock with an offset.
Stamp(time, offset) ==
    LET year  == YearOf(time + offset)
        place == time + offset - NewYear(year)
    IN  [place |-> IF ~IsLeap(year) /\ place >= LeapUnit THEN place + 1 ELSE place,
         offset |-> offset]

\* datetime() raises on February 29 of a year that has none.
_build(stamp, year) ==
    IF stamp.place = LeapUnit /\ ~IsLeap(year)
    THEN NoTime
    ELSE NewYear(year) + stamp.place - stamp.offset
         - (IF stamp.place > LeapUnit /\ ~IsLeap(year) THEN 1 ELSE 0)

-----------------------------------------------------------------------------
(* The walk: `year` is the year the next line is tried with, `later` the   *)
(* date of the line after it, `date` what the line itself was dated.       *)

FaultyAttempts == 4

Attempts == 5

FaultyFits(date, later, reference) ==
    IF later = NoTime THEN date <= reference + _FUTURE_SLACK ELSE date <= later

Fits(date, later, reference) ==
    IF later = NoTime
    THEN date <= reference + _FUTURE_SLACK
    ELSE date <= later + _ROLLOVER_TOLERANCE

\* The year goes back until the line fits; the last attempt stands whether it
\* does or not.
DateLine(stamp, walk, reference) ==
    LET fitting == {k \in 0..(Attempts - 1) :
                       LET date == _build(stamp, walk.year - k)
                       IN  date # NoTime /\ Fits(date, walk.later, reference)}
        used    == IF fitting = {} THEN Attempts - 1
                   ELSE CHOOSE k \in fitting : \A j \in fitting : k <= j
        date    == _build(stamp, walk.year - used)
    IN  [year  |-> IF fitting = {} THEN walk.year - Attempts ELSE walk.year - used,
         later |-> IF date = NoTime THEN walk.later ELSE date,
         date  |-> date]

\* From the last line to the first.  One without a readable stamp gets no date
\* and changes nothing.
WalkOf(stamps, reference) ==
    LET walk[i \in 1..(Len(stamps) + 1)] ==
            IF i > Len(stamps)
            THEN [year |-> YearOf(reference), later |-> NoTime, date |-> NoTime]
            ELSE IF stamps[i] = NoTime THEN [walk[i + 1] EXCEPT !.date = NoTime]
                 ELSE DateLine(stamps[i], walk[i + 1], reference)
    IN  walk

_assign_years(stamps, reference) ==
    LET walk == WalkOf(stamps, reference) IN [i \in DOMAIN stamps |-> walk[i].date]

=============================================================================
