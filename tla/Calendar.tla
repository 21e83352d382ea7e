------------------------------- MODULE Calendar -------------------------------
(***************************************************************************)
(* The dates of the dashboard (frontend/src/lib/datetime.ts): conversion   *)
(* between the Gregorian and the Jalali calendar, and the month grid of    *)
(* the DatePicker, checked on every day of a walk through both calendars.  *)
(* A JavaScript Date is the number of its local day since 1970-01-01; what *)
(* the engine does with one is modelled by the Gregorian rules.            *)
(***************************************************************************)
EXTENDS Integers, Sequences

CONSTANTS Years,      \* Jalali years on whose first day a walk starts
          Days        \* bound: its length

VARIABLES open,       \* the picker shows the month of today
          today,      \* the day, a Date
          jalali,     \* the same day, counted on by the rules of the calendar
          left        \* days left of the walk

cvars == <<open, today, jalali, left>>

-----------------------------------------------------------------------------
(* The engine's Date.                                                      *)
GregorianLeap(y) == y % 4 = 0 /\ (y % 100 # 0 \/ y % 400 = 0)
GregorianLengths(y) ==
  <<31, IF GregorianLeap(y) THEN 29 ELSE 28, 31, 30, 31, 30, 31, 31, 30, 31, 30, 31>>
DaysBefore(y, m) ==
  <<0, 31, 59, 90, 120, 151, 181, 212, 243, 273, 304, 334>>[m]
  + (IF m > 2 /\ GregorianLeap(y) THEN 1 ELSE 0)
YearStart(y) == 365 * (y - 1970) + (y - 1969) \div 4 - (y - 1901) \div 100
                + (y - 1601) \div 400
\* new Date(y, m - 1, d), for a month and a day that may be out of range
NewDate(y, m, d) ==
  LET year == y + (m - 1) \div 12
  IN  YearStart(year) + DaysBefore(year, ((m - 1) % 12) + 1) + d - 1
DateOf(n) ==
  LET first == 1970 + n \div 366
      y == CHOOSE x \in (first - 1)..(first + 2) :
             YearStart(x) <= n /\ n < YearStart(x + 1)
      m == CHOOSE k \in 1..12 : LET b == YearStart(y) + DaysBefore(y, k)
                                IN  b <= n /\ n < b + GregorianLengths(y)[k]
  IN  [y |-> y, m |-> m, d |-> n - YearStart(y) - DaysBefore(y, m) + 1]
getDay(n) == (n + 4) % 7        \* Sunday is 0

-----------------------------------------------------------------------------
\* floor, as a careless port of the algorithm would have it
divFloor(a, b) == a \div b
(* "jalali-js truncates toward zero (~~), not floor".                      *)
div(a, b) == IF a < 0 THEN -((-a) \div b) ELSE a \div b
mod(a, b) == a - b * div(a, b)

BREAKS == <<-61, 9, 38, 199, 426, 686, 756, 818, 1111, 1181, 1210, 1635, 2060,
            2097, 2192, 2262, 2324, 2394, 2456, 3178>>

(* The leap years up to a break, and the next break after a year.          *)
passed[i \in 1..Len(BREAKS)] ==
  IF i = 1 THEN -14
  ELSE LET jump == BREAKS[i] - BREAKS[i - 1]
       IN  passed[i - 1] + div(jump, 33) * 8 + div(mod(jump, 33), 4)
NextBreak(jy) == CHOOSE i \in 2..Len(BREAKS) : jy < BREAKS[i] /\ jy >= BREAKS[i - 1]

(* The leap years up to jy: leap is 0 in a leap year, march the day of     *)
(* March it begins on.                                                     *)
jalCal(jy) ==
  LET gy    == jy + 621
      k     == NextBreak(jy)
      jp    == BREAKS[k - 1]
      jump  == BREAKS[k] - jp
      n     == jy - jp
      leapJ == passed[k - 1] + div(n, 33) * 8 + div(mod(n, 33) + 3, 4)
               + (IF mod(jump, 33) = 4 /\ jump - n = 4 THEN 1 ELSE 0)
      leapG == div(gy, 4) - div((div(gy, 100) + 1) * 3, 4) - 150
      m     == IF jump - n < 6 THEN n - jump + div(jump + 4, 33) * 33 ELSE n
      leap  == mod(mod(m + 1, 33) - 1, 4)
  IN  [leap |-> IF leap = -1 THEN 4 ELSE leap, gy |-> gy, march |-> 20 + leapJ - leapG]

g2d(gy, gm, gd) ==
  LET shift == div(gm - 8, 6) + 100100
  IN  div((gy + shift) * 1461, 4) + div(153 * mod(gm + 9, 12) + 2, 5) + gd - 34840408
      - div(div(gy + shift, 100) * 3, 4) + 752

d2g(jdn) ==
  LET j == 4 * jdn + 139361631 + div(div(4 * jdn + 183187720, 146097) * 3, 4) * 4 - 3908
      i == div(mod(j, 1461), 4) * 5 + 308
      m == mod(div(i, 153), 12) + 1
  IN  [y |-> div(j, 1461) - 100100 + div(8 - m, 6), m |-> m, d |-> div(mod(i, 153), 5) + 1]

j2d(jy, jm, jd) ==
  LET NewYear(r) == g2d(r.gy, 3, r.march)
  IN  NewYear(jalCal(jy)) + (jm - 1) * 31 - div(jm, 7) * (jm - 7) + jd - 1

d2j(jdn) ==
  LET Early(y, k) == [y |-> y, m |-> 1 + div(k, 31), d |-> mod(k, 31) + 1]
      Late(y, k)  == [y |-> y, m |-> 7 + div(k, 30), d |-> mod(k, 30) + 1]
      At(jy, k, leap) ==
        IF k \in 0..185 THEN Early(jy, k)
        ELSE IF k > 185 THEN Late(jy, k - 186)
        ELSE Late(jy - 1, k + 179 + (IF leap = 1 THEN 1 ELSE 0))
      In(gy, r) == At(gy - 621, jdn - g2d(gy, 3, r.march), r.leap)
      Year(gy) == In(gy, jalCal(gy - 621))
  IN  Year(d2g(jdn).y)

toJalali(n) == LET Of(g) == d2j(g2d(g.y, g.m, g.d)) IN Of(DateOf(n))
jalaliToDate(jy, jm, jd) ==
  LET Of(g) == NewDate(g.y, g.m, g.d) IN Of(d2g(j2d(jy, jm, jd)))
jalaliMonthLength(jy, jm) ==
  IF jm <= 6 THEN 31 ELSE IF jm <= 11 THEN 30
  ELSE IF jalCal(jy).leap = 0 THEN 30 ELSE 29

-----------------------------------------------------------------------------
(* The date picker: 42 cells from the first of the cursor's month, led by  *)
(* the days before it since a Saturday (fa) or a Sunday (en); and its      *)
(* arrows.                                                                 *)
Cell(n, label, inMonth) == [date |-> n, day |-> label, inMonth |-> inMonth]
jalaliGrid(cursor) ==
  LET At(c, n, j) == Cell(n, j.d, j.y = c.y /\ j.m = c.m)
      From(c, n) == [i \in 1..42 |-> At(c, n + i - 1, toJalali(n + i - 1))]
      Lead(n) == (getDay(n) + 1) % 7
      Led(c, first) == From(c, first - Lead(first))
      Month(c) == Led(c, jalaliToDate(c.y, c.m, 1))
  IN  Month(toJalali(cursor))
gregorianGrid(cursor) ==
  LET At(c, n, g) == Cell(n, g.d, g.m = c.m)
      Of(c, n) == At(c, n, DateOf(n))
      Led(c, lead) == [i \in 1..42 |-> Of(c, NewDate(c.y, c.m, 1 + (i - 1) - lead))]
      Month(c) == Led(c, getDay(NewDate(c.y, c.m, 1)))
  IN  Month(DateOf(cursor))
monthGrid(cursor, locale) ==
  IF locale = "fa" THEN jalaliGrid(cursor) ELSE gregorianGrid(cursor)

addMonth(cursor, delta, locale) ==
  IF locale = "fa"
  THEN LET Clamped(d, length) == IF d < length THEN d ELSE length
           In(y, m, d) == jalaliToDate(y, m, Clamped(d, jalaliMonthLength(y, m)))
           Moved(c) == In(c.y + (c.m + delta - 1) \div 12,
                          ((c.m + delta - 1) % 12) + 1, c.d)
       IN  Moved(toJalali(cursor))
  ELSE LET Moved(c) == NewDate(c.y, c.m + delta, 1) IN Moved(DateOf(cursor))

-----------------------------------------------------------------------------
(* The walk.  The Jalali calendar of these centuries, from the break of    *)
(* 1210 to that of 1635, repeats 33 years with 8 leap years in them.  Of   *)
(* the years before y, (8y + 21) / 33 have been leap years; 1399 began on  *)
(* 20 March 2020.                                                          *)
JalaliLeap(y)      == y % 33 \in {1, 5, 9, 13, 17, 22, 26, 30}
JalaliLength(y, m) == IF m <= 6 THEN 31 ELSE IF m <= 11 \/ JalaliLeap(y) THEN 30 ELSE 29
Following(j) ==
  CASE j.d < JalaliLength(j.y, j.m) -> [j EXCEPT !.d = @ + 1]
    [] j.d = JalaliLength(j.y, j.m) /\ j.m < 12 -> [y |-> j.y, m |-> j.m + 1, d |-> 1]
    [] OTHER -> [y |-> j.y + 1, m |-> 1, d |-> 1]

NewYear(y) == NewDate(2020, 3, 20) + 365 * (y - 1399)
              + (8 * y + 21) \div 33 - (8 * 1399 + 21) \div 33

\* The walks stay in these centuries.
ASSUME CalendarAssumption ==
  /\ Years \subseteq Nat /\ Days \in Nat
  /\ \A y \in Years : y > 1211 /\ NewYear(y) + Days < NewYear(1628)

CalendarInit ==
  /\ \E y \in Years : today = NewYear(y) /\ jalali = [y |-> y, m |-> 1, d |-> 1]
  /\ open = FALSE /\ left = Days
Open == ~open /\ open' = TRUE /\ UNCHANGED <<today, jalali, left>>
NextDay == /\ open /\ left > 0 /\ left' = left - 1
           /\ today' = today + 1 /\ jalali' = Following(jalali)
           /\ UNCHANGED open
CalendarNext == Open \/ NextDay
CalendarSpec == CalendarInit /\ [][CalendarNext]_cvars

-----------------------------------------------------------------------------
Locales == {"fa", "en"}
MonthOf(n, locale) ==
  LET Numbered(c) == 12 * c.y + c.m
  IN  Numbered(IF locale = "fa" THEN toJalali(n) ELSE DateOf(n))

(* The month of the cursor is on the grid from its first to its last day,  *)
(* once each, numbered on from 1, under the weekdays of the header.        *)
GridAgrees(grid, locale) ==
  LET month  == {i \in 1..42 : grid[i].inMonth}
      lead   == IF locale = "fa" THEN 6 ELSE 0
      length == IF locale = "fa" THEN JalaliLength(jalali.y, jalali.m)
                ELSE GregorianLengths(DateOf(today).y)[DateOf(today).m]
  IN  /\ \A i \in 1..42 : getDay(grid[i].date) = (i - 1 + lead) % 7
      /\ \A i \in 1..41 : grid[i + 1].date = grid[i].date + 1
      /\ \E first \in 1..7 :
           /\ month = first..(first + length - 1)
           /\ \A i \in month : grid[i].day = i - first + 1
      /\ \E i \in month : grid[i].date = today

(* The two calendars agree on every day, the month of the cursor is shown  *)
(* whole and in its place, and an arrow leads to the month beside it and   *)
(* the other arrow back ("same UI either way", DatePicker.tsx).            *)
CalendarAgrees ==
  open =>
    /\ toJalali(today) = jalali
    /\ jalaliToDate(jalali.y, jalali.m, jalali.d) = today
    /\ \A locale \in Locales :
         /\ GridAgrees(monthGrid(today, locale), locale)
         /\ \A delta \in {-1, 1} :
              \E there \in {addMonth(today, delta, locale)} :
                /\ MonthOf(there, locale) = MonthOf(today, locale) + delta
                /\ MonthOf(addMonth(there, -delta, locale), locale)
                     = MonthOf(today, locale)
==============================================================================
