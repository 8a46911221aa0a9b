----------------------------- MODULE UptimeGrid -----------------------------
(***************************************************************************)
(* The uptime panel of the page /server (web/src/app/server/page.tsx): a   *)
(* window of days laid out in weeks, as on a calendar, with the names of   *)
(* the months above, and a day that can be selected.                       *)
(*                                                                         *)
(* Days are numbered, day 0 a Sunday; an answer is given by its last day.  *)
(* A poll may bring an older answer than the one shown.                    *)
(***************************************************************************)
EXTENDS Browser, Sequences

CONSTANTS
    Windows,    \* 30, 60 and 90 days
    MonthDays,  \* the length of a month
    MaxDays     \* bound: days that pass

ASSUME UptimeGridAssumption ==
    /\ Windows \subseteq Nat \ {0} /\ \E w \in Windows : \A v \in Windows : v <= w
    /\ MonthDays \in Nat \ {0} /\ MaxDays \in Nat

VARIABLES
    today,
    avail,      \* the last day of the answer shown, or NoAnswer
    uptimeDays, \* the window
    selDay      \* the day selected, or NoDay

gridVars == <<today, avail, uptimeDays, selDay>>

MaxWindow == CHOOSE w \in Windows : \A v \in Windows : v <= w
FirstDay == MaxWindow
NoAnswer == 0
NoDay == 0
NoCell == -1            \* null

Month(d) == d \div MonthDays
Weekday(d) == d % 7

\* The days of the last `n`, of an answer that always has MaxWindow of them.
Days(last, n) == [i \in 1 .. n |-> last - n + i]

\* Mutant: the days start in the first row.
WeeksUnpadded(days) ==
    LET cells == days \o [i \in 1 .. (-Len(days)) % 7 |-> NoCell]
    IN  [k \in 1 .. Len(cells) \div 7 |-> SubSeq(cells, 7 * k - 6, 7 * k)]

\* buildWeekGrid: the cells, cut into weeks.
Weeks(days) ==
    LET firstDow == Weekday(days[1])
        padded == [i \in 1 .. firstDow |-> NoCell] \o days
        cells == padded \o [i \in 1 .. (-Len(padded)) % 7 |-> NoCell]
    IN  [k \in 1 .. Len(cells) \div 7 |-> SubSeq(cells, 7 * k - 6, 7 * k)]

\* The month of the first day of a week, each of which has one.
FirstMonth(week) ==
    Month(week[CHOOSE row \in 1 .. 7 :
                  week[row] # NoCell /\ \A r \in 1 .. row - 1 : week[r] = NoCell])

\* buildWeekGrid: a label over each week that begins in another month than the
\* week before, which is the month of the last label.
Months(weeks) ==
    LET Labelled == {col \in DOMAIN weeks :
                       col > 1 => FirstMonth(weeks[col]) # FirstMonth(weeks[col - 1])}
    IN  {[month |-> FirstMonth(weeks[col]), col |-> col] : col \in Labelled}

GridInit ==
    /\ today = FirstDay /\ avail = NoAnswer
    /\ uptimeDays = MaxWindow /\ selDay = NoDay

GridMount ==
    /\ avail' = NoAnswer /\ uptimeDays' = MaxWindow /\ selDay' = NoDay
    /\ UNCHANGED today

NextDay ==
    /\ today < FirstDay + MaxDays /\ today' = today + 1
    /\ UNCHANGED <<avail, uptimeDays, selDay>>

\* A poll ends; the selected day stays, although the window may have moved on.
Refresh ==
    /\ avail' \in FirstDay .. today
    /\ UNCHANGED <<today, uptimeDays, selDay>>

SetUptimeDays(n) ==
    /\ uptimeDays' = n /\ selDay' = NoDay
    /\ UNCHANGED <<today, avail>>

\* A click on a day selects it, or undoes that.
SelectDay(d) ==
    /\ avail # NoAnswer
    /\ selDay' = IF selDay = d THEN NoDay ELSE d
    /\ UNCHANGED <<today, avail, uptimeDays>>

GridNext ==
    \/ NextDay \/ Refresh
    \/ \E n \in Windows : SetUptimeDays(n)
    \/ \E d \in avail - uptimeDays + 1 .. avail : SelectDay(d)

GridSpec == GridInit /\ [][GridNext \/ GridMount]_gridVars

-----------------------------------------------------------------------------
(* Properties *)

GridTypeOK ==
    /\ today \in FirstDay .. FirstDay + MaxDays
    /\ avail \in {NoAnswer} \cup FirstDay .. today
    /\ uptimeDays \in Windows
    /\ selDay \in {NoDay} \cup 1 .. today

\* Every day of the window is in the grid once, in the row of its weekday and
\* in the column of its week, whatever weekday the window begins on and however
\* long it is; the label over a column, or the last one before it, names the
\* month the column begins in.
GridAligned ==
    avail # NoAnswer =>
        LET first == avail - uptimeDays + 1
            weeks == Weeks(Days(avail, uptimeDays))
            months == Months(weeks)
            Begins(col) == IF col = 1 THEN first ELSE weeks[col][1]
        IN  /\ \A col \in DOMAIN weeks : \A row \in 1 .. 7 :
                  LET d == first - Weekday(first) + 7 * (col - 1) + (row - 1)
                  IN  weeks[col][row] = IF d \in first .. avail THEN d ELSE NoCell
            /\ 7 * Len(weeks) >= Weekday(first) + uptimeDays
            /\ \A col \in DOMAIN weeks :
                  \E label \in months :
                     /\ label.col <= col /\ label.month = Month(Begins(col))
                     /\ \A other \in months : other.col <= label.col \/ other.col > col
=============================================================================
