---------------------------- MODULE ListControls ----------------------------
(***************************************************************************)
(* The controls around a list: the pager under it (PaginationComponent)    *)
(* and the period above it (PeriodFilterComponent with its calendar).      *)
(*                                                                         *)
(* The pager keeps its page in the URL or takes it from its page.  The     *)
(* list behind it may shrink or grow at any time.  A date of the period is *)
(* a record: only its month and a few of its days are told apart.          *)
(***************************************************************************)
EXTENDS Integers, Sequences, FiniteSets

CONSTANTS
  Years,        \* the years the calendar is turned through
  Todays,       \* what today may be: year, month (0 is January) and day
  maxVisible,   \* the pager's maxVisiblePages
  MostPages,    \* bound on the pages of the list
  MaxUses       \* bound on what the user does

VARIABLES
  pager,    \* where the list is: its pages, the page and size asked for
  period,   \* the period filter
  range,    \* its temporary range and its calendar
  heard,    \* the bounds of the list's last request
  uses      \* what the user did so far

controlVars == <<pager, period, range, heard, uses>>

Ellipsis == 0
NoDate == [y |-> 0, m |-> 0, d |-> 0]

\* resolvePeriodRange: a preset is asked for as days before today, a custom
\* range as it is.
resolvePeriodRange(p) ==
  LET since(n) == [from |-> [ago |-> n], to |-> [ago |-> 0]]
  IN CASE p.value = "today" -> since(0)
       [] p.value = "7days" -> since(6)
       [] p.value = "30days" -> since(29)
       [] OTHER -> [from |-> p.from, to |-> p.to]

Lesser(a, b) == IF a < b THEN a ELSE b
Greater(a, b) == IF a < b THEN b ELSE a

ControlInit ==
  /\ pager = [total |-> MostPages, page |-> 0, size |-> 0]
  /\ period = [value |-> "", from |-> NoDate, to |-> NoDate, open |-> FALSE, view |-> "main"]
  /\ \E today \in Todays :
       range = [from |-> NoDate, to |-> NoDate, target |-> "from", today |-> today,
                year |-> today.y, month |-> today.m, selected |-> NoDate]
  /\ heard = resolvePeriodRange(period) /\ uses = 0

Use == uses < MaxUses /\ uses' = uses + 1

----------------------------------------------------------------------------
(* PaginationComponent: 0 stands for no parameter and for no override      *)

currentPage == IF pager.page < 1 THEN 1 ELSE pager.page

pageSize(defaultPageSize) == IF pager.size > 0 THEN pager.size ELSE defaultPageSize

numbers(a, b) == [i \in 1..Greater(b - a + 1, 0) |-> a + i - 1]

\* The pages around the current one; near an end, the pages of that end.
visiblePages ==
  LET half == maxVisible \div 2
      start == IF currentPage >= pager.total - half
               THEN pager.total - maxVisible + 2
               ELSE Greater(2, currentPage - half + 1)
      end == IF currentPage <= half + 1
             THEN maxVisible - 1
             ELSE Lesser(pager.total - 1, currentPage + half - 1)
  IN IF pager.total <= maxVisible THEN numbers(1, pager.total)
     ELSE <<1>> \o (IF start > 2 THEN <<Ellipsis>> ELSE <<>>)
            \o numbers(start, end)
            \o (IF end < pager.total - 1 THEN <<Ellipsis>> ELSE <<>>) \o <<pager.total>>

canGoPrev == currentPage > 1
canGoNext == currentPage < pager.total

navigateToPage(page) == Use /\ pager' = [pager EXCEPT !.page = page]

goToFirstPage == canGoPrev /\ navigateToPage(1)
goToPrevPage == canGoPrev /\ navigateToPage(currentPage - 1)
goToNextPage == canGoNext /\ navigateToPage(currentPage + 1)
goToLastPage == canGoNext /\ navigateToPage(pager.total)
goToPage(page) == page # Ellipsis /\ page # currentPage /\ navigateToPage(page)

\* A new size starts at page 1 when the URL holds the page; a page that
\* overrides it has to do so itself, and all of them do.
navigateToPageSize(size) ==
  Use /\ size # pageSize(10) /\ pager' = [pager EXCEPT !.size = size, !.page = 1]

\* The list is loaded anew: its pages may have become fewer than the page
\* the URL asks for, and the URL may be typed.
Reloaded(total) == Use /\ pager' = [pager EXCEPT !.total = total]

Pager ==
  /\ \/ goToFirstPage \/ goToPrevPage \/ goToNextPage \/ goToLastPage
     \/ \E i \in DOMAIN visiblePages : goToPage(visiblePages[i])
     \/ \E size \in {10, 20} : navigateToPageSize(size)
     \/ \E total \in 0..MostPages : Reloaded(total)
  /\ UNCHANGED <<period, range, heard>>

----------------------------------------------------------------------------
(* PeriodFilterComponent                                                   *)

Leap(y) == y % 4 = 0 /\ (y % 100 # 0 \/ y % 400 = 0)

\* new Date(year, month + 1, 0).getDate()
daysIn(y, m) ==
  CASE m = 1 -> IF Leap(y) THEN 29 ELSE 28
    [] m \in {3, 5, 8, 10} -> 30
    [] OTHER -> 31

\* new Date(year, month, day).getDay(): Sunday is 0.
weekday(y, m, d) ==
  LET z == IF m < 2 THEN y - 1 ELSE y
  IN (z + z \div 4 - z \div 100 + z \div 400
        + <<0, 3, 2, 5, 0, 3, 5, 1, 4, 6, 2, 4>>[m + 1] + d) % 7

calendarRowsShort ==
  LET first == weekday(range.year, range.month, 1)
      days == daysIn(range.year, range.month)
      needed == (first + days + 6) \div 7
      cell(n) == CASE n < first -> [day |-> 0, inMonth |-> FALSE]
                   [] n >= first + days -> [day |-> n - first - days + 1, inMonth |-> FALSE]
                   [] OTHER -> [day |-> n - first + 1, inMonth |-> TRUE]
  IN [r \in 1..Lesser(needed + 1, 5) |-> [c \in 1..7 |-> cell((r - 1) * 7 + c - 1)]]

\* The calendar: a row after the one that ends the month is drawn as well,
\* if there are six at most.
calendarRows ==
  LET first == weekday(range.year, range.month, 1)
      days == daysIn(range.year, range.month)
      needed == (first + days + 6) \div 7
      cell(n) == CASE n < first -> [day |-> 0, inMonth |-> FALSE]
                   [] n >= first + days -> [day |-> n - first - days + 1, inMonth |-> FALSE]
                   [] OTHER -> [day |-> n - first + 1, inMonth |-> TRUE]
  IN [r \in 1..Lesser(needed + 1, 6) |-> [c \in 1..7 |-> cell((r - 1) * 7 + c - 1)]]

Shut(p) == [p EXCEPT !.open = FALSE, !.view = "main"]

openPeriod == ~period.open /\ period' = [period EXCEPT !.open = TRUE, !.view = "main"]
closePeriod == period.open /\ period' = Shut(period)

At(view) == period.open /\ period.view = view

Turn(view) == period' = [period EXCEPT !.view = view]

\* value, range and selectionChange in one.
Choose(p) == period' = p /\ heard' = resolvePeriodRange(p)

selectPreset(value) ==
  /\ At("main")
  /\ Choose(Shut([period EXCEPT !.value = value, !.from = NoDate, !.to = NoDate]))
  /\ UNCHANGED range

openRangeView ==
  /\ At("main") /\ Turn("range")
  /\ range' = [range EXCEPT !.from = period.from, !.to = period.to]
  /\ UNCHANGED heard

openCalendar(target) ==
  /\ At("range") /\ Turn("calendar")
  /\ range' = LET there == IF target = "from" THEN range.from ELSE range.to
                  shown == IF there = NoDate THEN range.today ELSE there
              IN [range EXCEPT !.target = target, !.year = shown.y, !.month = shown.m,
                               !.selected = there]
  /\ UNCHANGED heard

backToMain == At("range") /\ Turn("main") /\ UNCHANGED <<range, heard>>
backToRange == At("calendar") /\ Turn("range") /\ UNCHANGED <<range, heard>>

prevMonth ==
  /\ At("calendar") /\ UNCHANGED <<period, heard>>
  /\ range' = IF range.month = 0 THEN [range EXCEPT !.month = 11, !.year = @ - 1]
              ELSE [range EXCEPT !.month = @ - 1]
  /\ range'.year \in Years

nextMonth ==
  /\ At("calendar") /\ UNCHANGED <<period, heard>>
  /\ range' = IF range.month = 11 THEN [range EXCEPT !.month = 0, !.year = @ + 1]
              ELSE [range EXCEPT !.month = @ + 1]
  /\ range'.year \in Years

applyDateToTarget(date) ==
  /\ At("calendar") /\ Turn("range")
  /\ range' = IF range.target = "from" THEN [range EXCEPT !.from = date, !.selected = date]
              ELSE [range EXCEPT !.to = date, !.selected = date]
  /\ UNCHANGED heard

\* A cell of the month; the others are of no date.
selectDate(r, c) ==
  /\ r \in DOMAIN calendarRows /\ calendarRows[r][c].inMonth
  /\ applyDateToTarget([y |-> range.year, m |-> range.month, d |-> calendarRows[r][c].day])

selectCalendarToday == applyDateToTarget(range.today)

clearRangeInput(target) ==
  /\ At("range") /\ UNCHANGED <<period, heard>>
  /\ range' = IF target = "from" THEN [range EXCEPT !.from = NoDate]
              ELSE [range EXCEPT !.to = NoDate]

cancelRange ==
  /\ At("range") /\ Turn("main")
  /\ range' = [range EXCEPT !.from = NoDate, !.to = NoDate]
  /\ UNCHANGED heard

\* Nothing entered closes the panel: a range chosen earlier stays.
confirmRange ==
  /\ At("range") /\ UNCHANGED range
  /\ IF range.from = NoDate /\ range.to = NoDate
     THEN period' = Shut(period) /\ UNCHANGED heard
     ELSE Choose(Shut([period EXCEPT !.value = "custom", !.from = range.from, !.to = range.to]))

\* The cross on the field: the panel stays as it is.
clearAll ==
  /\ period.value # ""
  /\ Choose([period EXCEPT !.value = "", !.from = NoDate, !.to = NoDate])
  /\ range' = [range EXCEPT !.from = NoDate, !.to = NoDate]

Period ==
  /\ \/ (openPeriod \/ closePeriod) /\ UNCHANGED <<range, heard>>
     \/ openRangeView \/ backToMain \/ backToRange \/ prevMonth \/ nextMonth
     \/ selectCalendarToday \/ cancelRange \/ confirmRange \/ clearAll
     \/ \E value \in {"", "today", "7days", "30days"} : selectPreset(value)
     \/ \E target \in {"from", "to"} : openCalendar(target) \/ clearRangeInput(target)
     \/ \E r \in {1, 6}, c \in {1, 7} : selectDate(r, c)
  /\ Use /\ UNCHANGED pager

ControlNext == Pager \/ Period

ControlSpec == ControlInit /\ [][ControlNext]_controlVars

----------------------------------------------------------------------------
\* The pager names the first, the last and the current page and those next to
\* it, in order and each once, and leaves a mark exactly where pages are left
\* out: every page can be reached.
PagesNamed ==
  LET ps == visiblePages
      named == {ps[i] : i \in DOMAIN ps} \ {Ellipsis}
      near == {currentPage - 1, currentPage, currentPage + 1, 1, pager.total} \cap 1..pager.total
  IN /\ near \subseteq named /\ named \subseteq 1..pager.total
     /\ \A i \in DOMAIN ps : i > 1 =>
          IF ps[i] = Ellipsis THEN i < Len(ps) /\ ps[i + 1] > ps[i - 1] + 1
          ELSE ps[i - 1] = Ellipsis \/ ps[i] = ps[i - 1] + 1

\* Whatever month the calendar was turned to, it shows each of its days once,
\* under the day of the week it is.
CalendarWhole ==
  At("calendar") =>
    LET rows == calendarRows
        cells == {rc \in (DOMAIN rows) \X (1..7) : rows[rc[1]][rc[2]].inMonth}
        days == 1..daysIn(range.year, range.month)
    IN /\ {rows[rc[1]][rc[2]].day : rc \in cells} = days
       /\ Cardinality(cells) = Cardinality(days)
       /\ \A rc \in cells : rc[2] - 1 = weekday(range.year, range.month, rows[rc[1]][rc[2]].day)

\* The list is filtered by the period the field shows, and a custom one has a
\* bound.
PeriodHeard ==
  /\ heard = resolvePeriodRange(period)
  /\ period.value = "custom" <=> (period.from # NoDate \/ period.to # NoDate)
=============================================================================
