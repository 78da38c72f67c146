---------------------------- MODULE BillingCycle ----------------------------
(***************************************************************************)
(* The billing period of a contract: core/billing_cycle.py.                *)
(*                                                                         *)
(* current_billing_reset_instant_utc walks from the contract's first day   *)
(* boundary by boundary until the period holds today, and                  *)
(* next_billing_reset_instant_utc announces that period's end.  The module *)
(* lets the days pass and asks on every one of them, so that today's       *)
(* answer can be compared with what was announced before.  An instant is a *)
(* date: every boundary is at midnight UTC.                                *)
(***************************************************************************)
EXTENDS Naturals

CONSTANTS
  Contracts,  \* the first days of contracts
  FirstDay,   \* the first day anyone asks
  LastDay,    \* bound: nobody asks later
  NoPeriod

VARIABLES
  contract_start,
  today,
  period_start,  \* the loop's variable, and its result when loop = "found"
  loop,          \* "search" in the loop, "found" or "none" (None) after it
  announced      \* the period last reported: its first day and its end

cycleVars == <<contract_start, today, period_start, loop, announced>>

-----------------------------------------------------------------------------
(* Dates                                                                   *)

Leap(y) == (y % 4 = 0 /\ y % 100 # 0) \/ y % 400 = 0

DaysInMonth(y, m) ==
  CASE m \in {4, 6, 9, 11} -> 30
    [] m = 2 -> IF Leap(y) THEN 29 ELSE 28
    [] m \in {1, 3, 5, 7, 8, 10, 12} -> 31

Date == [year : Nat, month : 1..12, day : 1..31]
Valid(d) == d \in Date /\ d.day <= DaysInMonth(d.year, d.month)
OnDay(y, m, d) == [year |-> y, month |-> m, day |-> d]

Before(a, b) ==
  \/ a.year < b.year
  \/ a.year = b.year /\ a.month < b.month
  \/ a.year = b.year /\ a.month = b.month /\ a.day < b.day

SameYear(d) == d.year

\* _add_month
NextYear(d) == IF d.month = 12 THEN d.year + 1 ELSE d.year
NextMonth(d) == IF d.month = 12 THEN 1 ELSE d.month + 1

NextDay(d) ==
  IF d.day < DaysInMonth(d.year, d.month)
  THEN [d EXCEPT !.day = @ + 1]
  ELSE OnDay(NextYear(d), NextMonth(d), 1)

ASSUME BillingAssumption ==
  /\ \A c \in Contracts \cup {FirstDay} : Valid(c)
  /\ NoPeriod \notin [from : Date, until : Date]

-----------------------------------------------------------------------------
(* Boundaries                                                              *)

MonthEnd(d) == d.day = DaysInMonth(d.year, d.month)

NotRounded(p, base) == OnDay(NextYear(p), NextMonth(p), base)

\* The same day a month later, or that month's last day.
SameDayNextMonth(p, base) ==
  LET days == DaysInMonth(NextYear(p), NextMonth(p))
  IN  OnDay(NextYear(p), NextMonth(p), IF base <= days THEN base ELSE days)

FirstOfNextMonth(p) == OnDay(NextYear(p), NextMonth(p), 1)

ExpectedDays(p, base) == p.day \in {1, base}

\* The dates _next_boundary_exclusive accepts; it raises ValueError for others.
Expected(p, base) ==
  \/ p.day \in {1, base}
  \/ MonthEnd(p) /\ p.day < base

\* _next_boundary_exclusive, for an expected p
NextBoundary(p, base) ==
  IF p.day = base THEN SameDayNextMonth(p, base)
  ELSE IF p.day = 1 /\ base <= DaysInMonth(p.year, p.month)
       THEN OnDay(p.year, p.month, base)
       ELSE FirstOfNextMonth(p)

base_day == contract_start.day
period_end == NextBoundary(period_start, base_day)

-----------------------------------------------------------------------------
(* Asking every day                                                        *)

CycleInit ==
  /\ contract_start \in Contracts
  /\ today = FirstDay
  /\ period_start = contract_start
  /\ loop = "search"
  /\ announced = NoPeriod

CoversEnd(from, until) == ~Before(today, from) /\ ~Before(until, today)

\* The period that holds today.
Covers(from, until) == ~Before(today, from) /\ Before(today, until)

\* One round of the loop.  A boundary that is not expected raises: no step.
NotStarted ==
  /\ loop = "search" /\ Before(today, period_start)
  /\ loop' = "none"
  /\ UNCHANGED <<contract_start, today, period_start, announced>>

Found ==
  /\ loop = "search" /\ Expected(period_start, base_day)
  /\ Covers(period_start, period_end)
  /\ loop' = "found"
  /\ UNCHANGED <<contract_start, today, period_start, announced>>

NextRound ==
  /\ loop = "search" /\ Expected(period_start, base_day)
  /\ ~Before(today, period_start) /\ ~Covers(period_start, period_end)
  /\ period_start' = period_end
  /\ UNCHANGED <<contract_start, today, loop, announced>>

Search == NotStarted \/ Found \/ NextRound

\* The answer is reported with its announcement, and asked for again tomorrow.
Tomorrow ==
  /\ loop # "search" /\ Before(today, LastDay)
  /\ announced' = IF loop = "found"
                  THEN [from |-> period_start, until |-> period_end]
                  ELSE announced
  /\ today' = NextDay(today)
  /\ loop' = "search"
  /\ period_start' = contract_start
  /\ UNCHANGED contract_start

CycleNext == Search \/ Tomorrow

CycleSpec == CycleInit /\ [][CycleNext]_cycleVars

-----------------------------------------------------------------------------
(* Properties                                                              *)

\* Dates are dates of the calendar: no boundary is a 31st of April.
CycleTypeOK ==
  /\ contract_start \in Contracts
  /\ Valid(today) /\ Valid(period_start)
  /\ loop \in {"search", "found", "none"}
  /\ announced \in [from : Date, until : Date] \cup {NoPeriod}

\* The loop meets no boundary that _next_boundary_exclusive raises ValueError
\* for, whatever the contract's first day and however long ago it was.
BoundaryExpected == Expected(period_start, base_day)

\* The period found today is the one reported yesterday until the day announced
\* as its end, and on that day it is the one that starts then.  The quota's
\* sum and nextBillingResetAt rest on it: usage is neither counted in two
\* periods nor in none.
ResetAsAnnounced ==
  loop = "found" /\ announced # NoPeriod
    => IF today = announced.until
       THEN period_start = today
       ELSE period_start = announced.from /\ Before(today, announced.until)

\* Every round of the loop moves to a later boundary, so that it ends.
SearchAdvances ==
  [][loop = "search" /\ loop' = "search" => Before(period_start, period_start')]_cycleVars
=============================================================================
