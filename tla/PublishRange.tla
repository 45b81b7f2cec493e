----------------------------- MODULE PublishRange -----------------------------
(***************************************************************************)
(* Dates, month keys and the ranges a publisher run works on               *)
(* (packages/metrics-artifacts/src/date-ranges.ts and the date helpers of  *)
(* publisher.ts).                                                          *)
(*                                                                         *)
(* A day is a natural number; the calendar is any division of the days     *)
(* into consecutive months, given by the month of each day and the first   *)
(* day of each month.  Day 0 is before all data and month 0 before all     *)
(* published months.                                                       *)
(***************************************************************************)
EXTENDS Integers

CONSTANTS
    LastDay,      \* days are 0..LastDay
    LastMonth,    \* months are 0..LastMonth
    MonthOf,      \* the month of each day
    MonthStart,   \* the first day of each month
    PublicStart,  \* publicStartDate, the first public day
    NoDate        \* an optional date that is not set

Day   == 0 .. LastDay
Month == 0 .. LastMonth

ASSUME CalendarAssumption ==
    /\ LastDay \in Nat
    /\ LastMonth \in Nat
    /\ MonthOf \in [Day -> Month]
    /\ MonthStart \in [Month -> Day]
    /\ \A d \in Day, m \in Month : MonthStart[m] <= d <=> m <= MonthOf[d]
    /\ \A m \in Month : MonthOf[MonthStart[m]] = m
    /\ PublicStart \in Day \ {0}
    /\ NoDate \notin Day

LaterOf(a, b)   == IF a > b THEN a ELSE b
EarlierOf(a, b) == IF a < b THEN a ELSE b

FirstDayOfMonth(d) == MonthStart[MonthOf[d]]

(* The day after, in a calendar that ends at LastDay.                      *)
DayAfter(d) == EarlierOf(d + 1, LastDay)

(* Month 0 has no predecessor; every date is clamped to PublicStart later. *)
FirstDayOfPreviousMonth(d) == MonthStart[LaterOf(MonthOf[d], 1) - 1]

(* monthKeysForRange: every month from that of the start to that of the    *)
(* end, and none when the end lies in an earlier month than the start.     *)
MonthKeys(start, end) == MonthOf[start] .. MonthOf[end]

(* resolveDateRange rejects a range that ends before it starts.            *)
ValidRange(range) == range.start <= range.end

(* resolvePublishRange.  `window` holds PUBLISHER_START_DATE and           *)
(* PUBLISHER_END_DATE, `bounds` is the latest complete day of the source,  *)
(* `latest` the latest published day and `published` whether the manifest  *)
(* lists shards of the run's own deployment.                               *)
FirstRange(window, bounds) ==
    [start |-> IF window.start = NoDate THEN PublicStart ELSE window.start,
     end   |-> IF window.end = NoDate THEN bounds ELSE window.end]

(* Mutants: only the current month; only the days not published yet.       *)
RefreshStartOfMonth(end, latest) == FirstDayOfMonth(end)
RefreshStartOfNews(end, latest) == DayAfter(latest)

RefreshStart(end, latest) ==
    EarlierOf(FirstDayOfPreviousMonth(end), FirstDayOfMonth(DayAfter(latest)))

RefreshRange(window, bounds, latest) ==
    LET end == IF window.end = NoDate THEN bounds ELSE window.end
    IN  [start |-> IF window.start = NoDate
                   THEN LaterOf(PublicStart, RefreshStart(end, latest))
                   ELSE window.start,
         end   |-> end]

(* isFreshForDeploymentHandover: at most one day behind the run's clock.   *)
FreshForHandover(latest, today) == latest + 1 >= today

(* The dates a manifest announces after a run over `range`, given the      *)
(* dates announced before (those of the range itself when there was no     *)
(* manifest).                                                              *)
PublishedEarliest(before, range) ==
    LaterOf(PublicStart, EarlierOf(before, range.start))

PublishedLatest(before, range, bounds) ==
    EarlierOf(LaterOf(before, range.end), bounds)
=============================================================================
