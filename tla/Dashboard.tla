----------------------------- MODULE Dashboard -----------------------------
(***************************************************************************)
(* The figures of the console's start page: apps/api/src/dashboard and the *)
(* page that shows them, for one operator.                                 *)
(*                                                                         *)
(* A figure is the sets of suggestions it counts: now, in the period       *)
(* before and in the days of its trend line; percentages and sums follow   *)
(* from them.  (The trend of C_util is random numbers.)  Of a computation, *)
(* the queries that are sent at once are read together, and so are those   *)
(* that wait for an earlier answer.                                        *)
(***************************************************************************)
EXTENDS Integers, FiniteSets

CONSTANTS
  Booking,    \* the suggestions of the instance
  Viewer,     \* requests for the figures
  Life,       \* CACHE_DURATION_MS
  MaxRun,     \* the longest computation
  Day, Week,  \* lengths, Week a multiple of Day
  LastDay     \* the clock stops here

ASSUME DashAssumption == Life \in Nat \ {0} /\ MaxRun \in Nat /\ LastDay \in Nat

VARIABLES
  dashClock,
  booking,    \* the rows: status, createdAt, resolvedAt
  cache,      \* metricCache: the figures and when they were stored
  viewer,     \* per request: where it is, and what it has read
  shown       \* history: the age of the oldest figure in the last answer

dashVars == <<dashClock, booking, cache, viewer, shown>>

Unread == [current |-> {}, previous |-> {}, trend |-> {}, at |-> -1]
Figure == {"cUtil", "acceptance", "timeToFill", "queue", "weekly"}
NoFigures == [f \in Figure |-> Unread]
Nothing == [figures |-> NoFigures, at |-> -1]
Away == [pc |-> "away", begun |-> 0, figures |-> NoFigures]

DashInit ==
  /\ dashClock = 0
  /\ booking = [b \in Booking |-> [status |-> "none", created |-> 0, resolved |-> 0]]
  /\ cache = Nothing /\ shown = 0
  /\ viewer = [v \in Viewer |-> Away]

BookingMade(b) ==
  /\ booking[b].status = "none"
  /\ booking' = [booking EXCEPT ![b] =
                   [status |-> "PENDING", created |-> dashClock, resolved |-> 0]]
  /\ UNCHANGED <<dashClock, cache, viewer, shown>>

BookingResolved(b, status) ==
  /\ booking[b].status = "PENDING"
  /\ booking' = [booking EXCEPT ![b].status = status, ![b].resolved = dashClock]
  /\ UNCHANGED <<dashClock, cache, viewer, shown>>

\* A computation takes at most MaxRun.
DashTick ==
  /\ dashClock < LastDay
  /\ \A v \in Viewer : viewer[v].pc \in {"reading", "waiting"} =>
                         dashClock < viewer[v].begun + MaxRun
  /\ dashClock' = dashClock + 1
  /\ UNCHANGED <<booking, cache, viewer, shown>>

-----------------------------------------------------------------------------
(* The queries                                                             *)

WithStatus(ss) == {b \in Booking : booking[b].status \in ss}
Resolved(ss, from, to) ==
  {b \in WithStatus(ss) : from <= booking[b].resolved /\ booking[b].resolved < to}
Made(ss, from, to) ==
  {b \in WithStatus(ss) : from <= booking[b].created /\ booking[b].created < to}

Ever == LastDay + 1

\* getWeekStart: Monday at the time of day of the date it is given.
WeekStart(t) == t - ((t \div Day) % (Week \div Day)) * Day

\* What is asked at once, with bounds taken when the computation begins.
FirstQueries(t) ==
  [acceptance |-> Resolved({"APPROVED", "REJECTED"}, t - Week, Ever),
   timeToFill |-> Resolved({"APPROVED"}, t - Week, Ever),
   queue      |-> WithStatus({"PENDING"}),
   weekly     |-> Made({"APPROVED"}, WeekStart(t), Ever)]

\* The previous periods, asked for when the current ones are there.
SecondQueries(t) ==
  [acceptance |-> Resolved({"APPROVED", "REJECTED"}, t - 2 * Week, t - Week),
   weekly     |-> Made({"APPROVED"}, WeekStart(WeekStart(t) - Week), WeekStart(t))]

\* computeCutil asks FSP twice before it takes the time and queries.
UtilisationQuery == Made({"APPROVED"}, dashClock - Week, Ever)

\* generate7DayTrend: from the midnight that starts the first of the days to
\* the end of today.
Trend(ss) ==
  LET today == dashClock - (dashClock % Day)
  IN  Resolved(ss, today - (Week - Day), today + Day)
TrendQueries == [acceptance |-> Trend({"APPROVED", "REJECTED"}),
                 timeToFill |-> Trend({"APPROVED"})]

\* A zero that stands for a failed query has no age.
OldestAge(figures) ==
  LET ages == {0} \cup {dashClock - figures[f].at :
                         f \in {g \in DOMAIN figures : figures[g].at # -1}}
  IN  CHOOSE a \in ages : \A b \in ages : b <= a

\* Mutation: a hit starts the life of the cached figures again.
HitRenews == [cache EXCEPT !.at = dashClock]

AfterHit == cache

\* getMetrics finds figures that are young enough.
CacheHit(v) ==
  /\ viewer[v].pc = "away"
  /\ cache.at # -1 /\ dashClock - cache.at < Life
  /\ cache' = AfterHit
  /\ shown' = OldestAge(cache.figures)
  /\ UNCHANGED <<dashClock, booking, viewer>>

\* It does not: the five computations start, each with its first query.
CacheMiss(v) ==
  /\ viewer[v].pc = "away"
  /\ cache.at = -1 \/ dashClock - cache.at >= Life
  /\ LET q == FirstQueries(dashClock)
     IN viewer' = [viewer EXCEPT ![v] =
          [pc |-> "reading", begun |-> dashClock,
           figures |-> [f \in Figure |->
             IF f \in DOMAIN q
               THEN [Unread EXCEPT !.current = q[f], !.at = dashClock]
               ELSE Unread]]]
  /\ UNCHANGED <<dashClock, booking, cache, shown>>

\* The later queries: the previous periods, the trends, and C_util; there is no
\* trend of times to fill when there are none.  A figure one of whose
\* queries failed (C_util also when FSP does) is a zero, which is marked here
\* by having no read time.
ReadOn(v) ==
  /\ viewer[v].pc = "reading"
  /\ \E failed \in {{}, {"cUtil"}, Figure} :
       LET u == viewer[v].figures
           q == SecondQueries(viewer[v].begun)
           Later(f) == IF f \in DOMAIN q THEN q[f] ELSE {}
           Days(f) ==
             IF f \in DOMAIN TrendQueries /\ (f = "acceptance" \/ u[f].current # {})
               THEN TrendQueries[f] ELSE {}
       IN viewer' = [viewer EXCEPT ![v].pc = "waiting", ![v].figures =
            [f \in Figure |->
              IF f \in failed THEN Unread
              ELSE IF f = "cUtil"
                THEN [Unread EXCEPT !.current = UtilisationQuery, !.at = dashClock]
              ELSE [u[f] EXCEPT !.previous = Later(f), !.trend = Days(f)]]]
  /\ UNCHANGED <<dashClock, booking, cache, shown>>

\* All five are there: they are stored, whatever is stored by now, and served.
StoreAndServe(v) ==
  /\ viewer[v].pc = "waiting"
  /\ cache' = [figures |-> viewer[v].figures, at |-> dashClock]
  /\ shown' = OldestAge(viewer[v].figures)
  /\ viewer' = [viewer EXCEPT ![v] = Away]
  /\ UNCHANGED <<dashClock, booking>>

DashNext ==
  \/ DashTick
  \/ \E b \in Booking : BookingMade(b)
                          \/ \E s \in {"APPROVED", "REJECTED"} : BookingResolved(b, s)
  \/ \E v \in Viewer : CacheHit(v) \/ CacheMiss(v) \/ ReadOn(v) \/ StoreAndServe(v)

DashSpec == DashInit /\ [][DashNext]_dashVars

-----------------------------------------------------------------------------
(* What is true of it                                                      *)

DashTypeOK ==
  /\ dashClock \in 0 .. LastDay
  /\ cache.at \in -1 .. dashClock /\ shown \in 0 .. dashClock
  /\ \A v \in Viewer : viewer[v].pc \in {"away", "reading", "waiting"}

\* A figure that is shown was read no longer ago than the cache keeps it plus
\* the time it took to compute, also when two requests missed the cache
\* together and the one that read first stored last.
FiguresAreFresh == shown < Life + MaxRun
=============================================================================
