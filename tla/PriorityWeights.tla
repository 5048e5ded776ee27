-------------------------- MODULE PriorityWeights --------------------------
(***************************************************************************)
(* The ranking of candidates: apps/worker/src/suggestions/priority-weight  *)
(* .engine, and what WaitlistUseCaseService gives it to rank by.           *)
(*                                                                         *)
(* Signals are whole numbers of Scale-ths and days; all candidates share   *)
(* the weights, so that sums are compared in place of weighted means.      *)
(* A sum is off by a rounding error of a few units in the last place, of   *)
(* which there are Ulps to one of its units; which error is anybody's      *)
(* guess, but it is the same for the same signals.                         *)
(***************************************************************************)
EXTENDS Integers, Sequences, FiniteSets, SequencesExt, FiniteSetsExt

CONSTANTS
  Candidates,  \* the candidates of the instance, as records
  Weights,     \* the configurations
  Scale,       \* a signal of 1
  Cap,         \* TIME_SINCE_LAST_FLIGHT_CAP_DAYS, TIME_UNTIL_NEXT_FLIGHT_CAP_DAYS
  MaxCandidates, \* students on a list
  Ulps,        \* units in the last place to a unit of a sum
  Epsilon,     \* Number.EPSILON, in units in the last place
  Rounding     \* the errors a computed sum may have

Candidate == [id : Int, flights : SUBSET [day : Int, cancelled : BOOLEAN],
              required : Int, completed : Int, custom : SUBSET Int]
Config == [since : Nat, until : Nat, hours : Nat, custom : Nat,
           higherIsBetter : BOOLEAN]

\* A student has finitely many flights, a day makes a difference in a signal, as
\* it does in floating point, and rounding and EPSILON are too small for one.
ASSUME RankAssumption ==
  /\ Candidates \subseteq Candidate /\ Weights \subseteq Config
  /\ \A c \in Candidates : IsFiniteSet(c.flights) /\ IsFiniteSet(c.custom)
  /\ Cap \in Nat \ {0} /\ Scale \in Nat /\ Cap <= Scale /\ MaxCandidates \in Nat
  /\ Ulps \in Nat /\ Epsilon \in Nat /\ Rounding \subseteq Int /\ 0 \in Rounding
  /\ \A e, f \in Rounding : e + Epsilon < f + Ulps

VARIABLES
  candidates,  \* the list given to scoreCandidates
  weights,
  ranking      \* what it returned

rankVars == <<candidates, weights, ranking>>

Neutral == Scale \div 2   \* PRIORITY_SIGNAL_NEUTRAL_SCORE
AtMost(x, limit) == IF x < limit THEN x ELSE limit

Answers == {"reservations", "enrollments", "progress"}

\* What FSP knows of a student, as far as it answers: without an answer there
\* are no flights, without the enrollment or its progress no hours.
BuildCandidateInput(c, answers) ==
  [c EXCEPT !.flights = IF "reservations" \in answers THEN @ ELSE {},
            !.required = IF {"enrollments", "progress"} \subseteq answers THEN @ ELSE 0]

\* A candidate's flights are records of a day, from today on, and of whether
\* they were cancelled.
Flown(c) == {f.day : f \in {g \in c.flights : g.day <= 0 /\ ~g.cancelled}}
Booked(c) == {f.day : f \in {g \in c.flights : g.day > 0 /\ ~g.cancelled}}

TimeSinceLastFlight(c) ==
  IF Flown(c) = {} THEN Neutral
  ELSE AtMost((-Max(Flown(c)) * Scale) \div Cap, Scale)

TimeUntilNextFlight(c) ==
  IF Booked(c) = {} THEN Scale ELSE AtMost((Min(Booked(c)) * Scale) \div Cap, Scale)

FlightHours(c, higherIsBetter) ==
  IF c.required <= 0 THEN Neutral
  ELSE LET ratio == AtMost((c.completed * Scale) \div c.required, Scale)
       IN  IF higherIsBetter THEN ratio ELSE Scale - ratio

\* A custom signal, of which there is at most one, is taken as it was given.
Custom(c) == IF c.custom = {} THEN Neutral ELSE Max(c.custom)

TotalWeight(w) == w.since + w.until + w.hours + w.custom

Sum(c, w) ==
  w.since * TimeSinceLastFlight(c) + w.until * TimeUntilNextFlight(c)
    + w.hours * FlightHours(c, w.higherIsBetter) + w.custom * Custom(c)

Clamped(x, limit) == IF x < 0 THEN 0 ELSE AtMost(x, limit)

\* The mean times TotalWeight as it should be, and as it is computed.
Score(c, w) == Clamped(Sum(c, w), TotalWeight(w) * Scale)

Signals(c, w) == <<TimeSinceLastFlight(c), TimeUntilNextFlight(c),
                   FlightHours(c, w.higherIsBetter), Custom(c)>>

ComputedScore(c, w, error) ==
  Clamped(Sum(c, w) * Ulps + error[Signals(c, w)], TotalWeight(w) * Scale * Ulps)

\* ScoredCandidate.
ScoreOne(c, w, error) == [student |-> c, score |-> ComputedScore(c, w, error)]

\* Mutation: no tiebreaker.
BeforeUnlessTied(a, b) == a.score > b.score + Epsilon

Near(a, b) == a.score - b.score \in -Epsilon .. Epsilon

\* The comparison: higher scores first, and of scores within EPSILON the lower
\* student id.  It is not transitive: two may each be near to a third.
Before(a, b) ==
  \/ a.score > b.score + Epsilon
  \/ Near(a, b) /\ a.student.id < b.student.id

\* Array.sort leaves no two neighbours that the comparison wants the other way
\* round, and leaves a list as it is that has none: with the order of the list
\* left open, any such order is one it may return.
ScoreCandidates(list, w, error) ==
  {s \in SetToSeqs({ScoreOne(list[i], w, error) : i \in DOMAIN list}) :
     \A k \in 1 .. Len(s) - 1 : ~Before(s[k + 1], s[k])}

RankInit == candidates = <<>> /\ ranking = <<>> /\ weights \in Weights

\* Lists of different students, in whatever order FSP has them.
StudentLists ==
  {l \in UNION {[1 .. n -> Candidates] : n \in 1 .. MaxCandidates} :
     \A i, j \in DOMAIN l : i # j => l[i].id # l[j].id}

\* FSP is asked about each student; for one of them it may leave questions
\* unanswered.  What it said is ranked.
Rank ==
  /\ candidates = <<>>
  /\ \E list \in StudentLists, answers \in SUBSET Answers : \E k \in DOMAIN list :
       candidates' = [list EXCEPT ![k] = BuildCandidateInput(@, answers)]
  /\ \E error \in [{Signals(candidates'[i], weights) : i \in DOMAIN candidates'} -> Rounding] :
       ranking' \in ScoreCandidates(candidates', weights, error)
  /\ UNCHANGED weights

RankSpec == RankInit /\ [][Rank]_rankVars

-----------------------------------------------------------------------------
(* What is true of it                                                      *)

Students == {ranking[i].student : i \in DOMAIN ranking}
ScoreAt(i) == Score(ranking[i].student, weights)

\* The ranking is one of need, though the comparison is not transitive: it
\* leaves nobody out, nobody in less need comes before one in more, with only
\* the time since the last flight to go by whoever waits longer, up to the cap,
\* comes first, and unless rounding tells apart who should be equal, those in
\* equal need are in the order of their ids.
RankingIsByNeed ==
  /\ Students = ToSet(candidates) /\ Len(ranking) = Len(candidates)
  /\ \A i, j \in DOMAIN ranking : i < j => ScoreAt(i) >= ScoreAt(j)
  /\ weights.since > 0 /\ TotalWeight(weights) = weights.since =>
       \A i, j \in DOMAIN ranking :
         LET a == ranking[i].student
             b == ranking[j].student
         IN  /\ Flown(a) # {} /\ Flown(b) # {}
             /\ AtMost(-Max(Flown(a)), Cap) > AtMost(-Max(Flown(b)), Cap)
             => i < j
  /\ (\A i, j \in DOMAIN ranking :
        ScoreAt(i) = ScoreAt(j) => ranking[i].score = ranking[j].score) =>
       \A i, j \in DOMAIN ranking :
         i < j /\ ScoreAt(i) = ScoreAt(j) => ranking[i].student.id < ranking[j].student.id
=============================================================================
