------------------------------ MODULE Streaks ------------------------------
(***************************************************************************)
(* The days in a row on which one student was in the English tools          *)
(* (src/app/services/student_rewards.py, called by routers/english_tools.py)*)
(*                                                                          *)
(* A request takes the date first and then waits for the advisory key 5509  *)
(* of the student; under it the row is read, written and committed, which   *)
(* is one step.  Midnight may pass in between.                              *)
(***************************************************************************)
EXTENDS Integers, FiniteSets, FiniteSetsExt

CONSTANTS Visit, LastDate   \* requests; bound: days

\* Asserted by the modules that instantiate this one.
StreaksAssumption == LastDate \in Nat \ {0}

VARIABLES
    date,       \* today
    streak,     \* the StudentStreak row
    visited,    \* history: days that were written
    backdated,  \* history: a visit was written after one of a later day
    visit       \* requests: the day they have read, 0 if none

vars == <<date, streak, visited, backdated, visit>>

NoStreak == [current |-> 0, best |-> 0, last |-> 0]

Init ==
    /\ date = 1 /\ streak = NoStreak /\ visited = {} /\ backdated = FALSE
    /\ visit = [v \in Visit |-> 0]

\* GET /english-tools and POST /english-tools/review
Look(v) ==
    /\ visit[v] = 0
    /\ visit' = [visit EXCEPT ![v] = date]
    /\ UNCHANGED <<date, streak, visited, backdated>>

\* Mutant of Prolonged: a day that was missed does not end the streak.
ProlongedAnyway(d) == streak.current + 1

\* One day more only if the last activity was the day before.
Prolonged(d) == IF streak.last # 0 /\ d - streak.last = 1 THEN streak.current + 1 ELSE 1

\* touch_student_streak, from the lock to the commit: a second visit of the day
\* the row names is not written.
Touch(v) ==
    LET d == visit[v]
        current == Prolonged(d)
    IN  /\ d # 0
        /\ streak' = IF d = streak.last THEN streak
                     ELSE [current |-> current, last |-> d,
                           best |-> IF current > streak.best THEN current ELSE streak.best]
        /\ visited' = visited \cup {d}
        /\ backdated' = (backdated \/ d < streak.last)
        /\ visit' = [visit EXCEPT ![v] = 0]
        /\ UNCHANGED date

Midnight ==
    /\ date < LastDate /\ date' = date + 1
    /\ UNCHANGED <<streak, visited, backdated, visit>>

Next == (\E v \in Visit : Look(v) \/ Touch(v)) \/ Midnight

Spec == Init /\ [][Next]_vars

-----------------------------------------------------------------------------
(* Properties *)

\* Types.  The best streak is at least the current one.
StreaksTypeOK ==
    /\ date \in 1..LastDate /\ backdated \in BOOLEAN /\ visited \subseteq 1..LastDate
    /\ streak \in [current : 0..LastDate, best : 0..LastDate, last : 0..LastDate]
    /\ streak.current <= streak.best
    /\ visit \in [Visit -> 0..LastDate]

\* The days in a row that end with day d
DaysInARow(d) == Cardinality({k \in 1..d : k..d \subseteq visited})

\* The row of touch_student_streak is what a count over all visits would give:
\* the current streak is the one that ends with the last visit, and the best the
\* longest ever.  It takes two requests around midnight, the one of the old day
\* last at the lock, to end a streak that nobody has interrupted.
StreakExplained ==
    ~backdated /\ visited # {} =>
        /\ streak.last = Max(visited)
        /\ streak.current = DaysInARow(streak.last)
        /\ streak.best = Max({DaysInARow(d) : d \in visited})
=============================================================================
