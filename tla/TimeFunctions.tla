------------------------------ MODULE TimeFunctions -----------------------------
(***************************************************************************)
(* The arithmetic on struct timeval (time_functions.c), with theorems that *)
(* say what it computes.  A time is normalised if its microseconds are     *)
(* less than a second, as those of gettimeofday are.                       *)
(***************************************************************************)
EXTENDS Integers, TLAPS

Million == 1000000

Time == {t \in [sec : Int, usec : Nat] : t.usec < Million}

\* set_time
NewTime(sec, usec) == [sec |-> sec, usec |-> usec]

compare_time(first, second) ==
  IF first.sec # second.sec
  THEN IF first.sec > second.sec THEN 1 ELSE -1
  ELSE IF first.usec > second.usec THEN 1
  ELSE IF first.usec < second.usec THEN -1 ELSE 0

\* A negative difference of the microseconds borrows a second.
set_time_minus_time(first, second) ==
  LET borrow == IF first.usec < second.usec THEN 1 ELSE 0
  IN  NewTime(first.sec - second.sec - borrow,
              first.usec - second.usec + borrow * Million)

set_time_difference(first, second) ==
  IF compare_time(first, second) = 1 THEN set_time_minus_time(first, second)
  ELSE set_time_minus_time(second, first)

set_smallest_time(first, second) ==
  IF compare_time(first, second) < 0 THEN [time |-> first, is |-> 1]
  ELSE [time |-> second, is |-> 2]

-----------------------------------------------------------------------------
(* Reference: a time is a number of microseconds.                          *)

Micros(t) == t.sec * Million + t.usec

\* compare_time orders times as the moments they stand for (time_functions.c:12).
THEOREM ComparesMoments ==
  ASSUME NEW s \in Time, NEW t \in Time
  PROVE  /\ compare_time(s, t) = 1 <=> Micros(s) > Micros(t)
         /\ compare_time(s, t) = -1 <=> Micros(s) < Micros(t)
         /\ compare_time(s, t) = 0 <=> s = t
<1>1. /\ s.sec \in Int /\ s.usec \in Int /\ t.sec \in Int /\ t.usec \in Int
      /\ s.usec >= 0 /\ s.usec < 1000000 /\ t.usec >= 0 /\ t.usec < 1000000
  BY SMT DEF Time, Million
<1>2. s = t <=> s.sec = t.sec /\ s.usec = t.usec
  BY SMT DEF Time
<1>3. QED
  BY <1>1, <1>2, SMT DEF compare_time, Micros, Million

\* The difference of two times is the distance of the moments, normalised again and
\* never negative, in whichever order they are passed (time_functions.c:30).
THEOREM DifferenceIsDistance ==
  ASSUME NEW s \in Time, NEW t \in Time
  PROVE  /\ set_time_difference(s, t) \in Time
         /\ set_time_difference(s, t).sec >= 0
         /\ Micros(set_time_difference(s, t)) =
              IF Micros(s) > Micros(t) THEN Micros(s) - Micros(t)
              ELSE Micros(t) - Micros(s)
<1> DEFINE later   == IF Micros(s) > Micros(t) THEN s ELSE t
           earlier == IF Micros(s) > Micros(t) THEN t ELSE s
           d       == set_time_minus_time(later, earlier)
<1>1. later \in Time /\ earlier \in Time /\ Micros(later) >= Micros(earlier)
  BY SMT DEF Time, Micros, Million
<1>2. set_time_difference(s, t) = d
  BY ComparesMoments, SMT DEF set_time_difference
<1> HIDE DEF later, earlier
<1>3. /\ later.sec \in Int /\ later.usec \in Nat /\ later.usec < 1000000
      /\ earlier.sec \in Int /\ earlier.usec \in Nat /\ earlier.usec < 1000000
  BY <1>1, SMT DEF Time, Million
<1>4. /\ d \in Time
      /\ d.sec >= 0
      /\ Micros(d) = Micros(later) - Micros(earlier)
  BY <1>1, <1>3, SMT DEF d, Time, Micros, Million, set_time_minus_time, NewTime
<1>5. QED
  BY <1>2, <1>4, SMT DEF later, earlier

\* The smallest of two times is one of them and not after the other, and the
\* number returned says which it is (time_functions.c:38).
THEOREM SmallestIsSmallest ==
  ASSUME NEW s \in Time, NEW t \in Time
  PROVE  LET smallest == set_smallest_time(s, t)
         IN  /\ smallest.time = IF smallest.is = 1 THEN s ELSE t
             /\ Micros(smallest.time) <= Micros(s) /\ Micros(smallest.time) <= Micros(t)
<1>1. Micros(s) \in Int /\ Micros(t) \in Int
  BY SMT DEF Time, Micros, Million
<1>2. compare_time(s, t) < 0 <=> Micros(s) < Micros(t)
  BY ComparesMoments, SMT DEF compare_time
<1>3. QED
  BY <1>1, <1>2, SMT DEF set_smallest_time
=============================================================================
