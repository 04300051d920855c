------------------------- MODULE RenewalGateProofs -------------------------
(***************************************************************************)
(* Theorems of RenewalGate for every lifetime, threshold, gap between runs *)
(* and number of failures in a row.                                        *)
(***************************************************************************)
EXTENDS RenewalGate, TLAPS

(* Spans are whole minutes, and lifetimes are those of the CA.               *)
TypeOK ==
    /\ left \in Int
    /\ life \in Lifetimes
    /\ missed \in 0 .. MaxMisses

(* What is left covers the failures that may still come, and a late run      *)
(* after each of them.                                                       *)
Reserve == Margin => left > (MaxMisses + 1 - missed) * MaxGap

(* No certificate is issued before the time it is valid from.                *)
Bounded == left <= life

IInv == TypeOK /\ Bounded /\ Reserve

-----------------------------------------------------------------------------
(* A count of whole days is at most the span and within a day of it.         *)
LEMMA WholeDays ==
    ASSUME NEW m \in Int
    PROVE  /\ Days(m) \in Int
           /\ Days(m) * Day <= m
           /\ m < (Days(m) + 1) * Day
  BY DEF Days, Day

(* A third of a number of days, rounded down.                                *)
LEMMA Third ==
    ASSUME NEW d \in Int
    PROVE  d \div 3 \in Int /\ 3 * (d \div 3) <= d
  OBVIOUS

(* Thresholds are whole numbers of days.                                     *)
LEMMA ThresholdType ==
    ASSUME NEW l \in Int
    PROVE  Threshold(l) \in Int
  BY WholeDays, Third, TimesAssumption DEF Threshold, DefaultThreshold

(* A run that skips leaves at least threshold + 1 whole days.                *)
LEMMA SkipLeaves ==
    ASSUME NEW m \in Int, NEW l \in Int, Adequate(m, l)
    PROVE  m >= (Threshold(l) + 1) * Day
<1>1. Days(m) \in Int /\ Threshold(l) \in Int /\ Days(m) * Day <= m
  BY WholeDays, ThresholdType
<1>2. Days(m) >= Threshold(l) + 1
  BY <1>1 DEF Adequate
<1> QED
  BY <1>1, <1>2 DEF Day

(* One failure fewer to come needs one gap less.                             *)
LEMMA OneLess ==
    ASSUME NEW k \in Int, NEW g \in Int
    PROVE  (k + 1) * g - g = k * g
  OBVIOUS

(* The first certificate is typed and leaves the reserve.                    *)
LEMMA InitInv == Init => IInv
<1> SUFFICES ASSUME Init PROVE IInv
  OBVIOUS
<1>1. PICK l \in Lifetimes, b \in Backdates : life = l /\ left = l - b
  BY DEF Init
<1>2. TypeOK
  BY <1>1, TimesAssumption DEF Init, TypeOK
<1>3. Bounded
  BY <1>1, TimesAssumption DEF Init, Bounded
<1>4. Reserve
  BY <1>1, TimesAssumption DEF Init, Reserve, Margin, Enough
<1> QED
  BY <1>2, <1>3, <1>4 DEF IInv

(* The invariant is kept by a run that skips, renews or fails.               *)
LEMMA NextInv == IInv /\ [Next]_vars => IInv'
<1> SUFFICES ASSUME IInv, [Next]_vars PROVE IInv'
  OBVIOUS
<1> USE DEF IInv, TypeOK, Bounded
<1>0. life \in Int /\ \A g \in Gaps : g \in Int /\ 0 <= g /\ g <= MaxGap
  BY TimesAssumption
<1>1. ASSUME NEW g \in Gaps, Skip(g) PROVE IInv'
  <2>1. left' \in Int /\ left' >= (Threshold(life) + 1) * Day
    BY <1>0, <1>1, SkipLeaves DEF Skip
  <2>2. TypeOK' /\ Bounded'
    BY <1>0, <1>1, <2>1, TimesAssumption DEF Skip
  <2>3. ASSUME Margin PROVE left' > (MaxMisses + 1) * MaxGap
    <3>1. PICK b \in Backdates : Enough(life, b)
      BY <2>3, TimesAssumption DEF Margin
    <3> QED
      BY <2>1, <3>1, <2>3, ThresholdType, <1>0, TimesAssumption DEF Enough, Margin, Day
  <2> QED
    BY <1>1, <2>2, <2>3, TimesAssumption DEF Skip, Reserve, Margin, Enough
<1>2. ASSUME NEW g \in Gaps, Renew(g) PROVE IInv'
  <2>1. PICK l \in Lifetimes, b \in Backdates : life' = l /\ left' = l - b
    BY <1>2 DEF Renew
  <2>2. TypeOK' /\ Bounded'
    BY <1>2, <2>1, TimesAssumption DEF Renew
  <2>3. Reserve'
    BY <1>2, <2>1, TimesAssumption DEF Renew, Reserve, Margin, Enough
  <2> QED
    BY <2>2, <2>3
<1>3. ASSUME NEW g \in Gaps, Miss(g) PROVE IInv'
  <2>1. TypeOK' /\ Bounded' /\ missed' = missed + 1 /\ left' = left - g
    BY <1>0, <1>3, TimesAssumption DEF Miss
  <2>2. ASSUME Margin PROVE left' > (MaxMisses - missed) * MaxGap
    <3>1. (MaxMisses + 1 - missed) * MaxGap - MaxGap = (MaxMisses - missed) * MaxGap
      <4>1. MaxMisses - missed \in Int /\ MaxMisses + 1 - missed = (MaxMisses - missed) + 1
        BY TimesAssumption
      <4> QED
        BY <4>1, OneLess, TimesAssumption
    <3>2. (MaxMisses - missed) * MaxGap \in Int /\ (MaxMisses + 1 - missed) * MaxGap \in Int
      BY TimesAssumption
    <3> QED
      BY <1>0, <2>1, <2>2, <3>1, <3>2, TimesAssumption DEF Reserve
  <2>3. Reserve'
    BY <2>1, <2>2, TimesAssumption DEF Reserve, Margin, Enough
  <2> QED
    BY <2>1, <2>3
<1>4. ASSUME UNCHANGED vars PROVE IInv'
  BY <1>4 DEF vars, Reserve, Margin, Enough
<1> QED
  BY <1>1, <1>2, <1>3, <1>4 DEF Next

(* Whatever the CA's lifetimes and the config's threshold: if they leave the *)
(* margin, no sequence of skipped, good and at most MaxMisses failed runs    *)
(* lets the certificate run out before the next run.                         *)
THEOREM NeverRunsOut == Spec => []StaysValid
<1>1. IInv => StaysValid
  <2> SUFFICES ASSUME IInv, Margin PROVE left > MaxGap
    BY DEF StaysValid
  <2>1. /\ MaxMisses - missed \in Nat
        /\ MaxMisses + 1 - missed = (MaxMisses - missed) + 1
        /\ MaxGap \in Nat
        /\ left \in Int
    BY TimesAssumption DEF IInv, TypeOK
  <2>2. (MaxMisses + 1 - missed) * MaxGap - MaxGap = (MaxMisses - missed) * MaxGap
    BY <2>1, OneLess
  <2>3. (MaxMisses - missed) * MaxGap >= 0
    BY <2>1
  <2>4. (MaxMisses - missed) * MaxGap \in Int /\ (MaxMisses + 1 - missed) * MaxGap \in Int
    BY <2>1
  <2> QED
    BY <2>1, <2>2, <2>3, <2>4 DEF IInv, Reserve
<1> QED
  BY InitInv, NextInv, <1>1, PTL DEF Spec

(* The default threshold is at least one day for every lifetime of three     *)
(* days or more.                                                             *)
LEMMA DefaultMargin ==
    ASSUME NEW l \in Nat, l >= 3 * Day
    PROVE  DefaultThreshold(l) >= 1
<1>1. Days(l) \in Int /\ l < (Days(l) + 1) * Day
  BY WholeDays
<1>2. Days(l) >= 3
  BY <1>1 DEF Day
<1>3. Days(l) \div 3 >= 1
  BY <1>1, <1>2
<1> QED
  BY <1>3 DEF DefaultThreshold

(* With the default threshold and certificates of three days or more, runs   *)
(* less than two days apart, none of which fails, leave the margin: a daily  *)
(* job that runs late is enough, one that misses a day is not.               *)
THEOREM DefaultSuffices ==
    /\ RenewBefore = Unset
    /\ MaxMisses = 0
    /\ MaxGap < 2 * Day
    /\ \A l \in Lifetimes, b \in Backdates : l >= 3 * Day /\ b <= Day
    => Margin
<1> SUFFICES ASSUME RenewBefore = Unset, MaxMisses = 0, MaxGap < 2 * Day,
                    NEW l \in Lifetimes, NEW b \in Backdates, l >= 3 * Day, b <= Day
             PROVE  Enough(l, b)
  BY DEF Margin
<1>1. Threshold(l) \in Int /\ Threshold(l) >= 1
  BY DefaultMargin, ThresholdType, TimesAssumption DEF Threshold
<1>2. (Threshold(l) + 1) * Day >= 2 * Day
  BY <1>1 DEF Day
<1>3. l - b >= 2 * Day /\ l - b \in Int
  BY TimesAssumption DEF Day
<1>4. (MaxMisses + 1) * MaxGap = MaxGap
  BY TimesAssumption
<1> QED
  BY <1>1, <1>2, <1>3, <1>4, TimesAssumption DEF Enough, Day
-----------------------------------------------------------------------------
(* A run that renews finds at most threshold whole days left.                *)
LEMMA RenewFinds ==
    ASSUME NEW m \in Int, NEW l \in Int, ~Adequate(m, l)
    PROVE  m < (Threshold(l) + 1) * Day
<1>1. Days(m) \in Int /\ Threshold(l) \in Int /\ m < (Days(m) + 1) * Day
  BY WholeDays, ThresholdType
<1>2. Days(m) <= Threshold(l)
  BY <1>1 DEF Adequate
<1> QED
  BY <1>1, <1>2 DEF Day

(* With the default threshold no step replaces a certificate before two      *)
(* thirds of its lifetime, less a day, are used.                             *)
THEOREM RenewsInLastThird == Spec => UsedForTwoThirds
<1>1. IInv /\ [Next]_vars =>
        [\A g \in Gaps : RenewBefore = Unset /\ Renew(g) => 3 * (left - g) < life + 3 * Day]_vars
  <2> SUFFICES ASSUME IInv, NEW g \in Gaps, RenewBefore = Unset, Renew(g)
               PROVE  3 * (left - g) < life + 3 * Day
    OBVIOUS
  <2>1. left - g \in Int /\ life \in Int
    BY TimesAssumption DEF IInv, TypeOK
  <2>2. left - g < (DefaultThreshold(life) + 1) * Day
    BY <2>1, RenewFinds DEF Renew, Threshold
  <2>3. DefaultThreshold(life) \in Int /\ 3 * DefaultThreshold(life) <= Days(life)
    <3>1. Days(life) \in Int /\ Days(life) \div 3 \in Int /\ 3 * (Days(life) \div 3) <= Days(life)
      BY <2>1, WholeDays, Third
    <3> QED
      BY <3>1 DEF DefaultThreshold
  <2>4. Days(life) \in Int /\ Days(life) * Day <= life
    BY <2>1, WholeDays
  <2> QED
    BY <2>1, <2>2, <2>3, <2>4 DEF Day
<1> QED
  BY InitInv, NextInv, <1>1, PTL DEF Spec, UsedForTwoThirds
-----------------------------------------------------------------------------
(* A third of a span that fits in the lifetime is at most threshold whole    *)
(* days.                                                                     *)
LEMMA ThirdIsDue ==
    ASSUME NEW m \in Int, NEW l \in Nat, 0 < m, m <= l, l < 93 * Day
    PROVE  Days(m \div 3) <= DefaultThreshold(l)
<1> DEFINE x == m \div 3
<1>1. x \in Int /\ 3 * x <= m
  BY Third
<1>2. Days(x) \in Int /\ Days(x) * Day <= x
  BY <1>1, WholeDays
<1>3. Days(l) \in Int /\ l < (Days(l) + 1) * Day
  BY WholeDays
<1> HIDE DEF x
<1>4. 3 * Days(x) <= Days(l) /\ Days(x) <= 30
  BY <1>1, <1>2, <1>3 DEF Day
<1>5. Days(x) <= Days(l) \div 3
  <2>1. \A a, d \in Int : 3 * a <= d => a <= d \div 3
    OBVIOUS
  <2> QED
    BY <1>2, <1>3, <1>4, <2>1
<1>6. Days(x) <= DefaultThreshold(l)
  BY <1>4, <1>5 DEF DefaultThreshold
<1> QED
  BY <1>6 DEF x

(* A certificate that has run out is due, whatever its lifetime.             *)
LEMMA PastIsDue ==
    ASSUME NEW m \in Int, NEW l \in Nat, m <= 0
    PROVE  Days(m - 1) <= DefaultThreshold(l)
<1>1. Days(m - 1) \in Int /\ Days(m - 1) * Day <= m - 1
  BY WholeDays
<1>2. Days(m - 1) < 0
  BY <1>1 DEF Day
<1>3. Days(l) \in Int /\ l < (Days(l) + 1) * Day
  BY WholeDays
<1>4. Days(l) >= 0
  BY <1>3 DEF Day
<1>5. Days(l) \div 3 \in Nat
  BY <1>3, <1>4
<1>6. DefaultThreshold(l) \in Nat
  BY <1>5 DEF DefaultThreshold
<1> QED
  BY <1>1, <1>2, <1>6

(* A third of what a new certificate has left is no less than a third of its *)
(* days, less what it was backdated.                                         *)
LEMMA ThirdOfNew ==
    ASSUME NEW l \in Nat, NEW b \in Nat, l - b > 0
    PROVE  (l - b) \div 3 + b + Day >= (Days(l) \div 3 + 1) * Day
<1> DEFINE x == (l - b) \div 3
           d == Days(l)
           t == d \div 3
<1>1. d \in Int /\ d * Day <= l
  BY WholeDays
<1>2. t \in Int /\ 3 * t <= d
  BY <1>1, Third
<1>3. x \in Int /\ l - b <= 3 * x + 2
  OBVIOUS
<1>4. t * 1440 <= d * 480
  BY <1>1, <1>2
<1>5. 3 * (d * 480) <= 3 * (x + b) + 2 /\ d * 480 \in Int
  BY <1>1, <1>3 DEF Day
<1> HIDE DEF x, d, t
<1>6. t * 1440 <= x + b
  BY <1>1, <1>2, <1>3, <1>4, <1>5
<1> QED
  BY <1>2, <1>3, <1>6 DEF Day, x, d, t

(* A span of more than threshold whole days is adequate.                     *)
LEMMA LongIsAdequate ==
    ASSUME NEW m \in Int, NEW l \in Int, m >= (Threshold(l) + 1) * Day
    PROVE  Adequate(m, l)
<1>1. Days(m) \in Int /\ Threshold(l) \in Int /\ m < (Days(m) + 1) * Day
  BY WholeDays, ThresholdType
<1>2. Days(m) > Threshold(l)
  BY <1>1 DEF Day
<1> QED
  BY <1>2 DEF Adequate

(* Whenever status is asked, for whatever lifetimes under 93 days: at the    *)
(* time it names the gate finds the certificate on disk due, and for a new   *)
(* certificate not a day and its backdating before.                          *)
THEOREM EstimateMeetsGate == Spec => []EstimateIsDue
<1>1. IInv /\ RenewBefore = Unset /\ life < 93 * Day => NeverEarly
  <2> SUFFICES ASSUME IInv, RenewBefore = Unset, life < 93 * Day, NEW g \in Gaps
               PROVE  ~Adequate(left - g - NextRun(left - g), life)
    BY DEF NeverEarly
  <2> DEFINE m == left - g
  <2>1. m \in Int /\ m <= life /\ life \in Nat
    BY TimesAssumption DEF IInv, TypeOK, Bounded
  <2>2. Threshold(life) = DefaultThreshold(life) /\ Threshold(life) \in Int
    BY <2>1, ThresholdType DEF Threshold
  <2> HIDE DEF m
  <2>3. Days(m - NextRun(m)) \in Int /\ Days(m - NextRun(m)) <= Threshold(life)
    <3>1. CASE m <= 0
      <4>1. m - NextRun(m) = m - 1
        BY <2>1, <3>1 DEF NextRun
      <4> QED
        BY <2>1, <2>2, <3>1, <4>1, PastIsDue, WholeDays
    <3>2. CASE m > 0
      <4>1. m \div 3 \in Int
        BY <2>1, Third
      <4>2. m - NextRun(m) = m \div 3
        BY <2>1, <3>2, <4>1 DEF NextRun
      <4>3. Days(m \div 3) \in Int
        BY <4>1, WholeDays
      <4> QED
        BY <2>1, <2>2, <3>2, <4>2, <4>3, ThirdIsDue
    <3> QED
      BY <2>1, <3>1, <3>2
  <2> QED
    BY <2>2, <2>3 DEF Adequate, m
<1>2. IInv /\ RenewBefore = Unset /\ life < 93 * Day => OnTimeWhenNew
  <2> SUFFICES ASSUME IInv, RenewBefore = Unset, life < 93 * Day,
                      NEW b \in Backdates, left = life - b, left > 0
               PROVE  Adequate(left - NextRun(left) + Day + b, life)
    BY DEF OnTimeWhenNew
  <2>1. life \in Nat /\ b \in Nat
    BY TimesAssumption DEF IInv, TypeOK
  <2>2. left \div 3 \in Int /\ left - NextRun(left) = left \div 3
    BY <2>1, Third DEF NextRun
  <2>3. Threshold(life) \in Int /\ Threshold(life) <= Days(life) \div 3
    BY <2>1, ThresholdType, WholeDays, Third DEF Threshold, DefaultThreshold
  <2>4. left \div 3 + b + Day >= (Days(life) \div 3 + 1) * Day
    BY <2>1, ThirdOfNew
  <2>5. Days(life) \div 3 \in Int
    BY <2>1, WholeDays, Third
  <2>6. left \div 3 + b + Day >= (Threshold(life) + 1) * Day
    BY <2>1, <2>2, <2>3, <2>4, <2>5 DEF Day
  <2>7. left - NextRun(left) + Day + b \in Int /\ left - NextRun(left) + Day + b = left \div 3 + b + Day
    BY <2>1, <2>2 DEF Day
  <2> QED
    BY <2>1, <2>6, <2>7, LongIsAdequate
<1>3. IInv => EstimateIsDue
  BY <1>1, <1>2 DEF EstimateIsDue
<1> QED
  BY InitInv, NextInv, <1>3, PTL DEF Spec
=============================================================================
