---------------------------- MODULE RenewalGate ----------------------------
(***************************************************************************)
(* When a certificate is renewed: the day count of _up_to_date             *)
(* (flows/base.py:147-153) as seen by the runs of one flow over time.  The *)
(* daily job is the only thing that looks at a certificate, so whether it  *)
(* stays valid hangs on whole days left, on the threshold and on the time  *)
(* between two runs.  Times are in minutes.                                *)
(***************************************************************************)
EXTENDS Integers

CONSTANTS
    Lifetimes,      \* not_after - not_before of what the CA issues
    Backdates,      \* how long before the issuance the CA puts not_before
    RenewBefore,    \* renew_before_days, or Unset
    Gaps,           \* from one run of the flow to the next
    MaxGap,         \* the longest of them
    MaxMisses       \* bound: issuances that fail one after the other

Day == 1440
Unset == -1

ASSUME TimesAssumption ==
    /\ Lifetimes \subseteq Nat
    /\ Backdates \subseteq Nat /\ Backdates # {}
    /\ MaxGap \in Nat
    /\ Gaps \subseteq 0 .. MaxGap
    /\ MaxMisses \in Nat
    /\ RenewBefore \in Int

(* timedelta.days: whole days, rounded down (also for a negative span). *)
Days(minutes) == minutes \div Day

(* Mutant: half of the lifetime. *)
DefaultThresholdHalf(life) ==
    IF Days(life) \div 2 < 30 THEN Days(life) \div 2 ELSE 30

(* min(30, lifetime_days // 3), unless the config sets renew_before_days. *)
DefaultThreshold(life) ==
    IF Days(life) \div 3 < 30 THEN Days(life) \div 3 ELSE 30

Threshold(life) == IF RenewBefore = Unset THEN DefaultThreshold(life) ELSE RenewBefore

(* Mutant: a certificate with threshold days left is still adequate. *)
AdequateLate(left, life) == Days(left) >= Threshold(life)

Adequate(left, life) == Days(left) > Threshold(life)

(* Mutant: renew when half of what is left is used. *)
NextRunHalf(span) == IF span <= 0 THEN 1 ELSE span - span \div 2

(* compute_next_run as cmd_status calls it: how long after now the CLI says  *)
(* that a certificate with this span left is renewed.  It leaves a third of  *)
(* the span; a certificate that has run out is said to be renewed in half a  *)
(* minute, here one.                                                         *)
NextRun(span) == IF span <= 0 THEN 1 ELSE span - span \div 3

(* Every run may come MaxGap after the one before, and MaxMisses of them may *)
(* fail: the margin a certificate must leave for the next one to succeed.    *)
Enough(life, backdate) ==
    /\ (MaxMisses + 1) * MaxGap < (Threshold(life) + 1) * Day
    /\ (MaxMisses + 1) * MaxGap < life - backdate

VARIABLES
    left,       \* not_after - now at the last run
    life,       \* the lifetime of the certificate on disk
    missed      \* issuances that failed since the last good run

vars == <<left, life, missed>>

(* The first certificate has just been issued. *)
Init ==
    /\ \E l \in Lifetimes, b \in Backdates : life = l /\ left = l - b
    /\ missed = 0

(* A run after gap g that finds the certificate adequate. *)
Skip(g) ==
    /\ Adequate(left - g, life)
    /\ left' = left - g
    /\ missed' = 0
    /\ UNCHANGED life

(* A run that finds it inadequate and replaces it. *)
Renew(g) ==
    /\ ~Adequate(left - g, life)
    /\ \E l \in Lifetimes, b \in Backdates : life' = l /\ left' = l - b
    /\ missed' = 0

(* A run that finds it inadequate and fails to obtain another: the next try  *)
(* is the next run.                                                          *)
Miss(g) ==
    /\ ~Adequate(left - g, life)
    /\ missed < MaxMisses
    /\ left' = left - g
    /\ missed' = missed + 1
    /\ UNCHANGED life

Next == \E g \in Gaps : Skip(g) \/ Renew(g) \/ Miss(g)

Spec == Init /\ [][Next]_vars
-----------------------------------------------------------------------------
(* If the threshold and the lifetimes leave enough margin for the failures   *)
(* in a row and for late runs, the certificate is valid until the next run,  *)
(* however late that is: days are rounded down and compared with <=, so a    *)
(* run that skips leaves threshold + 1 whole days (flows/base.py:151-153).   *)
Margin == \A l \in Lifetimes, b \in Backdates : Enough(l, b)

StaysValid == Margin => left > MaxGap

(* With the default threshold a certificate is not replaced before two       *)
(* thirds of its lifetime, but for the last day of them, are used: the runs  *)
(* of every day, boot and nudge do not burn issuances (flows/base.py:83-85). *)
UsedForTwoThirds ==
    [][\A g \in Gaps :
          RenewBefore = Unset /\ Renew(g) => 3 * (left - g) < life + 3 * Day]_vars

(* The CLI takes a third of what is left when it is asked, the gate a third  *)
(* of the lifetime in whole days, at most 30.  For lifetimes under 93 days   *)
(* the time that the status command names is never too early: the gate finds *)
(* the certificate due by then.  Of a certificate that has just been issued  *)
(* it is not too late either: a day earlier, and the time by which the CA    *)
(* put not_before back, the gate still skips.  The longer ago the issuance,  *)
(* the later is the time that status names (cli.py:63,                       *)
(* renewal_timing.py:27-33, flows/base.py:147-152).                          *)
NeverEarly == \A g \in Gaps : LET span == left - g IN ~Adequate(span - NextRun(span), life)

OnTimeWhenNew ==
    \A b \in Backdates :
        left = life - b /\ left > 0 => Adequate(left - NextRun(left) + Day + b, life)

EstimateIsDue ==
    RenewBefore = Unset /\ life < 93 * Day => NeverEarly /\ OnTimeWhenNew
=============================================================================
