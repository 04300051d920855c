--------------------------- MODULE MCRenewalGate ---------------------------
(***************************************************************************)
(* An instance of RenewalGate: certificates of 24, 90 and, to the minute,  *)
(* just under 93 days, where the default threshold stops growing; a run a  *)
(* day in a zone with summer time, one that misses a day, and a nudge half *)
(* an hour after a run.                                                    *)
(***************************************************************************)
EXTENDS RenewalGate

MCLifetimes == {24 * Day, 90 * Day, 93 * Day - 1}
MCRenewBefore == Unset
MCBackdates == {1, 60}
MCGaps == {30, Day - 60, Day, Day + 60, 2 * Day, 2 * Day + 60}
=============================================================================
