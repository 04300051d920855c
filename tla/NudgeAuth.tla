------------------------------ MODULE NudgeAuth ------------------------------
(***************************************************************************)
(* How a wake-up nudge is checked (server/hmac_auth.py).  A signature is   *)
(* what it is made from, so only the holder of a secret makes one that     *)
(* verifies under it.  The clock runs in ticks, Resolution of them to a    *)
(* second; headers carry whole seconds.                                    *)
(***************************************************************************)
EXTENDS Integers

CONSTANTS
    MaxSkew,    \* max_skew_seconds
    NoSecret,   \* b"", the secret of a host that was given none
    Resolution  \* ticks of the clock in a second

ASSUME ClockAssumption == MaxSkew \in Nat /\ Resolution \in Nat \ {0}

(* int(time.time()) *)
Seconds(ticks) == ticks \div Resolution

Abs(n) == IF n < 0 THEN -n ELSE n

(* HMAC-SHA256 of "v1|ts|nonce|msg". *)
Sign(secret, ts, nonce, msg) == <<secret, ts, nonce, msg>>

(* Mutant: the host rounds its clock where the SPOG cuts it. *)
FreshRounded(ts, now) ==
    Abs((2 * now + Resolution) \div (2 * Resolution) - ts) <= MaxSkew

Fresh(ts, now) == Abs(Seconds(now) - ts) <= MaxSkew

(* verify_nudge of a nudge whose headers are all there.  A host without a    *)
(* secret refuses every nudge.                                               *)
Verify(secret, nudge, now) ==
    /\ secret # NoSecret
    /\ Fresh(nudge.ts, now)
    /\ nudge.sig = Sign(secret, nudge.ts, nudge.nonce, nudge.body)
=============================================================================
