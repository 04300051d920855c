------------------------------ MODULE CertStore ------------------------------
(***************************************************************************)
(* What a flow's pair of files promises to the application that loads      *)
(* them (the docstrings of flows/base.py, 79-85 and 131-133): one value, a *)
(* certificate together with its key, replaced as a whole, only by a newer *)
(* issuance, and only when the flow has no use for the old one.  The       *)
(* application is handed the pair that is there.  FlowRunner implements    *)
(* this when runs come one at a time and none is cut short.                *)
(***************************************************************************)
EXTENDS Integers, Sequences

CONSTANTS Sans, Wanted      \* Wanted: the SAN sets the flow's configs ask for

VARIABLES
    issued,     \* issued[s]: the SANs of the issuance with serial s
    due,        \* the serials within their renewal threshold
    pair,       \* the serial of the pair on disk, 0 before the first
    loaded      \* the serial the application runs with

vars == <<issued, due, pair, loaded>>

Init == issued = <<>> /\ due = {} /\ pair = 0 /\ loaded = 0

(* Some form of the flow has no use for the pair on disk. *)
Wanting == pair = 0 \/ pair \in due \/ \E s \in Wanted : issued[pair] # s

(* A certificate is asked for only then: a tick or a boot is idempotent. *)
Issue ==
    /\ Wanting
    /\ \E s \in Sans : issued' = Append(issued, s)
    /\ UNCHANGED <<due, pair, loaded>>

Replace ==
    /\ Wanting
    /\ pair < Len(issued)
    /\ pair' = Len(issued)
    /\ UNCHANGED <<issued, due, loaded>>

Reload == loaded' = pair /\ UNCHANGED <<issued, due, pair>>

Age == \E s \in 1 .. Len(issued) : due' = due \union {s} /\ UNCHANGED <<issued, pair, loaded>>

Next == Issue \/ Replace \/ Reload \/ Age

Spec == Init /\ [][Next]_vars
=============================================================================
