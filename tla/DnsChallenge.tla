---------------------------- MODULE DnsChallenge ----------------------------
(***************************************************************************)
(* The ACME DNS-01 challenges of external flows: AcmeClient_.issue         *)
(* (acme/acme.py) and the callbacks it hands to the ACME library,          *)
(* _create_record and _delete_record (acme/dns/factory.py), over the TXT   *)
(* records at the DNS provider.                                            *)
(*                                                                         *)
(* Both callbacks list the TXT records of a name and delete what they      *)
(* listed, one request each, whoever put them there.  Several runs may do  *)
(* so at once: two flows, or two runs of one flow, that share a name.  A   *)
(* domain and its wildcard have one challenge name, too.                   *)
(*                                                                         *)
(* The ACME library and the CA are external.  In which order the library   *)
(* sets up, has checked and cleans up the authorizations of an order is    *)
(* left open; it calls the clean-up for what it has set up.                *)
(***************************************************************************)
CONSTANTS
    Workers,    \* threads and processes that may run an external flow
    OrderIds,   \* bound: orders alive at once (under way, or with records left)
    Domains,    \* the domains of the flows
    Names,      \* the names of challenge records
    NameOf,     \* NameOf[d]: the record for domain d, relative to its zone
    Orders,     \* the sets of domains that flows ask for
    NoOrder,    \* not an order
    NoDomain    \* not a domain

ASSUME NoneAssumption == NoOrder \notin OrderIds /\ NoDomain \notin Domains

ASSUME NamesAssumption == NameOf \in [Domains -> Names]

ASSUME OrdersAssumption == Orders \subseteq SUBSET Domains

(* The value of a challenge's record: it is of one order and one domain. *)
Token == OrderIds \X Domains

(* What has become of a domain in an order: not in it; to be set up; its     *)
(* record created; checked by the CA; cleaned up (or valid from the start).  *)
Stages == {"absent", "pending", "posted", "valid", "closed"}

VARIABLES
    records,    \* the TXT records at each name
    pc,         \* where each worker is in issue()
    order,      \* its order
    stage,      \* the stage of each domain in that order
    at,         \* the domain whose callback runs
    listed,     \* the records its callback listed and has still to delete
    failed,     \* whether an exception is on its way out of issue()
    crossed     \* history: another run with a common name overlapped this one

call == <<at, listed>>
vars == <<records, pc, order, stage, call, failed, crossed>>

Active(w) == pc[w] # "idle"
Asked(w) == {d \in Domains : stage[w][d] # "absent"}
NamesOf(ds) == {NameOf[d] : d \in ds}
Shares(v, ds) == Active(v) /\ NamesOf(Asked(v)) \cap NamesOf(ds) # {}

TokenOf(w, d) == <<order[w], d>>
Posted(w) == {d \in Domains : stage[w][d] \in {"posted", "valid"}}

OrdersOf(tokens) == {r[1] : r \in tokens}

(* Orders without a run and without a record that is there or listed. *)
Unused == {o \in OrderIds :
             /\ \A w \in Workers : order[w] # o /\ o \notin OrdersOf(listed[w])
             /\ \A n \in Names : o \notin OrdersOf(records[n])}

Init ==
    /\ records = [n \in Names |-> {}]
    /\ pc = [w \in Workers |-> "idle"]
    /\ order = [w \in Workers |-> NoOrder]
    /\ stage = [w \in Workers |-> [d \in Domains |-> "absent"]]
    /\ at = [w \in Workers |-> NoDomain]
    /\ listed = [w \in Workers |-> {}]
    /\ failed = [w \in Workers |-> FALSE]
    /\ crossed = [w \in Workers |-> FALSE]
-----------------------------------------------------------------------------
(* start() and create_order succeeded.  The CA may remember some domains as  *)
(* valid from an earlier order.                                              *)
Begin(w, ds, remembered) ==
    /\ ~Active(w)
    /\ pc' = [pc EXCEPT ![w] = "ready"]
    /\ \E o \in Unused : order' = [order EXCEPT ![w] = o]
    /\ stage' = [stage EXCEPT ![w] =
          [d \in Domains |-> IF d \notin ds THEN "absent"
                             ELSE IF d \in remembered THEN "closed" ELSE "pending"]]
    /\ crossed' = [v \in Workers |->
          IF v = w THEN \E u \in Workers : Shares(u, ds)
                   ELSE crossed[v] \/ Shares(v, ds)]
    /\ UNCHANGED <<records, call, failed>>

(* A callback's with-block is entered: list_records. *)
Lists(w, d, step) ==
    /\ pc[w] = "ready"
    /\ pc' = [pc EXCEPT ![w] = step]
    /\ at' = [at EXCEPT ![w] = d]
    /\ listed' = [listed EXCEPT ![w] = records[NameOf[d]]]

CallReturns(w) ==
    /\ pc' = [pc EXCEPT ![w] = "ready"]
    /\ at' = [at EXCEPT ![w] = NoDomain]

(* Mutant: the records of earlier runs are left in place. *)
SetUpBlind(w, d) ==
    /\ ~failed[w]
    /\ stage[w][d] = "pending"
    /\ pc[w] = "ready"
    /\ pc' = [pc EXCEPT ![w] = "create"]
    /\ at' = [at EXCEPT ![w] = d]
    /\ UNCHANGED <<listed, records, order, stage, failed, crossed>>

(* The library calls _create_record for a domain of the order. *)
SetUp(w, d) ==
    /\ ~failed[w]
    /\ stage[w][d] = "pending"
    /\ Lists(w, d, "create")
    /\ UNCHANGED <<records, order, stage, failed, crossed>>

(* delete_record of one record listed; that it is gone already is no error. *)
Delete(w, r) ==
    /\ r \in listed[w]
    /\ listed' = [listed EXCEPT ![w] = @ \ {r}]
    /\ records' = [records EXCEPT ![NameOf[at[w]]] = @ \ {r}]
    /\ UNCHANGED <<pc, order, stage, at, failed, crossed>>

(* Mutant: the callback does not return after the creation. *)
CreateAgain(w) ==
    /\ pc[w] = "create"
    /\ listed[w] = {}
    /\ records' = [records EXCEPT ![NameOf[at[w]]] = @ \union {TokenOf(w, at[w])}]
    /\ stage' = [stage EXCEPT ![w][at[w]] = "posted"]
    /\ UNCHANGED <<pc, at, order, listed, failed, crossed>>

Create(w) ==
    /\ pc[w] = "create"
    /\ listed[w] = {}
    /\ records' = [records EXCEPT ![NameOf[at[w]]] = @ \union {TokenOf(w, at[w])}]
    /\ stage' = [stage EXCEPT ![w][at[w]] = "posted"]
    /\ CallReturns(w)
    /\ UNCHANGED <<order, listed, failed, crossed>>

(* After propagation_delay the CA looks for the record of a domain. *)
Check(w, d) ==
    /\ pc[w] = "ready"
    /\ ~failed[w]
    /\ stage[w][d] = "posted"
    /\ IF TokenOf(w, d) \in records[NameOf[d]]
       THEN stage' = [stage EXCEPT ![w][d] = "valid"] /\ UNCHANGED failed
       ELSE failed' = [failed EXCEPT ![w] = TRUE] /\ UNCHANGED stage
    /\ UNCHANGED <<records, pc, order, call, crossed>>

(* The library calls _delete_record, for what is valid or after a failure. *)
CleanUp(w, d) ==
    /\ \/ stage[w][d] = "valid"
       \/ stage[w][d] = "posted" /\ failed[w]
    /\ Lists(w, d, "clean")
    /\ UNCHANGED <<records, order, stage, failed, crossed>>

(* Mutant: the callback returns before all it listed is deleted. *)
CleanedEarly(w) ==
    /\ pc[w] = "clean"
    /\ listed' = [listed EXCEPT ![w] = {}]
    /\ stage' = [stage EXCEPT ![w][at[w]] = "closed"]
    /\ CallReturns(w)
    /\ UNCHANGED <<records, order, failed, crossed>>

Cleaned(w) ==
    /\ pc[w] = "clean"
    /\ listed[w] = {}
    /\ stage' = [stage EXCEPT ![w][at[w]] = "closed"]
    /\ CallReturns(w)
    /\ UNCHANGED <<records, order, listed, failed, crossed>>

(* A request to the provider or the CA fails: a callback raises DnsAuthError *)
(* or DnsRecordError in the middle of what it does.                          *)
Raise(w) ==
    /\ Active(w)
    /\ CallReturns(w)
    /\ failed' = [failed EXCEPT ![w] = TRUE]
    /\ listed' = [listed EXCEPT ![w] = {}]
    /\ UNCHANGED <<records, order, stage, crossed>>

(* create_record fails after it took effect (an answer that got lost): the   *)
(* library takes the record for not set up.                                  *)
CreateUnsure(w) ==
    /\ pc[w] = "create"
    /\ listed[w] = {}
    /\ records' = [records EXCEPT ![NameOf[at[w]]] = @ \union {TokenOf(w, at[w])}]
    /\ failed' = [failed EXCEPT ![w] = TRUE]
    /\ CallReturns(w)
    /\ UNCHANGED <<order, stage, listed, crossed>>

(* issue() is over, and stop() drops the session. *)
Leaves(w) ==
    /\ pc' = [pc EXCEPT ![w] = "idle"]
    /\ order' = [order EXCEPT ![w] = NoOrder]
    /\ stage' = [stage EXCEPT ![w] = [d \in Domains |-> "absent"]]
    /\ at' = [at EXCEPT ![w] = NoDomain]
    /\ listed' = [listed EXCEPT ![w] = {}]
    /\ failed' = [failed EXCEPT ![w] = FALSE]
    /\ crossed' = [crossed EXCEPT ![w] = FALSE]
    /\ UNCHANGED records

(* finalize_order and get_certificate: each domain is valid and cleaned up. *)
Finalize(w) ==
    /\ pc[w] = "ready"
    /\ ~failed[w]
    /\ \A d \in Asked(w) : stage[w][d] = "closed"
    /\ Leaves(w)

(* The exception is out, or the process dies: records may stay behind. *)
GiveUp(w) ==
    /\ Active(w)
    /\ Leaves(w)

(* Whoever looks after the zone removes a record that a run left behind. *)
Tidy ==
    \E n \in Names : \E r \in records[n] :
        /\ \A w \in Workers : order[w] # r[1]
        /\ records' = [records EXCEPT ![n] = @ \ {r}]
        /\ UNCHANGED <<pc, order, stage, call, failed, crossed>>

Step(w) ==
    \/ \E d \in Domains : SetUp(w, d) \/ Check(w, d) \/ CleanUp(w, d)
    \/ \E r \in Token : Delete(w, r)
    \/ Create(w) \/ Cleaned(w) \/ Finalize(w)

Next ==
    \/ \E w \in Workers, ds \in Orders : \E remembered \in SUBSET ds :
          Begin(w, ds, remembered)
    \/ \E w \in Workers : Step(w) \/ Raise(w) \/ CreateUnsure(w) \/ GiveUp(w)
    \/ Tidy

Spec == Init /\ [][Next]_vars
-----------------------------------------------------------------------------
(* Every variable keeps its type, a run has an order while it is active, and *)
(* a callback runs for a domain of the order.                                *)
TypeOK ==
    /\ records \in [Names -> SUBSET Token]
    /\ pc \in [Workers -> {"idle", "ready", "create", "clean"}]
    /\ order \in [Workers -> OrderIds \union {NoOrder}]
    /\ stage \in [Workers -> [Domains -> Stages]]
    /\ at \in [Workers -> Domains \union {NoDomain}]
    /\ listed \in [Workers -> SUBSET Token]
    /\ failed \in [Workers -> BOOLEAN]
    /\ crossed \in [Workers -> BOOLEAN]
    /\ \A w \in Workers :
          /\ order[w] = NoOrder <=> ~Active(w)
          /\ ~Active(w) => Asked(w) = {}
          /\ pc[w] \in {"idle", "ready"} => at[w] = NoDomain
          /\ pc[w] = "create" => at[w] \in Domains /\ stage[w][at[w]] = "pending"
          /\ pc[w] = "clean" => at[w] \in Posted(w)
          /\ listed[w] # {} => pc[w] \in {"create", "clean"}

(* No other domain of the order has this domain's challenge name. *)
Sole(w, d) == \A e \in Asked(w) : NameOf[e] = NameOf[d] => e = d

(* A run that no run with a common name overlapped, as long as no request of *)
(* its own fails, finds its own record, and no other, at each name it set    *)
(* up, whatever earlier runs left there: the CA's check cannot fail for want *)
(* of it (factory.py:72-79).  A domain and its wildcard in one order are     *)
(* excepted, as one's set-up deletes the other's record.                     *)
OwnRecord ==
    \A w \in Workers : ~crossed[w] /\ ~failed[w] =>
        \A d \in Posted(w) :
            Sole(w, d) /\ at[w] # d => records[NameOf[d]] = {TokenOf(w, d)}

(* No record is forgotten: what a run created is of a domain that it has not *)
(* cleaned up yet, so that a run that succeeds leaves nothing behind.  Only  *)
(* one that fails may, however the callbacks of several runs overlap         *)
(* (factory.py:86-92).                                                       *)
NoneForgotten ==
    \A w \in Workers, n \in Names, d \in Domains :
        <<order[w], d>> \in records[n] => d \in Posted(w) \/ failed[w]
=============================================================================
