--------------------------- MODULE MCDnsChallenge ---------------------------
(***************************************************************************)
(* An instance of DnsChallenge: one flow for a domain and its wildcard, as *)
(* in the README's example, and one for another domain.                    *)
(***************************************************************************)
EXTENDS DnsChallenge, TLC

CONSTANTS apex, wildcard, other, n1, n2

MCDomains == {apex, wildcard, other}
MCNames == {n1, n2}
MCNameOf == apex :> n1 @@ wildcard :> n1 @@ other :> n2
MCOrders == {{apex, wildcard}, {other}}

Interchangeable == Permutations(Workers) \union Permutations(OrderIds)
=============================================================================
