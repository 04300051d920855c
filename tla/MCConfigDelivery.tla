-------------------------- MODULE MCConfigDelivery --------------------------
(***************************************************************************)
(* An instance of ConfigDelivery: an edit that does not parse between two  *)
(* that do.  The clock of the SPOG is two seconds ahead, a tick is half a  *)
(* second and the window one second: a nudge arrives too early, at the     *)
(* first and at the last moment that must be accepted, and too late.  The  *)
(* first nudge may be signed with another host's secret.                   *)
(***************************************************************************)
EXTENDS ConfigDelivery, TLC

Paths == [cert_output_dir |-> "/certs", key_output_dir |-> "/keys"]

Zone == [domain |-> "example.org", api_token |-> "token", note |-> "no field"]

(* An internal flow that leaves everything to its defaults, something that   *)
(* is no flow, and an external one.                                          *)
First ==
    [node_name |-> "",
     flows |-> << [type |-> "internal", name |-> "web"] @@ Paths,
                  Scalar,
                  [type |-> "external", name |-> "www", schedule_slot |-> 42,
                   config |-> [domains |-> <<"www.example.org">>, dns_provider |-> "cloudflare",
                               dns_provider_config |-> Zone]] @@ Paths >>]

(* One flow is of a type this agent does not know. *)
Second == [flows |-> << [type |-> "internal", name |-> "web"] @@ Paths,
                        [type |-> "ssh", name |-> "login"] @@ Paths >>]

Third == [node_name |-> "host",
          org |-> [acme_admin_email |-> "ca@example.org"],
          flows |-> << [type |-> "external", name |-> "www", method |-> "dns-01",
                        config |-> [acme_provider |-> "", dns_provider_config |-> Zone]] @@ Paths >>]

MCPayloads == <<First, Second, Third>>
MCSpogSecrets == <<{}, {"secret", "other"}, {"secret"}>>
MCSkew == 4
MCSymmetry == Permutations(Threads)
=============================================================================
