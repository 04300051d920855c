----------------------------- MODULE ConfigModel -----------------------------
(***************************************************************************)
(* AgentConfig and its JSON form (config/models.py, base/models.py): what  *)
(* loads makes of a payload of the SPOG or of config.json, and what dumps  *)
(* writes.  A JSON object is a function from its keys; a member of a       *)
(* StrEnum is its string.  That loads raises is that Parses is false.      *)
(***************************************************************************)
EXTENDS Integers, Sequences

CONSTANTS
    Null,       \* JSON null, Python None
    Scalar,     \* a JSON value that is not an object where one belongs
    Hostname    \* socket.gethostname()

FlowType == {"internal", "external"}
FlowMethod == {"x5c", "scep", "dns-01"}
AcmeProvider == {"letsencrypt", "letsencrypt-staging", "internal-acme"}
DnsProviders == {"ddns", "googleclouddns", "cloudflare"}

ASSUME NullAssumption == Null \notin FlowMethod \union AcmeProvider \union DnsProviders

DefaultMethod == [internal |-> "x5c", external |-> "dns-01"]

OrganizationDefaults ==
    [spog_url |-> "", smallstep_root_pem |-> "", acme_directory_url |-> "",
     acme_admin_email |-> ""]

InternalDefaults ==
    [ca_url |-> "", provisioner |-> "", x5c_cert_path |-> "", x5c_key_path |-> "",
     root_bundle_path |-> "", hostname |-> "", permitted_sans |-> <<>>]

ExternalDefaults ==
    [acme_provider |-> "letsencrypt", domains |-> <<>>, dns_provider |-> Null,
     dns_provider_config |-> Null, account_dir |-> "/var/lib/nextep-agent/acme/accounts"]

(* The fields of a provider's config that have defaults; domain has none. *)
ProviderDefaults ==
    [ddns |-> [propagation_delay |-> 30, ttl |-> 300, server |-> "", tsig_key |-> ""],
     googleclouddns |->
        [propagation_delay |-> 30, ttl |-> 300, project_id |-> "", service_account_info |-> ""],
     cloudflare |-> [propagation_delay |-> 30, ttl |-> 300, api_token |-> "", zone_id |-> ""]]

(* dict.get *)
Get(raw, key) == IF key \in DOMAIN raw THEN raw[key] ELSE Null

Falsy(string) == string = Null \/ string = ""
OrEmpty(object) == IF object = Null THEN <<>> ELSE object

(* Known keys are taken over, unknown ones dropped, missing ones defaulted. *)
Construct(defaults, raw) ==
    [k \in DOMAIN defaults |-> IF k \in DOMAIN raw THEN raw[k] ELSE defaults[k]]
-----------------------------------------------------------------------------
(* A provider's config is an instance of the class of its provider. *)
ProviderConfig(provider, raw) ==
    [class |-> provider,
     domain |-> raw["domain"],
     options |-> Construct(ProviderDefaults[provider], raw)]

ParsesExternal(raw) ==
    /\ LET provider == Get(raw, "acme_provider")
       IN  Falsy(provider) \/ provider \in AcmeProvider
    /\ LET provider == Get(raw, "dns_provider")
       IN  ~Falsy(provider) =>
              /\ provider \in DnsProviders
              /\ "domain" \in DOMAIN OrEmpty(Get(raw, "dns_provider_config"))

(* Without a provider its config is kept as it came. *)
ExternalBody(raw) ==
    LET body == Construct(ExternalDefaults, raw)
    IN  IF Falsy(body.dns_provider) THEN body
        ELSE [body EXCEPT !.dns_provider_config = ProviderConfig(body.dns_provider, @)]

RequiredKeys == {"type", "name", "cert_output_dir", "key_output_dir"}

ParsesFlow(raw) ==
    /\ RequiredKeys \subseteq DOMAIN raw
    /\ raw["type"] \in FlowType
    /\ LET method == Get(raw, "method")
       IN  Falsy(method) \/ method \in FlowMethod
    /\ raw["type"] = "external" => ParsesExternal(OrEmpty(Get(raw, "config")))

Flow(raw) ==
    LET body == OrEmpty(Get(raw, "config"))
    IN  [type |-> raw["type"],
         method |-> IF Falsy(Get(raw, "method")) THEN DefaultMethod[raw["type"]] ELSE raw["method"],
         name |-> raw["name"],
         cert_output_dir |-> raw["cert_output_dir"],
         key_output_dir |-> raw["key_output_dir"],
         config |-> IF raw["type"] = "external" THEN ExternalBody(body)
                    ELSE Construct(InternalDefaults, body),
         post_renewal_script |-> Get(raw, "post_renewal_script"),
         schedule_slot |-> Get(raw, "schedule_slot"),
         renew_before_days |-> Get(raw, "renew_before_days")]

(* What is in the list of flows and is no object is passed over. *)
IsObject(f) == f # Scalar
ObjectsIn(list) ==
    LET kept[i \in 0 .. Len(list)] ==
            IF i = 0 THEN <<>>
            ELSE IF IsObject(list[i]) THEN Append(kept[i - 1], list[i])
            ELSE kept[i - 1]
    IN  kept[Len(list)]

Objects(raw) == IF "flows" \in DOMAIN raw THEN ObjectsIn(raw["flows"]) ELSE <<>>

(* A list of flows that is null cannot be iterated. *)
Parses(raw) ==
    /\ "flows" \in DOMAIN raw => raw["flows"] # Null
    /\ \A i \in DOMAIN Objects(raw) : ParsesFlow(Objects(raw)[i])

Loads(raw) ==
    [node_name |-> IF Falsy(Get(raw, "node_name")) THEN Hostname ELSE raw["node_name"],
     org |-> IF Get(raw, "org") \in {Null, Scalar} THEN Null
             ELSE Construct(OrganizationDefaults, raw["org"]),
     flows |-> [i \in DOMAIN Objects(raw) |-> Flow(Objects(raw)[i])]]
-----------------------------------------------------------------------------
(* asdict: the fields of every dataclass, whose class is not written. *)
DumpsProvider(config) ==
    [k \in {"domain"} \union DOMAIN config.options |->
        IF k = "domain" THEN config.domain ELSE config.options[k]]

(* Mutant: the zone, a field of the base class, is not written. *)
DumpsFlowBare(flow) ==
    IF flow.type = "external" /\ ~Falsy(flow.config.dns_provider)
    THEN [flow EXCEPT !.config.dns_provider_config = @.options]
    ELSE flow

DumpsFlow(flow) ==
    IF flow.type = "external" /\ ~Falsy(flow.config.dns_provider)
    THEN [flow EXCEPT !.config.dns_provider_config = DumpsProvider(@)]
    ELSE flow

Dumps(config) ==
    [config EXCEPT !.flows = [i \in DOMAIN config.flows |-> DumpsFlow(config.flows[i])]]
-----------------------------------------------------------------------------
(* make_runner: the pairs of type and method that are built. *)
HasRunner(flow) == <<flow.type, flow.method>> \in {<<"internal", "x5c">>, <<"external", "dns-01">>}
=============================================================================
