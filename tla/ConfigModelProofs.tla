-------------------------- MODULE ConfigModelProofs --------------------------
(***************************************************************************)
(* Theorems on ConfigModel, for every payload: a flow, and a config, that  *)
(* was parsed, written and parsed again is the same.                       *)
(***************************************************************************)
EXTENDS ConfigModel, SequenceTheorems, WellFoundedInduction, TLAPS

(* Construct yields every field, and of what it yields it makes the same.    *)
LEMMA ConstructFields ==
    ASSUME NEW defaults, NEW raw
    PROVE  DOMAIN Construct(defaults, raw) = DOMAIN defaults
BY DEF Construct

(* Constructing from what was constructed changes nothing.                   *)
LEMMA ConstructAgain ==
    ASSUME NEW defaults, NEW raw
    PROVE  Construct(defaults, Construct(defaults, raw)) = Construct(defaults, raw)
BY DEF Construct

(* A value that is a function, which an object is and null is not.           *)
IsFunction(x) == x = [k \in DOMAIN x |-> x[k]]

(* What asdict makes of a provider's config is parsed into that config, for  *)
(* every provider: none of them calls an option of its own "domain".         *)
LEMMA ProviderRoundTrip ==
    ASSUME NEW provider \in DnsProviders, NEW raw
    PROVE  LET config == ProviderConfig(provider, raw)
           IN  /\ ProviderConfig(provider, DumpsProvider(config)) = config
               /\ IsFunction(DumpsProvider(config))
               /\ "domain" \in DOMAIN DumpsProvider(config)
<1> DEFINE defaults == ProviderDefaults[provider]
           config == ProviderConfig(provider, raw)
           text == DumpsProvider(config)
<1>1. "domain" \notin DOMAIN defaults
  <2>1. /\ "domain" \notin DOMAIN ProviderDefaults["ddns"]
        /\ "domain" \notin DOMAIN ProviderDefaults["googleclouddns"]
        /\ "domain" \notin DOMAIN ProviderDefaults["cloudflare"]
    BY DEF ProviderDefaults
  <2> QED
    BY <2>1 DEF DnsProviders
<1>2. /\ config.class = provider
      /\ config.domain = raw["domain"]
      /\ config.options = Construct(defaults, raw)
  BY DEF ProviderConfig
<1>3. DOMAIN config.options = DOMAIN defaults
  BY <1>2, ConstructFields
<1>4. /\ DOMAIN text = {"domain"} \union DOMAIN defaults
      /\ text["domain"] = config.domain
      /\ \A k \in DOMAIN defaults : text[k] = config.options[k]
  BY <1>1, <1>3 DEF DumpsProvider
<1>5. Construct(defaults, text) = Construct(defaults, raw)
  BY <1>2, <1>4 DEF Construct
<1>6. ProviderConfig(provider, text) = config
  BY <1>2, <1>4, <1>5 DEF ProviderConfig
<1>7. IsFunction(text)
  BY DEF IsFunction, DumpsProvider
<1> QED
  BY <1>4, <1>6, <1>7

(* The body of an external flow, as it is written.                           *)
Written(body) ==
    IF Falsy(body.dns_provider) THEN body
    ELSE [body EXCEPT !.dns_provider_config = DumpsProvider(@)]

(* An external flow that is parsed, written and parsed again is the same.    *)
LEMMA ExternalRoundTrip ==
    ASSUME NEW raw, ParsesExternal(raw), ~IsFunction(Null)
    PROVE  LET text == Written(ExternalBody(raw))
           IN  /\ ParsesExternal(text)
               /\ ExternalBody(text) = ExternalBody(raw)
               /\ IsFunction(text)
<1> DEFINE plain == Construct(ExternalDefaults, raw)
           body == ExternalBody(raw)
           text == Written(body)
           provider == plain.dns_provider
<1>1. DOMAIN plain = DOMAIN ExternalDefaults
  BY ConstructFields
<1>2. /\ "acme_provider" \in DOMAIN ExternalDefaults
      /\ "dns_provider" \in DOMAIN ExternalDefaults
      /\ "dns_provider_config" \in DOMAIN ExternalDefaults
      /\ ExternalDefaults.acme_provider \in AcmeProvider
      /\ ExternalDefaults.dns_provider = Null
  BY DEF ExternalDefaults, AcmeProvider
<1>3. Falsy(plain.acme_provider) \/ plain.acme_provider \in AcmeProvider
  BY <1>2 DEF ParsesExternal, Construct, Get, Falsy
<1>4. Falsy(provider) \/ provider \in DnsProviders
  BY <1>2 DEF ParsesExternal, Construct, Get, Falsy
<1>5. CASE Falsy(provider)
  <2>1. body = plain /\ text = plain
    BY <1>5 DEF ExternalBody, Written
  <2>2. ParsesExternal(plain)
    BY <1>1, <1>2, <1>3, <1>5 DEF ParsesExternal, Get
  <2>3. Construct(ExternalDefaults, plain) = plain
    BY ConstructAgain
  <2>4. ExternalBody(plain) = plain
    BY <2>3, <1>5 DEF ExternalBody
  <2>5. IsFunction(plain)
    BY DEF IsFunction, Construct
  <2> QED
    BY <2>1, <2>2, <2>4, <2>5
<1>6. CASE ~Falsy(provider)
  <2> DEFINE config == ProviderConfig(provider, plain.dns_provider_config)
  <2>1. body = [plain EXCEPT !.dns_provider_config = config]
    BY <1>6 DEF ExternalBody
  <2>2. body.dns_provider = provider /\ body.dns_provider_config = config
    BY <2>1, <1>1, <1>2
  <2>3. text = [body EXCEPT !.dns_provider_config = DumpsProvider(config)]
    BY <2>2, <1>6 DEF Written
  <2>4. /\ DOMAIN text = DOMAIN ExternalDefaults
        /\ text.dns_provider = provider
        /\ text.acme_provider = plain.acme_provider
        /\ text.dns_provider_config = DumpsProvider(config)
    BY <2>1, <2>3, <1>1, <1>2
  <2>5. /\ ProviderConfig(provider, DumpsProvider(config)) = config
        /\ IsFunction(DumpsProvider(config))
        /\ "domain" \in DOMAIN DumpsProvider(config)
    BY <1>4, <1>6, ProviderRoundTrip
  <2>6. DumpsProvider(config) # Null
    BY <2>5
  <2>7. ParsesExternal(text)
    BY <2>4, <2>5, <2>6, <1>2, <1>3, <1>4, <1>6 DEF ParsesExternal, Get, OrEmpty
  <2>8. IsFunction(text)
    BY <2>1, <2>3, <1>1 DEF IsFunction
  <2>9. Construct(ExternalDefaults, text) = text
    BY <2>4, <2>8 DEF Construct, IsFunction
  <2>10. ExternalBody(text) = [text EXCEPT !.dns_provider_config = config]
    BY <2>4, <2>5, <2>9, <1>6 DEF ExternalBody
  <2>11. [text EXCEPT !.dns_provider_config = config] = body
    BY <2>1, <2>3, <1>1
  <2> QED
    BY <2>7, <2>8, <2>10, <2>11
<1> QED
  BY <1>5, <1>6

(* A flow is made of its fields.                                             *)
LEMMA FlowFields ==
    ASSUME NEW raw
    PROVE  LET flow == Flow(raw)
           IN  flow = [type |-> flow.type, method |-> flow.method, name |-> flow.name,
                       cert_output_dir |-> flow.cert_output_dir,
                       key_output_dir |-> flow.key_output_dir, config |-> flow.config,
                       post_renewal_script |-> flow.post_renewal_script,
                       schedule_slot |-> flow.schedule_slot,
                       renew_before_days |-> flow.renew_before_days]
BY DEF Flow

(* A flow that parses is written as one that parses, into the same flow: the *)
(* classes of its body come back, the defaults that were filled in stay, and *)
(* what was dropped is not missed (config/models.py:167-211, base/models.py: *)
(* 21-42).                                                                   *)
THEOREM FlowRoundTrip ==
    ASSUME NEW raw, ParsesFlow(raw), ~IsFunction(Null)
    PROVE  /\ ParsesFlow(DumpsFlow(Flow(raw)))
           /\ Flow(DumpsFlow(Flow(raw))) = Flow(raw)
<1> DEFINE flow == Flow(raw)
           text == DumpsFlow(flow)
           body == OrEmpty(Get(raw, "config"))
           fields == {"type", "method", "name", "cert_output_dir", "key_output_dir", "config",
                      "post_renewal_script", "schedule_slot", "renew_before_days"}
<1>1. DOMAIN flow = fields /\ flow.type = raw["type"] /\ flow.type \in FlowType
  BY DEF Flow, ParsesFlow
<1>2. flow.method \in FlowMethod /\ ~Falsy(flow.method)
  <2>1. flow.method = IF Falsy(Get(raw, "method")) THEN DefaultMethod[raw["type"]]
                      ELSE raw["method"]
    BY DEF Flow
  <2>2. DefaultMethod[raw["type"]] \in FlowMethod
    BY <1>1 DEF DefaultMethod, FlowType, FlowMethod
  <2>3. flow.method \in FlowMethod
    BY <2>1, <2>2 DEF ParsesFlow, Get, Falsy
  <2> QED
    BY <2>3, NullAssumption DEF FlowMethod, Falsy
<1>3. flow.config = IF flow.type = "external" THEN ExternalBody(body)
                    ELSE Construct(InternalDefaults, body)
  BY DEF Flow
<1>4. /\ DOMAIN text = fields
      /\ \A k \in fields \ {"config"} : text[k] = flow[k]
      /\ text.config = IF flow.type = "external" THEN Written(flow.config) ELSE flow.config
  BY <1>1 DEF DumpsFlow, Written
<1>5. /\ IsFunction(text.config)
      /\ flow.type = "external" => ParsesExternal(text.config)
      /\ flow.config = IF flow.type = "external" THEN ExternalBody(text.config)
                       ELSE Construct(InternalDefaults, text.config)
  <2>1. CASE flow.type = "external"
    <3>1. ParsesExternal(body)
      BY <2>1, <1>1 DEF ParsesFlow
    <3> QED
      BY <2>1, <3>1, <1>3, <1>4, ExternalRoundTrip
  <2>2. CASE flow.type # "external"
    <3>1. text.config = Construct(InternalDefaults, body) /\ flow.config = text.config
      BY <2>2, <1>3, <1>4
    <3>2. IsFunction(Construct(InternalDefaults, body))
      BY DEF IsFunction, Construct
    <3> QED
      BY <2>2, <3>1, <3>2, ConstructAgain
  <2> QED
    BY <2>1, <2>2
<1>6. OrEmpty(Get(text, "config")) = text.config
  BY <1>4, <1>5 DEF OrEmpty, Get
<1>7. ParsesFlow(text)
  BY <1>1, <1>2, <1>4, <1>5, <1>6 DEF ParsesFlow, RequiredKeys, Get
<1>8. Flow(text) = flow
  <2>1. Flow(text).config = flow.config
    BY <1>1, <1>4, <1>5, <1>6 DEF Flow
  <2>2. Flow(text).method = flow.method
    BY <1>2, <1>4 DEF Flow, Get
  <2>3. \A k \in fields \ {"config", "method"} : Flow(text)[k] = flow[k]
    BY <1>4 DEF Flow, Get
  <2>4. /\ Flow(text).type = flow.type /\ Flow(text).name = flow.name
        /\ Flow(text).cert_output_dir = flow.cert_output_dir
        /\ Flow(text).key_output_dir = flow.key_output_dir
        /\ Flow(text).post_renewal_script = flow.post_renewal_script
        /\ Flow(text).schedule_slot = flow.schedule_slot
        /\ Flow(text).renew_before_days = flow.renew_before_days
    BY <2>3
  <2> HIDE DEF flow, text
  <2> QED
    BY <2>1, <2>2, <2>4, FlowFields DEF flow
<1> QED
  BY <1>7, <1>8

-----------------------------------------------------------------------------
(* Induction on Nat: a set of numbers has a least one.                       *)
LEMMA LeastNumber ==
    ASSUME NEW T, T \subseteq Nat, T # {}
    PROVE  \E m \in T : \A k \in T : m <= k
<1> DEFINE R == {ss \in Nat \X Nat : ss[1] < ss[2]}
<1>1. IsWellFoundedOn(R, Nat)
  BY NatLessThanWellFounded DEF OpToRel
<1>2. \A k, m \in Nat : <<k, m>> \in R <=> k < m
  OBVIOUS
<1> HIDE DEF R
<1>3. PICK m \in T : \A k \in T : ~ (<<k, m>> \in R)
  BY <1>1, WFMin
<1>4. m \in T /\ \A k \in T : m <= k
  <2> SUFFICES ASSUME NEW k \in T PROVE m <= k
    OBVIOUS
  <2>1. k \in Nat /\ m \in Nat
    OBVIOUS
  <2>2. ~ (k < m)
    BY <1>2, <1>3, <2>1
  <2> QED
    BY <2>1, <2>2
<1> QED
  BY <1>4

(* The function of ObjectsIn, as far as n.                                   *)
KeptTo(list, n, g) ==
    g = [i \in 0 .. n |->
            IF i = 0 THEN <<>>
            ELSE IF IsObject(list[i]) THEN Append(g[i - 1], list[i])
            ELSE g[i - 1]]

(* There is such a function for every length: a least length without one     *)
(* would have a predecessor with one.                                        *)
LEMMA KeptExists ==
    ASSUME NEW list, NEW n \in Nat
    PROVE  \E g : KeptTo(list, n, g)
<1> DEFINE T == {k \in Nat : ~ \E g : KeptTo(list, k, g)}
<1> SUFFICES ASSUME T # {} PROVE FALSE
  OBVIOUS
<1>1. PICK m \in T : \A k \in T : m <= k
  <2>1. T \subseteq Nat
    OBVIOUS
  <2> HIDE DEF T
  <2> QED
    BY <2>1, LeastNumber
<1>2. CASE m = 0
  <2>1. KeptTo(list, 0, [i \in 0 .. 0 |-> <<>>])
    BY DEF KeptTo
  <2> QED
    BY <1>2, <2>1
<1>3. CASE m # 0
  <2>1. m - 1 \in Nat /\ m - 1 \notin T
    BY <1>1, <1>3
  <2>2. PICK g : KeptTo(list, m - 1, g)
    BY <2>1
  <2> DEFINE last == IF IsObject(list[m]) THEN Append(g[m - 1], list[m]) ELSE g[m - 1]
             h == [i \in 0 .. m |-> IF i < m THEN g[i] ELSE last]
  <2>3. \A i \in 0 .. m - 1 : h[i] = g[i]
    BY <2>1
  <2>4. h[m] = last /\ m - 1 \in 0 .. m - 1
    BY <2>1
  <2>5. \A i \in 0 .. m - 1 :
           g[i] = IF i = 0 THEN <<>>
                  ELSE IF IsObject(list[i]) THEN Append(g[i - 1], list[i])
                  ELSE g[i - 1]
    BY <2>2 DEF KeptTo
  <2>6. \A i \in 0 .. m :
           h[i] = IF i = 0 THEN <<>>
                  ELSE IF IsObject(list[i]) THEN Append(h[i - 1], list[i])
                  ELSE h[i - 1]
    <3> SUFFICES ASSUME NEW i \in 0 .. m
                 PROVE  h[i] = IF i = 0 THEN <<>>
                               ELSE IF IsObject(list[i]) THEN Append(h[i - 1], list[i])
                               ELSE h[i - 1]
      OBVIOUS
    <3> HIDE DEF h
    <3>1. CASE i = m
      BY <1>3, <2>3, <2>4, <3>1
    <3>2. CASE i = 0
      BY <2>1, <2>3, <2>5, <3>2
    <3>3. CASE i # 0 /\ i # m
      <4>1. i \in 0 .. m - 1 /\ i - 1 \in 0 .. m - 1
        BY <2>1, <3>3
      <4> QED
        BY <2>3, <2>5, <3>3, <4>1
    <3> QED
      BY <3>1, <3>2, <3>3
  <2>7. h = [i \in 0 .. m |-> h[i]]
    OBVIOUS
  <2> HIDE DEF h
  <2>8. KeptTo(list, m, h)
    BY <2>6, <2>7 DEF KeptTo
  <2> QED
    BY <2>8
<1> QED
  BY <1>2, <1>3

(* ObjectsIn is the last value of it.                                        *)
LEMMA ObjectsKept ==
    ASSUME NEW S, NEW list \in Seq(S)
    PROVE  \E g : KeptTo(list, Len(list), g) /\ ObjectsIn(list) = g[Len(list)]
<1> DEFINE g == CHOOSE h : KeptTo(list, Len(list), h)
<1>1. KeptTo(list, Len(list), g)
  BY KeptExists
<1>2. ObjectsIn(list) = g[Len(list)]
  BY DEF ObjectsIn, KeptTo
<1> HIDE DEF g
<1> QED
  BY <1>1, <1>2

(* What is kept of a list is a list of objects.                              *)
LEMMA ObjectsType ==
    ASSUME NEW S, NEW list \in Seq(S)
    PROVE  ObjectsIn(list) \in Seq({x \in S : IsObject(x)})
<1> DEFINE O == {x \in S : IsObject(x)}
<1>1. PICK g : KeptTo(list, Len(list), g) /\ ObjectsIn(list) = g[Len(list)]
  BY ObjectsKept
<1>2. Len(list) \in Nat /\ \A i \in 1 .. Len(list) : list[i] \in S
  OBVIOUS
<1>3. \A i \in 0 .. Len(list) :
         g[i] = IF i = 0 THEN <<>>
                ELSE IF IsObject(list[i]) THEN Append(g[i - 1], list[i])
                ELSE g[i - 1]
  BY <1>1 DEF KeptTo
<1> DEFINE T == {i \in 0 .. Len(list) : g[i] \notin Seq(O)}
<1>4. T = {}
  <2> SUFFICES ASSUME T # {} PROVE FALSE
    OBVIOUS
  <2>1. PICK m \in T : \A k \in T : m <= k
    <3>1. T \subseteq Nat
      BY <1>2
    <3> HIDE DEF T
    <3> QED
      BY <3>1, LeastNumber
  <2>2. CASE m = 0
    <3>1. g[0] = <<>> /\ g[0] \notin Seq(O)
      BY <1>2, <1>3, <2>2
    <3> HIDE DEF O
    <3> QED
      BY <3>1
  <2>3. CASE m # 0
    <3>1. m \in 1 .. Len(list) /\ m - 1 \in 0 .. Len(list) /\ m - 1 \notin T
      BY <1>2, <2>1, <2>3
    <3>2. g[m - 1] \in Seq(O) /\ list[m] \in S
      BY <1>2, <3>1
    <3>3. g[m] \in {g[m - 1]} \union {Append(g[m - 1], x) : x \in O}
      BY <1>3, <2>3, <3>1, <3>2
    <3>4. g[m] \in Seq(O)
      <4> HIDE DEF O, T
      <4> QED
        BY <3>2, <3>3, AppendProperties
    <3> QED
      BY <3>4
  <2> QED
    BY <2>2, <2>3
<1>5. g[Len(list)] \in Seq(O)
  BY <1>2, <1>4
<1> QED
  BY <1>1, <1>5

(* Of a list of objects all is kept, in its order.                           *)
LEMMA ObjectsOnly ==
    ASSUME NEW S, NEW list \in Seq(S), \A i \in 1 .. Len(list) : IsObject(list[i])
    PROVE  ObjectsIn(list) = list
<1>1. PICK g : KeptTo(list, Len(list), g) /\ ObjectsIn(list) = g[Len(list)]
  BY ObjectsKept
<1>2. Len(list) \in Nat
  OBVIOUS
<1>3. g[0] = <<>> /\ \A i \in 1 .. Len(list) : g[i] = Append(g[i - 1], list[i])
  <2>1. \A i \in 0 .. Len(list) :
           g[i] = IF i = 0 THEN <<>>
                  ELSE IF IsObject(list[i]) THEN Append(g[i - 1], list[i])
                  ELSE g[i - 1]
    BY <1>1 DEF KeptTo
  <2>2. 0 \in 0 .. Len(list) /\ \A i \in 1 .. Len(list) : i \in 0 .. Len(list) /\ i # 0
    BY <1>2
  <2>3. g[0] = <<>>
    BY <2>1, <2>2
  <2>4. ASSUME NEW i \in 1 .. Len(list)
        PROVE  g[i] = Append(g[i - 1], list[i])
    <3>1. IsObject(list[i])
      OBVIOUS
    <3> QED
      BY <2>1, <2>2, <3>1, Zenon
  <2> QED
    BY <2>3, <2>4
<1> DEFINE T == {i \in 0 .. Len(list) : g[i] # SubSeq(list, 1, i)}
<1>4. T = {}
  <2> SUFFICES ASSUME T # {} PROVE FALSE
    OBVIOUS
  <2>1. PICK m \in T : \A k \in T : m <= k
    <3>1. T \subseteq Nat
      BY <1>2
    <3> HIDE DEF T
    <3> QED
      BY <3>1, LeastNumber
  <2>2. CASE m = 0
    <3>1. SubSeq(list, 1, 0) = <<>>
      BY SubSeqProperties
    <3> QED
      BY <1>3, <2>1, <2>2, <3>1
  <2>3. CASE m # 0
    <3>1. m \in 1 .. Len(list) /\ m - 1 \in 0 .. Len(list) /\ m - 1 \notin T
      BY <1>2, <2>1, <2>3
    <3>2. g[m] = Append(SubSeq(list, 1, m - 1), list[m])
      BY <1>3, <3>1
    <3>3. Append(SubSeq(list, 1, m - 1), list[m]) = SubSeq(list, 1, m)
      BY <1>2, <3>1
    <3> QED
      BY <2>1, <3>2, <3>3
  <2> QED
    BY <2>2, <2>3
<1>5. g[Len(list)] = SubSeq(list, 1, Len(list))
  BY <1>2, <1>4
<1>6. SubSeq(list, 1, Len(list)) = list
  BY <1>2
<1> QED
  BY <1>1, <1>5, <1>6

(* The flows of a payload are a list, or null, or not there.                 *)
HasList(raw, S) == "flows" \in DOMAIN raw => raw["flows"] \in {Null} \union Seq(S)

(* A config that was parsed is written as one that parses, into the same     *)
(* config: what is no flow is left out once and not missed, the name of a    *)
(* host without one stays the hostname, and every flow comes back            *)
(* (config/models.py:129-141, base/models.py:21-42).                         *)
THEOREM ConfigRoundTrip ==
    ASSUME NEW raw, NEW S, HasList(raw, S), Parses(raw), ~IsFunction(Null), ~IsFunction(Scalar)
    PROVE  /\ Parses(Dumps(Loads(raw)))
           /\ Loads(Dumps(Loads(raw))) = Loads(raw)
<1> DEFINE config == Loads(raw)
           text == Dumps(config)
           objects == Objects(raw)
           flows == [i \in DOMAIN objects |-> DumpsFlow(Flow(objects[i]))]
<1>1. \E n \in Nat : DOMAIN objects = 1 .. n
  <2>1. CASE "flows" \in DOMAIN raw
    <3>1. raw["flows"] \in Seq(S)
      BY <2>1 DEF HasList, Parses
    <3>2. objects \in Seq({x \in S : IsObject(x)})
      BY <2>1, <3>1, ObjectsType DEF Objects
    <3> QED
      BY <3>2
  <2>2. CASE "flows" \notin DOMAIN raw
    <3>1. objects = <<>>
      BY <2>2 DEF Objects
    <3> QED
      BY <3>1
  <2> QED
    BY <2>1, <2>2
<1>2. \A i \in DOMAIN objects : ParsesFlow(objects[i])
  BY DEF Parses
<1>3. /\ DOMAIN config = {"node_name", "org", "flows"}
      /\ config.flows = [i \in DOMAIN objects |-> Flow(objects[i])]
  BY DEF Loads
<1>4. /\ DOMAIN text = {"node_name", "org", "flows"}
      /\ text.node_name = config.node_name /\ text.org = config.org
      /\ text.flows = flows
  BY <1>3 DEF Dumps
<1>5. \A i \in DOMAIN objects :
         /\ ParsesFlow(flows[i])
         /\ Flow(flows[i]) = Flow(objects[i])
         /\ IsObject(flows[i])
  <2> SUFFICES ASSUME NEW i \in DOMAIN objects
               PROVE  /\ ParsesFlow(flows[i])
                      /\ Flow(flows[i]) = Flow(objects[i])
                      /\ IsObject(flows[i])
    OBVIOUS
  <2>1. flows[i] = DumpsFlow(Flow(objects[i]))
    OBVIOUS
  <2>2. IsFunction(DumpsFlow(Flow(objects[i])))
    BY DEF IsFunction, DumpsFlow, Flow
  <2>3. IsObject(flows[i])
    BY <2>1, <2>2 DEF IsObject
  <2> QED
    BY <1>2, <2>1, <2>3, FlowRoundTrip
<1> HIDE DEF flows
<1>6. flows \in Seq({flows[i] : i \in DOMAIN objects}) /\ DOMAIN flows = DOMAIN objects
  BY <1>1 DEF flows
<1>7. Objects(text) = flows
  <2>1. \A i \in 1 .. Len(flows) : IsObject(flows[i])
    BY <1>5, <1>6
  <2>2. ObjectsIn(flows) = flows
    BY <1>6, <2>1, ObjectsOnly
  <2> QED
    BY <1>4, <2>2 DEF Objects
<1>8. Parses(text)
  <2>1. flows # Null
    BY DEF flows, IsFunction
  <2> QED
    BY <1>4, <1>5, <1>6, <1>7, <2>1 DEF Parses
<1>9. Loads(text) = config
  <2>1. Loads(text).flows = config.flows
    BY <1>3, <1>5, <1>6, <1>7 DEF Loads
  <2>2. Loads(text).org = config.org
    <3>1. CASE Get(raw, "org") \in {Null, Scalar}
      <4>1. config.org = Null
        BY <3>1 DEF Loads
      <4> QED
        BY <1>4, <4>1 DEF Loads, Get
    <3>2. CASE Get(raw, "org") \notin {Null, Scalar}
      <4>1. config.org = Construct(OrganizationDefaults, raw["org"])
        BY <3>2 DEF Loads
      <4>2. IsFunction(config.org)
        BY <4>1 DEF IsFunction, Construct
      <4>3. config.org \notin {Null, Scalar}
        BY <4>2
      <4>4. Loads(text).org = Construct(OrganizationDefaults, config.org)
        BY <1>4, <4>3 DEF Loads, Get
      <4> QED
        BY <4>1, <4>4, ConstructAgain
    <3> QED
      BY <3>1, <3>2
  <2>3. Loads(text).node_name = config.node_name
    BY <1>4 DEF Loads, Get, Falsy
  <2>4. Loads(text) = [node_name |-> Loads(text).node_name, org |-> Loads(text).org, flows |-> Loads(text).flows]
    BY DEF Loads
  <2>5. config = [node_name |-> config.node_name, org |-> config.org, flows |-> config.flows]
    BY DEF Loads
  <2> HIDE DEF config, text
  <2> QED
    BY <2>1, <2>2, <2>3, <2>4, <2>5
<1> QED
  BY <1>8, <1>9

(* A default method always stands for a flow that has a runner, and so does  *)
(* every flow of a payload that leaves its method out (config/models.py:     *)
(* 159-164, 168-171, flows/__init__.py:24-39).                               *)
THEOREM DefaultHasRunner ==
    ASSUME NEW raw, ParsesFlow(raw), Falsy(Get(raw, "method"))
    PROVE  HasRunner(Flow(raw))
<1>1. raw["type"] \in FlowType
  BY DEF ParsesFlow
<1>2. Flow(raw).type = raw["type"] /\ Flow(raw).method = DefaultMethod[raw["type"]]
  BY DEF Flow
<1>3. DefaultMethod["internal"] = "x5c" /\ DefaultMethod["external"] = "dns-01"
  BY DEF DefaultMethod
<1> QED
  BY <1>1, <1>2, <1>3 DEF HasRunner, FlowType
=============================================================================
