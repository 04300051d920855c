------------------------- MODULE DnsChallengeProofs -------------------------
(***************************************************************************)
(* Theorems of DnsChallenge for every set of workers, orders, domains and  *)
(* names, with any number of domains to a name.                            *)
(***************************************************************************)
EXTENDS DnsChallenge, TLAPS

(* A run that is not crossed has its names to itself. *)
Apart ==
    \A v, w \in Workers :
        v # w /\ Active(v) /\ Active(w) /\ ~crossed[w] =>
            \A d \in Asked(v), e \in Asked(w) : NameOf[d] # NameOf[e]

(* Then what is at the name it is setting up is what it listed and has still *)
(* to delete.                                                                *)
Emptying ==
    \A w \in Workers :
        pc[w] = "create" /\ ~crossed[w] => records[NameOf[at[w]]] \subseteq listed[w]

OwnInv == TypeOK /\ Apart /\ Emptying /\ OwnRecord

(* Orders tell the runs apart, and a record is at the name of its domain. *)
Distinct ==
    \A v, w \in Workers : Active(v) /\ order[v] = order[w] => v = w

Placed ==
    \A n \in Names, o \in OrderIds, d \in Domains :
        <<o, d>> \in records[n] => n = NameOf[d]

(* A run that cleans up has listed its own record, if it was still there. *)
Cleaning ==
    \A w \in Workers :
        pc[w] = "clean" /\ TokenOf(w, at[w]) \in records[NameOf[at[w]]] =>
            TokenOf(w, at[w]) \in listed[w]

LeftInv == TypeOK /\ Distinct /\ Placed /\ Cleaning /\ NoneForgotten

-----------------------------------------------------------------------------
(* Nothing runs and nothing is at any name.                                  *)
LEMMA InitBoth == Init => OwnInv /\ LeftInv
<1> SUFFICES ASSUME Init PROVE OwnInv /\ LeftInv
  OBVIOUS
<1> USE DEF Init
<1>1. TypeOK
  BY NoneAssumption DEF TypeOK, Stages, Active, Asked, Posted
<1>2. Apart /\ Emptying /\ OwnRecord
  BY DEF Apart, Emptying, OwnRecord, Active, Posted
<1>3. Distinct /\ Placed /\ Cleaning /\ NoneForgotten
  BY DEF Distinct, Placed, Cleaning, NoneForgotten, Active
<1> QED
  BY <1>1, <1>2, <1>3 DEF OwnInv, LeftInv

(* The name of a domain is a name.                                           *)
LEMMA NameType == \A d \in Domains : NameOf[d] \in Names
  BY NamesAssumption

(* TypeOK is inductive. *)
LEMMA NextType == TypeOK /\ [Next]_vars => TypeOK'
<1> SUFFICES ASSUME TypeOK, [Next]_vars PROVE TypeOK'
  OBVIOUS
<1> USE NameType, NoneAssumption
     DEF TypeOK, Active, Asked, Posted, Stages, Lists, CallReturns, call
<1>1. ASSUME NEW w \in Workers, NEW ds \in Orders, NEW rem \in SUBSET ds, Begin(w, ds, rem)
      PROVE  TypeOK'
  <2>1. stage' \in [Workers -> [Domains -> Stages]]
    BY <1>1 DEF Begin
  <2>2. order' \in [Workers -> OrderIds \union {NoOrder}] /\ order'[w] # NoOrder
    BY <1>1 DEF Begin, Unused
  <2>3. crossed' \in [Workers -> BOOLEAN]
    <3>1. \A v \in Workers :
            (IF v = w THEN \E u \in Workers : Shares(u, ds) ELSE crossed[v] \/ Shares(v, ds))
              \in BOOLEAN
      BY Zenon
    <3> QED
      BY <1>1, <3>1 DEF Begin
  <2>4. /\ pc' = [pc EXCEPT ![w] = "ready"]
        /\ UNCHANGED <<records, at, listed, failed>>
        /\ pc[w] = "idle"
        /\ \A v \in Workers : v # w => stage'[v] = stage[v] /\ order'[v] = order[v]
    BY <1>1 DEF Begin
  <2>5. \A v \in Workers :
          /\ order'[v] = NoOrder <=> pc'[v] = "idle"
          /\ pc'[v] = "idle" => {d \in Domains : stage'[v][d] # "absent"} = {}
          /\ pc'[v] \in {"idle", "ready"} => at'[v] = NoDomain
          /\ pc'[v] = "create" => at'[v] \in Domains /\ stage'[v][at'[v]] = "pending"
          /\ pc'[v] = "clean" => at'[v] \in {d \in Domains : stage'[v][d] \in {"posted", "valid"}}
          /\ listed'[v] # {} => pc'[v] \in {"create", "clean"}
    BY <2>2, <2>4
  <2> QED
    BY <2>1, <2>2, <2>3, <2>4, <2>5
<1>2. ASSUME NEW w \in Workers, NEW d \in Domains, SetUp(w, d) PROVE TypeOK'
  BY <1>2 DEF SetUp
<1>3. ASSUME NEW w \in Workers, NEW r \in Token, Delete(w, r) PROVE TypeOK'
  BY <1>3 DEF Delete
<1>4. ASSUME NEW w \in Workers, Create(w) \/ CreateUnsure(w) PROVE TypeOK'
  <2>1. TokenOf(w, at[w]) \in Token /\ at[w] \in Domains
    BY <1>4 DEF Create, CreateUnsure, TokenOf, Token
  <2>2. CASE Create(w)
    BY <2>1, <2>2 DEF Create
  <2>3. CASE CreateUnsure(w)
    BY <2>1, <2>3 DEF CreateUnsure
  <2> QED
    BY <1>4, <2>2, <2>3
<1>5. ASSUME NEW w \in Workers, NEW d \in Domains, Check(w, d) PROVE TypeOK'
  <2>1. CASE TokenOf(w, d) \in records[NameOf[d]]
    <3>1. stage' = [stage EXCEPT ![w][d] = "valid"] /\ UNCHANGED failed
      BY <1>5, <2>1 DEF Check
    <3> QED
      BY <1>5, <3>1 DEF Check
  <2>2. CASE TokenOf(w, d) \notin records[NameOf[d]]
    <3>1. failed' = [failed EXCEPT ![w] = TRUE] /\ UNCHANGED stage
      BY <1>5, <2>2 DEF Check
    <3> QED
      BY <1>5, <3>1 DEF Check
  <2> QED
    BY <2>1, <2>2
<1>6. ASSUME NEW w \in Workers, NEW d \in Domains, CleanUp(w, d) PROVE TypeOK'
  BY <1>6 DEF CleanUp
<1>7. ASSUME NEW w \in Workers, Cleaned(w) PROVE TypeOK'
  BY <1>7 DEF Cleaned
<1>8. ASSUME NEW w \in Workers, Raise(w) PROVE TypeOK'
  BY <1>8 DEF Raise
<1>9. ASSUME NEW w \in Workers, Finalize(w) \/ GiveUp(w) PROVE TypeOK'
  <2>1. Leaves(w)
    BY <1>9 DEF Finalize, GiveUp
  <2> QED
    BY <2>1 DEF Leaves
<1>10. ASSUME Tidy PROVE TypeOK'
  BY <1>10 DEF Tidy
<1>11. ASSUME UNCHANGED vars PROVE TypeOK'
  BY <1>11 DEF vars
<1> QED
  BY <1>1, <1>2, <1>3, <1>4, <1>5, <1>6, <1>7, <1>8, <1>9, <1>10, <1>11 DEF Next, Step

(* In every behaviour every variable keeps its type, and callbacks run for   *)
(* domains of their run's order only.                                        *)
THEOREM TypeCorrect == Spec => []TypeOK
  BY InitBoth, NextType, PTL DEF Spec, OwnInv
-----------------------------------------------------------------------------
(* OwnInv is inductive: whoever changes the records at a name does so in a   *)
(* callback for a domain it asked for, which is not a name of a run that is  *)
(* not crossed, unless it is that run itself.                                *)
LEMMA NextOwn == OwnInv /\ [Next]_vars => OwnInv'
<1> SUFFICES ASSUME OwnInv, [Next]_vars PROVE (Apart /\ Emptying /\ OwnRecord)'
  BY NextType DEF OwnInv
<1> USE NameType, NoneAssumption DEF OwnInv
<1>0. TypeOK'
  BY NextType
<1>1. ASSUME NEW w \in Workers, NEW ds \in Orders, NEW rem \in SUBSET ds, Begin(w, ds, rem)
      PROVE  (Apart /\ Emptying /\ OwnRecord)'
  <2>1. /\ \A v \in Workers : v # w =>
              stage'[v] = stage[v] /\ pc'[v] = pc[v] /\ order'[v] = order[v]
        /\ pc'[w] = "ready"
        /\ \A d \in Domains : stage'[w][d] # "absent" => d \in ds
        /\ \A d \in Domains : stage'[w][d] \notin {"posted", "valid"}
        /\ UNCHANGED <<records, at, listed, failed>>
    BY <1>1 DEF Begin, TypeOK, call
  <2>5. ASSUME NEW v \in Workers, ~crossed'[v]
        PROVE  /\ v # w => ~crossed[v] /\ ~Shares(v, ds)
               /\ v = w => \A u \in Workers : ~Shares(u, ds)
    BY <1>1, <2>5 DEF Begin
  <2>2. Apart'
    <3> SUFFICES ASSUME NEW u \in Workers, NEW v \in Workers, u # v,
                        Active(u)', Active(v)', ~crossed'[v],
                        NEW d \in Asked(u)', NEW e \in Asked(v)', NameOf[d] = NameOf[e]
                 PROVE  FALSE
      BY DEF Apart
    <3>1. CASE u # w /\ v # w
      BY <2>1, <2>5, <3>1 DEF Apart, Active, Asked
    <3>2. CASE u = w
      BY <2>1, <2>5, <3>2 DEF Shares, NamesOf, Active, Asked
    <3>3. CASE v = w
      BY <2>1, <2>5, <3>3 DEF Shares, NamesOf, Active, Asked
    <3> QED
      BY <3>1, <3>2, <3>3
  <2>3. Emptying'
    BY <2>1, <2>5 DEF Emptying
  <2>4. OwnRecord'
    BY <2>1, <2>5 DEF OwnRecord, Posted, Sole, Asked, TokenOf
  <2> QED
    BY <2>2, <2>3, <2>4
<1>2. ASSUME NEW w \in Workers, NEW d \in Domains, SetUp(w, d)
      PROVE  (Apart /\ Emptying /\ OwnRecord)'
  <2>1. /\ pc' = [pc EXCEPT ![w] = "create"]
        /\ at' = [at EXCEPT ![w] = d]
        /\ listed' = [listed EXCEPT ![w] = records[NameOf[d]]]
        /\ pc[w] = "ready" /\ stage[w][d] = "pending"
        /\ UNCHANGED <<records, order, stage, failed, crossed>>
    BY <1>2 DEF SetUp, Lists
  <2>2. Apart'
    BY <2>1 DEF Apart, Active, Asked, TypeOK
  <2>3. Emptying'
    BY <2>1 DEF Emptying, TypeOK
  <2>4. OwnRecord'
    BY <2>1 DEF OwnRecord, Posted, Sole, Asked, TokenOf, TypeOK
  <2> QED
    BY <2>2, <2>3, <2>4
<1>3. ASSUME NEW w \in Workers, NEW r \in Token, Delete(w, r)
      PROVE  (Apart /\ Emptying /\ OwnRecord)'
  <2>1. /\ Active(w) /\ at[w] \in Asked(w)
        /\ \A n \in Names : n # NameOf[at[w]] => records'[n] = records[n]
        /\ records'[NameOf[at[w]]] = records[NameOf[at[w]]] \ {r}
        /\ listed' = [listed EXCEPT ![w] = @ \ {r}]
        /\ UNCHANGED <<pc, order, stage, at, failed, crossed>>
    BY <1>3 DEF Delete, TypeOK, Active, Asked, Posted
  <2>2. ASSUME NEW v \in Workers, v # w, Active(v), ~crossed[v], NEW d \in Asked(v)
        PROVE  records'[NameOf[d]] = records[NameOf[d]]
    BY <2>1, <2>2 DEF Apart, Asked
  <2>3. Apart'
    BY <2>1 DEF Apart, Active, Asked
  <2>4. Emptying'
    BY <2>1, <2>2 DEF Emptying, TypeOK, Asked, Active
  <2>5. OwnRecord'
    <3> SUFFICES ASSUME NEW v \in Workers, ~crossed[v], ~failed[v],
                        NEW d \in Posted(v), Sole(v, d), at[v] # d
                 PROVE  records'[NameOf[d]] = {TokenOf(v, d)}
      BY <2>1 DEF OwnRecord, Posted, Sole, Asked, TokenOf
    <3>1. records[NameOf[d]] = {TokenOf(v, d)} /\ d \in Asked(v) /\ Active(v)
      BY DEF OwnRecord, Posted, Asked, TypeOK, Active
    <3>2. v = w => NameOf[at[w]] # NameOf[d]
      BY <2>1 DEF Sole
    <3> QED
      BY <2>1, <2>2, <3>1, <3>2 DEF Posted
  <2> QED
    BY <2>3, <2>4, <2>5
<1>4. ASSUME NEW w \in Workers, Create(w) \/ CreateUnsure(w)
      PROVE  (Apart /\ Emptying /\ OwnRecord)'
  <2>1. /\ Active(w) /\ at[w] \in Asked(w) /\ at[w] \in Domains
        /\ pc[w] = "create" /\ listed[w] = {}
        /\ \A n \in Names : n # NameOf[at[w]] => records'[n] = records[n]
        /\ records'[NameOf[at[w]]] = records[NameOf[at[w]]] \union {TokenOf(w, at[w])}
        /\ pc' = [pc EXCEPT ![w] = "ready"]
        /\ at' = [at EXCEPT ![w] = NoDomain]
        /\ UNCHANGED <<order, listed, crossed>>
        /\ \A v \in Workers, e \in Domains :
              (v # w \/ e # at[w]) => stage'[v][e] = stage[v][e]
        /\ \A v \in Workers : v # w => failed'[v] = failed[v]
    BY <1>4 DEF Create, CreateUnsure, CallReturns, TypeOK, Active, Asked
  <2>2. /\ stage'[w][at[w]] \in {"pending", "posted"}
        /\ ~failed'[w] => ~failed[w]
    BY <1>4 DEF Create, CreateUnsure, TypeOK
  <2>3. \A v \in Workers : Asked(v)' = Asked(v) /\ Active(v)' = Active(v)
    BY <2>1, <2>2, <1>0 DEF TypeOK, Asked, Active, Stages
  <2>4. ASSUME NEW v \in Workers, v # w, Active(v), ~crossed[v], NEW d \in Asked(v)
        PROVE  records'[NameOf[d]] = records[NameOf[d]]
    BY <2>1, <2>4 DEF Apart, Asked
  <2>5. Apart'
    BY <2>1, <2>3 DEF Apart
  <2>6. Emptying'
    BY <2>1, <2>4 DEF Emptying, TypeOK, Asked, Active
  <2>7. OwnRecord'
    <3> SUFFICES ASSUME NEW v \in Workers, ~crossed[v], ~failed'[v],
                        NEW d \in Posted(v)', Sole(v, d), at'[v] # d
                 PROVE  records'[NameOf[d]] = {TokenOf(v, d)}
      BY <2>1, <2>3 DEF OwnRecord, Sole, TokenOf
    <3>1. CASE v # w
      <4>1. d \in Posted(v) /\ d \in Asked(v) /\ Active(v) /\ at[v] # d /\ ~failed[v]
        BY <2>1, <3>1 DEF Posted, Asked, TypeOK, Active
      <4> QED
        BY <2>4, <3>1, <4>1 DEF OwnRecord
    <3>2. CASE v = w /\ d = at[w]
      <4>1. records[NameOf[d]] = {}
        BY <2>1, <3>2 DEF Emptying
      <4> QED
        BY <2>1, <3>2, <4>1
    <3>3. CASE v = w /\ d # at[w]
      <4>1. d \in Posted(w) /\ d \in Asked(w) /\ NameOf[at[w]] # NameOf[d] /\ ~failed[w]
        BY <2>1, <2>2, <3>3 DEF Posted, Asked, Sole
      <4> QED
        BY <2>1, <3>3, <4>1 DEF OwnRecord, Posted
    <3> QED
      BY <3>1, <3>2, <3>3
  <2> QED
    BY <2>5, <2>6, <2>7
<1>5. ASSUME NEW w \in Workers, NEW d \in Domains, Check(w, d)
      PROVE  (Apart /\ Emptying /\ OwnRecord)'
  <2>1. /\ pc[w] = "ready" /\ stage[w][d] = "posted"
        /\ UNCHANGED <<records, pc, order, at, listed, crossed>>
        /\ \A v \in Workers, e \in Domains :
              (v # w \/ e # d) => stage'[v][e] = stage[v][e]
        /\ stage'[w][d] \in {"posted", "valid"}
    BY <1>5 DEF Check, TypeOK, call
  <2>2. \A v \in Workers : ~failed'[v] => ~failed[v]
    BY <1>5 DEF Check, TypeOK
  <2>3. \A v \in Workers :
          /\ Asked(v)' = Asked(v) /\ Posted(v)' = Posted(v) /\ Active(v)' = Active(v)
    <3> TAKE v \in Workers
    <3>1. \A e \in Domains :
            /\ stage'[v][e] # "absent" <=> stage[v][e] # "absent"
            /\ stage'[v][e] \in {"posted", "valid"} <=> stage[v][e] \in {"posted", "valid"}
      BY <2>1
    <3>2. Asked(v)' = Asked(v)
      BY <3>1 DEF Asked
    <3>3. Posted(v)' = Posted(v)
      BY <3>1 DEF Posted
    <3> QED
      BY <2>1, <3>2, <3>3 DEF Active
  <2>4. Apart' /\ Emptying'
    BY <2>1, <2>3 DEF Apart, Emptying
  <2>5. OwnRecord'
    BY <2>1, <2>2, <2>3 DEF OwnRecord, Sole, TokenOf
  <2> QED
    BY <2>4, <2>5
<1>6. ASSUME NEW w \in Workers, NEW d \in Domains, CleanUp(w, d)
      PROVE  (Apart /\ Emptying /\ OwnRecord)'
  <2>1. /\ pc[w] = "ready"
        /\ pc' = [pc EXCEPT ![w] = "clean"]
        /\ at' = [at EXCEPT ![w] = d]
        /\ listed' = [listed EXCEPT ![w] = records[NameOf[d]]]
        /\ UNCHANGED <<records, order, stage, failed, crossed>>
    BY <1>6 DEF CleanUp, Lists
  <2>2. Apart' /\ Emptying'
    BY <2>1 DEF Apart, Emptying, Active, Asked, TypeOK
  <2>3. OwnRecord'
    BY <2>1 DEF OwnRecord, Posted, Sole, Asked, TokenOf, TypeOK
  <2> QED
    BY <2>2, <2>3
<1>7. ASSUME NEW w \in Workers, Cleaned(w) PROVE (Apart /\ Emptying /\ OwnRecord)'
  <2>1. /\ pc[w] = "clean" /\ at[w] \in Posted(w)
        /\ pc' = [pc EXCEPT ![w] = "ready"]
        /\ at' = [at EXCEPT ![w] = NoDomain]
        /\ UNCHANGED <<records, order, listed, failed, crossed>>
        /\ \A v \in Workers, e \in Domains :
              (v # w \/ e # at[w]) => stage'[v][e] = stage[v][e]
        /\ stage'[w][at[w]] = "closed"
    BY <1>7 DEF Cleaned, CallReturns, TypeOK, Posted
  <2>2. \A v \in Workers : Asked(v)' = Asked(v) /\ Active(v)' = Active(v)
    BY <2>1, <1>0 DEF TypeOK, Asked, Posted, Active, Stages
  <2>3. \A v \in Workers : \A d \in Posted(v)' : d \in Posted(v) /\ (at[v] # d \/ at'[v] = d)
    BY <2>1 DEF Posted, TypeOK
  <2>4. Apart' /\ Emptying'
    BY <2>1, <2>2 DEF Apart, Emptying, TypeOK
  <2>5. OwnRecord'
    BY <2>1, <2>2, <2>3 DEF OwnRecord, Sole, TokenOf
  <2> QED
    BY <2>4, <2>5
<1>8. ASSUME NEW w \in Workers, Raise(w) PROVE (Apart /\ Emptying /\ OwnRecord)'
  <2>1. /\ Active(w)
        /\ pc' = [pc EXCEPT ![w] = "ready"]
        /\ at' = [at EXCEPT ![w] = NoDomain]
        /\ failed' = [failed EXCEPT ![w] = TRUE]
        /\ listed' = [listed EXCEPT ![w] = {}]
        /\ UNCHANGED <<records, order, stage, crossed>>
    BY <1>8 DEF Raise, CallReturns
  <2>2. Apart' /\ Emptying'
    BY <2>1 DEF Apart, Emptying, Active, Asked, TypeOK
  <2>3. OwnRecord'
    BY <2>1 DEF OwnRecord, Posted, Sole, Asked, TokenOf, TypeOK
  <2> QED
    BY <2>2, <2>3
<1>9. ASSUME NEW w \in Workers, Finalize(w) \/ GiveUp(w)
      PROVE  (Apart /\ Emptying /\ OwnRecord)'
  <2>1. /\ pc' = [pc EXCEPT ![w] = "idle"]
        /\ \A d \in Domains : stage'[w][d] = "absent"
        /\ \A v \in Workers : v # w =>
              /\ stage'[v] = stage[v] /\ order'[v] = order[v] /\ at'[v] = at[v]
              /\ listed'[v] = listed[v] /\ failed'[v] = failed[v] /\ crossed'[v] = crossed[v]
        /\ UNCHANGED records
    BY <1>9 DEF Finalize, GiveUp, Leaves, TypeOK
  <2>2. Apart'
    BY <2>1 DEF Apart, Active, Asked, TypeOK
  <2>3. Emptying'
    BY <2>1 DEF Emptying, TypeOK
  <2>4. OwnRecord'
    BY <2>1 DEF OwnRecord, Posted, Sole, Asked, TokenOf
  <2> QED
    BY <2>2, <2>3, <2>4
<1>10. ASSUME Tidy PROVE (Apart /\ Emptying /\ OwnRecord)'
  <2>0. PICK n \in Names : \E r \in records[n] :
          /\ \A w \in Workers : order[w] # r[1]
          /\ records' = [records EXCEPT ![n] = @ \ {r}]
          /\ UNCHANGED <<pc, order, stage, at, listed, failed, crossed>>
    BY <1>10 DEF Tidy, call
  <2>1. PICK r \in records[n] :
          /\ \A w \in Workers : order[w] # r[1]
          /\ records' = [records EXCEPT ![n] = @ \ {r}]
          /\ UNCHANGED <<pc, order, stage, at, listed, failed, crossed>>
    BY <2>0
  <2>2. Apart' /\ Emptying'
    BY <2>1 DEF Apart, Emptying, Active, Asked, TypeOK
  <2>3. OwnRecord'
    <3> SUFFICES ASSUME NEW v \in Workers, ~crossed[v], ~failed[v],
                        NEW d \in Posted(v), Sole(v, d), at[v] # d
                 PROVE  records'[NameOf[d]] = {TokenOf(v, d)}
      BY <2>1 DEF OwnRecord, Posted, Sole, Asked, TokenOf
    <3>1. records[NameOf[d]] = {TokenOf(v, d)}
      BY DEF OwnRecord
    <3>2. r # TokenOf(v, d)
      BY <2>1 DEF TokenOf
    <3> QED
      BY <2>1, <3>1, <3>2 DEF TypeOK, Posted
  <2> QED
    BY <2>2, <2>3
<1>11. ASSUME UNCHANGED vars PROVE (Apart /\ Emptying /\ OwnRecord)'
  BY <1>11 DEF vars, call, Apart, Emptying, OwnRecord, Active, Asked, Posted, Sole, TokenOf
<1> QED
  BY <1>1, <1>2, <1>3, <1>4, <1>5, <1>6, <1>7, <1>8, <1>9, <1>10, <1>11 DEF Next, Step

(* In every behaviour, a run that nothing overlapped on its names finds its  *)
(* own record and no other, whatever earlier runs left behind.               *)
THEOREM OwnRecordStands == Spec => []OwnRecord
<1>1. Spec => []OwnInv
  BY InitBoth, NextOwn, PTL DEF Spec
<1> QED
  BY <1>1, PTL DEF OwnInv
-----------------------------------------------------------------------------
(* LeftInv is inductive: a record carries the order of its run, which no      *)
(* other run has, so only its own run's callbacks decide about its stage.    *)
LEMMA NextLeft == LeftInv /\ [Next]_vars => LeftInv'
<1> SUFFICES ASSUME LeftInv, [Next]_vars
             PROVE  (Distinct /\ Placed /\ Cleaning /\ NoneForgotten)'
  BY NextType DEF LeftInv
<1> USE NameType, NoneAssumption DEF LeftInv
<1>0. TypeOK'
  BY NextType
<1>1. ASSUME NEW w \in Workers, NEW ds \in Orders, NEW rem \in SUBSET ds, Begin(w, ds, rem)
      PROVE  (Distinct /\ Placed /\ Cleaning /\ NoneForgotten)'
  <2>1. PICK o \in Unused : order' = [order EXCEPT ![w] = o]
    BY <1>1 DEF Begin
  <2>2. /\ \A v \in Workers : v # w => stage'[v] = stage[v]
        /\ pc' = [pc EXCEPT ![w] = "ready"]
        /\ UNCHANGED <<records, at, listed, failed>>
    BY <1>1 DEF Begin, call, TypeOK
  <2>3. /\ \A v \in Workers : order[v] # o
        /\ \A n \in Names, d \in Domains : <<o, d>> \notin records[n]
    BY DEF Unused, OrdersOf
  <2>4. Distinct'
    BY <2>1, <2>2, <2>3 DEF Distinct, Active, TypeOK
  <2>5. Placed'
    BY <2>2 DEF Placed
  <2>6. Cleaning'
    BY <2>1, <2>2 DEF Cleaning, TokenOf, TypeOK
  <2>7. NoneForgotten'
    BY <2>1, <2>2, <2>3 DEF NoneForgotten, Posted, TypeOK
  <2> QED
    BY <2>4, <2>5, <2>6, <2>7
<1>2. ASSUME NEW w \in Workers, NEW d \in Domains, SetUp(w, d)
      PROVE  (Distinct /\ Placed /\ Cleaning /\ NoneForgotten)'
  <2>1. /\ pc[w] = "ready"
        /\ pc' = [pc EXCEPT ![w] = "create"]
        /\ \A v \in Workers : v # w => at'[v] = at[v] /\ listed'[v] = listed[v]
        /\ UNCHANGED <<records, order, stage, failed>>
    BY <1>2 DEF SetUp, Lists, TypeOK
  <2> QED
    BY <2>1 DEF Distinct, Placed, Cleaning, NoneForgotten, Active, Posted, TokenOf, TypeOK
<1>3. ASSUME NEW w \in Workers, NEW r \in Token, Delete(w, r)
      PROVE  (Distinct /\ Placed /\ Cleaning /\ NoneForgotten)'
  <2>1. /\ NameOf[at[w]] \in Names
        /\ listed' = [listed EXCEPT ![w] = @ \ {r}]
        /\ records' = [records EXCEPT ![NameOf[at[w]]] = @ \ {r}]
        /\ UNCHANGED <<pc, order, stage, at, failed>>
    BY <1>3 DEF Delete, TypeOK, Posted
  <2>2. \A n \in Names : records'[n] \subseteq records[n]
    BY <2>1 DEF TypeOK
  <2>3. Distinct' /\ Placed' /\ NoneForgotten'
    BY <2>1, <2>2 DEF Distinct, Placed, NoneForgotten, Active, Posted
  <2>4. Cleaning'
    <3> SUFFICES ASSUME NEW v \in Workers, pc[v] = "clean",
                        TokenOf(v, at[v]) \in records'[NameOf[at[v]]]
                 PROVE  TokenOf(v, at[v]) \in listed'[v]
      BY <2>1 DEF Cleaning, TokenOf
    <3>1. at[v] \in Domains
      BY DEF TypeOK, Posted
    <3>2. TokenOf(v, at[v]) \in listed[v]
      BY <2>2, <3>1 DEF Cleaning
    <3>3. v = w => TokenOf(v, at[v]) # r
      BY <2>1 DEF TypeOK
    <3> QED
      BY <2>1, <3>2, <3>3 DEF TypeOK
  <2> QED
    BY <2>3, <2>4
<1>4. ASSUME NEW w \in Workers, Create(w) \/ CreateUnsure(w)
      PROVE  (Distinct /\ Placed /\ Cleaning /\ NoneForgotten)'
  <2>1. /\ Active(w) /\ at[w] \in Domains /\ order[w] \in OrderIds
        /\ records' = [records EXCEPT ![NameOf[at[w]]] = @ \union {TokenOf(w, at[w])}]
        /\ pc' = [pc EXCEPT ![w] = "ready"]
        /\ at' = [at EXCEPT ![w] = NoDomain]
        /\ UNCHANGED <<order, listed>>
        /\ \A v \in Workers, e \in Domains :
              (v # w \/ e # at[w]) => stage'[v][e] = stage[v][e]
        /\ \A v \in Workers : v # w => failed'[v] = failed[v]
    BY <1>4 DEF Create, CreateUnsure, CallReturns, TypeOK, Active, Asked
  <2>2. failed'[w] \/ (stage'[w][at[w]] = "posted" /\ failed'[w] = failed[w])
    <3>1. CASE Create(w)
      <4>1. UNCHANGED failed
        BY <3>1 DEF Create
      <4>2. stage'[w][at[w]] = "posted"
        BY <2>1, <3>1 DEF Create, TypeOK
      <4> QED
        BY <4>1, <4>2
    <3>2. CASE CreateUnsure(w)
      <4>1. failed' = [failed EXCEPT ![w] = TRUE]
        BY <3>2 DEF CreateUnsure
      <4>2. failed'[w] = TRUE
        BY <4>1 DEF TypeOK
      <4> QED
        BY <4>2
    <3> QED
      BY <1>4, <3>1, <3>2
  <2>3. \A n \in Names, o \in OrderIds, d \in Domains :
          <<o, d>> \in records'[n] =>
              \/ <<o, d>> \in records[n]
              \/ o = order[w] /\ d = at[w] /\ n = NameOf[d]
    BY <2>1 DEF TokenOf, TypeOK
  <2>4. \A v \in Workers : v # w => order[v] # order[w]
    BY <2>1 DEF Distinct
  <2>5. Distinct' /\ Placed'
    BY <2>1, <2>3 DEF Distinct, Placed, Active, TypeOK
  <2>6. Cleaning'
    <3> SUFFICES ASSUME NEW v \in Workers, pc'[v] = "clean",
                        <<order[v], at'[v]>> \in records'[NameOf[at'[v]]]
                 PROVE  <<order[v], at'[v]>> \in listed[v]
      BY <2>1 DEF Cleaning, TokenOf
    <3>1. /\ v # w /\ pc[v] = "clean" /\ at'[v] = at[v]
          /\ at[v] \in Posted(v) /\ at[v] \in Domains
      BY <2>1 DEF TypeOK, Posted
    <3>2. order[v] \in OrderIds
      BY <3>1 DEF TypeOK, Active
    <3>3. <<order[v], at[v]>> \in records[NameOf[at[v]]]
      BY <2>3, <2>4, <3>1, <3>2
    <3> QED
      BY <3>1, <3>3 DEF Cleaning, TokenOf
  <2>7. NoneForgotten'
    <3> SUFFICES ASSUME NEW v \in Workers, NEW n \in Names, NEW d \in Domains,
                        <<order[v], d>> \in records'[n]
                 PROVE  d \in Posted(v)' \/ failed'[v]
      BY <2>1 DEF NoneForgotten
    <3>1. order[v] \in OrderIds
      BY <1>0 DEF TypeOK, Token
    <3>2. CASE v # w
      <4>1. <<order[v], d>> \in records[n]
        BY <2>3, <2>4, <3>1, <3>2
      <4> QED
        BY <2>1, <3>2, <4>1 DEF NoneForgotten, Posted
    <3>3. CASE v = w /\ d = at[w]
      BY <2>2, <3>3 DEF Posted
    <3>4. CASE v = w /\ d # at[w]
      <4>1. <<order[v], d>> \in records[n]
        BY <2>3, <3>1, <3>4
      <4> QED
        BY <2>1, <2>2, <3>4, <4>1 DEF NoneForgotten, Posted
    <3> QED
      BY <3>2, <3>3, <3>4
  <2> QED
    BY <2>5, <2>6, <2>7
<1>5. ASSUME NEW w \in Workers, NEW d \in Domains, Check(w, d)
      PROVE  (Distinct /\ Placed /\ Cleaning /\ NoneForgotten)'
  <2>1. /\ stage[w][d] = "posted"
        /\ UNCHANGED <<records, pc, order, at, listed>>
        /\ \A v \in Workers, e \in Domains :
              (v # w \/ e # d) => stage'[v][e] = stage[v][e]
        /\ stage'[w][d] \in {"posted", "valid"}
    BY <1>5 DEF Check, TypeOK, call
  <2>2. \A v \in Workers : failed[v] => failed'[v]
    BY <1>5 DEF Check, TypeOK
  <2>3. \A v \in Workers : \A e \in Posted(v) : e \in Posted(v)'
    BY <2>1 DEF Posted
  <2>4. Distinct' /\ Placed' /\ Cleaning'
    BY <2>1 DEF Distinct, Placed, Cleaning, Active, TokenOf
  <2>5. NoneForgotten'
    BY <2>1, <2>2, <2>3 DEF NoneForgotten
  <2> QED
    BY <2>4, <2>5
<1>6. ASSUME NEW w \in Workers, NEW d \in Domains, CleanUp(w, d)
      PROVE  (Distinct /\ Placed /\ Cleaning /\ NoneForgotten)'
  <2>1. /\ pc[w] = "ready"
        /\ pc' = [pc EXCEPT ![w] = "clean"]
        /\ at' = [at EXCEPT ![w] = d]
        /\ listed' = [listed EXCEPT ![w] = records[NameOf[d]]]
        /\ UNCHANGED <<records, order, stage, failed>>
    BY <1>6 DEF CleanUp, Lists
  <2> QED
    BY <2>1 DEF Distinct, Placed, Cleaning, NoneForgotten, Active, Posted, TokenOf, TypeOK
<1>7. ASSUME NEW w \in Workers, Cleaned(w)
      PROVE  (Distinct /\ Placed /\ Cleaning /\ NoneForgotten)'
  <2>1. /\ pc[w] = "clean" /\ at[w] \in Posted(w) /\ order[w] \in OrderIds
        /\ listed[w] = {}
        /\ pc' = [pc EXCEPT ![w] = "ready"]
        /\ at' = [at EXCEPT ![w] = NoDomain]
        /\ UNCHANGED <<records, order, listed, failed>>
        /\ \A v \in Workers, e \in Domains :
              (v # w \/ e # at[w]) => stage'[v][e] = stage[v][e]
    BY <1>7 DEF Cleaned, CallReturns, TypeOK, Posted, Active
  <2>2. \A n \in Names : <<order[w], at[w]>> \notin records[n]
    BY <2>1 DEF Cleaning, Placed, TokenOf, Posted
  <2>3. Distinct' /\ Placed' /\ Cleaning'
    BY <2>1 DEF Distinct, Placed, Cleaning, Active, TokenOf, TypeOK
  <2>4. NoneForgotten'
    BY <2>1, <2>2 DEF NoneForgotten, Posted
  <2> QED
    BY <2>3, <2>4
<1>8. ASSUME NEW w \in Workers, Raise(w)
      PROVE  (Distinct /\ Placed /\ Cleaning /\ NoneForgotten)'
  <2>1. /\ Active(w)
        /\ pc' = [pc EXCEPT ![w] = "ready"]
        /\ at' = [at EXCEPT ![w] = NoDomain]
        /\ failed' = [failed EXCEPT ![w] = TRUE]
        /\ listed' = [listed EXCEPT ![w] = {}]
        /\ UNCHANGED <<records, order, stage>>
    BY <1>8 DEF Raise, CallReturns
  <2> QED
    BY <2>1 DEF Distinct, Placed, Cleaning, NoneForgotten, Active, Posted, TokenOf, TypeOK
<1>9. ASSUME NEW w \in Workers, Finalize(w) \/ GiveUp(w)
      PROVE  (Distinct /\ Placed /\ Cleaning /\ NoneForgotten)'
  <2>1. /\ pc' = [pc EXCEPT ![w] = "idle"]
        /\ order' = [order EXCEPT ![w] = NoOrder]
        /\ \A v \in Workers : v # w =>
              /\ stage'[v] = stage[v] /\ at'[v] = at[v]
              /\ listed'[v] = listed[v] /\ failed'[v] = failed[v]
        /\ UNCHANGED records
    BY <1>9 DEF Finalize, GiveUp, Leaves, TypeOK
  <2>2. Distinct' /\ Placed' /\ Cleaning'
    BY <2>1 DEF Distinct, Placed, Cleaning, Active, TokenOf, TypeOK
  <2>3. NoneForgotten'
    <3>1. \A n \in Names, d \in Domains : <<NoOrder, d>> \notin records[n]
      BY DEF TypeOK, Token
    <3> QED
      BY <2>1, <3>1 DEF NoneForgotten, Posted, TypeOK
  <2> QED
    BY <2>2, <2>3
<1>10. ASSUME Tidy PROVE (Distinct /\ Placed /\ Cleaning /\ NoneForgotten)'
  <2>1. /\ \A n \in Names : records'[n] \subseteq records[n]
        /\ UNCHANGED <<pc, order, stage, at, listed, failed>>
    BY <1>10 DEF Tidy, TypeOK, call
  <2>2. \A w \in Workers : pc[w] = "clean" => NameOf[at[w]] \in Names
    BY DEF TypeOK, Posted
  <2> QED
    BY <2>1, <2>2 DEF Distinct, Placed, Cleaning, NoneForgotten, Active, Posted, TokenOf
<1>11. ASSUME UNCHANGED vars PROVE (Distinct /\ Placed /\ Cleaning /\ NoneForgotten)'
  BY <1>11 DEF vars, call, Distinct, Placed, Cleaning, NoneForgotten, Active, Posted, TokenOf
<1> QED
  BY <1>1, <1>2, <1>3, <1>4, <1>5, <1>6, <1>7, <1>8, <1>9, <1>10, <1>11 DEF Next, Step

(* In every behaviour a record of a run is of a domain it has still to clean *)
(* up, unless the run has failed: success leaves nothing behind.             *)
THEOREM NothingForgotten == Spec => []NoneForgotten
<1>1. Spec => []LeftInv
  BY InitBoth, NextLeft, PTL DEF Spec
<1> QED
  BY <1>1, PTL DEF LeftInv
-----------------------------------------------------------------------------
(* A check of the CA does not fail for want of the record in a run that no   *)
(* run with a common name overlapped, for a domain that shares its name with *)
(* no other of the order.                                                    *)
LoneChecksPass ==
    [][\A w \in Workers, d \in Domains :
          Check(w, d) /\ ~crossed[w] /\ Sole(w, d) => ~failed'[w]]_vars

(* A run that succeeds leaves no record of its order at any name.            *)
SuccessLeavesNothing ==
    [][\A w \in Workers, n \in Names, d \in Domains :
          Finalize(w) => <<order[w], d>> \notin records'[n]]_vars

(* Whatever records earlier runs left, and however many others run, a run    *)
(* with its names to itself finds what it created when the CA looks for it   *)
(* (factory.py:72-79).                                                       *)
THEOREM LoneRunsPass == Spec => LoneChecksPass
<1>1. ASSUME TypeOK, OwnRecord, NEW w \in Workers, NEW d \in Domains,
             Check(w, d), ~crossed[w], Sole(w, d)
      PROVE  ~failed'[w]
  <2>1. pc[w] = "ready" /\ ~failed[w] /\ stage[w][d] = "posted"
    BY <1>1 DEF Check
  <2>2. at[w] # d
    BY <1>1, <2>1, NoneAssumption DEF TypeOK
  <2>3. d \in Posted(w)
    BY <2>1 DEF Posted
  <2>4. TokenOf(w, d) \in records[NameOf[d]]
    BY <1>1, <2>1, <2>2, <2>3 DEF OwnRecord
  <2>5. failed' = failed
    BY <1>1, <2>4 DEF Check
  <2> QED
    BY <2>1, <2>5
<1>2. TypeOK /\ OwnRecord /\ [Next]_vars =>
        [\A w \in Workers, d \in Domains :
            Check(w, d) /\ ~crossed[w] /\ Sole(w, d) => ~failed'[w]]_vars
  BY <1>1
<1> QED
  BY TypeCorrect, OwnRecordStands, <1>2, PTL DEF Spec, LoneChecksPass

(* However its callbacks interleave with those of other runs, a run whose    *)
(* issue() succeeds has no record left at the provider (factory.py:86-92).   *)
THEOREM SuccessIsClean == Spec => SuccessLeavesNothing
<1>1. ASSUME NoneForgotten, NEW w \in Workers, NEW n \in Names, NEW d \in Domains, Finalize(w)
      PROVE  <<order[w], d>> \notin records'[n]
  <2>1. /\ ~failed[w] /\ records' = records
        /\ \A e \in Asked(w) : stage[w][e] = "closed"
    BY <1>1 DEF Finalize, Leaves
  <2>2. d \notin Posted(w)
    BY <2>1 DEF Posted, Asked
  <2> QED
    BY <1>1, <2>1, <2>2 DEF NoneForgotten
<1>2. NoneForgotten /\ [Next]_vars =>
        [\A w \in Workers, n \in Names, d \in Domains :
            Finalize(w) => <<order[w], d>> \notin records'[n]]_vars
  BY <1>1
<1> QED
  BY NothingForgotten, <1>2, PTL DEF Spec, SuccessLeavesNothing
=============================================================================
