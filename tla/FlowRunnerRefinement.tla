------------------------ MODULE FlowRunnerRefinement ------------------------
(***************************************************************************)
(* FlowRunner implements CertStore when one run is under way at a time and *)
(* none is cut short, for every set of workers, SAN sets and named forms.  *)
(***************************************************************************)
EXTENDS FlowRunnerProofs

AllNamed == \A f \in Flows : f.named

(* The pair as CertStore sees it, and the reasons for replacing it. *)
Pair == IF keyFile = Torn THEN certFile ELSE keyFile
Wanting(p) == p = NoFile \/ p \in due \/ \E f \in Flows : issued[p] # f.sans

Latest == Len(issued)

(* What the single run knows at each of its steps: between the gate and the  *)
(* key's write the pair on disk stays the one the gate had no use for, and   *)
(* the serial it holds is the newest.                                        *)
AtRest == certFile = keyFile /\ keyFile \in Serial \union {NoFile}

Position(w) ==
    /\ pc[w] \in {"read", "decide", "obtain", "openCert", "hook"} => AtRest
    /\ pc[w] = "decide" => seen[w] = certFile
    /\ pc[w] \in {"obtain", "openCert", "fillCert", "openKey"} => Wanting(keyFile)
    /\ pc[w] \in {"openCert", "fillCert", "openKey", "fillKey"} => got[w] = Latest
    /\ pc[w] \in {"openCert", "fillCert", "openKey"} =>
          keyFile \in Serial \union {NoFile} /\ keyFile < Latest
    /\ pc[w] \in {"openKey", "fillKey"} => certFile = Latest
    /\ pc[w] = "fillKey" => keyFile = Torn

SerialInv ==
    /\ \A v, w \in Workers : pc[v] # "idle" /\ pc[w] # "idle" => v = w
    /\ AllIdle => AtRest
    /\ \A w \in Workers : pc[w] # "idle" => Position(w)
-----------------------------------------------------------------------------
(* One run at a time takes no step that runs in general do not take. *)
LEMMA SerialIsNext == [SerialNext]_vars => [Next]_vars
  BY DEF SerialNext, Next

(* Before the first run nothing is on disk. *)
LEMMA InitSerial == Init => SerialInv
  BY DEF Init, SerialInv, AtRest, Position, AllIdle

(* Reasons to replace a pair do not go away while certificates are issued    *)
(* and age.                                                                  *)
LEMMA WantingStays ==
    ASSUME TypeOK,
           NEW p \in Serial \union {NoFile}, Wanting(p),
           due \subseteq due',
           \A s \in Serial : issued'[s] = issued[s]
    PROVE  Wanting(p)'
  BY DEF Wanting, NoFile

(* SerialInv is inductive for the steps of one run at a time.                *)
LEMMA NextSerial ==
    ASSUME AllNamed
    PROVE  TypeOK /\ SerialInv /\ [SerialNext]_vars => SerialInv'
<1> SUFFICES ASSUME TypeOK, SerialInv, [SerialNext]_vars PROVE SerialInv'
  OBVIOUS
<1> USE DEF SerialInv, Position, AtRest, AllIdle, disk, history, local
<1>1. ASSUME NEW w \in Workers, NEW f \in Flows,
             AllIdle, Begin(w, f)
      PROVE  SerialInv'
  BY <1>1 DEF Begin, Moves, TypeOK, Serial
<1>2. ASSUME NEW w \in Workers, ReadCert(w) PROVE SerialInv'
  BY <1>2, AllNamed DEF ReadCert, Moves, TypeOK, AllNamed, Serial
<1>3. ASSUME NEW w \in Workers, Current(w) PROVE SerialInv'
  BY <1>3 DEF Current, Returns, TypeOK, Serial
<1>4. ASSUME NEW w \in Workers, Renew(w) PROVE SerialInv'
  <2>1. /\ seen[w] = keyFile
        /\ keyFile \in Serial \union {NoFile}
        /\ flow[w] \in Flows
        /\ ~Adequate(w)
    BY <1>4 DEF Renew, Moves, TypeOK
  <2>2. Wanting(keyFile)
    BY <2>1 DEF Adequate, Wanting
  <2> QED
    BY <1>4, <2>2 DEF Renew, Moves, TypeOK, Serial, Wanting
<1>5. ASSUME NEW w \in Workers, Obtain(w) PROVE SerialInv'
  <2>1. PICK s \in Sans : issued' = Append(issued, s)
    BY <1>5, FlowsAssumption DEF Obtain, SansGranted, FlowConfig, TypeOK
  <2>2. /\ Latest' = Latest + 1
        /\ Latest \in Nat
        /\ \A n \in Serial : issued'[n] = issued[n]
        /\ Serial \subseteq Serial'
    BY <2>1 DEF TypeOK, Serial, Latest
  <2>3. Wanting(keyFile) /\ keyFile \in Serial \union {NoFile}
    BY <1>5 DEF Obtain, Moves
  <2>4. Wanting(keyFile)'
    BY <1>5, <2>2, <2>3 DEF Obtain, Wanting, NoFile
  <2>5. keyFile < Latest'
    BY <2>2, <2>3 DEF Latest, Serial, NoFile
  <2> QED
    BY <1>5, <2>2, <2>3, <2>4, <2>5 DEF Obtain, Moves, TypeOK, Latest
<1>6. ASSUME NEW w \in Workers, ObtainFails(w) PROVE SerialInv'
  BY <1>6 DEF ObtainFails, Returns, TypeOK, Serial
<1>7. ASSUME NEW w \in Workers, NamelessFails(w) PROVE SerialInv'
  BY <1>7, AllNamed DEF NamelessFails, AllNamed, TypeOK
<1>8. ASSUME NEW w \in Workers, OpenCert(w) PROVE SerialInv'
  BY <1>8 DEF OpenCert, Moves, TypeOK, Serial, Latest, Wanting
<1>9. ASSUME NEW w \in Workers, FillCert(w) PROVE SerialInv'
  BY <1>9 DEF FillCert, Moves, TypeOK, Serial, Latest, Wanting
<1>10. ASSUME NEW w \in Workers, OpenKey(w) PROVE SerialInv'
  BY <1>10 DEF OpenKey, Moves, TypeOK, Latest
<1>11. ASSUME NEW w \in Workers, FillKey(w) PROVE SerialInv'
  <2>1. certFile' = got[w] /\ keyFile' = got[w] /\ got[w] \in Serial /\ Serial' = Serial
    BY <1>11 DEF FillKey, Moves, TypeOK, Serial
  <2> QED
    BY <1>11, <2>1 DEF FillKey, Moves, Returns, TypeOK
<1>12. ASSUME NEW w \in Workers, HookOk(w) \/ HookFails(w) PROVE SerialInv'
  BY <1>12 DEF HookOk, HookFails, Returns, TypeOK, Serial
<1>13. ASSUME TimePasses PROVE SerialInv'
  BY <1>13 DEF TimePasses, Wanting, Serial, Latest
<1>14. ASSUME UNCHANGED vars PROVE SerialInv'
  BY <1>14 DEF vars, Wanting, Serial, Latest
<1> QED
  BY <1>1, <1>2, <1>3, <1>4, <1>5, <1>6, <1>7, <1>8, <1>9, <1>10, <1>11, <1>12,
     <1>13, <1>14 DEF SerialNext, RunStep
-----------------------------------------------------------------------------
(* The initial states of the runs are initial states of CertStore.           *)
LEMMA InitMaps == Init => Store!Init
  BY DEF Init, Store!Init, NoFile, Torn, Disk

(* Every step of a single run is a step of CertStore or leaves it alone: an  *)
(* issuance is an Issue, the truncation of the key file is the Replace (from *)
(* then on the pair is the new one), a hook that reloads is the Reload.      *)
LEMMA NextMaps ==
    ASSUME AllNamed
    PROVE  TypeOK /\ SerialInv /\ [SerialNext]_vars => [Store!Next]_(Store!vars)
<1> SUFFICES ASSUME TypeOK, SerialInv, [SerialNext]_vars
             PROVE  Store!Next \/ UNCHANGED Store!vars
  OBVIOUS
<1> USE DEF Store!vars, disk, history, local
<1>1. ASSUME NEW p \in Serial \union {NoFile}, Wanting(p), Pair = p
      PROVE  Store!Wanting
  BY <1>1 DEF Store!Wanting, Wanting, Pair, NoFile
<1>2. ASSUME UNCHANGED <<issued, due, disk, loaded>> PROVE UNCHANGED Store!vars
  BY <1>2
<1>3. ASSUME NEW w \in Workers, NEW f \in Flows, Begin(w, f) PROVE UNCHANGED Store!vars
  BY <1>3 DEF Begin
<1>4. ASSUME NEW w \in Workers,
             ReadCert(w) \/ Current(w) \/ Renew(w) \/ ObtainFails(w) \/ NamelessFails(w)
      PROVE  UNCHANGED Store!vars
  BY <1>4 DEF ReadCert, Current, Renew, ObtainFails, NamelessFails
<1>5. ASSUME NEW w \in Workers, Obtain(w) PROVE Store!Next
  <2>1. PICK s \in Sans : issued' = Append(issued, s)
    BY <1>5, FlowsAssumption DEF Obtain, SansGranted, FlowConfig, TypeOK
  <2>2. Wanting(keyFile) /\ keyFile \in Serial \union {NoFile}
    BY <1>5 DEF SerialInv, Position, AtRest, Obtain, Moves
  <2>3. Store!Wanting
    BY <1>1, <2>2 DEF Pair, Serial, NoFile, Torn
  <2> QED
    BY <1>5, <2>1, <2>3 DEF Obtain, Store!Next, Store!Issue
<1>6. ASSUME NEW w \in Workers, OpenCert(w) \/ FillCert(w) PROVE UNCHANGED Store!vars
  <2>1. keyFile \in Serial \union {NoFile} /\ keyFile' = keyFile
    BY <1>6 DEF SerialInv, Position, OpenCert, FillCert, Moves
  <2> QED
    BY <1>6, <2>1 DEF OpenCert, FillCert, Serial, NoFile, Torn
<1>7. ASSUME NEW w \in Workers, OpenKey(w) PROVE Store!Next
  <2>1. /\ Wanting(keyFile)
        /\ keyFile \in Serial \union {NoFile}
        /\ keyFile < Latest
        /\ certFile = Latest
    BY <1>7 DEF SerialInv, Position, OpenKey, Moves
  <2>2. Store!Wanting
    BY <1>1, <2>1 DEF Pair, Serial, NoFile, Torn
  <2> QED
    BY <1>7, <2>1, <2>2
       DEF OpenKey, Store!Next, Store!Replace, Latest, Serial, NoFile, Torn
<1>8. ASSUME NEW w \in Workers, FillKey(w) PROVE UNCHANGED Store!vars
  <2>1. certFile = got[w] /\ keyFile = Torn /\ got[w] \in Serial
    BY <1>8 DEF SerialInv, Position, FillKey, Moves, TypeOK
  <2> QED
    BY <1>8, <2>1 DEF FillKey, Serial, Torn
<1>9. ASSUME NEW w \in Workers, HookOk(w) PROVE Store!Next
  <2>1. keyFile \in Serial \union {NoFile}
    BY <1>9 DEF SerialInv, Position, AtRest, HookOk
  <2> QED
    BY <1>9, <2>1 DEF HookOk, Store!Next, Store!Reload, Disk, Serial, NoFile, Torn
<1>10. ASSUME NEW w \in Workers, HookFails(w) PROVE Store!Next \/ UNCHANGED Store!vars
  <2>1. keyFile \in Serial \union {NoFile}
    BY <1>10 DEF SerialInv, Position, AtRest, HookFails
  <2> QED
    BY <1>10, <2>1 DEF HookFails, Store!Next, Store!Reload, Disk, Serial, NoFile, Torn
<1>11. ASSUME TimePasses PROVE Store!Next
  BY <1>11 DEF TimePasses, Store!Next, Store!Age, Serial
<1>12. ASSUME UNCHANGED vars PROVE UNCHANGED Store!vars
  BY <1>12 DEF vars
<1> QED
  BY <1>3, <1>4, <1>5, <1>6, <1>7, <1>8, <1>9, <1>10, <1>11, <1>12
     DEF SerialNext, RunStep

(* What a single run knows holds in every behaviour of single runs.          *)
LEMMA SerialInvariance ==
    ASSUME AllNamed
    PROVE  SerialRuns => [](TypeOK /\ SerialInv)
  BY InitType, NextType, SerialIsNext, InitSerial, NextSerial, AllNamed, PTL DEF SerialRuns

(* With every form of the flow named, runs that come one at a time and are   *)
(* not cut short keep what CertStore promises: two files that behave as one  *)
(* pair, replaced as a whole, by newer issuances, when there was a reason.   *)
THEOREM SerialRunsImplementStore == AllNamed /\ SerialSpec => ImplementsCertStore
<1> SUFFICES ASSUME AllNamed PROVE SerialSpec => ImplementsCertStore
  OBVIOUS
<1>1. SerialRuns => Store!Init /\ [][Store!Next]_(Store!vars)
  BY SerialInvariance, InitMaps, NextMaps, AllNamed, PTL DEF SerialRuns
<1> QED
  BY <1>1, PTL DEF SerialSpec, ImplementsCertStore, Store!Spec

(* What a lock and an end that is not cut short would give back: between     *)
(* runs that come one at a time the two files are of one issuance.           *)
(* Overlapping runs break this (base.py:105-117).                            *)
THEOREM SerialPairAtRest == AllNamed /\ SerialRuns => []PairAtRest
<1> SUFFICES ASSUME AllNamed PROVE SerialRuns => []PairAtRest
  OBVIOUS
<1>1. SerialInv => PairAtRest
  BY DEF SerialInv, AtRest, PairAtRest
<1> QED
  BY SerialInvariance, <1>1, PTL

(* And then the gate accepts only a certificate with its own key, although   *)
(* it does not compare the two (base.py:131-149).  A run that is cut short   *)
(* between the two writes breaks this.                                       *)
THEOREM SerialAccepts == AllNamed /\ SerialRuns => AcceptedPairMatches
<1> SUFFICES ASSUME AllNamed PROVE SerialRuns => AcceptedPairMatches
  OBVIOUS
<1>1. ASSUME SerialInv, NEW w \in Workers, Current(w) PROVE certFile = keyFile
  BY <1>1 DEF Current, SerialInv, Position, AtRest
<1>2. TypeOK /\ SerialInv /\ [SerialNext]_vars =>
        [\A w \in Workers : Current(w) => certFile = keyFile]_vars
  BY <1>1
<1> QED
  BY SerialInvariance, <1>2, PTL DEF SerialRuns, AcceptedPairMatches
=============================================================================
