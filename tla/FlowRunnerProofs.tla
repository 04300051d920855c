-------------------------- MODULE FlowRunnerProofs --------------------------
(***************************************************************************)
(* Theorems of FlowRunner for every set of workers, SAN sets, forms of the *)
(* flow, interruptible workers and bound on the issuances.                 *)
(***************************************************************************)
EXTENDS FlowRunner, TLAPS

(* What the reading and the gate leave alone. *)
Quiet == UNCHANGED <<issued, due, disk, loaded, history>>

(* A writer is alone as long as the history variable names it, and then the  *)
(* files hold what its own steps wrote.                                      *)
SoloInv ==
    \A w \in solo :
        /\ Writing(w)
        /\ ~whole
        /\ \A v \in Workers : Writing(v) => v = w
        /\ pc[w] \in {"openKey", "fillKey"} => certFile = got[w]

(* PairKept with what makes it inductive: while the last write was whole, no *)
(* worker is writing.                                                        *)
PairInv ==
    /\ SoloInv
    /\ whole => \A w \in Workers : ~Writing(w)
    /\ PairKept

-----------------------------------------------------------------------------
(* A step that appends to the issued certificates keeps every serial.        *)
LEMMA AppendKeepsSerials ==
    ASSUME NEW s \in Sans, issued \in Seq(Sans), issued' = Append(issued, s)
    PROVE  /\ issued' \in Seq(Sans)
           /\ Serial \subseteq Serial'
           /\ FileValue \subseteq FileValue'
           /\ Len(issued) + 1 \in Serial'
  BY DEF Serial, FileValue

(* TypeOK holds initially. *)
LEMMA InitType == Init => TypeOK
<1> SUFFICES ASSUME Init PROVE TypeOK
  OBVIOUS
<1>1. issued \in Seq(Sans) /\ NoFile \in FileValue
  BY DEF Init, FileValue
<1>2. loaded \in [cert : FileValue, key : FileValue]
  BY <1>1 DEF Init, Disk
<1> QED
  BY <1>1, <1>2 DEF Init, TypeOK, Steps

(* TypeOK is inductive: the serials only grow, and a worker gets its serial  *)
(* in the step that appends it.                                              *)
LEMMA NextType == TypeOK /\ [Next]_vars => TypeOK'
<1> SUFFICES ASSUME TypeOK, [Next]_vars PROVE TypeOK'
  OBVIOUS
<1> USE DEF TypeOK, Moves, Returns, Steps, disk, history, local
<1>1. ASSUME NEW w \in Workers, NEW f \in Flows, Begin(w, f) PROVE TypeOK'
  BY <1>1 DEF Begin, Serial, FileValue
<1>2. ASSUME NEW w \in Workers, ReadCert(w) PROVE TypeOK'
  BY <1>2 DEF ReadCert, Serial, FileValue
<1>3. ASSUME NEW w \in Workers, Current(w) PROVE TypeOK'
  BY <1>3 DEF Current, Serial, FileValue
<1>4. ASSUME NEW w \in Workers, Renew(w) PROVE TypeOK'
  BY <1>4 DEF Renew, Serial, FileValue
<1>5. ASSUME NEW w \in Workers, Obtain(w) PROVE TypeOK'
  <2>1. PICK s \in Sans : issued' = Append(issued, s)
    BY <1>5, FlowsAssumption DEF Obtain, SansGranted, FlowConfig
  <2>2. /\ issued' \in Seq(Sans)
        /\ Serial \subseteq Serial'
        /\ FileValue \subseteq FileValue'
        /\ Len(issued) + 1 \in Serial'
    BY <2>1, AppendKeepsSerials
  <2> QED
    BY <1>5, <2>2 DEF Obtain
<1>6. ASSUME NEW w \in Workers, ObtainFails(w) PROVE TypeOK'
  BY <1>6 DEF ObtainFails, Serial, FileValue
<1>7. ASSUME NEW w \in Workers, NamelessFails(w) PROVE TypeOK'
  BY <1>7 DEF NamelessFails, Serial, FileValue
<1>8. ASSUME NEW w \in Workers, OpenCert(w) PROVE TypeOK'
  BY <1>8 DEF OpenCert, Serial, FileValue
<1>9. ASSUME NEW w \in Workers, FillCert(w) PROVE TypeOK'
  BY <1>9 DEF FillCert, Serial, FileValue
<1>10. ASSUME NEW w \in Workers, OpenKey(w) PROVE TypeOK'
  BY <1>10 DEF OpenKey, Serial, FileValue
<1>11. ASSUME NEW w \in Workers, FillKey(w) PROVE TypeOK'
  <2>1. got[w] \in FileValue /\ pc[w] = "fillKey"
    BY <1>11 DEF FillKey, FileValue
  <2>2. /\ pc' \in [Workers -> Steps]
        /\ seen' \in [Workers -> FileValue]
        /\ got' \in [Workers -> Serial \union {NoFile}]
        /\ lapsed' \in BOOLEAN
        /\ \A v \in Workers :
              pc'[v] \in {"openCert", "fillCert", "openKey", "fillKey"} =>
                  got'[v] \in Serial
    <3>1. CASE flow[w].script
      BY <1>11, <3>1 DEF FillKey, FileValue
    <3>2. CASE ~flow[w].script
      BY <1>11, <3>2 DEF FillKey, FileValue
    <3> QED
      BY <3>1, <3>2
  <2>3. /\ UNCHANGED <<issued, due, certFile, loaded, flow>>
        /\ keyFile' = got[w]
        /\ solo' \subseteq Workers
        /\ whole' \in BOOLEAN
    BY <1>11 DEF FillKey
  <2> QED
    BY <2>1, <2>2, <2>3 DEF Serial, FileValue
<1>12. ASSUME NEW w \in Workers, HookOk(w) PROVE TypeOK'
  BY <1>12 DEF HookOk, Serial, FileValue, Disk
<1>13. ASSUME NEW w \in Workers, HookFails(w) PROVE TypeOK'
  BY <1>13 DEF HookFails, Serial, FileValue, Disk
<1>14. ASSUME NEW w \in Workers, Interrupted(w) PROVE TypeOK'
  <2>1. loaded' \in {loaded, Disk}
    BY <1>14 DEF Interrupted
  <2> QED
    BY <1>14, <2>1 DEF Interrupted, Serial, FileValue, Disk
<1>15. ASSUME TimePasses PROVE TypeOK'
  BY <1>15 DEF TimePasses, Serial, FileValue
<1>16. ASSUME UNCHANGED vars PROVE TypeOK'
  BY <1>16 DEF vars, Serial, FileValue
<1> QED
  BY <1>1, <1>2, <1>3, <1>4, <1>5, <1>6, <1>7, <1>8, <1>9, <1>10, <1>11,
     <1>12, <1>13, <1>14, <1>15, <1>16 DEF Next, RunStep

(* In every behaviour, overlapping and interrupted runs included, TypeOK     *)
(* holds: a worker that writes has a serial that was issued.                 *)
THEOREM TypeCorrect == Spec => []TypeOK
  BY InitType, NextType, PTL DEF Spec
-----------------------------------------------------------------------------
(* Both safety invariants hold initially: no file and no writer.             *)
LEMMA InitSafe == Init => ServiceFollowsDisk /\ PairInv
  BY DEF Init, ServiceFollowsDisk, PairInv, SoloInv, PairKept, Writing, NoFile, Torn

(* ServiceFollowsDisk is inductive on its own: the last of several           *)
(* overlapping runs still has its hook to run, or lapses.                    *)
LEMMA NextFollows == TypeOK /\ ServiceFollowsDisk /\ [Next]_vars => ServiceFollowsDisk'
<1> SUFFICES ASSUME TypeOK, ServiceFollowsDisk, [Next]_vars PROVE ServiceFollowsDisk'
  OBVIOUS
<1> DEFINE Telling(v) == Writing(v) \/ pc[v] = "hook"
<1> USE DEF ServiceFollowsDisk, Writing, Disk, disk, history, local, vars
<1>1. ASSUME NEW w \in Workers,
             Quiet,
             pc' = [pc EXCEPT ![w] = pc'[w]],
             ~Telling(w)
      PROVE  ServiceFollowsDisk'
  BY <1>1 DEF TypeOK, Quiet
<1>2. ASSUME NEW w \in Workers, NEW f \in Flows, Begin(w, f) PROVE ServiceFollowsDisk'
  BY <1>1, <1>2 DEF Begin, Moves, Quiet, TypeOK
<1>3. ASSUME NEW w \in Workers, ReadCert(w) PROVE ServiceFollowsDisk'
  BY <1>1, <1>3 DEF ReadCert, Moves, Quiet, TypeOK
<1>4. ASSUME NEW w \in Workers, Current(w) PROVE ServiceFollowsDisk'
  BY <1>1, <1>4 DEF Current, Returns, Quiet, TypeOK
<1>5. ASSUME NEW w \in Workers, Renew(w) PROVE ServiceFollowsDisk'
  BY <1>1, <1>5 DEF Renew, Moves, Quiet, TypeOK
<1>6. ASSUME NEW w \in Workers, Obtain(w) PROVE ServiceFollowsDisk'
  BY <1>6 DEF Obtain, Moves, TypeOK
<1>7. ASSUME NEW w \in Workers, ObtainFails(w) PROVE ServiceFollowsDisk'
  BY <1>1, <1>7 DEF ObtainFails, Returns, Quiet, TypeOK
<1>8. ASSUME NEW w \in Workers, NamelessFails(w) PROVE ServiceFollowsDisk'
  BY <1>1, <1>8 DEF NamelessFails, Returns, Quiet, TypeOK
<1>9. ASSUME NEW w \in Workers, OpenCert(w) \/ FillCert(w) \/ OpenKey(w)
      PROVE  ServiceFollowsDisk'
  BY <1>9 DEF OpenCert, FillCert, OpenKey, Moves, TypeOK
<1>10. ASSUME NEW w \in Workers, FillKey(w) PROVE ServiceFollowsDisk'
  BY <1>10 DEF FillKey, Moves, Returns, TypeOK
<1>11. ASSUME NEW w \in Workers, HookOk(w) \/ HookFails(w) PROVE ServiceFollowsDisk'
  BY <1>11 DEF HookOk, HookFails
<1>12. ASSUME NEW w \in Workers, Interrupted(w) PROVE ServiceFollowsDisk'
  BY <1>12 DEF Interrupted, Returns, TypeOK
<1>13. ASSUME TimePasses \/ UNCHANGED vars PROVE ServiceFollowsDisk'
  BY <1>13 DEF TimePasses
<1> QED
  BY <1>2, <1>3, <1>4, <1>5, <1>6, <1>7, <1>8, <1>9, <1>10, <1>11, <1>12, <1>13
     DEF Next, RunStep

(* In every behaviour, each new pair is either handed to the application, or *)
(* still has a run that will do so, or lapsed.                               *)
THEOREM ServiceFollows == Spec => []ServiceFollowsDisk
<1>1. Spec => [](TypeOK /\ ServiceFollowsDisk)
  BY InitType, NextType, InitSafe, NextFollows, PTL DEF Spec
<1> QED
  BY <1>1, PTL
-----------------------------------------------------------------------------
(* PairInv is inductive.                                                     *)
LEMMA NextPair == TypeOK /\ PairInv /\ [Next]_vars => PairInv'
<1> SUFFICES ASSUME TypeOK, PairInv, [Next]_vars PROVE PairInv'
  OBVIOUS
<1> USE DEF PairInv, SoloInv, PairKept, Writing, disk, history, local, vars
<1>1. ASSUME NEW w \in Workers,
             UNCHANGED <<disk, history>>,
             pc' = [pc EXCEPT ![w] = pc'[w]],
             \A v \in Workers : v # w => got'[v] = got[v],
             ~Writing(w),
             ~Writing(w)'
      PROVE  PairInv'
  BY <1>1 DEF TypeOK
<1>2. ASSUME NEW w \in Workers, NEW f \in Flows, Begin(w, f) PROVE PairInv'
  BY <1>1, <1>2 DEF Begin, Moves, TypeOK
<1>3. ASSUME NEW w \in Workers, ReadCert(w) PROVE PairInv'
  BY <1>1, <1>3 DEF ReadCert, Moves, TypeOK
<1>4. ASSUME NEW w \in Workers, Current(w) PROVE PairInv'
  BY <1>1, <1>4 DEF Current, Returns, TypeOK
<1>5. ASSUME NEW w \in Workers, Renew(w) PROVE PairInv'
  BY <1>1, <1>5 DEF Renew, Moves, TypeOK
<1>6. ASSUME NEW w \in Workers, Obtain(w) PROVE PairInv'
  BY <1>1, <1>6 DEF Obtain, Moves, TypeOK
<1>7. ASSUME NEW w \in Workers, ObtainFails(w) \/ NamelessFails(w) PROVE PairInv'
  BY <1>1, <1>7 DEF ObtainFails, NamelessFails, Returns, TypeOK
<1>8. ASSUME NEW w \in Workers, OpenCert(w) PROVE PairInv'
  <2>1. CASE \E v \in Workers : Writing(v)
    BY <1>8, <2>1 DEF OpenCert, Moves, TypeOK
  <2>2. CASE ~\E v \in Workers : Writing(v)
    BY <1>8, <2>2 DEF OpenCert, Moves, TypeOK
  <2> QED
    BY <2>1, <2>2
<1>9. ASSUME NEW w \in Workers, FillCert(w) PROVE PairInv'
  BY <1>9 DEF FillCert, Moves, TypeOK
<1>10. ASSUME NEW w \in Workers, OpenKey(w) PROVE PairInv'
  BY <1>10 DEF OpenKey, Moves, TypeOK
<1>11. ASSUME NEW w \in Workers, FillKey(w) PROVE PairInv'
  <2>1. got[w] # Torn /\ pc[w] = "fillKey"
    BY <1>11 DEF FillKey, Moves, TypeOK, Serial, Torn
  <2>2. CASE w \in solo
    BY <1>11, <2>1, <2>2 DEF FillKey, Moves, Returns, TypeOK
  <2>3. CASE w \notin solo
    BY <1>11, <2>1, <2>3 DEF FillKey, Moves, Returns, TypeOK
  <2> QED
    BY <2>2, <2>3
<1>12. ASSUME NEW w \in Workers, HookOk(w) \/ HookFails(w) PROVE PairInv'
  BY <1>1, <1>12 DEF HookOk, HookFails, Returns, TypeOK
<1>13. ASSUME NEW w \in Workers, Interrupted(w) PROVE PairInv'
  BY <1>13 DEF Interrupted, Returns, TypeOK
<1>14. ASSUME TimePasses \/ UNCHANGED vars PROVE PairInv'
  BY <1>14 DEF TimePasses
<1> QED
  BY <1>2, <1>3, <1>4, <1>5, <1>6, <1>7, <1>8, <1>9, <1>10, <1>11, <1>12, <1>13, <1>14
     DEF Next, RunStep

(* In every behaviour, whatever overlaps and interruptions came before, a    *)
(* write that no other run overlapped leaves a certificate with its own key. *)
THEOREM PairIsKept == Spec => []PairKept
<1>1. Spec => [](TypeOK /\ PairInv)
  BY InitType, NextType, InitSafe, NextPair, PTL DEF Spec
<1>2. PairInv => PairKept
  BY DEF PairInv
<1> QED
  BY <1>1, <1>2, PTL
=============================================================================
