------------------------ MODULE ConfigDeliveryProofs ------------------------
(***************************************************************************)
(* Theorems on ConfigDelivery, for every sequence of payloads, number of   *)
(* threads and commands, skew and resolution of the clocks.                *)
(***************************************************************************)
EXTENDS ConfigDelivery, ConfigModelProofs, TLAPS

(* Who writes alone writes into an empty file.                               *)
FileInv ==
    /\ crossed \subseteq Writers
    /\ \A r \in Writers : r \notin crossed => Writers = {r} /\ file = Empty

(* A nudge is signed with the time it was sent, by the clock of the SPOG.    *)
Signed ==
    \A n \in nudges :
        /\ n.sent \in Nat /\ now \in Nat
        /\ n.ts = Seconds(n.sent + Skew)
        /\ n.sig[1] = Secret <=> n.sig = Sign(Secret, n.ts, n.nonce, n.body)
-----------------------------------------------------------------------------
(* What is published is never a different version.                           *)
LEMMA PullableGrows ==
    ASSUME TypeOK, served' \in {served, served + 1}
    PROVE  Pullable(served) \subseteq Pullable(served')
BY DeliveryAssumption DEF TypeOK, Version, Pullable, Sound

(* Initially every variable has its type.                                    *)
LEMMA TypeInit == Init => TypeOK
<1> SUFFICES ASSUME Init PROVE TypeOK
  OBVIOUS
<1> USE DEF Init
<1>1. served \in Version /\ now \in Moments /\ boots \in 0 .. MaxBoots
  BY DeliveryAssumption DEF Version
<1>2. waiting \in 0 .. MaxWaiting /\ told \in 0 .. served /\ written \in 0 .. served
  BY DeliveryAssumption DEF None
<1>3. file \in NotAConfig
  BY DEF NotAConfig
<1>4. pc \in [Refreshers -> Steps] /\ (\A r \in Refreshers : cfg[r] = None <=> pc[r] \in {"idle", "pull"})
  BY DEF Steps
<1>5. before \in [Refreshers -> 0 .. served]
  BY DEF None
<1> QED
  BY <1>1, <1>2, <1>3, <1>4, <1>5 DEF TypeOK

(* The end of a process, a write it was in included, keeps the types.        *)
LEMMA EndTypes ==
    ASSUME TypeOK, NEW gone, End(gone), served' = served
    PROVE  /\ file' \in NotAConfig \union {Text(v) : v \in Pullable(served')}
           /\ pc' \in [Refreshers -> Steps]
           /\ cfg' \in [Refreshers -> {None} \union Pullable(served')]
           /\ \A r \in Refreshers : cfg'[r] = None <=> pc'[r] \in {"idle", "pull"}
           /\ before' \in [Refreshers -> 0 .. served']
           /\ crossed' \subseteq Refreshers
           /\ spoiled' \in BOOLEAN
<1> USE DEF TypeOK, End
<1>1. file' \in NotAConfig \union {Text(v) : v \in Pullable(served')}
  BY DEF NotAConfig, Unreadable
<1>2. pc' \in [Refreshers -> Steps] /\ cfg' \in [Refreshers -> {None} \union Pullable(served')]
  BY DEF Steps
<1>3. \A r \in Refreshers : cfg'[r] = None <=> pc'[r] \in {"idle", "pull"}
  OBVIOUS
<1>4. before' \in [Refreshers -> 0 .. served']
  BY DeliveryAssumption DEF None, Version
<1>5. crossed' \subseteq Refreshers /\ spoiled' \in BOOLEAN
  OBVIOUS
<1> QED
  BY <1>1, <1>2, <1>3, <1>4, <1>5

(* TypeOK is inductive.                                                      *)
LEMMA TypeStep ==
    ASSUME TypeOK, [Next]_vars
    PROVE  TypeOK'
<1> USE DEF TypeOK
<1>1. CASE Publish
  BY <1>1, PullableGrows, DeliveryAssumption DEF Publish, history, Version
<1>2. CASE Tick
  BY <1>2, DeliveryAssumption DEF Tick, history
<1>3. CASE Boot
  BY <1>3, EndTypes, DeliveryAssumption DEF Boot, None
<1>4. ASSUME NEW n \in nudges, Update(n)
      PROVE  TypeOK'
  <2>1. n.nonce \in 1 .. served
    BY <1>4
  <2>2. told' \in 0 .. served
    BY <1>4, <2>1 DEF Update
  <2>3. waiting' \in 0 .. MaxWaiting
    BY <1>4, DeliveryAssumption DEF Update
  <2> QED
    BY <1>4, <2>2, <2>3 DEF Update
<1>5. ASSUME NEW t \in Threads, StartRefresh(t)
      PROVE  TypeOK'
  BY <1>5, DeliveryAssumption DEF StartRefresh, Begin, Moves, Refreshers, Steps
<1>6. ASSUME NEW c \in Commands, StartCommand(c)
      PROVE  TypeOK'
  BY <1>6, DeliveryAssumption DEF StartCommand, Begin, Moves, Refreshers, Steps
<1>7. ASSUME NEW c \in Commands, Kill(c)
      PROVE  TypeOK'
  BY <1>7, EndTypes DEF Kill
<1>8. ASSUME NEW r \in Refreshers, PullOk(r)
      PROVE  TypeOK'
  BY <1>8, DeliveryAssumption DEF PullOk, Moves, Steps, Pullable, Sound, None, Version
<1>9. ASSUME NEW r \in Refreshers, PullFails(r)
      PROVE  TypeOK'
  BY <1>9, DeliveryAssumption DEF PullFails, Moves, Steps, None, Version
<1>10. ASSUME NEW r \in Refreshers, Hold(r)
       PROVE  TypeOK'
  BY <1>10, DeliveryAssumption DEF Hold, Moves, Steps
<1>11. ASSUME NEW r \in Refreshers, Open(r)
       PROVE  TypeOK'
  BY <1>11, DeliveryAssumption DEF Open, Moves, Steps, Writers, NotAConfig, Unreadable
<1>12. ASSUME NEW r \in Refreshers, OpenFails(r)
       PROVE  TypeOK'
  BY <1>12, DeliveryAssumption DEF OpenFails, Leaves, Moves, Steps, None, Version
<1>13. ASSUME NEW r \in Refreshers, Write(r)
       PROVE  TypeOK'
  BY <1>13, DeliveryAssumption DEF Write, Leaves, Moves, Steps, None, Version,
     NotAConfig, Unreadable, Pullable, Sound
<1>14. ASSUME NEW r \in Refreshers, WriteFails(r)
       PROVE  TypeOK'
  BY <1>14, DeliveryAssumption DEF WriteFails, Leaves, Moves, Steps, None, Version,
     NotAConfig, Unreadable
<1>15. CASE UNCHANGED vars
  BY <1>15 DEF vars, history
<1> QED
  BY <1>1, <1>2, <1>3, <1>4, <1>5, <1>6, <1>7, <1>8, <1>9, <1>10, <1>11, <1>12,
     <1>13, <1>14, <1>15 DEF Next, RefreshStep
-----------------------------------------------------------------------------
(* Initially there is no config.json.                                        *)
LEMMA FileInit == Init => FileInv /\ CleanFileIsRead
BY TextAssumption DEF Init, FileInv, CleanFileIsRead, Writers, Unreadable, Refreshers

(* Ending refreshers leaves the other writers as they were.                  *)
LEMMA EndKeepsFile ==
    ASSUME TypeOK, FileInv, CleanFileIsRead, NEW gone \in SUBSET Refreshers, End(gone)
    PROVE  FileInv' /\ CleanFileIsRead'
<1>1. Writers' = Writers \ gone
  BY DEF End, Writers, TypeOK
<1>2. CASE Writers \intersect gone = {}
  BY <1>1, <1>2 DEF End, FileInv, CleanFileIsRead
<1>3. CASE Writers \intersect gone # {}
  <2>1. spoiled'
    BY <1>3 DEF End
  <2>2. \A r \in Writers' : r \in crossed
    BY <1>1, <1>3 DEF FileInv
  <2> QED
    BY <1>1, <2>1, <2>2 DEF End, FileInv, CleanFileIsRead
<1> QED
  BY <1>2, <1>3

(* A writer that leaves takes itself out of the writers.                     *)
LEMMA WriterLeaves ==
    ASSUME TypeOK, FileInv, NEW r \in Refreshers, Leaves(r, "write"), crossed' = crossed \ {r}
    PROVE  /\ r \in Writers /\ Writers' = Writers \ {r}
           /\ FileInv'
           /\ r \notin crossed => file = Empty
<1>1. r \in Writers /\ Writers' = Writers \ {r}
  BY DEF Leaves, Moves, Writers, TypeOK
<1>2. \A q \in Writers' : q \in crossed
  BY <1>1 DEF FileInv
<1> QED
  BY <1>1, <1>2 DEF FileInv

(* What is in config.json follows from who has it open.                      *)
LEMMA FileStep ==
    ASSUME TypeOK, FileInv, CleanFileIsRead, [Next]_vars
    PROVE  FileInv' /\ CleanFileIsRead'
<1>1. CASE UNCHANGED <<pc, file, crossed, spoiled>>
  BY <1>1 DEF FileInv, CleanFileIsRead, Writers
<1>2. CASE Publish \/ Tick \/ \E n \in nudges : Update(n)
  BY <1>1, <1>2 DEF Publish, Tick, Update, history
<1>3. CASE Boot
  BY <1>3, EndKeepsFile DEF Boot, Refreshers
<1>4. ASSUME NEW c \in Commands, Kill(c)
      PROVE  FileInv' /\ CleanFileIsRead'
  BY <1>4, EndKeepsFile DEF Kill, Refreshers
<1>5. ASSUME Writers' = Writers, UNCHANGED <<file, crossed, spoiled>>
      PROVE  FileInv' /\ CleanFileIsRead'
  BY <1>5 DEF FileInv, CleanFileIsRead
<1>6. ASSUME NEW r \in Refreshers, Begin(r), UNCHANGED <<file, crossed, spoiled>>
      PROVE  FileInv' /\ CleanFileIsRead'
  <2>1. Writers' = Writers
    BY <1>6 DEF Begin, Moves, Writers, TypeOK
  <2> QED
    BY <1>5, <1>6, <2>1
<1>7. ASSUME NEW r \in Refreshers, PullOk(r) \/ PullFails(r) \/ Hold(r) \/ OpenFails(r)
      PROVE  FileInv' /\ CleanFileIsRead'
  <2>1. Writers' = Writers
    BY <1>7 DEF PullOk, PullFails, Hold, OpenFails, Leaves, Moves, Writers, TypeOK
  <2>2. UNCHANGED <<file, crossed, spoiled>>
    BY <1>7 DEF PullOk, PullFails, Hold, OpenFails
  <2> QED
    BY <1>5, <2>1, <2>2
<1>8. ASSUME NEW r \in Refreshers, Open(r)
      PROVE  FileInv' /\ CleanFileIsRead'
  <2>1. Writers' = Writers \union {r}
    BY <1>8 DEF Open, Moves, Writers, TypeOK
  <2> QED
    BY <1>8, <2>1 DEF Open, FileInv, CleanFileIsRead
<1>9. ASSUME NEW r \in Refreshers, Write(r)
      PROVE  FileInv' /\ CleanFileIsRead'
  <2>1. FileInv' /\ (r \notin crossed => file = Empty)
    BY <1>9, WriterLeaves DEF Write
  <2>2. CASE r \in crossed
    BY <1>9, <2>1, <2>2 DEF Write, CleanFileIsRead
  <2>3. CASE r \notin crossed
    <3>1. file' = Text(cfg[r])
      BY <1>9, <2>1, <2>3 DEF Write
    <3>2. cfg[r] \in Pullable(served)
      BY <1>9 DEF Write, Leaves, Moves, TypeOK
    <3>3. file' \notin Unreadable
      BY <3>1, <3>2, TextAssumption, DeliveryAssumption DEF Pullable, Sound, Unreadable, TypeOK, Version
    <3> QED
      BY <2>1, <3>3 DEF CleanFileIsRead
  <2> QED
    BY <2>2, <2>3
<1>10. ASSUME NEW r \in Refreshers, WriteFails(r)
       PROVE  FileInv' /\ CleanFileIsRead'
  BY <1>10, WriterLeaves DEF WriteFails, CleanFileIsRead
<1> QED
  BY <1>1, <1>2, <1>3, <1>4, <1>6, <1>7, <1>8, <1>9, <1>10
  DEF Next, RefreshStep, StartRefresh, StartCommand, vars, history, Refreshers
-----------------------------------------------------------------------------
(* Pulls answer with what is served then, so they never go back.             *)
LEMMA OrderStep ==
    ASSUME TypeOK, DiskKeepsNewer, [Next]_vars
    PROVE  DiskKeepsNewer'
<1> USE DEF DiskKeepsNewer
<1>1. CASE UNCHANGED <<pc, cfg, before>>
  BY <1>1
<1>2. CASE Publish \/ Tick \/ \E n \in nudges : Update(n)
  BY <1>1, <1>2 DEF Publish, Tick, Update, history
<1>3. CASE Boot
  BY <1>3 DEF Boot, End, TypeOK
<1>4. ASSUME NEW c \in Commands, Kill(c)
      PROVE  DiskKeepsNewer'
  BY <1>4 DEF Kill, End, TypeOK
<1>5. ASSUME NEW r \in Refreshers, Begin(r), UNCHANGED cfg
      PROVE  DiskKeepsNewer'
  BY <1>5 DEF Begin, Moves, TypeOK
<1>6. ASSUME NEW r \in Refreshers, PullOk(r)
      PROVE  DiskKeepsNewer'
  <2>1. before[r] \in 0 .. served /\ served \in Int
    BY DeliveryAssumption DEF TypeOK, Version
  <2>2. before' = before /\ cfg' = [cfg EXCEPT ![r] = served] /\ pc' = [pc EXCEPT ![r] = "hold"]
    BY <1>6 DEF PullOk, Moves
  <2>3. served >= before[r]
    BY <2>1
  <2> QED
    BY <2>2, <2>3 DEF TypeOK
<1>7. ASSUME NEW r \in Refreshers, Hold(r) \/ Open(r)
      PROVE  DiskKeepsNewer'
  BY <1>7 DEF Hold, Open, Moves, TypeOK
<1>8. ASSUME NEW r \in Refreshers, PullFails(r) \/ OpenFails(r) \/ Write(r) \/ WriteFails(r)
      PROVE  DiskKeepsNewer'
  BY <1>8 DEF PullFails, OpenFails, Write, WriteFails, Leaves, Moves, TypeOK
<1> QED
  BY <1>1, <1>2, <1>3, <1>4, <1>5, <1>6, <1>7, <1>8
  DEF Next, RefreshStep, StartRefresh, StartCommand, vars, history, Refreshers
-----------------------------------------------------------------------------
(* NudgeNotLost is inductive given TypeOK.                                   *)
LEMMA NudgeStep ==
    ASSUME TypeOK, NudgeNotLost, [Next]_vars
    PROVE  NudgeNotLost'
<1> USE DEF NudgeNotLost
<1>1. told \in Int /\ told <= served /\ served \in Int /\ held \in Int
  BY DeliveryAssumption DEF TypeOK, Version, Pullable, Sound, None
<1>2. CASE UNCHANGED <<told, held, lapsed, waiting, pc, cfg>>
  BY <1>2
<1>3. CASE Publish \/ Tick
  BY <1>2, <1>3 DEF Publish, Tick, history
<1>4. CASE Boot
  BY <1>4 DEF Boot
<1>5. ASSUME NEW n \in nudges, Update(n)
      PROVE  NudgeNotLost'
  BY <1>5 DEF Update, TypeOK
<1>6. ASSUME NEW t \in Threads, StartRefresh(t)
      PROVE  NudgeNotLost'
  BY <1>6 DEF StartRefresh, Begin, Moves, TypeOK, Refreshers
<1>7. ASSUME NEW c \in Commands, StartCommand(c) \/ Kill(c)
      PROVE  NudgeNotLost'
  <2>1. \A t \in Threads : pc'[t] = pc[t] /\ cfg'[t] = cfg[t]
    BY <1>7, DeliveryAssumption DEF StartCommand, Begin, Moves, Kill, End, TypeOK, Refreshers
  <2>2. UNCHANGED <<told, held, lapsed, waiting>>
    BY <1>7 DEF StartCommand, Kill
  <2> QED
    BY <2>1, <2>2
<1>8. ASSUME NEW r \in Refreshers, PullOk(r)
      PROVE  NudgeNotLost'
  BY <1>1, <1>8 DEF PullOk, Moves, TypeOK, Refreshers
<1>9. ASSUME NEW r \in Refreshers, PullFails(r)
      PROVE  NudgeNotLost'
  <2>1. CASE r \in Threads
    BY <1>9, <2>1 DEF PullFails
  <2>2. CASE r \notin Threads
    BY <1>9, <2>2 DEF PullFails, Moves, TypeOK, Refreshers
  <2> QED
    BY <2>1, <2>2
<1>10. ASSUME NEW r \in Refreshers, Hold(r)
       PROVE  NudgeNotLost'
  <2>1. cfg[r] \in Int
    BY <1>1 DEF TypeOK, Pullable, Sound, None
  <2>2. CASE r \in Threads /\ cfg[r] >= told
    BY <1>1, <1>10, <2>1, <2>2 DEF Hold
  <2>3. CASE r \in Threads /\ ~(cfg[r] >= told)
    <3>1. cfg[r] < told
      BY <1>1, <2>1, <2>3
    <3> QED
      BY <1>10, <2>3, <3>1 DEF Hold
  <2>4. CASE r \notin Threads
    BY <1>10, <2>4 DEF Hold, Moves, TypeOK, Refreshers
  <2> QED
    BY <2>2, <2>3, <2>4
<1>11. ASSUME NEW r \in Refreshers, Open(r) \/ OpenFails(r) \/ Write(r) \/ WriteFails(r)
       PROVE  NudgeNotLost'
  <2>1. /\ pc[r] \in {"open", "write"} /\ \A t \in Refreshers \ {r} : pc'[t] = pc[t] /\ cfg'[t] = cfg[t]
        /\ UNCHANGED <<told, held, lapsed, waiting>>
    BY <1>11 DEF Open, OpenFails, Write, WriteFails, Leaves, Moves, TypeOK
  <2> QED
    BY <2>1 DEF Refreshers
<1> QED
  BY <1>2, <1>3, <1>4, <1>5, <1>6, <1>7, <1>8, <1>9, <1>10, <1>11 DEF Next, RefreshStep, vars, history
-----------------------------------------------------------------------------
(* Two readings of the clocks in whole seconds are as far apart as the       *)
(* clocks, to a second.                                                      *)
LEMMA SecondsOf ==
    ASSUME NEW a \in Int
    PROVE  /\ Seconds(a) \in Int
           /\ Seconds(a) * Resolution <= a /\ a < (Seconds(a) + 1) * Resolution
BY ClockAssumption DEF Seconds

(* A difference of two times in seconds follows that in ticks, rounded       *)
(* to the next second.                                                       *)
LEMMA SecondsFollow ==
    ASSUME NEW a \in Int, NEW b \in Int, NEW m \in Nat
    PROVE  /\ a - b <= m * Resolution => Seconds(a) - Seconds(b) <= m
           /\ a - b >= (m + 1) * Resolution => Seconds(a) - Seconds(b) > m
<1> DEFINE q == Seconds(a)
           p == Seconds(b)
<1>1. /\ q \in Int /\ q * Resolution <= a /\ a < (q + 1) * Resolution
      /\ p \in Int /\ p * Resolution <= b /\ b < (p + 1) * Resolution
  BY SecondsOf
<1> HIDE DEF q, p
<1>2. ASSUME NEW x \in Int, NEW y \in Int, x <= y
      PROVE  x * Resolution <= y * Resolution
  BY <1>2, ClockAssumption
<1>3. ASSUME a - b <= m * Resolution, q - p >= m + 1
      PROVE  FALSE
  <2>1. (m + 1 + p) * Resolution <= q * Resolution
    BY <1>1, <1>2, <1>3
  <2>2. (m + 1 + p) * Resolution = m * Resolution + (p + 1) * Resolution
    BY <1>1, ClockAssumption
  <2> QED
    BY <1>1, <1>3, <2>1, <2>2, ClockAssumption
<1>4. ASSUME a - b >= (m + 1) * Resolution, q - p <= m
      PROVE  FALSE
  <2>1. (q + 1) * Resolution <= (m + 1 + p) * Resolution
    BY <1>1, <1>2, <1>4
  <2>2. (m + 1 + p) * Resolution = (m + 1) * Resolution + p * Resolution
    BY <1>1, ClockAssumption
  <2> QED
    BY <1>1, <1>4, <2>1, <2>2, ClockAssumption
<1> QED
  BY <1>1, <1>3, <1>4 DEF q, p

(* The window holds of every nudge that is signed as the SPOG signs.         *)
LEMMA WindowFollows ==
    ASSUME TypeOK, Signed
    PROVE  WindowHolds
<1> SUFFICES ASSUME NEW n \in nudges
             PROVE  LET age == Abs(now - (n.sent + Skew))
                        ours == n.sig[1] = Secret /\ Secret # NoSecret
                    IN  /\ ours /\ age <= MaxSkew * Resolution => Verify(Secret, n, now)
                        /\ ~ours \/ age >= (MaxSkew + 1) * Resolution => ~Verify(Secret, n, now)
  BY DEF WindowHolds
<1> DEFINE sent == n.sent + Skew
<1>1. now \in Int /\ sent \in Int /\ n.ts = Seconds(sent)
  BY DeliveryAssumption DEF Signed
<1>2. n.sig[1] = Secret <=> n.sig = Sign(Secret, n.ts, n.nonce, n.body)
  BY DEF Signed
<1>3. MaxSkew \in Nat /\ MaxSkew * Resolution \in Int /\ (MaxSkew + 1) * Resolution \in Nat
  BY ClockAssumption
<1>4. Seconds(now) \in Int /\ Seconds(sent) \in Int
  BY <1>1, SecondsOf
<1> HIDE DEF sent
<1>5. /\ Abs(now - sent) <= MaxSkew * Resolution => Abs(Seconds(now) - Seconds(sent)) <= MaxSkew
      /\ Abs(now - sent) >= (MaxSkew + 1) * Resolution => Abs(Seconds(now) - Seconds(sent)) > MaxSkew
  <2>1. /\ now - sent <= MaxSkew * Resolution => Seconds(now) - Seconds(sent) <= MaxSkew
        /\ now - sent >= (MaxSkew + 1) * Resolution => Seconds(now) - Seconds(sent) > MaxSkew
    BY <1>1, <1>3, SecondsFollow
  <2>2. /\ sent - now <= MaxSkew * Resolution => Seconds(sent) - Seconds(now) <= MaxSkew
        /\ sent - now >= (MaxSkew + 1) * Resolution => Seconds(sent) - Seconds(now) > MaxSkew
    BY <1>1, <1>3, SecondsFollow
  <2> QED
    BY <1>1, <1>3, <1>4, <2>1, <2>2 DEF Abs
<1>6. Verify(Secret, n, now) <=> Fresh(n.ts, now) /\ n.sig[1] = Secret /\ Secret # NoSecret
  BY <1>2 DEF Verify
<1>7. Fresh(n.ts, now) <=> Abs(Seconds(now) - Seconds(sent)) <= MaxSkew
  BY <1>1 DEF Fresh
<1>8. Abs(Seconds(now) - Seconds(sent)) \in Int
  BY <1>4 DEF Abs
<1>9. /\ Abs(now - sent) <= MaxSkew * Resolution => Fresh(n.ts, now)
      /\ Abs(now - sent) >= (MaxSkew + 1) * Resolution => ~Fresh(n.ts, now)
  BY <1>3, <1>5, <1>7, <1>8
<1> QED
  BY <1>6, <1>9 DEF sent

(* Nudges keep the time and the signature they were sent with.               *)
LEMMA SignedStep ==
    ASSUME TypeOK, Signed, [Next]_vars
    PROVE  Signed'
<1> USE DEF Signed
<1>1. now \in Nat /\ served \in Int
  BY DeliveryAssumption DEF TypeOK, Version
<1>2. CASE UNCHANGED <<nudges, now>>
  BY <1>2
<1>3. CASE Publish
  BY <1>1, <1>3 DEF Publish, Sign
<1>4. CASE Tick
  BY <1>1, <1>4, DeliveryAssumption DEF Tick
<1> QED
  BY <1>2, <1>3, <1>4 DEF Next, RefreshStep, Boot, Update, StartRefresh, StartCommand, Kill,
     PullOk, PullFails, Hold, Open, OpenFails, Write, WriteFails, vars, history
-----------------------------------------------------------------------------
IInv ==
    /\ TypeOK
    /\ FileInv /\ CleanFileIsRead
    /\ DiskKeepsNewer
    /\ NudgeNotLost
    /\ Signed

(* In every behaviour the conjunction of the invariants holds.               *)
LEMMA Inductive == Spec => []IInv
<1>1. Init => IInv
  <2> SUFFICES ASSUME Init PROVE IInv
    OBVIOUS
  <2>1. DiskKeepsNewer /\ NudgeNotLost /\ Signed
    BY DEF Init, DiskKeepsNewer, NudgeNotLost, Signed
  <2> QED
    BY <2>1, TypeInit, FileInit DEF IInv
<1>2. IInv /\ [Next]_vars => IInv'
  BY TypeStep, FileStep, OrderStep, NudgeStep, SignedStep DEF IInv
<1> QED
  BY <1>1, <1>2, PTL DEF Spec

(* Every variable keeps its type: what is held or pulled was served and      *)
(* parses.                                                                   *)
THEOREM TypeCorrect == Spec => []TypeOK
<1>1. IInv => TypeOK
  BY DEF IInv
<1> QED
  BY <1>1, Inductive, PTL

(* The status command raises only while a write is under way or after one    *)
(* that was cut, failed or overlapped, whatever number of threads and        *)
(* commands write config.json (refresh.py:104-105, cli.py:23-28).            *)
THEOREM CleanFile == Spec => []CleanFileIsRead
<1>1. IInv => CleanFileIsRead
  BY DEF IInv
<1> QED
  BY <1>1, Inductive, PTL

(* No refresh writes a config older than one that was in the file when it    *)
(* asked (refresh.py:96-105).                                                *)
THEOREM NewerStays == Spec => []DiskKeepsNewer
<1>1. IInv => DiskKeepsNewer
  BY DEF IInv
<1> QED
  BY <1>1, Inductive, PTL

(* An accepted nudge leads to the edit it was sent for, or a pull failed or  *)
(* was overtaken since (server/router.py:28-48, refresh.py:96-97).           *)
THEOREM NudgeKept == Spec => []NudgeNotLost
<1>1. IInv => NudgeNotLost
  BY DEF IInv
<1> QED
  BY <1>1, Inductive, PTL

(* By the clocks of both ends the window is MaxSkew seconds to either side,  *)
(* to a second, at every resolution and skew; it is open for no foreign      *)
(* secret, and never at a host without a secret (server/hmac_auth.py:17-45). *)
THEOREM WindowIsKept == Spec => []WindowHolds
<1>1. IInv => WindowHolds
  BY WindowFollows DEF IInv
<1> QED
  BY <1>1, Inductive, PTL

(* What the status command reads is a config that some refresh pulled, the   *)
(* same to the last field, as long as null and what else is no object are    *)
(* told from objects (cli.py:23-28, config/models.py:129-211,                *)
(* base/models.py:21-42).                                                    *)
THEOREM StatusIsSound ==
    ASSUME ~IsFunction(Null), ~IsFunction(Scalar)
    PROVE  Spec => []StatusShowsAConfig
<1>1. ASSUME TypeOK
      PROVE  StatusShowsAConfig
  <2> SUFFICES ASSUME file \notin NotAConfig
               PROVE  Parses(file) /\ \E v \in Pullable(served) : Loads(file) = ConfigOf(v)
    BY DEF StatusShowsAConfig
  <2>1. PICK v \in Pullable(served) : file = Text(v)
    BY <1>1 DEF TypeOK
  <2>2. v \in Version /\ Parses(Payloads[v])
    BY <1>1, DeliveryAssumption DEF TypeOK, Pullable, Sound, Version
  <2> DEFINE list == Payloads[v]["flows"]
  <2>3. HasList(Payloads[v], {list[i] : i \in DOMAIN list})
    BY <2>2, DeliveryAssumption DEF HasList, Version
  <2>4. /\ Parses(Dumps(Loads(Payloads[v])))
        /\ Loads(Dumps(Loads(Payloads[v]))) = Loads(Payloads[v])
    BY <2>2, <2>3, ConfigRoundTrip
  <2> QED
    BY <2>1, <2>4 DEF Text, ConfigOf
<1> QED
  BY <1>1, TypeCorrect, PTL
=============================================================================
