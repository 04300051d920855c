------------------------- MODULE AgentLoggingProofs -------------------------
(***************************************************************************)
(* Theorems on AgentLogging, for all names and settings: the levels of the *)
(* loggers, and the way of the records through the queue.                  *)
(***************************************************************************)
EXTENDS AgentLogging, SequenceTheorems, TLAPS

LevelInv ==
    /\ settings \in Settings \union {Unset}
    /\ level \in [Names -> {Absent} \union Levels]
    /\ LevelsFollow

(* Every name of a level stands for a number of one.                         *)
LEMMA LevelType == ASSUME NEW name PROVE LevelToInt(name) \in Levels
BY DEF LevelToInt, Levels, LevelNumber

(* A logger that was not created has no level; one without has a number.     *)
LEMMA LevelsAreLevels == Absent \notin Levels /\ NotSet \in Levels
BY DEF Levels, Absent, NotSet, LevelNumber

(* A name is on its own path, and the longest there.                         *)
LEMMA PathEnds ==
    ASSUME NEW n \in Names
    PROVE  n \in Path(n) /\ \A m \in Path(n) : Len(m) <= Len(n) /\ (Len(n) <= Len(m) => m = n)
<1>1. n \in Seq(STRING) /\ Len(n) \in Nat \ {0}
  BY LoggingAssumption
<1>2. SubSeq(n, 1, Len(n)) = n
  BY <1>1
<1>3. \A i \in 1 .. Len(n) : Len(SubSeq(n, 1, i)) = i
  BY <1>1
<1>4. n \in Path(n)
  <2>1. Len(n) \in 1 .. Len(n)
    BY <1>1
  <2>2. SubSeq(n, 1, Len(n)) \in Path(n)
    BY <2>1, Zenon DEF Path
  <2> QED
    BY <1>2, <2>2
<1>5. ASSUME NEW m \in Path(n)
      PROVE  Len(m) <= Len(n) /\ (Len(n) <= Len(m) => m = n)
  <2>1. PICK i \in 1 .. Len(n) : m = SubSeq(n, 1, i)
    BY DEF Path
  <2>2. Len(m) = i /\ i \in Nat /\ i <= Len(n)
    BY <1>1, <1>3, <2>1
  <2>3. CASE i = Len(n)
    BY <1>1, <1>2, <2>1, <2>2, <2>3
  <2>4. CASE i < Len(n)
    BY <1>1, <2>2, <2>4
  <2> QED
    BY <1>1, <2>2, <2>3, <2>4
<1> QED
  BY <1>4, <1>5

(* What is configured for a logger itself is what is resolved for it.        *)
LEMMA ResolveOwn ==
    ASSUME NEW s \in Settings, NEW n \in DOMAIN s.loggers
    PROVE  Resolve(s, n) = LevelToInt(s.loggers[n])
<1> DEFINE on == Path(n) \intersect DOMAIN s.loggers
<1>1. n \in Names
  BY LoggingAssumption
<1>2. n \in on /\ \A other \in on : Len(other) <= Len(n)
  BY <1>1, PathEnds
<1>3. Nearest(on) \in on /\ \A other \in on : Len(other) <= Len(Nearest(on))
  BY <1>2 DEF Nearest
<1>4. Nearest(on) = n
  BY <1>1, <1>2, <1>3, PathEnds
<1> QED
  BY <1>2, <1>4 DEF Resolve

(* What the settings resolve for a logger is a level.                        *)
LEMMA ResolveType == ASSUME NEW s, NEW n PROVE Resolve(s, n) \in Levels
BY LevelType DEF Resolve

(* Configuring leaves at its level only what had one and has nothing         *)
(* configured at or above it.                                                *)
LEMMA ConfigureStep ==
    ASSUME LevelInv, NEW s \in Settings, ConfigureLogging(s)
    PROVE  LevelInv'
<1>1. settings' = s /\ s # Unset
  BY LoggingAssumption DEF ConfigureLogging
<1>2. level' = [n \in Names |-> LevelAfter(s, n)]
  BY DEF ConfigureLogging
<1>3. ASSUME NEW n \in Names
      PROVE  DictConfig(s, n) \in {Absent} \union Levels
  BY LevelType, LevelsAreLevels DEF DictConfig, LevelInv
<1>4. level' \in [Names -> {Absent} \union Levels]
  BY <1>2, <1>3, ResolveType DEF LevelAfter
<1>5. ASSUME NEW n \in Names, level'[n] # Absent, n \notin kept'
      PROVE  level'[n] = Resolve(s, n)
  <2>1. n \in DOMAIN s.loggers \/ DictConfig(s, n) = NotSet
    BY <1>2, <1>5 DEF ConfigureLogging, LevelAfter
  <2>2. CASE n \in DOMAIN s.loggers
    BY <1>2, <2>2, ResolveOwn DEF DictConfig, LevelAfter
  <2>3. CASE DictConfig(s, n) = NotSet
    BY <1>2, <2>3 DEF LevelAfter
  <2> QED
    BY <2>1, <2>2, <2>3
<1>6. ASSUME NEW n \in kept'
      PROVE  Path(n) \intersect DOMAIN s.loggers = {}
  BY <1>6 DEF ConfigureLogging, DictConfig
<1>7. kept' \subseteq Names
  BY DEF ConfigureLogging
<1> QED
  BY <1>1, <1>4, <1>5, <1>6 DEF LevelInv, LevelsFollow

(* A logger that is created later is given the level resolved for it.        *)
LEMMA GetLoggerStep ==
    ASSUME LevelInv, NEW n \in Names, GetLogger(n)
    PROVE  LevelInv'
<1>1. settings' = settings
  BY DEF GetLogger
<1>2. level' = [level EXCEPT ![n] = IF settings = Unset THEN NotSet ELSE Resolve(settings, n)]
  BY DEF GetLogger
<1>3. level' \in [Names -> {Absent} \union Levels]
  BY <1>2, ResolveType, LevelsAreLevels DEF LevelInv
<1>4. CASE settings = Unset
  BY <1>1, <1>3, <1>4 DEF LevelInv, LevelsFollow
<1>5. CASE settings # Unset
  <2>1. kept' = kept \ {n}
    BY <1>5 DEF GetLogger
  <2>2. level'[n] = Resolve(settings, n) /\ \A m \in Names \ {n} : level'[m] = level[m]
    BY <1>2, <1>5 DEF LevelInv
  <2> QED
    BY <1>1, <1>3, <1>5, <2>1, <2>2 DEF LevelInv, LevelsFollow
<1> QED
  BY <1>4, <1>5

(* However often logging is configured, and whatever loggers there are, each *)
(* has the level that the settings in force resolve for it, or had one of    *)
(* its own and nothing configured at or above it (logger.py:201-235).        *)
THEOREM LevelsAreResolved == Spec => []LevelsFollow
<1>1. Init => LevelInv
  <2> SUFFICES ASSUME Init PROVE LevelInv
    OBVIOUS
  <2>1. settings = Unset /\ level = Before
    BY DEF Init
  <2>2. Before \in [Names -> {Absent} \union Levels]
    BY LoggingAssumption
  <2> QED
    BY <2>1, <2>2 DEF LevelInv, LevelsFollow
<1>2. ASSUME LevelInv, [Next]_vars
      PROVE  LevelInv'
  <2>1. CASE UNCHANGED <<settings, level, kept>>
    BY <1>2, <2>1 DEF LevelInv, LevelsFollow
  <2>2. ASSUME NEW s \in Settings, ConfigureLogging(s)
        PROVE  LevelInv'
    BY <1>2, <2>2, ConfigureStep
  <2>3. ASSUME NEW n \in Names, GetLogger(n)
        PROVE  LevelInv'
    BY <1>2, <2>3, GetLoggerStep
  <2> QED
    BY <1>2, <2>1, <2>2, <2>3 DEF Next, Log, Listen, Shutdown, Joined, ShutdownDirect, Exit, vars
<1>3. LevelInv => LevelsFollow
  BY DEF LevelInv
<1> QED
  BY <1>1, <1>2, <1>3, PTL DEF Spec
-----------------------------------------------------------------------------
(* The queue holds records in the order they came, after those emitted, and  *)
(* at most one sentinel.                                                     *)
InOrder ==
    /\ \A i, j \in DOMAIN emitted : i < j => emitted[i] < emitted[j]
    /\ \A i, j \in DOMAIN queue :
          i < j => /\ queue[i] # Sentinel \/ queue[j] # Sentinel
                   /\ queue[i] < queue[j] \/ queue[j] = Sentinel
    /\ \A i \in DOMAIN emitted, j \in DOMAIN queue :
          emitted[i] < queue[j] \/ queue[j] = Sentinel

(* A listener comes to the records before the sentinel and to no other; the  *)
(* late ones are those it will not come to.                                  *)
Sorted ==
    /\ \A i \in DOMAIN emitted : emitted[i] \notin late
    /\ \A j \in DOMAIN queue :
          queue[j] # Sentinel =>
              (queue[j] \in late <=>
                  (listener = "running" => \E i \in 1 .. j - 1 : queue[i] = Sentinel))
    /\ listener # "running" => \A j \in DOMAIN queue : queue[j] # Sentinel

(* A record that is not late is emitted or on its way.                       *)
NoneLost ==
    \A r \in 1 .. count :
        \/ r \in late
        \/ \E i \in DOMAIN emitted : emitted[i] = r
        \/ listener = "running" /\ \E j \in DOMAIN queue : queue[j] = r

(* Without a queue nothing is queued and nobody listens.                     *)
Direct ==
    ~settings.use_queue => queue = <<>> /\ listener = "none"

PipeInv == TypeOK /\ InOrder /\ Sorted /\ NoneLost /\ Direct

(* Before logging is configured nothing is queued.                           *)
LEMMA PipeInit == Init => PipeInv
<1> SUFFICES ASSUME Init PROVE PipeInv
  OBVIOUS
<1>1. Before \in [Names -> {Absent} \union Levels] /\ MaxRecords \in Nat /\ MaxConfigs \in Nat
  BY LoggingAssumption
<1>2. queue = <<>> /\ emitted = <<>> /\ count = 0 /\ ~settings.use_queue
  BY DEF Init, Unset
<1>3. queue \in Seq(0 .. count) /\ emitted \in Seq(1 .. count)
  BY <1>2
<1>4. configs \in 0 .. MaxConfigs /\ count \in 0 .. MaxRecords
  BY <1>1 DEF Init
<1>5. alive \in BOOLEAN /\ ~configured /\ ~stopping /\ listener = "none"
  BY DEF Init
<1>6. TypeOK
  BY <1>1, <1>2, <1>3, <1>4, <1>5 DEF Init, TypeOK
<1> QED
  BY <1>2, <1>5, <1>6 DEF Init, PipeInv, InOrder, Sorted, NoneLost, Direct

(* Nothing of the pipeline changes.                                          *)
LEMMA PipeSame ==
    ASSUME PipeInv, UNCHANGED <<configs, configured, settings, pipeline>>,
           alive' \in BOOLEAN, level' \in [Names -> {Absent} \union Levels], kept' \subseteq Names
    PROVE  PipeInv'
<1>1. TypeOK'
  BY DEF PipeInv, TypeOK, pipeline
<1> QED
  BY <1>1 DEF PipeInv, InOrder, Sorted, NoneLost, Direct, pipeline

(* A configuration starts with an empty queue and no listener of before.     *)
LEMMA PipeConfigure ==
    ASSUME PipeInv, NEW s \in Settings, ConfigureLogging(s)
    PROVE  PipeInv'
<1> USE DEF PipeInv
<1>1. /\ settings' = s /\ s.use_queue \in BOOLEAN
      /\ queue' = <<>> /\ configured' = TRUE
      /\ UNCHANGED <<alive, stopping, count, emitted, late>>
      /\ listener' = IF s.use_queue THEN "running" ELSE "none"
  BY LoggingAssumption DEF ConfigureLogging
<1>2. listener = "none" /\ ~stopping
  BY DEF ConfigureLogging, TypeOK
<1>3. level' \in [Names -> {Absent} \union Levels]
  <2>1. \A n \in Names : DictConfig(s, n) \in {Absent} \union Levels
    BY LevelType, LevelsAreLevels DEF DictConfig, TypeOK
  <2> QED
    BY <2>1, ResolveType DEF LevelAfter, ConfigureLogging
<1>4. TypeOK'
  <2>1. configs' \in 0 .. MaxConfigs
    BY LoggingAssumption DEF ConfigureLogging, TypeOK
  <2>2. kept' \subseteq Names
    BY DEF ConfigureLogging
  <2> QED
    BY <1>1, <1>2, <1>3, <2>1, <2>2 DEF TypeOK
<1>5. InOrder' /\ Sorted'
  BY <1>1 DEF InOrder, Sorted
<1>6. NoneLost'
  BY <1>1, <1>2 DEF NoneLost
<1>7. Direct'
  BY <1>1 DEF Direct
<1> QED
  BY <1>4, <1>5, <1>6, <1>7

(* A record goes to the end of the queue, or to the handlers: behind all     *)
(* that came before, and late exactly if no listener will come to it.        *)
LEMMA PipeLog ==
    ASSUME PipeInv, NEW n \in Names, NEW severity \in Severities, Log(n, severity)
    PROVE  PipeInv'
<1> USE DEF PipeInv
<1> DEFINE r == count + 1
<1>1. /\ count \in Nat /\ count' = r /\ r \in 1 .. MaxRecords
      /\ queue \in Seq(0 .. count) /\ emitted \in Seq(1 .. count) /\ late \subseteq 1 .. count
      /\ UNCHANGED <<alive, configs, configured, settings, level, kept, listener, stopping>>
  BY LoggingAssumption DEF Log, TypeOK
<1>2. settings \in Settings /\ settings.use_queue \in BOOLEAN
  BY LoggingAssumption DEF Log, TypeOK
<1>3. CASE ~settings.use_queue
  <2>1. emitted' = Append(emitted, r) /\ queue' = queue /\ late' = late /\ queue = <<>>
    BY <1>1, <1>2, <1>3 DEF Log, Direct
  <2>2. TypeOK'
    BY <1>1, <1>3, <2>1 DEF TypeOK
  <2>3. InOrder'
    BY <1>1, <2>1 DEF InOrder
  <2>4. Sorted'
    BY <1>1, <2>1 DEF Sorted
  <2>5. NoneLost'
    <3> SUFFICES ASSUME NEW x \in 1 .. r, x \notin late, ~(listener = "running" /\ \E j \in DOMAIN queue : queue[j] = x)
                 PROVE  \E i \in DOMAIN emitted' : emitted'[i] = x
      BY <1>1, <2>1 DEF NoneLost
    <3>1. CASE x = r
      <4> Len(emitted) + 1 \in DOMAIN emitted' /\ emitted'[Len(emitted) + 1] = r
        BY <1>1, <2>1
      <4> QED
        BY <3>1
    <3>2. CASE x # r
      <4>1. PICK i \in DOMAIN emitted : emitted[i] = x
        BY <1>1, <3>2 DEF NoneLost
      <4>2. i \in DOMAIN emitted' /\ emitted'[i] = x
        BY <1>1, <2>1, <4>1
      <4> QED
        BY <4>2
    <3> QED
      BY <3>1, <3>2
  <2>6. Direct'
    BY <1>1, <2>1 DEF Direct
  <2> QED
    BY <2>2, <2>3, <2>4, <2>5, <2>6
<1>4. CASE settings.use_queue
  <2>1. queue' = Append(queue, r) /\ emitted' = emitted
    BY <1>1, <1>2, <1>4 DEF Log
  <2>2. late' = IF stopping \/ ~configured THEN late \union {r} ELSE late
    BY <1>1, <1>4 DEF Log
  <2>3. /\ Len(queue') = Len(queue) + 1 /\ Len(queue) \in Nat
        /\ DOMAIN queue = 1 .. Len(queue) /\ DOMAIN queue' = 1 .. Len(queue) + 1
        /\ queue'[Len(queue) + 1] = r /\ r # Sentinel
        /\ \A j \in DOMAIN queue : j \in DOMAIN queue' /\ queue'[j] = queue[j] /\ queue[j] \in 0 .. count
    BY <1>1, <2>1 DEF Sentinel
  <2>4. /\ stopping \/ ~configured => (listener = "running" => \E i \in DOMAIN queue : queue[i] = Sentinel)
        /\ ~stopping /\ configured => listener = "running" /\ \A i \in DOMAIN queue : queue[i] # Sentinel
    BY <1>4, <2>3 DEF TypeOK
  <2>5. TypeOK'
    <3>1. queue' \in Seq(0 .. r) /\ emitted' \in Seq(1 .. r)
      BY <1>1, <2>1
    <3>2. stopping <=> (listener = "ended" \/ (listener = "running" /\ \E i \in DOMAIN queue' : queue'[i] = Sentinel))
      BY <2>3 DEF TypeOK
    <3>3. late' \subseteq 1 .. r /\ r \in 0 .. MaxRecords
      BY <1>1, <2>2
    <3> QED
      BY <1>1, <3>1, <3>2, <3>3 DEF TypeOK
  <2>6. InOrder'
    BY <1>1, <2>1, <2>3 DEF InOrder, Sentinel
  <2>7. Sorted'
    <3>1. \A i \in DOMAIN emitted : emitted[i] \notin late'
      BY <1>1, <2>2 DEF Sorted
    <3>2. ASSUME NEW j \in DOMAIN queue, queue[j] # Sentinel
          PROVE  queue'[j] \in late' <=> (listener = "running" => \E i \in 1 .. j - 1 : queue'[i] = Sentinel)
      <4>1. queue[j] \in late' <=> queue[j] \in late
        BY <1>1, <2>2, <2>3
      <4>2. \A i \in 1 .. j - 1 : queue'[i] = queue[i]
        BY <2>3
      <4> QED
        BY <2>3, <3>2, <4>1, <4>2 DEF Sorted
    <3>3. r \in late' <=> (listener = "running" => \E i \in 1 .. (Len(queue) + 1) - 1 : queue'[i] = Sentinel)
      <4>1. r \in late' <=> (stopping \/ ~configured)
        BY <1>1, <2>2
      <4>2. 1 .. (Len(queue) + 1) - 1 = DOMAIN queue
        BY <2>3
      <4> QED
        BY <2>3, <2>4, <4>1, <4>2
    <3>4. listener # "running" => \A j \in DOMAIN queue' : queue'[j] # Sentinel
      BY <2>3 DEF Sorted
    <3>5. \A j \in DOMAIN queue' : j \in DOMAIN queue \/ j = Len(queue) + 1
      BY <2>3
    <3> QED
      BY <1>1, <2>1, <2>3, <3>1, <3>2, <3>3, <3>4, <3>5 DEF Sorted
  <2>8. NoneLost'
    <3> SUFFICES ASSUME NEW x \in 1 .. r, x \notin late', ~(\E i \in DOMAIN emitted : emitted[i] = x)
                 PROVE  listener = "running" /\ \E j \in DOMAIN queue' : queue'[j] = x
      BY <1>1, <2>1 DEF NoneLost
    <3>1. CASE x = r
      BY <2>2, <2>3, <2>4, <3>1
    <3>2. CASE x # r
      <4>1. x \in 1 .. count /\ x \notin late
        BY <1>1, <2>2, <3>2
      <4>2. listener = "running" /\ \E j \in DOMAIN queue : queue[j] = x
        BY <4>1 DEF NoneLost
      <4> QED
        BY <2>3, <4>2
    <3> QED
      BY <3>1, <3>2
  <2>9. Direct'
    BY <1>1, <1>4 DEF Direct
  <2> QED
    BY <2>5, <2>6, <2>7, <2>8, <2>9
<1> QED
  BY <1>2, <1>3, <1>4

(* What the listener takes was before everything that stays.                 *)
LEMMA PipeListen ==
    ASSUME PipeInv, Listen
    PROVE  PipeInv'
<1> USE DEF PipeInv
<1>1. /\ listener = "running" /\ queue # <<>> /\ queue' = Tail(queue)
      /\ queue \in Seq(0 .. count) /\ emitted \in Seq(1 .. count) /\ count \in Nat
      /\ UNCHANGED <<alive, configs, configured, settings, level, kept, stopping, count, late>>
  BY LoggingAssumption DEF Listen, TypeOK
<1>2. /\ Len(queue) \in Nat \ {0} /\ Head(queue) = queue[1] /\ 1 \in DOMAIN queue
      /\ DOMAIN queue = 1 .. Len(queue) /\ DOMAIN queue' = 1 .. Len(queue) - 1
      /\ queue' \in Seq(0 .. count)
      /\ \A j \in DOMAIN queue' : j + 1 \in DOMAIN queue /\ queue'[j] = queue[j + 1]
      /\ \A j \in DOMAIN queue : j = 1 \/ (j - 1 \in DOMAIN queue' /\ queue'[j - 1] = queue[j])
      /\ \A j \in DOMAIN queue : queue[j] \in 0 .. count
  BY <1>1
<1>3. Direct'
  BY <1>1 DEF Direct
<1>4. CASE Head(queue) = Sentinel
  <2>1. listener' = "ended" /\ emitted' = emitted
    BY <1>4 DEF Listen
  <2>2. \A j \in DOMAIN queue' : queue'[j] # Sentinel
    BY <1>2, <1>4 DEF InOrder
  <2>3. \A j \in DOMAIN queue' : queue'[j] \in late
    <3> SUFFICES ASSUME NEW j \in DOMAIN queue' PROVE queue[j + 1] \in late
      BY <1>2
    <3>1. queue[j + 1] # Sentinel /\ 1 \in 1 .. (j + 1) - 1
      BY <1>2, <2>2
    <3> QED
      BY <1>2, <1>4, <3>1 DEF Sorted
  <2>4. stopping /\ configured
    BY <1>1, <1>2, <1>4 DEF TypeOK
  <2>5. TypeOK'
    <3>1. queue' \in Seq(0 .. count') /\ emitted' \in Seq(1 .. count')
      BY <1>1, <1>2, <2>1
    <3>2. stopping' /\ configured' /\ stopping' \in BOOLEAN /\ configured' \in BOOLEAN
      BY <1>1, <2>4, Zenon DEF TypeOK
    <3>3. /\ alive' \in BOOLEAN /\ configs' \in 0 .. MaxConfigs /\ settings' \in Settings \union {Unset}
          /\ level' \in [Names -> {Absent} \union Levels] /\ kept' \subseteq Names
          /\ count' \in 0 .. MaxRecords /\ late' \subseteq 1 .. count'
      BY <1>1 DEF TypeOK
    <3> QED
      BY <2>1, <3>1, <3>2, <3>3 DEF TypeOK
  <2>6. InOrder'
    <3>1. \A i, j \in DOMAIN queue' :
             i < j => /\ queue'[i] # Sentinel \/ queue'[j] # Sentinel
                      /\ queue'[i] < queue'[j] \/ queue'[j] = Sentinel
      BY <1>2 DEF InOrder
    <3>2. \A i \in DOMAIN emitted, j \in DOMAIN queue' : emitted[i] < queue'[j] \/ queue'[j] = Sentinel
      BY <1>2 DEF InOrder
    <3> QED
      BY <2>1, <3>1, <3>2 DEF InOrder
  <2>7. Sorted'
    BY <1>1, <2>1, <2>2, <2>3 DEF Sorted
  <2>8. NoneLost'
    <3> SUFFICES ASSUME NEW r \in 1 .. count, r \notin late
                 PROVE  \E i \in DOMAIN emitted : emitted[i] = r
      BY <1>1, <2>1 DEF NoneLost
    <3>1. ~ \E j \in DOMAIN queue : queue[j] = r
      <4> SUFFICES ASSUME NEW j \in DOMAIN queue, queue[j] = r PROVE FALSE
        OBVIOUS
      <4>1. j # 1
        BY <1>2, <1>4 DEF Sentinel
      <4> QED
        BY <1>2, <2>3, <4>1
    <3> QED
      BY <3>1 DEF NoneLost
  <2> QED
    BY <1>3, <2>5, <2>6, <2>7, <2>8
<1>5. CASE Head(queue) # Sentinel
  <2> DEFINE r == queue[1]
  <2>1. listener' = listener /\ emitted' = Append(emitted, r) /\ r \in 1 .. count
    BY <1>1, <1>2, <1>5 DEF Listen, Sentinel
  <2>2. /\ DOMAIN emitted = 1 .. Len(emitted) /\ DOMAIN emitted' = 1 .. Len(emitted) + 1 /\ Len(emitted) \in Nat
        /\ emitted'[Len(emitted) + 1] = r
        /\ \A i \in DOMAIN emitted : emitted'[i] = emitted[i] /\ emitted[i] \in 1 .. count
        /\ emitted' \in Seq(1 .. count)
    BY <1>1, <2>1
  <2>3. (\E i \in DOMAIN queue : queue[i] = Sentinel) <=> (\E i \in DOMAIN queue' : queue'[i] = Sentinel)
    BY <1>2, <1>5
  <2>4. TypeOK'
    BY <1>1, <1>2, <2>1, <2>2, <2>3 DEF TypeOK
  <2>5. InOrder'
    <3>1. \A i \in DOMAIN emitted : emitted[i] < r
      BY <1>2, <1>5 DEF InOrder
    <3>2. \A i, j \in DOMAIN emitted' : i < j => emitted'[i] < emitted'[j]
      BY <2>2, <3>1 DEF InOrder
    <3>3. \A j \in DOMAIN queue' : r < queue'[j] \/ queue'[j] = Sentinel
      BY <1>2 DEF InOrder
    <3>4. \A i \in DOMAIN emitted', j \in DOMAIN queue' : emitted'[i] < queue'[j] \/ queue'[j] = Sentinel
      BY <1>2, <2>2, <3>3 DEF InOrder
    <3>5. \A i, j \in DOMAIN queue' :
             i < j => /\ queue'[i] # Sentinel \/ queue'[j] # Sentinel
                      /\ queue'[i] < queue'[j] \/ queue'[j] = Sentinel
      BY <1>2 DEF InOrder
    <3> QED
      BY <3>2, <3>4, <3>5 DEF InOrder
  <2>6. Sorted'
    <3>1. r \notin late
      <4>1. ~ \E i \in 1 .. 1 - 1 : queue[i] = Sentinel
        OBVIOUS
      <4> QED
        BY <1>1, <1>2, <1>5, <4>1 DEF Sorted
    <3>2. \A i \in DOMAIN emitted' : emitted'[i] \notin late
      BY <2>2, <3>1 DEF Sorted
    <3>3. ASSUME NEW j \in DOMAIN queue', queue'[j] # Sentinel
          PROVE  queue'[j] \in late <=> \E i \in 1 .. j - 1 : queue'[i] = Sentinel
      <4>1. queue[j + 1] \in late <=> \E i \in 1 .. (j + 1) - 1 : queue[i] = Sentinel
        BY <1>1, <1>2, <3>3 DEF Sorted
      <4>2. (\E i \in 1 .. (j + 1) - 1 : queue[i] = Sentinel) <=> \E i \in 1 .. j - 1 : queue'[i] = Sentinel
        <5>1. ASSUME NEW i \in 1 .. (j + 1) - 1, queue[i] = Sentinel
              PROVE  \E k \in 1 .. j - 1 : queue'[k] = Sentinel
          <6>1. i # 1 /\ i \in DOMAIN queue
            BY <1>2, <1>5, <5>1
          <6>2. i - 1 \in 1 .. j - 1 /\ queue'[i - 1] = Sentinel
            BY <1>2, <5>1, <6>1
          <6> QED
            BY <6>2
        <5>2. ASSUME NEW i \in 1 .. j - 1, queue'[i] = Sentinel
              PROVE  \E k \in 1 .. (j + 1) - 1 : queue[k] = Sentinel
          <6>1. i \in DOMAIN queue' /\ i + 1 \in 1 .. (j + 1) - 1
            BY <1>2
          <6> QED
            BY <1>2, <5>2, <6>1
        <5> QED
          BY <5>1, <5>2
      <4> QED
        BY <1>2, <4>1, <4>2
    <3> QED
      BY <1>1, <2>1, <3>2, <3>3 DEF Sorted
  <2>7. NoneLost'
    <3> SUFFICES ASSUME NEW x \in 1 .. count, x \notin late, ~(\E j \in DOMAIN queue' : queue'[j] = x)
                 PROVE  \E i \in DOMAIN emitted' : emitted'[i] = x
      BY <1>1, <2>1 DEF NoneLost
    <3>1. CASE x = r
      BY <2>2, <3>1
    <3>2. CASE x # r
      <4>1. ~ \E j \in DOMAIN queue : queue[j] = x
        BY <1>2, <3>2
      <4> QED
        BY <2>2, <4>1 DEF NoneLost
    <3> QED
      BY <3>1, <3>2
  <2> QED
    BY <1>3, <2>4, <2>5, <2>6, <2>7
<1> QED
  BY <1>4, <1>5

(* What is there when a shutdown begins stays ahead of the sentinel.         *)
LEMMA PipeShutdown ==
    ASSUME PipeInv, Shutdown
    PROVE  PipeInv'
<1> USE DEF PipeInv
<1>1. /\ listener = "running" /\ ~stopping /\ stopping' = TRUE /\ queue' = Append(queue, Sentinel)
      /\ queue \in Seq(0 .. count) /\ count \in Nat
      /\ UNCHANGED <<alive, configs, configured, settings, level, kept, listener, count, emitted, late>>
  BY LoggingAssumption DEF Shutdown, TypeOK
<1>2. /\ Len(queue) \in Nat /\ DOMAIN queue = 1 .. Len(queue) /\ DOMAIN queue' = 1 .. Len(queue) + 1
      /\ queue'[Len(queue) + 1] = Sentinel
      /\ \A j \in DOMAIN queue : j \in DOMAIN queue' /\ queue'[j] = queue[j]
      /\ queue' \in Seq(0 .. count)
  BY <1>1 DEF Sentinel
<1>3. \A j \in DOMAIN queue : queue[j] # Sentinel
  BY <1>1 DEF TypeOK
<1>4. \A j \in DOMAIN queue' : j \in DOMAIN queue \/ j = Len(queue) + 1
  BY <1>2
<1>5. TypeOK'
  <2>1. queue' \in Seq(0 .. count') /\ \E j \in DOMAIN queue' : queue'[j] = Sentinel
    BY <1>1, <1>2
  <2> QED
    BY <1>1, <2>1 DEF TypeOK
<1>6. InOrder'
  BY <1>1, <1>2, <1>3, <1>4 DEF InOrder
<1>7. Sorted'
  <2>1. ASSUME NEW j \in DOMAIN queue', queue'[j] # Sentinel
        PROVE  queue'[j] \notin late /\ \A i \in 1 .. j - 1 : queue'[i] # Sentinel
    <3>1. j \in DOMAIN queue
      BY <1>2, <1>4, <2>1
    <3>2. \A i \in 1 .. j - 1 : i \in DOMAIN queue
      BY <1>2, <3>1
    <3> QED
      BY <1>1, <1>2, <1>3, <3>1, <3>2 DEF Sorted
  <2> QED
    BY <1>1, <2>1 DEF Sorted
<1>8. NoneLost'
  BY <1>1, <1>2 DEF NoneLost
<1>9. Direct'
  BY <1>1 DEF Direct
<1> QED
  BY <1>5, <1>6, <1>7, <1>8, <1>9

(* When the listener has ended, all it owed is written.                      *)
LEMMA PipeJoined ==
    ASSUME PipeInv, Joined
    PROVE  PipeInv'
<1> USE DEF PipeInv
<1>1. /\ listener = "ended" /\ listener' = "none" /\ stopping' = FALSE /\ configured' = FALSE
      /\ UNCHANGED <<alive, configs, settings, level, kept, queue, count, emitted, late>>
  BY DEF Joined
<1>2. TypeOK'
  BY <1>1 DEF TypeOK
<1>3. InOrder' /\ Sorted' /\ NoneLost' /\ Direct'
  BY <1>1 DEF InOrder, Sorted, NoneLost, Direct
<1> QED
  BY <1>2, <1>3

(* PipeInv is inductive.                                                     *)
LEMMA PipeStep ==
    ASSUME PipeInv, [Next]_vars
    PROVE  PipeInv'
<1>1. ASSUME NEW s \in Settings, ConfigureLogging(s)
      PROVE  PipeInv'
  BY <1>1, PipeConfigure
<1>2. ASSUME NEW n \in Names, GetLogger(n)
      PROVE  PipeInv'
  <2>1. level' \in [Names -> {Absent} \union Levels] /\ kept' \subseteq Names
    BY <1>2, ResolveType, LevelsAreLevels DEF GetLogger, PipeInv, TypeOK
  <2> QED
    BY <1>2, <2>1, PipeSame DEF GetLogger, PipeInv, TypeOK
<1>3. ASSUME NEW n \in Names, NEW severity \in Severities, Log(n, severity)
      PROVE  PipeInv'
  BY <1>3, PipeLog
<1>4. CASE Joined
  BY <1>4, PipeJoined
<1>5. CASE ShutdownDirect
  <2>1. TypeOK'
    BY <1>5 DEF ShutdownDirect, PipeInv, TypeOK, pipeline
  <2> QED
    BY <1>5, <2>1 DEF ShutdownDirect, PipeInv, InOrder, Sorted, NoneLost, Direct, pipeline
<1>6. CASE Exit
  BY <1>6, PipeSame DEF Exit, PipeInv, TypeOK
<1>7. CASE UNCHANGED vars
  BY <1>7, PipeSame DEF vars, PipeInv, TypeOK
<1> QED
  BY <1>1, <1>2, <1>3, <1>4, <1>5, <1>6, <1>7, PipeListen, PipeShutdown DEF Next

(* In every behaviour PipeInv holds.                                         *)
LEMMA PipeInvariance == Spec => []PipeInv
BY PipeInit, PipeStep, PTL DEF Spec

(* Every variable keeps its type, and whether logging counts as configured,  *)
(* a listener runs and a shutdown waits for it always fit together.          *)
THEOREM LoggingTypes == Spec => []TypeOK
<1>1. PipeInv => TypeOK
  BY DEF PipeInv
<1> QED
  BY <1>1, PipeInvariance, PTL

(* How many records are ahead of the sentinel: all, or those up to it.       *)
LEMMA AheadExists ==
    ASSUME PipeInv
    PROVE  \E n \in 0 .. Len(queue) : Ahead(n)
<1>1. /\ DOMAIN queue = 1 .. Len(queue) /\ Len(queue) \in Nat
      /\ \A j \in DOMAIN queue : queue[j] \in Nat
  BY LoggingAssumption DEF PipeInv, TypeOK
<1>2. CASE \A j \in DOMAIN queue : queue[j] # Sentinel
  <2>1. Len(queue) \in 0 .. Len(queue) /\ Ahead(Len(queue))
    BY <1>1, <1>2 DEF Ahead
  <2> QED
    BY <2>1
<1>3. ASSUME NEW p \in DOMAIN queue, queue[p] = Sentinel
      PROVE  \E n \in 0 .. Len(queue) : Ahead(n)
  <2>1. p - 1 \in 0 .. Len(queue) /\ (p - 1) + 1 = p /\ p \in Nat
    BY <1>1
  <2>2. \A k \in 1 .. p - 1 : k \in DOMAIN queue /\ k < p
    BY <1>1, <2>1
  <2>3. \A k \in 1 .. p - 1 : queue[k] # Sentinel
    BY <1>3, <2>2 DEF PipeInv, InOrder
  <2> QED
    BY <1>3, <2>1, <2>3 DEF Ahead
<1> QED
  BY <1>2, <1>3

(* What is emitted and what a listener will come to are the records that are *)
(* not late.                                                                 *)
LEMMA PipeDelivers == ASSUME PipeInv PROVE OnceInOrder
<1> DEFINE m == Len(emitted)
           n == IF listener = "running" THEN CHOOSE k \in 0 .. Len(queue) : Ahead(k) ELSE 0
           out == emitted \o Owed
<1> USE DEF PipeInv
<1>1. /\ DOMAIN queue = 1 .. Len(queue) /\ Len(queue) \in Nat /\ queue \in Seq(0 .. count)
      /\ DOMAIN emitted = 1 .. m /\ m \in Nat /\ emitted \in Seq(1 .. count) /\ count \in Nat
  BY LoggingAssumption DEF TypeOK
<1>2. n \in 0 .. Len(queue) /\ (listener = "running" => Ahead(n))
  BY <1>1, AheadExists
<1>3. Owed \in Seq(0 .. count) /\ Len(Owed) = n /\ \A k \in 1 .. n : Owed[k] = queue[k]
  <2>1. CASE listener = "running"
    <3>1. Owed = SubSeq(queue, 1, n)
      BY <2>1 DEF Owed
    <3> QED
      BY <1>1, <1>2, <3>1
  <2>2. CASE listener # "running"
    <3>1. Owed = <<>>
      BY <2>2 DEF Owed
    <3>2. n = 0 /\ 1 .. n = {}
      BY <2>2
    <3>3. Owed \in Seq(0 .. count) /\ Len(Owed) = 0
      BY <3>1
    <3> QED
      BY <3>2, <3>3
  <2> QED
    BY <2>1, <2>2
<1> HIDE DEF n
<1>4. /\ DOMAIN out = 1 .. m + n
      /\ \A i \in 1 .. m : out[i] = emitted[i]
      /\ \A i \in m + 1 .. m + n : out[i] = queue[i - m]
  <2>1. emitted \in Seq(0 .. count) /\ Owed \in Seq(0 .. count) /\ Len(Owed) = n /\ n \in Nat
    BY <1>1, <1>2, <1>3
  <2>2. /\ Len(out) = m + n /\ out \in Seq(0 .. count)
        /\ \A i \in 1 .. m + n : out[i] = IF i <= m THEN emitted[i] ELSE Owed[i - m]
    BY <1>1, <2>1, ConcatProperties
  <2>3. \A i \in m + 1 .. m + n : out[i] = Owed[i - m] /\ i - m \in 1 .. n
    BY <1>1, <2>1, <2>2
  <2>4. \A i \in 1 .. m : out[i] = emitted[i]
    BY <1>1, <2>1, <2>2
  <2>5. DOMAIN out = 1 .. m + n
    BY <2>2
  <2> QED
    BY <1>3, <2>3, <2>4, <2>5
<1>5. \A k \in 1 .. n : /\ k \in DOMAIN queue /\ queue[k] # Sentinel
                        /\ queue[k] \in (1 .. count) \ late
  <2> SUFFICES ASSUME NEW k \in 1 .. n
               PROVE  k \in DOMAIN queue /\ queue[k] # Sentinel /\ queue[k] \in (1 .. count) \ late
    OBVIOUS
  <2>1. listener = "running"
    BY <1>2 DEF n
  <2>2. k \in DOMAIN queue /\ queue[k] # Sentinel /\ \A i \in 1 .. k - 1 : queue[i] # Sentinel
    BY <1>1, <1>2, <2>1 DEF Ahead
  <2>3. queue[k] \notin late
    BY <2>1, <2>2 DEF Sorted
  <2> QED
    BY <1>1, <2>2, <2>3 DEF Sentinel
<1>6. ASSUME NEW i \in DOMAIN out, NEW j \in DOMAIN out, i < j
      PROVE  out[i] < out[j]
  <2>1. CASE j \in 1 .. m
    <3>1. i \in 1 .. m
      BY <1>1, <1>2, <1>4, <1>6, <2>1
    <3> QED
      BY <1>1, <1>4, <1>6, <2>1, <3>1 DEF InOrder
  <2>2. CASE i \in 1 .. m /\ j \in m + 1 .. m + n
    <3>1. j - m \in 1 .. n
      BY <1>1, <1>2, <2>2
    <3> QED
      BY <1>1, <1>4, <1>5, <2>2, <3>1 DEF InOrder
  <2>3. CASE i \in m + 1 .. m + n
    <3>1. j \in m + 1 .. m + n /\ i - m \in 1 .. n /\ j - m \in 1 .. n /\ i - m < j - m
      BY <1>1, <1>2, <1>4, <1>6, <2>3
    <3> QED
      BY <1>4, <1>5, <2>3, <3>1 DEF InOrder
  <2> QED
    BY <1>1, <1>2, <1>4, <2>1, <2>2, <2>3
<1>7. ASSUME NEW i \in DOMAIN out
      PROVE  out[i] \in (1 .. count) \ late
  <2>1. CASE i \in 1 .. m
    BY <1>1, <1>4, <2>1 DEF Sorted
  <2>2. CASE i \in m + 1 .. m + n
    <3>1. i - m \in 1 .. n
      BY <1>1, <1>2, <2>2
    <3> QED
      BY <1>4, <1>5, <2>2, <3>1
  <2> QED
    BY <1>1, <1>2, <1>4, <2>1, <2>2
<1>8. ASSUME NEW r \in (1 .. count) \ late
      PROVE  \E i \in DOMAIN out : out[i] = r
  <2>1. CASE \E i \in DOMAIN emitted : emitted[i] = r
    <3>1. PICK i \in 1 .. m : emitted[i] = r
      BY <1>1, <2>1
    <3>2. i \in DOMAIN out /\ out[i] = r
      BY <1>1, <1>2, <1>4, <3>1
    <3> QED
      BY <3>2
  <2>2. CASE ~ \E i \in DOMAIN emitted : emitted[i] = r
    <3>1. listener = "running" /\ \E k \in DOMAIN queue : queue[k] = r
      BY <2>2 DEF NoneLost
    <3>2. PICK k \in DOMAIN queue : queue[k] = r
      BY <3>1
    <3>3. ~ \E i \in 1 .. k - 1 : queue[i] = Sentinel
      BY <1>1, <1>8, <3>1, <3>2 DEF Sorted, Sentinel
    <3>4. k \in 1 .. n
      <4> SUFFICES ASSUME ~(k <= n) PROVE FALSE
        BY <1>1, <1>2
      <4>2. queue[n + 1] = Sentinel
        BY <1>1, <1>2, <3>1 DEF Ahead
      <4>3. n + 1 \in 1 .. k - 1 \/ n + 1 = k
        BY <1>1, <1>2
      <4> QED
        BY <1>1, <3>2, <3>3, <4>2, <4>3, <1>8 DEF Sentinel
    <3>5. m + k \in DOMAIN out /\ m + k \in m + 1 .. m + n /\ (m + k) - m = k
      BY <1>1, <1>2, <1>4, <3>4
    <3> QED
      BY <1>4, <3>2, <3>5
  <2> QED
    BY <2>1, <2>2
<1>9. {out[i] : i \in DOMAIN out} = (1 .. count) \ late
  BY <1>7, <1>8
<1> QED
  BY <1>6, <1>9 DEF OnceInOrder

(* What was logged before a shutdown began is written once and in the order  *)
(* it was logged, or the listener will still come to it; what went into the  *)
(* queue later is not written, however often logging is configured and shut  *)
(* down, with a queue or without (logger.py:245-271, 276-285).               *)
THEOREM RecordsOnceInOrder == Spec => []OnceInOrder
BY PipeInvariance, PipeDelivers, PTL
-----------------------------------------------------------------------------
(* No two places are the end of what a listener will come to.                *)
LEMMA OwedIs ==
    PipeInv /\ listener = "running" =>
        \A n \in 0 .. Len(queue) : Ahead(n) => Owed = SubSeq(queue, 1, n)
<1> SUFFICES ASSUME PipeInv, listener = "running", NEW n \in 0 .. Len(queue), Ahead(n)
             PROVE  Owed = SubSeq(queue, 1, n)
  OBVIOUS
<1>1. DOMAIN queue = 1 .. Len(queue) /\ Len(queue) \in Nat
  BY LoggingAssumption DEF PipeInv, TypeOK
<1>2. ASSUME NEW k \in 0 .. Len(queue), Ahead(k), NEW i \in 0 .. Len(queue), Ahead(i), k < i
      PROVE  FALSE
  <2>1. k + 1 \in 1 .. i /\ k < Len(queue)
    BY <1>1, <1>2
  <2> QED
    BY <1>2, <2>1 DEF Ahead
<1>3. \A k \in 0 .. Len(queue) : Ahead(k) => k = n
  BY <1>1, <1>2
<1>4. (CHOOSE k \in 0 .. Len(queue) : Ahead(k)) = n
  BY <1>3
<1> QED
  BY <1>4 DEF Owed

(* With no sentinel under way a listener will come to the whole queue.       *)
LEMMA OwedOpen ==
    PipeInv /\ listener = "running" /\ ~stopping =>
        Owed = queue /\ \A i \in DOMAIN queue : queue[i] # Sentinel
<1> SUFFICES ASSUME PipeInv, listener = "running", ~stopping
             PROVE  Owed = queue /\ \A i \in DOMAIN queue : queue[i] # Sentinel
  OBVIOUS
<1>1. /\ queue \in Seq(0 .. count) /\ Len(queue) \in Nat /\ DOMAIN queue = 1 .. Len(queue)
      /\ \A i \in DOMAIN queue : queue[i] # Sentinel
  BY LoggingAssumption DEF PipeInv, TypeOK
<1>2. Len(queue) \in 0 .. Len(queue) /\ Ahead(Len(queue))
  BY <1>1 DEF Ahead
<1>3. Owed = SubSeq(queue, 1, Len(queue))
  BY <1>2, OwedIs
<1> QED
  BY <1>1, <1>3

(* Both hold in the next state as well.                                      *)
LEMMA OwedNext ==
    /\ PipeInv' /\ listener' = "running" =>
          \A n \in 0 .. Len(queue') : Ahead(n)' => Owed' = SubSeq(queue', 1, n)
    /\ PipeInv' /\ listener' = "running" /\ ~stopping' => Owed' = queue'
<1>1. (PipeInv /\ listener = "running" =>
          \A n \in 0 .. Len(queue) : Ahead(n) => Owed = SubSeq(queue, 1, n))'
  BY OwedIs, PTL
<1>2. (PipeInv /\ listener = "running" /\ ~stopping =>
          Owed = queue /\ \A i \in DOMAIN queue : queue[i] # Sentinel)'
  BY OwedOpen, PTL
<1> QED
  BY <1>1, <1>2

(* A record that is logged is put into the pipe, written or dropped.         *)
LEMMA LogMaps ==
    ASSUME PipeInv, NEW n \in Names, NEW severity \in Severities, Log(n, severity)
    PROVE  Pipe!Put \/ Pipe!PutThrough \/ Pipe!Drop
<1>1. PipeInv'
  BY PipeLog
<1>2. /\ count' = count + 1 /\ alive
      /\ UNCHANGED <<alive, configured, settings, listener, stopping>>
      /\ UNCHANGED Opened
  BY DEF Log, Opened
<1>3. settings \in Settings /\ settings # Unset /\ settings.use_queue \in BOOLEAN
  BY LoggingAssumption DEF Log, PipeInv, TypeOK
<1>4. CASE ~settings.use_queue
  <2>1. Opened /\ emitted' = Append(emitted, count')
    BY <1>3, <1>4 DEF Log, Opened
  <2>2. Owed = <<>> /\ Owed' = <<>>
    BY <1>2, <1>4 DEF Owed, PipeInv, Direct
  <2>3. Pipe!PutThrough
    BY <1>2, <2>1, <2>2 DEF Pipe!PutThrough
  <2> QED
    BY <2>3
<1>5. CASE settings.use_queue
  <2>1. queue' = Append(queue, count') /\ emitted' = emitted
    BY <1>5 DEF Log
  <2>2. CASE Opened
    <3>1. listener = "running" /\ ~stopping
      BY <1>3, <1>5, <2>2 DEF Opened, PipeInv, TypeOK
    <3>2. Owed = queue /\ Owed' = queue'
      BY <1>1, <1>2, <3>1, OwedOpen, OwedNext
    <3>3. Pipe!Put
      BY <1>2, <2>1, <2>2, <3>2 DEF Pipe!Put
    <3> QED
      BY <3>3
  <2>3. CASE ~Opened
    <3>1. CASE listener = "running"
      <4>1. stopping
        BY <1>3, <1>5, <2>3, <3>1 DEF Opened, PipeInv, TypeOK
      <4>2. /\ queue \in Seq(0 .. count) /\ Len(queue) \in Nat
            /\ DOMAIN queue = 1 .. Len(queue) /\ count \in Nat
        BY LoggingAssumption DEF PipeInv, TypeOK
      <4>3. PICK k \in 0 .. Len(queue) : Ahead(k)
        BY AheadExists
      <4>4. k < Len(queue)
        <5>1. PICK i \in DOMAIN queue : queue[i] = Sentinel
          BY <3>1, <4>1 DEF PipeInv, TypeOK
        <5> QED
          BY <4>2, <4>3, <5>1 DEF Ahead
      <4>5. /\ Len(queue') = Len(queue) + 1
            /\ \A i \in 1 .. Len(queue) : queue'[i] = queue[i]
        BY <1>2, <2>1, <4>2
      <4>6. k \in 0 .. Len(queue') /\ Ahead(k)'
        BY <4>2, <4>3, <4>4, <4>5 DEF Ahead
      <4>7. Owed = SubSeq(queue, 1, k) /\ Owed' = SubSeq(queue', 1, k)
        BY <1>1, <1>2, <3>1, <4>3, <4>6, OwedIs, OwedNext
      <4>8. SubSeq(queue', 1, k) = SubSeq(queue, 1, k)
        BY <4>2, <4>4, <4>5
      <4>9. Pipe!Drop
        BY <1>2, <2>1, <2>3, <4>7, <4>8 DEF Pipe!Drop
      <4> QED
        BY <4>9
    <3>2. CASE listener # "running"
      <4>1. Owed = <<>> /\ Owed' = <<>>
        BY <1>2, <3>2 DEF Owed
      <4>2. Pipe!Drop
        BY <1>2, <2>1, <2>3, <4>1 DEF Pipe!Drop
      <4> QED
        BY <4>2
    <3> QED
      BY <3>1, <3>2
  <2> QED
    BY <2>2, <2>3
<1> QED
  BY <1>3, <1>4, <1>5

(* A record the listener takes is the next to be written; at the sentinel    *)
(* there is none left.                                                       *)
LEMMA ListenMaps == ASSUME PipeInv, Listen PROVE Pipe!Write \/ UNCHANGED Pipe!vars
<1> DEFINE m == Len(queue)
<1>1. PipeInv'
  BY PipeListen
<1>2. /\ alive /\ listener = "running" /\ queue # <<>> /\ queue' = Tail(queue)
      /\ UNCHANGED <<alive, configured, settings, stopping, count>>
      /\ UNCHANGED Opened
  BY DEF Listen, Opened
<1>3. /\ queue \in Seq(0 .. count) /\ m \in Nat \ {0} /\ DOMAIN queue = 1 .. m
      /\ Head(queue) = queue[1]
      /\ Len(queue') = m - 1 /\ \A i \in 1 .. m - 1 : queue'[i] = queue[i + 1]
  BY <1>2, LoggingAssumption DEF PipeInv, TypeOK
<1>4. PICK k \in 0 .. m : Ahead(k)
  BY AheadExists
<1>5. Owed = SubSeq(queue, 1, k)
  BY <1>2, <1>4, OwedIs
<1>6. CASE Head(queue) = Sentinel
  <2>1. k = 0
    BY <1>3, <1>4, <1>6 DEF Ahead
  <2>2. listener' = "ended" /\ emitted' = emitted
    BY <1>6 DEF Listen
  <2>3. Owed = <<>>
    BY <1>3, <1>5, <2>1
  <2>4. Owed' = <<>>
    BY <2>2 DEF Owed
  <2> QED
    BY <1>2, <2>2, <2>3, <2>4 DEF Pipe!vars
<1>7. CASE Head(queue) # Sentinel
  <2>1. k # 0
    BY <1>3, <1>4, <1>7 DEF Ahead
  <2>2. listener' = "running" /\ emitted' = Append(emitted, Head(queue))
    BY <1>2, <1>7 DEF Listen
  <2>3. k - 1 \in 0 .. Len(queue') /\ Ahead(k - 1)'
    <3>1. k - 1 \in 0 .. m - 1
      BY <1>3, <2>1
    <3>2. \A i \in 1 .. k - 1 : queue'[i] # Sentinel
      BY <1>3, <1>4, <3>1 DEF Ahead
    <3>3. k - 1 < m - 1 => queue'[(k - 1) + 1] = Sentinel
      BY <1>3, <1>4, <2>1, <3>1 DEF Ahead
    <3> QED
      BY <1>3, <3>1, <3>2, <3>3 DEF Ahead
  <2>4. Owed' = SubSeq(queue', 1, k - 1)
    BY <1>1, <2>2, <2>3, OwedNext
  <2>5. /\ Owed # <<>> /\ Head(Owed) = Head(queue)
        /\ Tail(Owed) = SubSeq(queue', 1, k - 1)
    BY <1>2, <1>3, <1>5, <2>1
  <2>6. Pipe!Write
    BY <1>2, <2>2, <2>4, <2>5 DEF Pipe!Write
  <2> QED
    BY <2>6
<1> QED
  BY <1>6, <1>7

(* The sentinel closes the pipe behind what is in it.                        *)
LEMMA ShutdownMaps == ASSUME PipeInv, Shutdown PROVE Pipe!Close
<1>1. PipeInv'
  BY PipeShutdown
<1>2. /\ alive /\ listener = "running" /\ ~stopping /\ stopping' = TRUE
      /\ queue' = Append(queue, Sentinel)
      /\ UNCHANGED <<alive, settings, listener, count, emitted>>
  BY DEF Shutdown
<1>3. /\ queue \in Seq(0 .. count) /\ Len(queue) \in Nat
      /\ DOMAIN queue = 1 .. Len(queue) /\ count \in Nat
  BY LoggingAssumption DEF PipeInv, TypeOK
<1>4. Owed = queue /\ \A i \in DOMAIN queue : queue[i] # Sentinel
  BY <1>2, OwedOpen
<1>5. /\ Len(queue') = Len(queue) + 1 /\ queue'[Len(queue) + 1] = Sentinel
      /\ \A i \in 1 .. Len(queue) : queue'[i] = queue[i]
  BY <1>2, <1>3
<1> PICK k \in Nat : k = Len(queue)
  BY <1>3
<1>6. k \in 0 .. Len(queue') /\ Ahead(k)'
  BY <1>3, <1>4, <1>5 DEF Ahead
<1>7. Owed' = SubSeq(queue', 1, k)
  BY <1>1, <1>2, <1>6, OwedNext
<1>8. SubSeq(queue', 1, k) = queue
  BY <1>2, <1>3
<1>9. Opened' = FALSE
  <2>1. settings.use_queue
    BY <1>2, LoggingAssumption DEF PipeInv, Direct, TypeOK, Unset
  <2> QED
    BY <1>2, <2>1 DEF Opened
<1> QED
  BY <1>2, <1>4, <1>7, <1>8, <1>9 DEF Pipe!Close

(* Logging is configured when nothing is left in the pipe.                   *)
LEMMA ConfigureMaps ==
    ASSUME PipeInv, NEW s \in Settings, ConfigureLogging(s)
    PROVE  Pipe!Open
<1>1. PipeInv'
  BY PipeConfigure
<1>2. /\ alive /\ ~configured /\ configured' = TRUE /\ settings' = s
      /\ queue' = <<>> /\ listener' = IF s.use_queue THEN "running" ELSE "none"
      /\ UNCHANGED <<alive, stopping, count, emitted>>
  BY DEF ConfigureLogging
<1>3. listener = "none" /\ ~stopping
  BY <1>2 DEF PipeInv, TypeOK
<1>4. Owed = <<>>
  BY <1>3 DEF Owed
<1>5. Owed' = <<>>
  <2>1. CASE listener' = "running"
    BY <1>1, <1>2, <1>3, <2>1, OwedNext
  <2>2. CASE listener' # "running"
    BY <2>2 DEF Owed
  <2> QED
    BY <2>1, <2>2
<1>6. Opened' = TRUE
  BY <1>2, <1>3, LoggingAssumption DEF Opened
<1> QED
  BY <1>2, <1>4, <1>5, <1>6 DEF Pipe!Open

(* Every step of the agent's logging is a step of the pipe or leaves it.     *)
LEMMA PipeMaps == ASSUME PipeInv, [Next]_vars PROVE [Pipe!Next]_(Pipe!vars)
<1>1. ASSUME NEW s \in Settings, ConfigureLogging(s) PROVE Pipe!Next
  BY <1>1, ConfigureMaps DEF Pipe!Next
<1>2. ASSUME NEW n \in Names, GetLogger(n) PROVE UNCHANGED Pipe!vars
  BY <1>2 DEF GetLogger, Pipe!vars, pipeline, Opened, Owed, Ahead
<1>3. ASSUME NEW n \in Names, NEW severity \in Severities, Log(n, severity) PROVE Pipe!Next
  BY <1>3, LogMaps DEF Pipe!Next
<1>4. CASE Listen
  BY <1>4, ListenMaps DEF Pipe!Next
<1>5. CASE Shutdown
  BY <1>5, ShutdownMaps DEF Pipe!Next
<1>6. CASE Joined
  <2>1. Owed = <<>> /\ Owed' = <<>>
    BY <1>6 DEF Joined, Owed
  <2>2. settings.use_queue /\ ~Opened /\ ~Opened'
    BY <1>6, LoggingAssumption DEF Joined, PipeInv, Direct, TypeOK, Unset, Opened
  <2>3. Opened' = Opened
    BY <2>2 DEF Opened
  <2> QED
    BY <1>6, <2>1, <2>3 DEF Joined, Pipe!vars
<1>7. CASE ShutdownDirect
  <2>1. Owed = <<>> /\ Owed' = <<>>
    BY <1>7 DEF ShutdownDirect, Owed, pipeline
  <2>2. ~settings.use_queue
    BY <1>7 DEF ShutdownDirect, PipeInv, TypeOK
  <2>3. Opened' = Opened
    BY <1>7, <2>2 DEF ShutdownDirect, Opened
  <2> QED
    BY <1>7, <2>1, <2>3 DEF ShutdownDirect, Pipe!vars, pipeline
<1>8. CASE Exit
  BY <1>8 DEF Exit, Pipe!Next, Pipe!Exit, pipeline, Opened, Owed, Ahead
<1>9. CASE UNCHANGED vars
  BY <1>9 DEF vars, Pipe!vars, pipeline, Opened, Owed, Ahead
<1> QED
  BY <1>1, <1>2, <1>3, <1>4, <1>5, <1>6, <1>7, <1>8, <1>9 DEF Next

(* The queue, the sentinel and the listener implement the pipe, for any      *)
(* settings and any number of threads that log, configurations and           *)
(* shutdowns: nothing put in before a close is lost or out of order, what    *)
(* is dropped never turns up, and no configuration finds a record of the     *)
(* one before it (logger.py:140, 245-285).                                   *)
THEOREM LoggingImplementsPipe == Spec => ImplementsPipe
<1>1. Init => Pipe!Init
  BY DEF Init, Pipe!Init, Opened, Owed
<1>2. PipeInv /\ [Next]_vars => [Pipe!Next]_(Pipe!vars)
  BY PipeMaps
<1> QED
  BY PipeInvariance, <1>1, <1>2, PTL DEF Spec, ImplementsPipe, Pipe!Spec
=============================================================================
