----------------------------- MODULE FlowRunner -----------------------------
(***************************************************************************)
(* CertFlow.run (flows/base.py): the self-gate, the issuance, the write of *)
(* the certificate and then of the key, and the post-renewal hook, for one *)
(* pair of output files <name>.pem / <name>.key.                           *)
(*                                                                         *)
(* Several runs may be under way at once: a worker is a thread of the      *)
(* daemon's pool (a scheduled job, the boot refresh, a nudge) or another   *)
(* process (the CLI's refresh), and nothing in the code keeps two of them  *)
(* from running the same flow.  A certificate and its key are abstracted   *)
(* to the serial of their issuance, so a pair matches when the two serials *)
(* are equal.  A file's write is two steps, since write_text truncates     *)
(* before it writes; the later of two overlapping writes is what stays.    *)
(***************************************************************************)
EXTENDS Integers, Sequences

CONSTANTS
    Workers,        \* threads and processes that may run the flow
    Sans,           \* the SAN sets a certificate can carry
    Flows,          \* the forms the flow takes in the configs served
    Interruptible,  \* workers whose run may be cut short (crash, exception)
    MaxSerial       \* bound: issuances in a behaviour

FlowType == {"internal", "external"}

FlowConfig == [type : FlowType, sans : Sans, script : BOOLEAN, named : BOOLEAN]

ASSUME FlowsAssumption == Flows \subseteq FlowConfig

ASSUME WorkersAssumption == Interruptible \subseteq Workers

ASSUME MaxSerialAssumption == MaxSerial \in Nat

NoFile == 0     \* the file does not exist
Torn == -1      \* the file is there and cannot be parsed: truncated

VARIABLES
    issued,     \* the certificates issued so far: issued[s] is the SANs of serial s
    due,        \* the serials within their renewal threshold
    certFile,   \* <name>.pem: a serial, NoFile or Torn
    keyFile,    \* <name>.key: the serial it was generated for, NoFile or Torn
    loaded,     \* the pair the served application last loaded
    pc,         \* where each worker is in run()
    flow,       \* the flow each worker runs
    seen,       \* what _up_to_date read as the certificate
    got,        \* the serial _obtain returned
    lapsed,     \* history: a new pair was left without a completed hook
    solo,       \* history: the writer no other writer overlapped, if any
    whole       \* history: the last write was finished by a solo writer

disk == <<certFile, keyFile>>
local == <<pc, flow, seen, got>>
history == <<lapsed, solo, whole>>
vars == <<issued, due, disk, loaded, local, history>>

Serial == 1 .. Len(issued)
FileValue == Serial \union {NoFile, Torn}
Disk == [cert |-> certFile, key |-> keyFile]

Steps == {"idle", "read", "decide", "obtain", "openCert", "fillCert",
          "openKey", "fillKey", "hook"}

(* A worker that has opened the certificate and not closed the key. *)
Writing(w) == pc[w] \in {"fillCert", "openKey", "fillKey"}

Moves(w, from, to) == pc[w] = from /\ pc' = [pc EXCEPT ![w] = to]

(* run() returns or raises, and its local variables go. *)
Returns(w) ==
    /\ pc' = [pc EXCEPT ![w] = "idle"]
    /\ seen' = [seen EXCEPT ![w] = NoFile]
    /\ got' = [got EXCEPT ![w] = NoFile]

Init ==
    /\ issued = <<>>
    /\ due = {}
    /\ certFile = NoFile
    /\ keyFile = NoFile
    /\ loaded = Disk
    /\ pc = [w \in Workers |-> "idle"]
    /\ flow \in [Workers -> Flows]
    /\ seen = [w \in Workers |-> NoFile]
    /\ got = [w \in Workers |-> NoFile]
    /\ lapsed = FALSE
    /\ solo = {}
    /\ whole = TRUE
-----------------------------------------------------------------------------
(* run() starts: a daily job, the boot refresh, a nudge or the CLI. *)
Begin(w, f) ==
    /\ Moves(w, "idle", "read")
    /\ flow' = [flow EXCEPT ![w] = f]
    /\ UNCHANGED <<issued, due, disk, loaded, seen, got, history>>

(* A flow without a name reads <dir>/.pem, which no run has written. *)
ReadCert(w) ==
    /\ Moves(w, "read", "decide")
    /\ seen' = [seen EXCEPT ![w] = IF flow[w].named THEN certFile ELSE NoFile]
    /\ UNCHANGED <<issued, due, disk, loaded, flow, got, history>>

(* Mutant: the day count is compared the wrong way round. *)
AdequateInverted(w) ==
    /\ seen[w] \in Serial
    /\ keyFile # NoFile
    /\ issued[seen[w]] = flow[w].sans
    /\ seen[w] \in due

(* Mutant: the gate does not look at the days left. *)
AdequateAgeless(w) ==
    /\ seen[w] \in Serial
    /\ keyFile # NoFile
    /\ issued[seen[w]] = flow[w].sans

(* The gate of _up_to_date: the key need only exist when it is looked for. *)
Adequate(w) ==
    /\ seen[w] \in Serial
    /\ keyFile # NoFile
    /\ issued[seen[w]] = flow[w].sans
    /\ seen[w] \notin due

Current(w) ==
    /\ pc[w] = "decide"
    /\ Adequate(w)
    /\ Returns(w)
    /\ UNCHANGED <<issued, due, disk, loaded, flow, history>>

Renew(w) ==
    /\ Moves(w, "decide", "obtain")
    /\ ~Adequate(w)
    /\ seen' = [seen EXCEPT ![w] = NoFile]
    /\ UNCHANGED <<issued, due, disk, loaded, flow, got, history>>

(* step-ca sets the SANs of an internal certificate; an ACME order carries *)
(* the domains of the flow.                                                *)
SansGranted(f) == IF f.type = "internal" THEN Sans ELSE {f.sans}

(* Mutant: the issuance succeeds and its result is not kept. *)
ObtainForgets(w) ==
    /\ Moves(w, "obtain", "openCert")
    /\ Len(issued) < MaxSerial
    /\ \E s \in SansGranted(flow[w]) : issued' = Append(issued, s)
    /\ UNCHANGED <<due, disk, loaded, flow, seen, got, history>>

Obtain(w) ==
    /\ Moves(w, "obtain", "openCert")
    /\ Len(issued) < MaxSerial
    /\ \E s \in SansGranted(flow[w]) : issued' = Append(issued, s)
    /\ got' = [got EXCEPT ![w] = Len(issued) + 1]
    /\ UNCHANGED <<due, disk, loaded, flow, seen, history>>

ObtainFails(w) ==
    /\ pc[w] = "obtain"
    /\ Returns(w)
    /\ UNCHANGED <<issued, due, disk, loaded, flow, history>>
-----------------------------------------------------------------------------
(* _write raises for a flow without a name, after the issuance. *)
NamelessFails(w) ==
    /\ pc[w] = "openCert"
    /\ ~flow[w].named
    /\ Returns(w)
    /\ UNCHANGED <<issued, due, disk, loaded, flow, history>>

OpenCert(w) ==
    /\ Moves(w, "openCert", "fillCert")
    /\ flow[w].named
    /\ certFile' = Torn
    /\ solo' = IF \E v \in Workers : Writing(v) THEN {} ELSE {w}
    /\ whole' = FALSE
    /\ UNCHANGED <<issued, due, keyFile, loaded, flow, seen, got, lapsed>>

FillCert(w) ==
    /\ Moves(w, "fillCert", "openKey")
    /\ certFile' = got[w]
    /\ UNCHANGED <<issued, due, keyFile, loaded, flow, seen, got, history>>

OpenKey(w) ==
    /\ Moves(w, "openKey", "fillKey")
    /\ keyFile' = Torn
    /\ UNCHANGED <<issued, due, certFile, loaded, flow, seen, got, history>>

(* Mutant: the generated key is kept in a field that all runs share. *)
FillKeyShared(w) ==
    /\ pc[w] = "fillKey"
    /\ Returns(w)
    /\ keyFile' = Len(issued)
    /\ lapsed' = TRUE
    /\ solo' = solo \ {w}
    /\ whole' = (w \in solo)
    /\ UNCHANGED <<issued, due, certFile, loaded, flow>>

FillKey(w) ==
    /\ keyFile' = got[w]
    /\ solo' = solo \ {w}
    /\ whole' = (w \in solo)
    /\ \/ /\ flow[w].script
          /\ Moves(w, "fillKey", "hook")
          /\ UNCHANGED <<seen, got, lapsed>>
       \/ /\ ~flow[w].script
          /\ pc[w] = "fillKey"
          /\ Returns(w)
          /\ lapsed' = TRUE
    /\ UNCHANGED <<issued, due, certFile, loaded, flow>>

(* Mutant: the run hands over what it obtained, not what is on disk. *)
HookOkOwn(w) ==
    /\ pc[w] = "hook"
    /\ Returns(w)
    /\ loaded' = [cert |-> got[w], key |-> got[w]]
    /\ lapsed' = FALSE
    /\ UNCHANGED <<issued, due, disk, flow, solo, whole>>

(* The script hands the files to the application. *)
HookOk(w) ==
    /\ pc[w] = "hook"
    /\ Returns(w)
    /\ loaded' = Disk
    /\ lapsed' = FALSE
    /\ UNCHANGED <<issued, due, disk, flow, solo, whole>>

(* A non-zero exit or the 120 s timeout is logged and the run succeeds; what *)
(* the script had done by then may include the reload.                       *)
HookFails(w) ==
    /\ pc[w] = "hook"
    /\ Returns(w)
    /\ loaded' \in {loaded, Disk}
    /\ lapsed' = TRUE
    /\ UNCHANGED <<issued, due, disk, flow, solo, whole>>
-----------------------------------------------------------------------------
(* The run is cut short: the process dies (each of its workers is cut), or *)
(* an OSError of a write or a UnicodeDecodeError of the hook escapes run() *)
(* and _run_one_flow isolates it.  The files stay as they are.             *)
Interrupted(w) ==
    /\ w \in Interruptible
    /\ pc[w] # "idle"
    /\ Returns(w)
    /\ lapsed' = (lapsed \/ Writing(w) \/ pc[w] = "hook")
    /\ loaded' \in {loaded} \union (IF pc[w] = "hook" THEN {Disk} ELSE {})
    /\ solo' = solo \ {w}
    /\ UNCHANGED <<issued, due, disk, flow, whole>>

TimePasses ==
    /\ \E s \in Serial \ due : due' = due \union {s}
    /\ UNCHANGED <<issued, disk, loaded, local, history>>

(* Mutant: the script is run without a timeout and does not come back. *)
RunStepNoTimeout(w) ==
    \/ ReadCert(w) \/ Current(w) \/ Renew(w)
    \/ Obtain(w) \/ ObtainFails(w)
    \/ NamelessFails(w) \/ OpenCert(w) \/ FillCert(w)
    \/ OpenKey(w) \/ FillKey(w)

RunStep(w) ==
    \/ ReadCert(w) \/ Current(w) \/ Renew(w)
    \/ Obtain(w) \/ ObtainFails(w)
    \/ NamelessFails(w) \/ OpenCert(w) \/ FillCert(w)
    \/ OpenKey(w) \/ FillKey(w)
    \/ HookOk(w) \/ HookFails(w)

Next ==
    \/ \E w \in Workers, f \in Flows : Begin(w, f)
    \/ \E w \in Workers : RunStep(w)
    \/ \E w \in Workers : Interrupted(w)
    \/ TimePasses

Spec == Init /\ [][Next]_vars

(* A thread that has started keeps running: the pool's threads are scheduled *)
(* by the operating system, and every blocking call of run() has a timeout.  *)
FairSpec == Spec /\ \A w \in Workers : WF_vars(RunStep(w))

(* One run at a time and none cut short: what the flow would be if refresh() *)
(* and renew_one() took a lock.                                              *)
AllIdle == \A w \in Workers : pc[w] = "idle"

SerialNext ==
    \/ \E w \in Workers, f \in Flows : AllIdle /\ Begin(w, f)
    \/ \E w \in Workers : RunStep(w)
    \/ TimePasses

SerialRuns == Init /\ [][SerialNext]_vars

(* The daily job keeps starting runs, each of which goes on, and the CA does *)
(* not fail for ever.                                                        *)
SerialFairness ==
    \A w \in Workers :
        /\ \A f \in Flows : SF_vars(AllIdle /\ Begin(w, f))
        /\ WF_vars(RunStep(w))
        /\ SF_vars(Obtain(w))

SerialSpec == SerialRuns /\ SerialFairness
-----------------------------------------------------------------------------
(* Every variable keeps its type; a worker past the gate of issuance holds a *)
(* serial that was issued.                                                   *)
TypeOK ==
    /\ issued \in Seq(Sans)
    /\ due \subseteq Serial
    /\ certFile \in FileValue
    /\ keyFile \in FileValue
    /\ loaded \in [cert : FileValue, key : FileValue]
    /\ pc \in [Workers -> Steps]
    /\ flow \in [Workers -> Flows]
    /\ seen \in [Workers -> FileValue]
    /\ got \in [Workers -> Serial \union {NoFile}]
    /\ lapsed \in BOOLEAN
    /\ solo \subseteq Workers
    /\ whole \in BOOLEAN
    /\ \A w \in Workers :
          pc[w] \in {"openCert", "fillCert", "openKey", "fillKey"} => got[w] \in Serial

(* When the last write of the files was finished by a run whose writes no    *)
(* other run overlapped, the certificate and the key are of one issuance,    *)
(* whatever runs before it left behind: overlaps and interruptions do no     *)
(* lasting harm once one run writes alone (_write and _write_if_changed).    *)
PairKept == whole => certFile = keyFile /\ certFile # Torn

(* The served application runs the pair on disk, or some run will still tell *)
(* it, or a run ended without telling it (no script, a script that failed, a *)
(* cut): with overlapping runs no new pair goes unannounced, since a run     *)
(* calls its hook after both of its writes.                                  *)
ServiceFollowsDisk ==
    \/ loaded = Disk
    \/ lapsed
    \/ \E w \in Workers : Writing(w) \/ pc[w] = "hook"

(* A new pair reaches the application, or lapses, and does not hang between. *)
HandedOver == (loaded # Disk) ~> (loaded = Disk \/ lapsed)

(* What tests/test_flow_base.py:89-90 finds after one run ("its own" .pem    *)
(* and .key) for runs in general: with no run under way, the two files are   *)
(* of one issuance.                                                          *)
PairAtRest == AllIdle => certFile = keyFile

(* What _up_to_date promises (flows/base.py:131-133): a pair it accepts, so  *)
(* that issuance is skipped, is a certificate with its key present.          *)
AcceptedPairMatches ==
    [][\A w \in Workers : Current(w) => certFile = keyFile]_vars
-----------------------------------------------------------------------------
(* The pair of CertStore: while the key is being rewritten the certificate   *)
(* already is the new one, and until then the key still is the old one.      *)
Store == INSTANCE CertStore WITH
    Wanted <- {f.sans : f \in Flows},
    pair <- IF keyFile = Torn THEN certFile ELSE keyFile,
    loaded <- loaded.key

(* One run at a time, none cut short, every run named: the two files behave  *)
(* as one value that is replaced as a whole, by newer issuances only, and    *)
(* only when the gate has no use for the old one (base.py:83-85, idempotent  *)
(* ticks); the hook hands over that value.                                   *)
ImplementsCertStore == Store!Spec

(* A certificate that is due is replaced, if the flow keeps being run and    *)
(* the CA, asked again and again, at some time answers.                      *)
DueIsReplaced ==
    \A s \in 1 .. MaxSerial - 1 :
        (certFile = s /\ keyFile = s /\ s \in due) ~> certFile > s
=============================================================================
