------------------------------ MODULE WriteFence ------------------------------
(***************************************************************************)
(* How the maintenance gate reaches the processes that accept writes.      *)
(*                                                                         *)
(* In every DMCR pod the cleaner mirrors the gate Lease into a pod-local   *)
(* file; the registry and the direct-upload helper refuse writes while the *)
(* file is unexpired, and confirm that they have seen it in ack files; the *)
(* cleaner turns a complete set of ack files into an ack Lease named after *)
(* the pod.  The executor starts its cleanup when enough ack Leases carry  *)
(* the sequence of its activation.                                         *)
(*                                                                         *)
(* Pods come and go: a replaced pod leaves its ack Lease behind and its    *)
(* successor starts with an empty volume.                                  *)
(***************************************************************************)
EXTENDS MaintenanceGate

CONSTANTS
    Component,      \* the writers of a pod: "dmcr" and "direct-upload"
    FirstPods,      \* the pods running at the start
    AckTTL,         \* duration of an ack Lease
    AckQuorum,      \* --maintenance-gate-ack-quorum
    MaxSurge        \* pods a rolling update may start before it stops others

ASSUME PodAssumption ==
    /\ FirstPods \subseteq Replica
    /\ AckTTL \in Nat /\ AckQuorum \in Nat \ {0} /\ MaxSurge \in Nat

VARIABLES
    pod,       \* per identity: "new", "up" or "gone"
    file,      \* per pod: the gate file (seq 0: no file)
    ackFile,   \* per pod and component: the ack file (seq 0: no file)
    ackLease,  \* per identity: the ack Lease (not held: absent or released)
    quorum     \* per replica: whose acks its running cleanup was started on

fenceVars == <<pod, file, ackFile, ackLease, quorum>>
allVars == <<vars, fenceVars>>

-----------------------------------------------------------------------------
NoFile == [seq |-> 0, expires |-> 0]
NoAcks == [c \in Component |-> NoFile]
NoAck == [held |-> FALSE, seq |-> 0, renew |-> 0]

Up == {q \in Replica : pod[q] = "up"}

\* readGateFile: the file exists and has not expired on the pod's own clock.
Unexpired(r, f) == f.seq # 0 /\ Clock(r) < f.expires

\* FileChecker.Active, asked at the start of every write request.
Blocked(r) == Unexpired(r, file[r])

\* Mutant: the file's expiry is computed backwards from the renew time.
MirroredBackdated(g, now) ==
    IF g.holder # NoHolder /\ now < g.renew + GateDuration
    THEN [seq |-> g.seq, expires |-> g.renew - GateDuration]
    ELSE NoFile

\* FileMirror.Sync writes the file from the Lease it read, or removes it.
Mirrored(g, now) ==
    IF g.holder # NoHolder /\ now < g.renew + GateDuration
    THEN [seq |-> g.seq, expires |-> g.renew + GateDuration]
    ELSE NoFile

MirrorFile(r, g) == file' = [file EXCEPT ![r] = Mirrored(g, Clock(r))]

\* localAcksReady: every component acknowledged exactly this file.
LocalAcksReady(r) ==
    Blocked(r) /\ \A c \in Component : ackFile[r][c] = file[r]

AckActive(r, now) == ackLease[r].held /\ now < ackLease[r].renew + AckTTL

\* Mutant: acks of earlier activations are counted too.
AckersAnySequence(r) == {q \in Replica : AckActive(q, Clock(r))}

\* AckQuorumReady counts the active ack Leases with the activation's sequence.
Ackers(r) ==
    {q \in Replica : AckActive(q, Clock(r)) /\ ackLease[q].seq = sequence[r]}

-----------------------------------------------------------------------------
FenceInit ==
    /\ Init
    /\ pod = [r \in Replica |-> IF r \in FirstPods THEN "up" ELSE "new"]
    /\ file = [r \in Replica |-> NoFile]
    /\ ackFile = [r \in Replica |-> NoAcks]
    /\ ackLease = [r \in Replica |-> NoAck]
    /\ quorum = [r \in Replica |-> {}]

\* The top of RunLoop: mirror the gate Lease into the file.
SyncGateFile(r) ==
    /\ phase[r] = "idle"
    /\ MirrorFile(r, gate)
    /\ UNCHANGED <<vars, pod, ackFile, ackLease, quorum>>

\* FileAckObserver.Sync of one component, every 250 milliseconds.
ObserveGateFile(r, c) ==
    /\ ackFile' = [ackFile EXCEPT ![r][c] = IF Blocked(r) THEN file[r] ELSE NoFile]
    /\ UNCHANGED <<vars, pod, file, ackLease, quorum>>

\* AckMirror.Sync, at the top of RunLoop and while waiting for the quorum.
SyncAckLease(r) ==
    /\ phase[r] \in {"idle", "acking"}
    /\ ackLease' = [ackLease EXCEPT ![r] =
            IF LocalAcksReady(r)
            THEN [held |-> TRUE, seq |-> file[r].seq, renew |-> Clock(r)]
            ELSE NoAck]
    /\ UNCHANGED <<vars, pod, file, ackFile, quorum>>

\* activateMaintenanceGate: activation, then a first mirror of the own file.
ActivateAndMirror(r) ==
    /\ Activate(r)
    /\ MirrorFile(r, gate')
    /\ UNCHANGED <<pod, ackFile, ackLease, quorum>>

\* Mutant: the executor takes its own pod for granted.
BeginAckedCleanupOneShort(r) ==
    /\ Cardinality(Ackers(r)) + 1 >= AckQuorum
    /\ BeginCleanup(r)
    /\ quorum' = [quorum EXCEPT ![r] = Ackers(r)]
    /\ UNCHANGED <<pod, file, ackFile, ackLease>>

\* waitMaintenanceGateAckQuorum returns and the cleanup starts.
BeginAckedCleanup(r) ==
    /\ Cardinality(Ackers(r)) >= AckQuorum
    /\ BeginCleanup(r)
    /\ quorum' = [quorum EXCEPT ![r] = Ackers(r)]
    /\ UNCHANGED <<pod, file, ackFile, ackLease>>

\* The deferred release is followed by a mirror, which may fail.
ReleaseAndMirror(r) ==
    /\ Release(r)
    /\ MirrorFile(r, gate') \/ UNCHANGED file
    /\ quorum' = [quorum EXCEPT ![r] = {}]
    /\ UNCHANGED <<pod, ackFile, ackLease>>

AbandonAndForget(r) ==
    /\ AbandonCycle(r)
    /\ quorum' = [quorum EXCEPT ![r] = {}]
    /\ UNCHANGED <<pod, file, ackFile, ackLease>>

\* The pod is deleted with its volume; Leases outlive it.
PodStops(r) ==
    /\ pod[r] = "up"
    /\ pod' = [pod EXCEPT ![r] = "gone"]
    /\ file' = [file EXCEPT ![r] = NoFile]
    /\ ackFile' = [ackFile EXCEPT ![r] = NoAcks]
    /\ AbandonCycle(r) \/ (phase[r] = "idle" /\ UNCHANGED vars)
    /\ quorum' = [quorum EXCEPT ![r] = {}]
    /\ UNCHANGED ackLease

\* Its replacement has a new name and an empty volume.
PodStarts(r) ==
    /\ pod[r] = "new"
    /\ Cardinality(Up) < Cardinality(FirstPods) + MaxSurge
    /\ pod' = [pod EXCEPT ![r] = "up"]
    /\ UNCHANGED <<vars, file, ackFile, ackLease, quorum>>

GateStep(r) ==
    \/ ActivateAndMirror(r) \/ BeginAckedCleanup(r)
    \/ ReleaseAndMirror(r) \/ AbandonAndForget(r)
    \/ /\ HoldIdle(r) \/ StartCycle(r) \/ RenewExecutor(r)
          \/ ActivateAnswerLost(r) \/ StopCycle(r)
       /\ UNCHANGED fenceVars

FenceStep(r) ==
    \/ /\ pod[r] = "up"
       /\ \/ GateStep(r) \/ SyncGateFile(r) \/ SyncAckLease(r)
          \/ \E c \in Component : ObserveGateFile(r, c)
    \/ PodStops(r)
    \/ PodStarts(r)

FenceNext ==
    \/ Tick /\ UNCHANGED fenceVars
    \/ \E r \in Replica : FenceStep(r)

FenceSpec == FenceInit /\ [][FenceNext]_allVars

-----------------------------------------------------------------------------
\* The pods, their files and the ack Leases have their types.
FenceTypeOK ==
    /\ TypeOK
    /\ pod \in [Replica -> {"new", "up", "gone"}]
    /\ file \in [Replica -> [seq : Nat, expires : Nat]]
    /\ ackFile \in [Replica -> [Component -> [seq : Nat, expires : Nat]]]
    /\ ackLease \in [Replica -> [held : BOOLEAN, seq : Nat, renew : Nat]]
    /\ quorum \in [Replica -> SUBSET Replica]

\* Every pod whose acknowledgement a running cleanup was started on goes on
\* refusing writes for as long as that cleanup runs, whatever its mirror reads
\* in the meantime and however its clock is set, unless the pod itself is gone.
AckersReadOnly ==
    \A r \in cleaners : \A q \in quorum[r] : pod[q] = "up" => Blocked(q)

\* The pods that take writes while a cleanup runs: uncounted ones, replacements
\* and surplus ones among them, are bound by nothing but the number of pods and
\* the quorum.  At most MaxSurge of them, and one for each counted pod that is
\* gone, write beside a cleanup: with the quorum the module deploys, and no pod
\* replaced while its acknowledgement lasts, nobody does.
OnlyReplacementsWrite ==
    \A r \in cleaners :
        Cardinality({q \in Up : ~ Blocked(q)})
            <= MaxSurge + Cardinality({q \in quorum[r] : pod[q] = "gone"})
=============================================================================
