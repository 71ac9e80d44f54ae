-------------------------- MODULE WriteFence_proofs --------------------------
(***************************************************************************)
(* The gate, for every set of replicas, every clock skew within the margin *)
(* and every choice of timeouts: the state is well typed, the gate covers  *)
(* every running cleanup, activations never share a sequence, and the      *)
(* cycle implements the exclusive cleanup of ExclusiveCleanup.             *)
(*                                                                         *)
(* The fence, for any number of pods and replacements: whoever was counted *)
(* in the quorum of a running cleanup refuses writes, and with a quorum of *)
(* all pods only a replacement or a surplus pod takes them meanwhile.      *)
(***************************************************************************)
EXTENDS WriteFence, FiniteSetTheorems, TLAPS

USE ReplicaAssumption, TimeAssumption

(***************************************************************************)
(* A cycle that activated the gate and may still be (or become) cleaning.  *)
(***************************************************************************)
Covered(r) ==
    /\ phase[r] \in {"acking", "cleaning"}
    /\ Clock(r) <= since[r] + GCTimeout + StopLag

OwnsGate(r) ==
    /\ gate.holder = r
    /\ gate.seq = sequence[r]
    /\ since[r] <= gate.renew

(***************************************************************************)
(* The strengthening: a cleaning cycle is within its deadline; a cycle     *)
(* within its deadline owns the gate and activated it after it began; the  *)
(* gate's sequence is the largest.                                         *)
(***************************************************************************)
GateInv ==
    /\ \A r \in Replica :
        phase[r] = "cleaning" => Clock(r) <= since[r] + GCTimeout + StopLag
    /\ \A r \in Replica : Covered(r) => OwnsGate(r)
    /\ \A r \in Replica :
        phase[r] \in {"acking", "cleaning"} => sequence[r] <= gate.seq
    /\ SequenceNamesOneCycle

-----------------------------------------------------------------------------
(***************************************************************************)
(* The Lease, the clocks and the cycle variables keep their types.         *)
(***************************************************************************)
THEOREM TypeCorrect == Spec => []TypeOK
<1>1. Init => TypeOK
  BY DEF Init, TypeOK, Phases
<1>2. TypeOK /\ [Next]_vars => TypeOK'
  <2> SUFFICES ASSUME TypeOK, [Next]_vars
               PROVE  TypeOK'
    OBVIOUS
  <2> USE DEF TypeOK, Phases, Become, Return, Clock, leases
  <2>1. CASE Tick
    BY <2>1 DEF Tick
  <2>2. ASSUME NEW r \in Replica, Step(r)
        PROVE  TypeOK'
    <3>0. Clock(r) \in Nat
      OBVIOUS
    <3>1. CASE HoldIdle(r)
      BY <3>1, <3>0 DEF HoldIdle, HoldExecutor
    <3>2. CASE StartCycle(r)
      BY <3>2, <3>0 DEF StartCycle, HoldExecutor
    <3>3. CASE RenewExecutor(r)
      BY <3>3, <3>0 DEF RenewExecutor, HoldExecutor
    <3>4. CASE Activate(r)
      BY <3>4, <3>0 DEF Activate, UpsertActive
    <3>5. CASE ActivateAnswerLost(r)
      BY <3>5, <3>0 DEF ActivateAnswerLost, UpsertActive
    <3>6. CASE BeginCleanup(r)
      BY <3>6 DEF BeginCleanup
    <3>7. CASE StopCycle(r)
      BY <3>7, <3>0 DEF StopCycle
    <3>8. CASE Release(r)
      <4>1. PICK now \in since[r] .. Clock(r) : UpsertInactive(r, now)
        BY <3>8 DEF Release
      <4>2. now \in Nat
        BY <4>1, <3>0
      <4>3. gate' \in [holder : Replica \cup {NoHolder}, renew : Nat, seq : Nat]
        BY <4>1, <4>2 DEF UpsertInactive
      <4>4. QED
        BY <4>3, <3>8 DEF Release
    <3>9. CASE AbandonCycle(r)
      BY <3>9 DEF AbandonCycle
    <3>10. QED
      BY <2>2, <3>1, <3>2, <3>3, <3>4, <3>5, <3>6, <3>7, <3>8, <3>9 DEF Step
  <2>3. CASE UNCHANGED vars
    BY <2>3 DEF vars
  <2>4. QED
    BY <2>1, <2>2, <2>3 DEF Next
<1>3. QED
  BY <1>1, <1>2, PTL DEF Spec

-----------------------------------------------------------------------------
(***************************************************************************)
(* The heart of the argument: as long as some cycle is covered, no other   *)
(* replica can read a time at which that cycle's gate has expired, so for  *)
(* everyone else the gate is held.                                         *)
(***************************************************************************)
LEMMA CoveredGateIsHeld ==
    ASSUME TypeOK, GateInv, NEW q \in Replica, Covered(q),
           NEW r \in Replica, NEW now \in Nat, now <= Clock(r)
    PROVE  /\ GateActive(now)
           /\ r # q => HeldByOther(r, now)
<1>1. OwnsGate(q)
  BY DEF GateInv
<1>2. GCTimeout + StopLag + Skew[r] - Skew[q] < GateDuration
  BY MarginAssumption
<1>3. /\ time \in Nat /\ since[q] \in Nat /\ gate.renew \in Nat
      /\ Skew[r] \in Nat /\ Skew[q] \in Nat
  BY DEF TypeOK
<1>4. now < gate.renew + GateDuration
  BY <1>1, <1>2, <1>3 DEF Covered, OwnsGate, Clock
<1>5. QED
  BY <1>1, <1>4 DEF GateActive, HeldByOther, OwnsGate

(***************************************************************************)
(* Activating the gate: nobody else is covered, and the caller owns it.    *)
(***************************************************************************)
LEMMA UpsertActiveTakesFreeGate ==
    ASSUME TypeOK, GateInv, NEW r \in Replica, NEW now \in Nat,
           now <= Clock(r), UpsertActive(r, now)
    PROVE  \A q \in Replica : Covered(q) => q = r
BY CoveredGateIsHeld DEF UpsertActive

(***************************************************************************)
(* A release changes nothing as long as some cycle is covered.             *)
(***************************************************************************)
LEMMA ReleaseKeepsCoveredGate ==
    ASSUME TypeOK, GateInv, NEW q \in Replica, Covered(q),
           NEW r \in Replica, Release(r)
    PROVE  gate' = gate
<1>1. PICK now \in since[r] .. Clock(r) : UpsertInactive(r, now)
  BY DEF Release
<1>2. now \in Nat /\ now <= Clock(r)
  BY <1>1 DEF TypeOK, Clock
<1>3. q # r
  BY DEF Release, Covered
<1>4. HeldByOther(r, now)
  BY <1>2, <1>3, CoveredGateIsHeld
<1>5. QED
  BY <1>1, <1>4 DEF UpsertInactive

LEMMA GateInvInit == Init => GateInv
BY DEF Init, GateInv, Covered, SequenceNamesOneCycle

LEMMA GateInvStep ==
    ASSUME TypeOK, TypeOK', GateInv, [Next]_vars
    PROVE  GateInv'
<1> USE DEF Become, Return, Clock, leases
<1>1. CASE Tick
  <2>1. UNCHANGED <<gate, exec, phase, since, sequence>> /\ time' = time + 1
    BY <1>1 DEF Tick
  <2>2. \A r \in Replica : Covered(r)' => Covered(r)
    BY <2>1 DEF Covered, TypeOK
  <2>3. \A r \in Replica : 
          phase'[r] = "cleaning" => Clock(r)' <= since'[r] + GCTimeout + StopLag
    BY <1>1, <2>1 DEF Tick, TypeOK
  <2>4. QED
    BY <2>1, <2>2, <2>3 DEF GateInv, OwnsGate, SequenceNamesOneCycle
<1>2. ASSUME NEW r \in Replica, Step(r)
      PROVE  GateInv'
  \* A step that leaves the gate alone and does not move r into a covered phase.
  <2>0. ASSUME UNCHANGED <<time, gate>>,
               \A q \in Replica \ {r} : /\ phase'[q] = phase[q]
                                       /\ since'[q] = since[q]
                                       /\ sequence'[q] = sequence[q],
               phase'[r] \notin {"acking", "cleaning"}
        PROVE  GateInv'
    <3>1. \A q \in Replica : Covered(q)' => q # r /\ Covered(q)
      BY <2>0 DEF Covered
    <3>2. QED
      BY <2>0, <3>1 DEF GateInv, OwnsGate, SequenceNamesOneCycle
  <2>1. CASE HoldIdle(r)
    BY <2>1, <2>0 DEF HoldIdle
  <2>2. CASE StartCycle(r)
    BY <2>2, <2>0 DEF StartCycle, TypeOK
  <2>3. CASE RenewExecutor(r)
    BY <2>3 DEF RenewExecutor, GateInv, Covered, OwnsGate, SequenceNamesOneCycle
  <2>4. CASE Activate(r)
    <3>1. PICK now \in since[r] .. Clock(r) : UpsertActive(r, now)
      BY <2>4 DEF Activate
    <3>2. now \in Nat /\ since[r] <= now /\ now <= Clock(r)
      BY <3>1 DEF TypeOK
    <3>3. \A q \in Replica : Covered(q) => q = r
      BY <3>1, <3>2, UpsertActiveTakesFreeGate
    <3>4. /\ UNCHANGED <<time, exec, since>>
          /\ phase' = [phase EXCEPT ![r] = "acking"]
          /\ sequence' = [sequence EXCEPT ![r] = gate.seq + 1]
      BY <2>4 DEF Activate
    <3>5. gate' = [holder |-> r, renew |-> now, seq |-> gate.seq + 1]
      BY <3>1 DEF UpsertActive
    <3>6. \A q \in Replica : Covered(q)' => OwnsGate(q)'
      BY <3>2, <3>3, <3>4, <3>5 DEF Covered, OwnsGate, TypeOK
    <3>7. \A q \in Replica :
            phase'[q] = "cleaning" => Clock(q)' <= since'[q] + GCTimeout + StopLag
      BY <3>4 DEF GateInv, TypeOK
    <3>8. \A q \in Replica \ {r} :
            phase'[q] \in {"acking", "cleaning"} => sequence'[q] <= gate.seq
      BY <3>4 DEF GateInv, TypeOK
    <3>9. \A q \in Replica :
            phase'[q] \in {"acking", "cleaning"} => sequence'[q] <= gate'.seq
      BY <3>4, <3>5, <3>8 DEF TypeOK
    <3>10. SequenceNamesOneCycle'
      BY <3>4, <3>8 DEF GateInv, SequenceNamesOneCycle, TypeOK
    <3>11. QED
      BY <3>6, <3>7, <3>9, <3>10 DEF GateInv
  <2>5. CASE ActivateAnswerLost(r)
    <3>1. PICK now \in since[r] .. Clock(r) : UpsertActive(r, now)
      BY <2>5 DEF ActivateAnswerLost
    <3>2. now \in Nat /\ now <= Clock(r)
      BY <3>1 DEF TypeOK
    <3>3. \A q \in Replica : Covered(q) => q = r
      BY <3>1, <3>2, UpsertActiveTakesFreeGate
    <3>4. /\ UNCHANGED <<time, exec>>
          /\ since' = [since EXCEPT ![r] = 0]
          /\ sequence' = [sequence EXCEPT ![r] = 0]
          /\ phase' = [phase EXCEPT ![r] = "idle"]
          /\ gate'.seq = gate.seq + 1
      BY <2>5, <3>1 DEF ActivateAnswerLost, UpsertActive
    <3>5. \A q \in Replica : ~ Covered(q)'
      BY <3>3, <3>4 DEF Covered, TypeOK
    <3>6. QED
      BY <3>4, <3>5 DEF GateInv, SequenceNamesOneCycle, TypeOK
  <2>6. CASE BeginCleanup(r)
    <3>1. /\ phase[r] = "acking" /\ phase' = [phase EXCEPT ![r] = "cleaning"]
          /\ Clock(r) <= since[r] + GCTimeout + StopLag
          /\ UNCHANGED <<time, gate, exec, since, sequence>>
      BY <2>6 DEF BeginCleanup, InTime, TypeOK
    <3>2. \A q \in Replica : Covered(q)' => Covered(q)
      BY <3>1 DEF Covered, TypeOK
    <3>3. QED
      BY <3>1, <3>2 DEF GateInv, OwnsGate, SequenceNamesOneCycle, TypeOK
  <2>7. CASE StopCycle(r)
    BY <2>7, <2>0 DEF StopCycle, TypeOK
  <2>8. CASE Release(r)
    <3>1. PICK now \in since[r] .. Clock(r) : UpsertInactive(r, now)
      BY <2>8 DEF Release
    <3>3. /\ UNCHANGED <<time, exec>>
          /\ since' = [since EXCEPT ![r] = 0]
          /\ sequence' = [sequence EXCEPT ![r] = 0]
          /\ phase[r] = "releasing" /\ phase' = [phase EXCEPT ![r] = "idle"]
      BY <2>8 DEF Release
    <3>4. \A q \in Replica : Covered(q) => gate' = gate
      BY <2>8, ReleaseKeepsCoveredGate
    <3>5. \A q \in Replica : Covered(q)' => Covered(q)
      BY <3>3 DEF Covered, TypeOK
    <3>6. gate'.seq = gate.seq
      BY <3>1 DEF UpsertInactive, TypeOK
    <3>7. \A q \in Replica : Covered(q)' => OwnsGate(q)'
      BY <3>3, <3>4, <3>5 DEF GateInv, OwnsGate, Covered, TypeOK
    <3>8. QED
      BY <3>3, <3>6, <3>7 DEF GateInv, SequenceNamesOneCycle, TypeOK
  <2>9. CASE AbandonCycle(r)
    BY <2>9, <2>0 DEF AbandonCycle, TypeOK
  <2>10. QED
    BY <1>2, <2>1, <2>2, <2>3, <2>4, <2>5, <2>6, <2>7, <2>8, <2>9 DEF Step
<1>3. CASE UNCHANGED vars
  BY <1>3 DEF vars, GateInv, Covered, OwnsGate, SequenceNamesOneCycle
<1>4. QED
  BY <1>1, <1>2, <1>3 DEF Next

LEMMA GateInvCorrect == Spec => [](TypeOK /\ GateInv)
<1>1. TypeOK /\ TypeOK' /\ GateInv /\ [Next]_vars => GateInv'
  BY GateInvStep
<1>2. QED
  BY <1>1, GateInvInit, TypeCorrect, PTL DEF Spec

(***************************************************************************)
(* The gate covers every cleanup: it belongs to the cleaning replica, was  *)
(* activated by its current cycle, and has not expired on any clock.       *)
(***************************************************************************)
THEOREM GateCovers == Spec => []GateCoversCleanup
<1>1. TypeOK /\ GateInv => GateCoversCleanup
  <2> SUFFICES ASSUME TypeOK, GateInv, NEW r \in cleaners
               PROVE  /\ gate.holder = r /\ gate.seq = sequence[r]
                      /\ \A q \in Replica : GateActive(Clock(q))
    BY DEF GateCoversCleanup
  <2>1. r \in Replica /\ Covered(r)
    BY DEF cleaners, GateInv, Covered
  <2>2. OwnsGate(r)
    BY <2>1 DEF GateInv
  <2>3. \A q \in Replica : Clock(q) \in Nat /\ Clock(q) <= Clock(q)
    BY DEF Clock, TypeOK
  <2>4. QED
    BY <2>1, <2>2, <2>3, CoveredGateIsHeld DEF OwnsGate
<1>2. QED
  BY <1>1, GateInvCorrect, PTL

(***************************************************************************)
(* Acknowledgements are matched by sequence: no two waiting or cleaning    *)
(* cycles ever share one.                                                  *)
(***************************************************************************)
THEOREM SequencesDistinct == Spec => []SequenceNamesOneCycle
<1>1. GateInv => SequenceNamesOneCycle
  BY DEF GateInv
<1>2. QED
  BY <1>1, GateInvCorrect, PTL

(***************************************************************************)
(* The detailed cycle implements ExclusiveCleanup: a cleanup begins only   *)
(* when no replica is cleaning.                                            *)
(***************************************************************************)
THEOREM ImplementsExclusiveCleanup == Spec => ExclusiveSpec
<1>1. Init => Exclusive!Init
  BY DEF Init, Exclusive!Init, cleaners
<1>2. ASSUME TypeOK, GateInv, GateInv', [Next]_vars
      PROVE  [Exclusive!Next]_cleaners
  <2>1. \A r, q \in cleaners : r = q
    BY <1>2 DEF GateInv, Covered, OwnsGate, cleaners
  <2>0. \A r, q \in cleaners' : r = q
    BY <1>2 DEF GateInv, Covered, OwnsGate, cleaners
  <2>2. CASE UNCHANGED phase
    BY <2>2 DEF cleaners
  <2>3. ASSUME NEW r \in Replica, NEW p, phase' = [phase EXCEPT ![r] = p]
        PROVE  [Exclusive!Next]_cleaners
    <3>1. \A q \in Replica \ {r} : q \in cleaners' <=> q \in cleaners
      BY <1>2, <2>3 DEF cleaners, TypeOK
    <3>2. CASE r \in cleaners /\ r \notin cleaners'
      <4>1. cleaners = {r} /\ cleaners' = {}
        BY <2>1, <3>1, <3>2 DEF cleaners
      <4>2. QED
        BY <4>1 DEF Exclusive!Next, Exclusive!End
    <3>3. CASE r \notin cleaners /\ r \in cleaners'
      <4>1. cleaners = {} /\ cleaners' = {r}
        BY <2>0, <3>1, <3>3 DEF cleaners
      <4>2. QED
        BY <4>1 DEF Exclusive!Next, Exclusive!Begin
    <3>4. CASE r \in cleaners <=> r \in cleaners'
      BY <3>1, <3>4 DEF cleaners
    <3>5. QED
      BY <3>2, <3>3, <3>4
  <2>4. QED
    BY <1>2, <2>2, <2>3 DEF Next, Step, Tick, HoldIdle, StartCycle, RenewExecutor,
       Activate, ActivateAnswerLost, BeginCleanup, StopCycle, Release,
       AbandonCycle, Become, Return, vars
<1>3. QED
  BY <1>1, <1>2, GateInvCorrect, PTL DEF Spec, ExclusiveSpec, Exclusive!Spec

-----------------------------------------------------------------------------
USE PodAssumption

(***************************************************************************)
(* Every step of the fence is a step of MaintenanceGate or leaves its      *)
(* variables alone; deleting a pod looks like a crash.                     *)
(***************************************************************************)
LEMMA FenceStepIsGateStep == FenceNext => [Next]_vars
<1> SUFFICES ASSUME FenceNext PROVE [Next]_vars
  OBVIOUS
<1>1. CASE Tick
  BY <1>1 DEF Next
<1>2. ASSUME NEW r \in Replica, FenceStep(r)
      PROVE  [Next]_vars
  <2>1. CASE GateStep(r)
    BY <2>1 DEF GateStep, ActivateAndMirror, BeginAckedCleanup, ReleaseAndMirror,
                AbandonAndForget, Next, Step
  <2>2. CASE \/ SyncGateFile(r) \/ SyncAckLease(r) \/ PodStarts(r)
             \/ \E c \in Component : ObserveGateFile(r, c)
    BY <2>2 DEF SyncGateFile, SyncAckLease, PodStarts, ObserveGateFile
  <2>3. CASE PodStops(r)
    BY <2>3 DEF PodStops, Next, Step
  <2>4. QED
    BY <1>2, <2>1, <2>2, <2>3 DEF FenceStep
<1>3. QED
  BY <1>1, <1>2 DEF FenceNext

LEMMA FenceIsGate == FenceSpec => Spec
<1>1. FenceInit => Init
  BY DEF FenceInit
<1>2. [FenceNext]_allVars => [Next]_vars
  BY FenceStepIsGateStep DEF allVars, vars
<1>3. QED
  BY <1>1, <1>2, PTL DEF FenceSpec, Spec

LEMMA FenceGateInv == FenceSpec => [](TypeOK /\ GateInv)
BY FenceIsGate, GateInvCorrect, PTL

(***************************************************************************)
(* Pods, files and ack Leases keep their types.                            *)
(***************************************************************************)
THEOREM FenceTypeCorrect == FenceSpec => []FenceTypeOK
<1> DEFINE FileOK == file \in [Replica -> [seq : Nat, expires : Nat]]
           AckFileOK == ackFile \in [Replica -> [Component -> [seq : Nat, expires : Nat]]]
           AckLeaseOK == ackLease \in [Replica -> [held : BOOLEAN, seq : Nat, renew : Nat]]
           QuorumOK == quorum \in [Replica -> SUBSET Replica]
           PodOK == pod \in [Replica -> {"new", "up", "gone"}]
<1>1. FenceInit /\ TypeOK => FenceTypeOK
  BY DEF FenceInit, FenceTypeOK, NoFile, NoAcks, NoAck
<1>2. ASSUME FenceTypeOK, TypeOK', [FenceNext]_allVars
      PROVE  FenceTypeOK'
  <2> USE <1>2 DEF FenceTypeOK
  <2>0. \A r \in Replica : Clock(r) \in Nat
    BY DEF TypeOK, Clock
  <2>1. \A g, now : g \in [holder : Replica \cup {NoHolder}, renew : Nat, seq : Nat]
          => Mirrored(g, now) \in [seq : Nat, expires : Nat]
    BY DEF Mirrored, NoFile
  <2>2. gate \in [holder : Replica \cup {NoHolder}, renew : Nat, seq : Nat]
    BY DEF TypeOK
  <2>3. gate' \in [holder : Replica \cup {NoHolder}, renew : Nat, seq : Nat]
    BY DEF TypeOK
  <2>4. CASE UNCHANGED fenceVars
    BY <2>4 DEF fenceVars
  <2>5. ASSUME NEW r \in Replica, FenceStep(r)
        PROVE  FenceTypeOK'
    <3>1. CASE ActivateAndMirror(r)
      BY <3>1, <2>1, <2>3 DEF ActivateAndMirror, MirrorFile
    <3>2. CASE BeginAckedCleanup(r)
      BY <3>2 DEF BeginAckedCleanup, Ackers
    <3>3. CASE ReleaseAndMirror(r)
      <4>1. Mirrored(gate', Clock(r)) \in [seq : Nat, expires : Nat]
        BY <2>1, <2>3
      <4>2. FileOK'
        BY <3>3, <4>1 DEF ReleaseAndMirror, MirrorFile
      <4>3. QED
        BY <3>3, <4>2 DEF ReleaseAndMirror
    <3>4. CASE AbandonAndForget(r)
      BY <3>4 DEF AbandonAndForget
    <3>5. CASE SyncGateFile(r)
      BY <3>5, <2>1, <2>2 DEF SyncGateFile, MirrorFile
    <3>6. ASSUME NEW c \in Component, ObserveGateFile(r, c)
          PROVE  FenceTypeOK'
      <4> DEFINE v == IF Blocked(r) THEN file[r] ELSE NoFile
      <4>1. v \in [seq : Nat, expires : Nat]
        BY DEF NoFile
      <4>2. ackFile' = [ackFile EXCEPT ![r] = [ackFile[r] EXCEPT ![c] = v]]
        BY <3>6 DEF ObserveGateFile
      <4>3. [ackFile[r] EXCEPT ![c] = v] \in [Component -> [seq : Nat, expires : Nat]]
        BY <4>1
      <4> HIDE DEF v
      <4>4. AckFileOK'
        BY <4>2, <4>3
      <4>5. QED
        BY <3>6, <4>4 DEF ObserveGateFile
    <3>7. CASE SyncAckLease(r)
      BY <3>7, <2>0 DEF SyncAckLease, NoAck
    <3>8. CASE PodStops(r)
      BY <3>8 DEF PodStops, NoFile, NoAcks
    <3>9. CASE PodStarts(r)
      BY <3>9 DEF PodStarts
    <3>10. QED
      BY <2>4, <2>5, <3>1, <3>2, <3>3, <3>4, <3>5, <3>6, <3>7, <3>8, <3>9
         DEF FenceStep, GateStep
  <2>6. QED
    BY <2>4, <2>5 DEF FenceNext, allVars
<1>3. QED
  BY <1>1, <1>2, FenceGateInv, PTL DEF FenceSpec

-----------------------------------------------------------------------------
(***************************************************************************)
(* The file a mirror writes for the current activation.                    *)
(***************************************************************************)
FileOfGate == [seq |-> gate.seq, expires |-> gate.renew + GateDuration]

Fenced(q) == pod[q] = "up" => file[q] = FileOfGate

(***************************************************************************)
(* The strengthening.  Files and acks never run ahead of the gate; a file  *)
(* that carries the gate's sequence carries its expiry; and while a cycle  *)
(* is covered, every pod that acknowledged its sequence still has exactly  *)
(* the gate's file, because its mirror cannot read anything else.          *)
(***************************************************************************)
NeverAhead ==
    \A q \in Replica :
        /\ file[q].seq <= gate.seq
        /\ ackLease[q].held => ackLease[q].seq <= gate.seq

FileMatchesGate ==
    /\ gate.holder # NoHolder => gate.seq > 0
    /\ gate.holder # NoHolder =>
        \A q \in Replica : file[q].seq = gate.seq => file[q] = FileOfGate

AckedIsFenced ==
    \A r, q \in Replica :
        Covered(r) /\ ackLease[q].held /\ ackLease[q].seq = gate.seq => Fenced(q)

QuorumIsFenced ==
    \A r \in cleaners : \A q \in quorum[r] : pod[q] # "new" /\ Fenced(q)

NewPodsNeverAcked == \A q \in Replica : pod[q] = "new" => ~ ackLease[q].held

FenceInv ==
    NeverAhead /\ FileMatchesGate /\ AckedIsFenced /\ QuorumIsFenced /\ NewPodsNeverAcked

LEMMA FenceInvInit == FenceInit => FenceInv
BY DEF FenceInit, Init, FenceInv, NeverAhead, FileMatchesGate, AckedIsFenced,
       QuorumIsFenced, NewPodsNeverAcked, cleaners, Covered, NoFile, NoAck

(***************************************************************************)
(* A step that leaves gate, files, acks and pods alone and covers no       *)
(* further cycle.                                                          *)
(***************************************************************************)
LEMMA FenceInvQuiet ==
    ASSUME FenceInv, UNCHANGED <<gate, pod, file, ackLease>>,
           \A r \in Replica : Covered(r)' => Covered(r),
           \A r \in cleaners' : r \in cleaners /\ quorum'[r] = quorum[r]
    PROVE  FenceInv'
BY DEF FenceInv, NeverAhead, FileMatchesGate, AckedIsFenced, QuorumIsFenced,
       NewPodsNeverAcked, Fenced, FileOfGate, cleaners

(***************************************************************************)
(* A new activation: no other cycle is covered, and nobody has its         *)
(* sequence yet.                                                           *)
(***************************************************************************)
LEMMA FenceInvActivate ==
    ASSUME FenceTypeOK, GateInv, FenceInv, NEW r \in Replica,
           Activate(r) \/ ActivateAnswerLost(r),
           UNCHANGED <<pod, ackLease, quorum>>,
           \A q \in Replica : file'[q] = file[q] \/ file'[q] = Mirrored(gate', Clock(q))
    PROVE  FenceInv'
<1> USE DEF FenceTypeOK, TypeOK, Become, Return
<1>1. PICK now \in since[r] .. Clock(r) : UpsertActive(r, now)
  BY DEF Activate, ActivateAnswerLost
<1>2. now \in Nat /\ now <= Clock(r)
  BY <1>1 DEF Clock
<1>3. \A q \in Replica : Covered(q) => q = r
  BY <1>1, <1>2, UpsertActiveTakesFreeGate
<1>4. gate' = [holder |-> r, renew |-> now, seq |-> gate.seq + 1]
  BY <1>1 DEF UpsertActive
<1>5. phase[r] = "activating" /\ phase'[r] # "cleaning"
      /\ \A q \in Replica \ {r} : phase'[q] = phase[q]
  BY DEF Activate, ActivateAnswerLost
<1>6. cleaners' = {}
  <2>1. \A q \in cleaners : Covered(q)
    BY DEF cleaners, GateInv, Covered
  <2>2. QED
    BY ZenonT(60), <1>3, <1>5, <2>1 DEF cleaners
<1>7. \A q \in Replica : file'[q] = file[q] \/ file'[q] = FileOfGate' \/ file'[q] = NoFile
  BY DEF Mirrored, FileOfGate
<1>8. NeverAhead'
  <2>1. \A q \in Replica : file[q].seq \in Nat /\ file[q].seq <= gate.seq
    BY DEF FenceInv, NeverAhead
  <2>2. gate'.seq = gate.seq + 1 /\ gate.seq \in Nat
    BY <1>4
  <2>3. ASSUME NEW q \in Replica
        PROVE  file'[q].seq <= gate'.seq
    <3>1. CASE file'[q] = file[q]
      BY <2>1, <2>2, <3>1
    <3>2. CASE file'[q] = FileOfGate'
      BY <2>2, <3>2 DEF FileOfGate
    <3>3. CASE file'[q] = NoFile
      BY <2>2, <3>3 DEF NoFile
    <3>4. QED
      BY <1>7, <3>1, <3>2, <3>3
  <2>4. \A q \in Replica : ackLease[q].held => ackLease[q].seq <= gate'.seq
    BY <1>4 DEF FenceInv, NeverAhead
  <2>5. QED
    BY <2>3, <2>4 DEF NeverAhead
<1>9. FileMatchesGate'
  <2>1. gate'.seq > 0
    BY <1>4
  <2>2. ASSUME NEW q \in Replica, file'[q].seq = gate'.seq
        PROVE  file'[q] = FileOfGate'
    <3>1. file'[q] # file[q]
      BY <1>4, <2>2 DEF FenceInv, NeverAhead
    <3>2. file'[q] # NoFile
      BY <2>1, <2>2 DEF NoFile
    <3>3. QED
      BY <1>7, <3>1, <3>2
  <2>3. QED
    BY <2>1, <2>2 DEF FileMatchesGate
<1>10. AckedIsFenced'
  BY <1>4 DEF FenceInv, NeverAhead, AckedIsFenced
<1>11. QED
  BY <1>6, <1>8, <1>9, <1>10 DEF FenceInv, QuorumIsFenced, NewPodsNeverAcked

(***************************************************************************)
(* Mirroring an unchanged gate: as long as some cycle is covered, the      *)
(* mirror of any pod writes the gate's file.                               *)
(***************************************************************************)
LEMMA MirrorOfCoveredGate ==
    ASSUME TypeOK, GateInv, NEW r \in Replica, Covered(r), NEW q \in Replica
    PROVE  Mirrored(gate, Clock(q)) = FileOfGate
<1>1. Clock(q) \in Nat /\ Clock(q) <= Clock(q)
  BY DEF TypeOK, Clock
<1>2. GateActive(Clock(q))
  BY <1>1, CoveredGateIsHeld
<1>3. QED
  BY <1>2 DEF GateActive, Mirrored, FileOfGate

LEMMA FenceInvMirror ==
    ASSUME FenceTypeOK, GateInv, FenceInv, NEW q \in Replica,
           UNCHANGED <<gate, pod, ackLease>>,
           \A p \in Replica \ {q} : file'[p] = file[p],
           file'[q] = file[q] \/ file'[q] = Mirrored(gate, Clock(q)),
           \A r \in Replica : Covered(r)' => Covered(r),
           \A r \in cleaners' : r \in cleaners /\ quorum'[r] = quorum[r]
    PROVE  FenceInv'
<1> USE DEF FenceTypeOK
<1>1. file'[q] = file[q] \/ file'[q] = FileOfGate \/ file'[q] = NoFile
  BY DEF Mirrored, FileOfGate
<1>2. \A r \in Replica : Covered(r) => file'[q] = file[q] \/ file'[q] = FileOfGate
  BY MirrorOfCoveredGate
<1>3. \A r \in cleaners : Covered(r)
  BY DEF cleaners, GateInv, Covered
<1>4. \A r, p \in Replica : Covered(r) /\ Fenced(p) => Fenced(p)'
  BY <1>2 DEF Fenced, FileOfGate
<1>5. NeverAhead'
  <2>1. file'[q].seq \in {file[q].seq, gate.seq, 0}
    BY <1>1 DEF FileOfGate, NoFile
  <2>2. file[q].seq <= gate.seq /\ gate.seq \in Nat
    BY DEF FenceInv, NeverAhead, TypeOK
  <2>3. file'[q].seq <= gate.seq
    BY <2>1, <2>2
  <2>4. QED
    BY <2>3 DEF FenceInv, NeverAhead
<1>6. FileMatchesGate'
  <2>1. gate.holder # NoHolder => gate.seq > 0
    BY DEF FenceInv, FileMatchesGate
  <2>2. ASSUME gate.holder # NoHolder, NEW p \in Replica, file'[p].seq = gate.seq
        PROVE  file'[p] = FileOfGate
    <3>1. file[p].seq = gate.seq => file[p] = FileOfGate
      BY <2>2 DEF FenceInv, FileMatchesGate
    <3>2. file'[p] # NoFile
      BY <2>1, <2>2 DEF NoFile, TypeOK
    <3>3. QED
      BY <1>1, <2>2, <3>1, <3>2
  <2>3. QED
    BY <2>1, <2>2 DEF FileMatchesGate, FileOfGate
<1>7. AckedIsFenced'
  BY <1>4 DEF FenceInv, AckedIsFenced
<1>8. QuorumIsFenced'
  <2>1. \A r \in cleaners' : \A p \in quorum'[r] : pod[p] # "new" /\ Fenced(p)
    BY DEF FenceInv, QuorumIsFenced
  <2>2. \A r \in cleaners' : r \in Replica /\ Covered(r)
    BY <1>3 DEF cleaners
  <2>3. \A r \in cleaners' : \A p \in quorum'[r] : p \in Replica
    BY DEF cleaners
  <2>4. QED
    BY <1>4, <2>1, <2>2, <2>3 DEF QuorumIsFenced
<1>9. QED
  BY <1>5, <1>6, <1>7, <1>8 DEF FenceInv, NewPodsNeverAcked

LEMMA FenceInvStep ==
    ASSUME FenceTypeOK, GateInv, FenceInv, [FenceNext]_allVars
    PROVE  FenceInv'
<1> USE DEF FenceTypeOK, Become, Return
<1>1. CASE UNCHANGED allVars
  <2>1. UNCHANGED <<time, gate, exec, phase, since, sequence, pod, file, ackFile, ackLease, quorum>>
    BY <1>1 DEF allVars, vars, fenceVars
  <2>2. QED
    BY <2>1, FenceInvQuiet DEF Covered, Clock, cleaners
<1>2. CASE Tick /\ UNCHANGED fenceVars
  <2>1. /\ UNCHANGED <<gate, phase, since, pod, file, ackLease, quorum>>
        /\ time' = time + 1
    BY <1>2 DEF Tick, fenceVars, leases
  <2>2. \A r \in Replica : Covered(r)' => Covered(r)
    BY <2>1 DEF Covered, Clock, TypeOK
  <2>3. QED
    BY <2>1, <2>2, FenceInvQuiet DEF cleaners
<1>3. ASSUME NEW r \in Replica, FenceStep(r)
      PROVE  FenceInv'
  <2>1. CASE ActivateAndMirror(r)
    <3>1. \A q \in Replica : file'[q] = file[q] \/ file'[q] = Mirrored(gate', Clock(q))
      BY <2>1 DEF ActivateAndMirror, MirrorFile
    <3>2. QED
      BY <2>1, <3>1, FenceInvActivate DEF ActivateAndMirror
  <2>2. CASE ActivateAnswerLost(r) /\ UNCHANGED fenceVars
    BY <2>2, FenceInvActivate DEF fenceVars
  <2>3. CASE /\ HoldIdle(r) \/ StartCycle(r) \/ RenewExecutor(r) \/ StopCycle(r)
             /\ UNCHANGED fenceVars
    <3>1. /\ UNCHANGED <<time, gate, pod, file, ackLease, quorum>>
          /\ \A q \in Replica : q # r => phase'[q] = phase[q] /\ since'[q] = since[q]
          /\ \/ phase' = phase /\ since' = since
             \/ phase'[r] \in {"activating", "releasing"}
      BY <2>3 DEF HoldIdle, StartCycle, RenewExecutor, StopCycle, fenceVars, leases, TypeOK
    <3>2. \A q \in Replica : Covered(q)' => Covered(q)
      BY <3>1 DEF Covered, Clock
    <3>3. cleaners' \subseteq cleaners
      BY <3>1 DEF cleaners
    <3>4. QED
      BY <3>1, <3>2, <3>3, FenceInvQuiet
  <2>4. CASE BeginAckedCleanup(r)
    <3>1. /\ UNCHANGED <<time, gate, since, pod, file, ackLease>>
          /\ phase[r] = "acking" /\ phase' = [phase EXCEPT ![r] = "cleaning"]
          /\ quorum' = [quorum EXCEPT ![r] = Ackers(r)]
          /\ Covered(r)
      BY <2>4 DEF BeginAckedCleanup, BeginCleanup, InTime, Covered, leases, TypeOK, Clock
    <3>2. \A q \in Replica : Covered(q)' => Covered(q)
      BY <3>1 DEF Covered, Clock, TypeOK
    <3>3. sequence[r] = gate.seq
      BY <3>1 DEF GateInv, OwnsGate
    <3>4. \A q \in Ackers(r) : pod[q] # "new" /\ Fenced(q)
      BY <3>1, <3>3 DEF Ackers, AckActive, FenceInv, AckedIsFenced, NewPodsNeverAcked
    <3>5. QuorumIsFenced'
      BY <3>1, <3>4 DEF FenceInv, QuorumIsFenced, cleaners, TypeOK, Fenced, FileOfGate
    <3>6. QED
      BY <3>1, <3>2, <3>5 DEF FenceInv, NeverAhead, FileMatchesGate, AckedIsFenced,
         NewPodsNeverAcked, Fenced, FileOfGate
  <2>5. CASE ReleaseAndMirror(r)
    <3>1. /\ UNCHANGED <<time, pod, ackLease>>
          /\ phase[r] = "releasing" /\ phase' = [phase EXCEPT ![r] = "idle"]
          /\ since' = [since EXCEPT ![r] = 0]
          /\ quorum' = [quorum EXCEPT ![r] = {}]
          /\ \A p \in Replica \ {r} : file'[p] = file[p]
          /\ file'[r] = file[r] \/ file'[r] = Mirrored(gate', Clock(r))
      BY <2>5 DEF ReleaseAndMirror, Release, MirrorFile
    <3>2. \A q \in Replica : Covered(q)' => Covered(q)
      BY <3>1 DEF Covered, Clock, TypeOK
    <3>3. \A q \in cleaners' : q \in cleaners /\ quorum'[q] = quorum[q]
      BY <3>1 DEF cleaners, TypeOK
    <3>4. CASE gate' = gate
      BY <3>1, <3>2, <3>3, <3>4, FenceInvMirror
    <3>5. CASE gate' # gate
      <4>1. \A q \in Replica : ~ Covered(q)
        BY <2>5, <3>5, ReleaseKeepsCoveredGate DEF ReleaseAndMirror
      <4>2. PICK now \in since[r] .. Clock(r) : UpsertInactive(r, now)
        BY <2>5 DEF ReleaseAndMirror, Release
      <4>3. gate' = [holder |-> NoHolder, renew |-> now, seq |-> gate.seq]
        BY <3>5, <4>2 DEF UpsertInactive
      <4>4. file'[r] = file[r] \/ file'[r] = NoFile
        BY <3>1, <4>3 DEF Mirrored
      <4>5. NeverAhead'
        BY <3>1, <4>3, <4>4 DEF FenceInv, NeverAhead, NoFile, TypeOK
      <4>6. FileMatchesGate'
        BY <4>3 DEF FileMatchesGate
      <4>7. cleaners' = {}
        BY <3>3, <4>1 DEF cleaners, GateInv, Covered
      <4>8. QED
        BY <3>1, <3>2, <4>1, <4>5, <4>6, <4>7
           DEF FenceInv, AckedIsFenced, QuorumIsFenced, NewPodsNeverAcked
    <3>6. QED
      BY <3>4, <3>5
  <2>6. CASE AbandonAndForget(r)
    <3>1. /\ UNCHANGED <<time, gate, pod, file, ackLease>>
          /\ phase' = [phase EXCEPT ![r] = "idle"]
          /\ since' = [since EXCEPT ![r] = 0]
          /\ quorum' = [quorum EXCEPT ![r] = {}]
      BY <2>6 DEF AbandonAndForget, AbandonCycle, leases
    <3>2. \A q \in Replica : Covered(q)' => Covered(q)
      BY <3>1 DEF Covered, Clock, TypeOK
    <3>3. \A q \in cleaners' : q \in cleaners /\ quorum'[q] = quorum[q]
      BY <3>1 DEF cleaners, TypeOK
    <3>4. QED
      BY <3>1, <3>2, <3>3, FenceInvQuiet
  <2>7. CASE SyncGateFile(r)
    <3>1. /\ UNCHANGED <<time, gate, phase, since, pod, ackLease, quorum>>
          /\ \A p \in Replica \ {r} : file'[p] = file[p]
          /\ file'[r] = Mirrored(gate, Clock(r))
      BY <2>7 DEF SyncGateFile, MirrorFile, vars
    <3>2. QED
      BY <3>1, FenceInvMirror DEF Covered, Clock, cleaners
  <2>8. CASE (\E c \in Component : ObserveGateFile(r, c))
    <3>1. UNCHANGED <<time, gate, phase, since, pod, file, ackLease, quorum>>
      BY <2>8 DEF ObserveGateFile, vars
    <3>2. QED
      BY <3>1, FenceInvQuiet DEF Covered, Clock, cleaners
  <2>9. CASE pod[r] = "up" /\ SyncAckLease(r)
    <3>1. /\ UNCHANGED <<time, gate, phase, since, pod, file, quorum>>
          /\ \A q \in Replica \ {r} : ackLease'[q] = ackLease[q]
          /\ ackLease'[r].held => ackLease'[r].seq = file[r].seq
      BY <2>9 DEF SyncAckLease, vars, NoAck
    <3>2. \A q \in Replica : Covered(q)' <=> Covered(q)
      BY <3>1 DEF Covered, Clock
    <3>3. NeverAhead'
      BY <3>1 DEF FenceInv, NeverAhead
    <3>4. AckedIsFenced'
      <4>1. ASSUME NEW q \in Replica, Covered(q), ackLease'[r].held,
                   ackLease'[r].seq = gate.seq
            PROVE  file[r] = FileOfGate
        <5>1. gate.holder # NoHolder
          BY <4>1 DEF GateInv, OwnsGate
        <5>2. QED
          BY <3>1, <4>1, <5>1 DEF FenceInv, FileMatchesGate
      <4>2. QED
        BY <3>1, <3>2, <4>1 DEF FenceInv, AckedIsFenced, Fenced, FileOfGate
    <3>5. QED
      BY ZenonT(60), <2>9, <3>1, <3>3, <3>4 DEF FenceInv, FileMatchesGate, FileOfGate,
         QuorumIsFenced, NewPodsNeverAcked, Fenced, cleaners
  <2>10. CASE PodStops(r)
    <3>1. /\ UNCHANGED <<time, gate, ackLease>>
          /\ pod' = [pod EXCEPT ![r] = "gone"]
          /\ file' = [file EXCEPT ![r] = NoFile]
          /\ quorum' = [quorum EXCEPT ![r] = {}]
          /\ \A q \in Replica : q # r => phase'[q] = phase[q] /\ since'[q] = since[q]
          /\ phase'[r] = "idle"
      BY <2>10 DEF PodStops, AbandonCycle, vars, leases, TypeOK
    <3>2. \A q \in Replica : Covered(q)' => Covered(q)
      BY <3>1 DEF Covered, Clock
    <3>3. \A q \in cleaners' : q \in cleaners /\ quorum'[q] = quorum[q]
      BY <3>1 DEF cleaners
    <3>4. \A q \in Replica : pod[q] # "new" => pod'[q] # "new"
      BY <3>1
    <3>5. \A q \in Replica : Fenced(q) => Fenced(q)'
      BY <3>1 DEF Fenced, FileOfGate
    <3>6. NeverAhead' 
      BY <3>1 DEF FenceInv, NeverAhead, NoFile, TypeOK
    <3>7. FileMatchesGate'
      BY <3>1 DEF FenceInv, FileMatchesGate, FileOfGate, NoFile, TypeOK
    <3>8. AckedIsFenced'
      BY <3>1, <3>2, <3>5 DEF FenceInv, AckedIsFenced
    <3>9. QuorumIsFenced'
      BY <3>3, <3>4, <3>5 DEF FenceInv, QuorumIsFenced, cleaners
    <3>10. QED
      BY <3>1, <3>6, <3>7, <3>8, <3>9 DEF FenceInv, NewPodsNeverAcked
  <2>11. CASE PodStarts(r)
    <3>1. /\ UNCHANGED <<time, gate, phase, since, file, ackLease, quorum>>
          /\ pod[r] = "new" /\ pod' = [pod EXCEPT ![r] = "up"]
      BY <2>11 DEF PodStarts, vars
    <3>2. \A q \in Replica : Covered(q)' <=> Covered(q)
      BY <3>1 DEF Covered, Clock
    <3>3. \A q \in Replica : pod[q] # "new" /\ Fenced(q) => pod'[q] # "new" /\ Fenced(q)'
      BY <3>1 DEF Fenced, FileOfGate
    <3>4. \A q \in Replica : ackLease[q].held => pod[q] # "new"
      BY DEF FenceInv, NewPodsNeverAcked
    <3>5. AckedIsFenced'
      BY <3>1, <3>2, <3>3, <3>4 DEF FenceInv, AckedIsFenced
    <3>6. QuorumIsFenced'
      BY <3>1, <3>3 DEF FenceInv, QuorumIsFenced, cleaners
    <3>7. QED
      BY <3>1, <3>5, <3>6 DEF FenceInv, NeverAhead, FileMatchesGate, FileOfGate,
         NewPodsNeverAcked
  <2>12. QED
    BY <1>3, <2>1, <2>2, <2>3, <2>4, <2>5, <2>6, <2>7, <2>8, <2>9, <2>10, <2>11
       DEF FenceStep, GateStep
<1>4. QED
  BY <1>1, <1>2, <1>3 DEF FenceNext

LEMMA FenceInvCorrect == FenceSpec => [](FenceTypeOK /\ GateInv /\ FenceInv)
<1>1. FenceTypeOK /\ GateInv /\ FenceInv /\ [FenceNext]_allVars => FenceInv'
  BY FenceInvStep
<1>2. QED
  BY <1>1, FenceInvInit, FenceTypeCorrect, FenceGateInv, PTL DEF FenceSpec

(***************************************************************************)
(* Every pod counted in the quorum of a running cleanup refuses writes.    *)
(***************************************************************************)
THEOREM AckersStayReadOnly == FenceSpec => []AckersReadOnly
<1>1. FenceTypeOK /\ GateInv /\ FenceInv => AckersReadOnly
  <2> SUFFICES ASSUME FenceTypeOK, GateInv, FenceInv, NEW r \in cleaners,
                      NEW q \in quorum[r], pod[q] = "up"
               PROVE  Blocked(q)
    BY DEF AckersReadOnly
  <2>1. r \in Replica /\ Covered(r) /\ q \in Replica
    BY DEF cleaners, GateInv, Covered, FenceTypeOK
  <2>2. file[q] = FileOfGate
    BY DEF FenceInv, QuorumIsFenced, Fenced
  <2>3. Clock(q) \in Nat /\ Clock(q) <= Clock(q)
    BY <2>1 DEF FenceTypeOK, TypeOK, Clock
  <2>4. GateActive(Clock(q))
    BY <2>1, <2>3, CoveredGateIsHeld DEF FenceTypeOK
  <2>5. gate.seq > 0
    BY <2>4 DEF FenceInv, FileMatchesGate, GateActive
  <2>6. QED
    BY <2>2, <2>4, <2>5 DEF Blocked, Unexpired, FileOfGate, GateActive
<1>2. QED
  BY <1>1, FenceInvCorrect, PTL

-----------------------------------------------------------------------------
(***************************************************************************)
(* The count behind the quorum: how many pods are up at a time, and that a *)
(* running cleanup was started on enough acknowledgements.                 *)
(***************************************************************************)
PodsBounded == Cardinality(Up) <= Cardinality(FirstPods) + MaxSurge

QuorumIsCounted == \A r \in cleaners : Cardinality(quorum[r]) >= AckQuorum

LEMMA CountsFinite ==
    ASSUME IsFiniteSet(Replica)
    PROVE  /\ IsFiniteSet(FirstPods) /\ Cardinality(FirstPods) \in Nat
           /\ IsFiniteSet(Up) /\ Cardinality(Up) \in Nat
<1>1. FirstPods \in SUBSET Replica /\ Up \in SUBSET Replica
  BY PodAssumption DEF Up
<1>2. QED
  BY <1>1, FS_Subset, FS_CardinalityType

LEMMA DisjointCounts ==
    ASSUME NEW S, NEW T, IsFiniteSet(S), IsFiniteSet(T), S \cap T = {}
    PROVE  Cardinality(S \cup T) = Cardinality(S) + Cardinality(T)
<1>1. Cardinality(S \cup T) = Cardinality(S) + Cardinality(T) - Cardinality(S \cap T)
  BY FS_Union
<1>2. Cardinality(S \cap T) = 0
  BY FS_EmptySet
<1>3. Cardinality(S) \in Nat /\ Cardinality(T) \in Nat
  BY FS_CardinalityType
<1>4. QED
  BY <1>1, <1>2, <1>3

LEMMA PodsBoundedStep ==
    ASSUME IsFiniteSet(Replica), FenceTypeOK, PodsBounded, [FenceNext]_allVars
    PROVE  PodsBounded'
<1>1. CASE UNCHANGED pod
  BY <1>1 DEF PodsBounded, Up
<1>2. ASSUME NEW r \in Replica, PodStops(r)
      PROVE  PodsBounded'
  <2>1. Up' \in SUBSET Up
    BY <1>2 DEF PodStops, Up, FenceTypeOK
  <2>2. Cardinality(Up') <= Cardinality(Up) /\ IsFiniteSet(Up')
    BY <2>1, CountsFinite, FS_Subset
  <2>3. Cardinality(Up') \in Nat
    BY <2>2, FS_CardinalityType
  <2>4. QED
    BY <2>2, <2>3, CountsFinite, PodAssumption DEF PodsBounded
<1>3. ASSUME NEW r \in Replica, PodStarts(r)
      PROVE  PodsBounded'
  <2>1. Up' = Up \cup {r} /\ r \notin Up
    BY <1>3 DEF PodStarts, Up, FenceTypeOK
  <2>2. Cardinality(Up') = Cardinality(Up) + 1
    BY <2>1, CountsFinite, FS_AddElement
  <2>3. Cardinality(Up) < Cardinality(FirstPods) + MaxSurge
    BY <1>3 DEF PodStarts
  <2>4. QED
    BY <2>2, <2>3, CountsFinite, PodAssumption DEF PodsBounded
<1>4. UNCHANGED pod \/ \E r \in Replica : PodStops(r) \/ PodStarts(r)
  BY DEF FenceNext, FenceStep, GateStep, fenceVars, allVars, SyncGateFile, SyncAckLease,
     ObserveGateFile, ActivateAndMirror, BeginAckedCleanup, ReleaseAndMirror, AbandonAndForget
<1>5. QED
  BY <1>1, <1>2, <1>3, <1>4

(***************************************************************************)
(* Only BeginAckedCleanup makes a cleaner, and nobody touches its quorum   *)
(* while it is one.                                                        *)
(***************************************************************************)
LEMMA QuorumIsCountedStep ==
    ASSUME FenceTypeOK, QuorumIsCounted, [FenceNext]_allVars
    PROVE  QuorumIsCounted'
<1> USE DEF FenceTypeOK, TypeOK, cleaners, Become, Return
<1>1. CASE UNCHANGED <<phase, quorum>>
  BY <1>1 DEF QuorumIsCounted
<1>2. ASSUME NEW r \in Replica, BeginAckedCleanup(r)
      PROVE  QuorumIsCounted'
  BY <1>2 DEF BeginAckedCleanup, BeginCleanup, QuorumIsCounted
<1>3. ASSUME NEW r \in Replica, phase'[r] # "cleaning",
             \A q \in Replica \ {r} : phase'[q] = phase[q] /\ quorum'[q] = quorum[q]
      PROVE  QuorumIsCounted'
  BY <1>3 DEF QuorumIsCounted
<1>4. ASSUME NEW r \in Replica, FenceStep(r)
      PROVE  QuorumIsCounted'
  <2>1. CASE ActivateAndMirror(r)
    BY <1>3, <2>1 DEF ActivateAndMirror, Activate
  <2>2. CASE BeginAckedCleanup(r)
    BY <1>2, <2>2
  <2>3. CASE ReleaseAndMirror(r)
    BY <1>3, <2>3 DEF ReleaseAndMirror, Release
  <2>4. CASE AbandonAndForget(r)
    BY <1>3, <2>4 DEF AbandonAndForget, AbandonCycle
  <2>5. CASE (HoldIdle(r) \/ RenewExecutor(r)) /\ UNCHANGED fenceVars
    BY <1>1, <2>5 DEF HoldIdle, RenewExecutor, fenceVars
  <2>6. CASE (StartCycle(r) \/ ActivateAnswerLost(r) \/ StopCycle(r)) /\ UNCHANGED fenceVars
    BY <1>3, <2>6 DEF StartCycle, ActivateAnswerLost, StopCycle, fenceVars
  <2>7. CASE SyncGateFile(r) \/ SyncAckLease(r) \/ \E c \in Component : ObserveGateFile(r, c)
    BY <1>1, <2>7 DEF SyncGateFile, SyncAckLease, ObserveGateFile, vars
  <2>8. CASE PodStops(r)
    BY <1>3, <2>8 DEF PodStops, AbandonCycle, vars
  <2>9. CASE PodStarts(r)
    BY <1>1, <2>9 DEF PodStarts, vars
  <2>10. QED
    BY <1>4, <2>1, <2>2, <2>3, <2>4, <2>5, <2>6, <2>7, <2>8, <2>9 DEF FenceStep, GateStep
<1>5. CASE Tick /\ UNCHANGED fenceVars
  BY <1>1, <1>5 DEF Tick, fenceVars
<1>6. CASE UNCHANGED allVars
  BY <1>1, <1>6 DEF allVars, vars, fenceVars
<1>7. QED
  BY <1>4, <1>5, <1>6 DEF FenceNext

(***************************************************************************)
(* The counting: a counted pod is gone, or up and read-only, so the pods   *)
(* that are up and write fit into what is left of the pods.                *)
(***************************************************************************)
LEMMA FewWriters ==
    ASSUME IsFiniteSet(Replica), AckQuorum >= Cardinality(FirstPods),
           FenceTypeOK, FenceInv, AckersReadOnly, PodsBounded, QuorumIsCounted
    PROVE  OnlyReplacementsWrite
<1> SUFFICES ASSUME NEW r \in cleaners
             PROVE  Cardinality({q \in Up : ~ Blocked(q)})
                       <= MaxSurge + Cardinality({q \in quorum[r] : pod[q] = "gone"})
  BY DEF OnlyReplacementsWrite
<1> DEFINE Writers == {q \in Up : ~ Blocked(q)}
           Gone == {q \in quorum[r] : pod[q] = "gone"}
           Kept == {q \in quorum[r] : pod[q] = "up"}
<1>1. quorum[r] \in SUBSET Replica
  BY DEF FenceTypeOK, cleaners
<1>2. quorum[r] = Gone \cup Kept /\ Gone \cap Kept = {}
  BY <1>1 DEF FenceTypeOK, FenceInv, QuorumIsFenced
<1>3. Writers \cup Kept \in SUBSET Up /\ Writers \cap Kept = {}
  BY <1>1 DEF AckersReadOnly, Up
<1>4. IsFiniteSet(Writers) /\ IsFiniteSet(Gone) /\ IsFiniteSet(Kept)
  <2>1. Writers \in SUBSET Replica /\ Gone \in SUBSET Replica /\ Kept \in SUBSET Replica
    BY <1>1 DEF Up
  <2>2. QED
    BY <2>1, FS_Subset
<1>5. Cardinality(Writers) \in Nat /\ Cardinality(Gone) \in Nat /\ Cardinality(Kept) \in Nat
  BY <1>4, FS_CardinalityType
<1> HIDE DEF Writers, Gone, Kept
<1>6. Cardinality(quorum[r]) = Cardinality(Gone) + Cardinality(Kept)
  BY <1>2, <1>4, DisjointCounts
<1>7. Cardinality(Writers) + Cardinality(Kept) <= Cardinality(Up)
  <2>1. Cardinality(Writers \cup Kept) = Cardinality(Writers) + Cardinality(Kept)
    BY <1>3, <1>4, DisjointCounts
  <2>2. Cardinality(Writers \cup Kept) <= Cardinality(Up)
    BY <1>3, CountsFinite, FS_Subset
  <2>3. QED
    BY <1>5, <2>1, <2>2
<1>8. Cardinality(quorum[r]) >= Cardinality(FirstPods)
  BY <1>5, <1>6, CountsFinite, PodAssumption DEF QuorumIsCounted
<1>9. Cardinality(Writers) <= MaxSurge + Cardinality(Gone)
  BY <1>5, <1>6, <1>7, <1>8, CountsFinite, PodAssumption DEF PodsBounded
<1>10. QED
  BY <1>9 DEF Writers, Gone

(***************************************************************************)
(* With a quorum of all pods, beside a running cleanup writes are taken by *)
(* at most MaxSurge pods and one for each counted pod that is gone.        *)
(***************************************************************************)
THEOREM OnlyReplacementsTakeWrites ==
    ASSUME IsFiniteSet(Replica), AckQuorum >= Cardinality(FirstPods)
    PROVE  FenceSpec => []OnlyReplacementsWrite
<1>1. FenceInit => PodsBounded /\ QuorumIsCounted
  <2> SUFFICES ASSUME FenceInit
               PROVE  PodsBounded /\ QuorumIsCounted
    OBVIOUS
  <2>1. Up = FirstPods
    BY PodAssumption DEF FenceInit, Up
  <2>2. cleaners = {}
    BY DEF FenceInit, Init, cleaners
  <2>3. QED
    BY <2>1, <2>2, CountsFinite, PodAssumption DEF PodsBounded, QuorumIsCounted
<1>2. FenceTypeOK /\ PodsBounded /\ [FenceNext]_allVars => PodsBounded'
  BY PodsBoundedStep
<1>3. FenceTypeOK /\ QuorumIsCounted /\ [FenceNext]_allVars => QuorumIsCounted'
  BY QuorumIsCountedStep
<1>4. FenceTypeOK /\ FenceInv /\ AckersReadOnly /\ PodsBounded /\ QuorumIsCounted
        => OnlyReplacementsWrite
  BY FewWriters
<1>5. QED
  BY <1>1, <1>2, <1>3, <1>4, FenceInvCorrect, AckersStayReadOnly, PTL DEF FenceSpec
=============================================================================
