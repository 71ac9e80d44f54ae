--------------------------- MODULE MaintenanceGate ---------------------------
(***************************************************************************)
(* The cluster-visible maintenance gate of DMCR and the garbage-collection *)
(* cycle that runs under it.                                               *)
(*                                                                         *)
(* Every DMCR pod runs one cleaner process (RunLoop).  A process that      *)
(* holds the executor Lease may start a cycle; the cycle activates the     *)
(* gate Lease, waits for acknowledgements, runs the destructive cleanup    *)
(* and releases the gate.  The executor Lease is only renewed in the       *)
(* background, so a process that lost it may still be cleaning: what keeps *)
(* two cleanups apart is the gate Lease, and what keeps the gate Lease     *)
(* from expiring under a running cleanup is time: the cycle's deadline     *)
(* (GCTimeout) against the Lease's duration (GateDuration), measured on    *)
(* the clocks of different nodes.                                          *)
(*                                                                         *)
(* A Get followed by an Update is one step here: the Update carries the    *)
(* resourceVersion the Get returned and fails if the Lease changed.  The   *)
(* time written into the Lease was read before the Get, so it may be older *)
(* than the step.                                                          *)
(***************************************************************************)
EXTENDS Integers, FiniteSets

CONSTANTS
    Replica,        \* identities of the cleaner processes (pod names)
    NoHolder,       \* an empty holderIdentity
    Skew,           \* how far each replica's clock is ahead of real time
    GCTimeout,      \* deadline of one cycle, from its start
    StopLag,        \* how long a cancelled cleanup may take to stop
    GateDuration,   \* duration of the gate Lease
    ExecDuration,   \* duration of the executor Lease
    MaxTime,        \* bound: the clock stops here; a cycle starts only if its
                    \* gate can expire before
    MaxSequence     \* bound: number of gate activations

ASSUME ReplicaAssumption == NoHolder \notin Replica
ASSUME TimeAssumption ==
    /\ GCTimeout \in Nat /\ StopLag \in Nat /\ ExecDuration \in Nat
    /\ GateDuration \in Nat /\ MaxTime \in Nat /\ MaxSequence \in Nat
    /\ Skew \in [Replica -> Nat]
\* applyDefaultOptions keeps GateDuration at least one minute above GCTimeout;
\* that minute has to pay for clock skew and for the lag of a cancelled cleanup.
ASSUME MarginAssumption ==
    \A r, q \in Replica : GCTimeout + StopLag + Skew[q] - Skew[r] < GateDuration

VARIABLES
    time,      \* real time
    gate,      \* the gate Lease: holder, renew time, sequence (0: not created)
    exec,      \* the executor Lease: holder and renew time
    phase,     \* per replica: where its RunLoop is
    since,     \* per replica: its clock when the cycle, or the release, began
    sequence   \* per replica: the sequence its last activation returned

leases == <<gate, exec>>
vars == <<time, gate, exec, phase, since, sequence>>

-----------------------------------------------------------------------------
Clock(r) == time + Skew[r]

\* Mutant: the Lease is honoured for ever.
GateActiveWithoutExpiry(now) == gate.holder # NoHolder

\* leaseActive: a Lease without holder is inactive, otherwise it is active
\* until renew time plus duration.
GateActive(now) == gate.holder # NoHolder /\ now < gate.renew + GateDuration

\* Another process holds the gate and, at now, has not let it expire.
HeldByOther(r, now) == gate.holder # r /\ GateActive(now)

ExecExpired(now) == exec.renew + ExecDuration <= now

\* acquireOrRenew succeeds: nobody holds the Lease, the caller does, or it expired.
MayExecute(r) ==
    exec.holder \in {NoHolder, r} \/ ExecExpired(Clock(r))

HoldExecutor(r) ==
    /\ MayExecute(r)
    /\ exec' = [holder |-> r, renew |-> Clock(r)]

\* Mutant: the cycle runs without a deadline of its own.
InTimeWithoutDeadline(r) == TRUE

\* cycleCtx is still alive.
InTime(r) == Clock(r) < since[r] + GCTimeout

Become(r, p) == phase' = [phase EXCEPT ![r] = p]

\* Back in RunLoop, or restarted: the cycle's local variables are gone.
Return(r) ==
    /\ Become(r, "idle")
    /\ since' = [since EXCEPT ![r] = 0]
    /\ sequence' = [sequence EXCEPT ![r] = 0]

-----------------------------------------------------------------------------
Init ==
    /\ time = 0
    /\ gate = [holder |-> NoHolder, renew |-> 0, seq |-> 0]
    /\ exec = [holder |-> NoHolder, renew |-> 0]
    /\ phase = [r \in Replica |-> "idle"]
    /\ since = [r \in Replica |-> 0]
    /\ sequence = [r \in Replica |-> 0]

\* RunIfHolder around a step with no active request.
HoldIdle(r) ==
    /\ phase[r] = "idle"
    /\ HoldExecutor(r)
    /\ UNCHANGED <<time, gate, phase, since, sequence>>

\* RunIfHolder around a step that finds active requests and is not deferred:
\* the cycle's deadline starts to run.
StartCycle(r) ==
    /\ phase[r] = "idle"
    /\ Clock(r) + GCTimeout + GateDuration <= MaxTime
    /\ HoldExecutor(r)
    /\ Become(r, "activating")
    /\ since' = [since EXCEPT ![r] = Clock(r)]
    /\ UNCHANGED <<time, gate, sequence>>

\* The background renewal of the executor Lease.
RenewExecutor(r) ==
    /\ phase[r] # "idle"
    /\ HoldExecutor(r)
    /\ UNCHANGED <<time, gate, phase, since, sequence>>

\* Mutant: the renew time is written one duration too early.
UpsertActiveBackdated(r, now) ==
    /\ ~ HeldByOther(r, now)
    /\ gate.seq < MaxSequence
    /\ gate' = [holder |-> r, renew |-> now - GateDuration, seq |-> gate.seq + 1]

\* LeaseGate.Activate: the Lease is created, or taken when it is free, expired
\* or already this identity's; the sequence grows by one.
UpsertActive(r, now) ==
    /\ ~ HeldByOther(r, now)
    /\ gate.seq < MaxSequence
    /\ gate' = [holder |-> r, renew |-> now, seq |-> gate.seq + 1]

Activate(r) ==
    /\ phase[r] = "activating"
    /\ InTime(r)
    /\ \E now \in since[r] .. Clock(r) : UpsertActive(r, now)
    /\ sequence' = [sequence EXCEPT ![r] = gate.seq + 1]
    /\ Become(r, "acking")
    /\ UNCHANGED <<time, exec, since>>

\* The Update is applied but its answer is lost: RunLoop returns the error and
\* the process restarts, leaving the gate to expire.
ActivateAnswerLost(r) ==
    /\ phase[r] = "activating"
    /\ InTime(r)
    /\ \E now \in since[r] .. Clock(r) : UpsertActive(r, now)
    /\ Return(r)
    /\ UNCHANGED <<time, exec>>

\* The acknowledgement quorum is there and cleanupWithPolicy starts.
BeginCleanup(r) ==
    /\ phase[r] = "acking"
    /\ InTime(r)
    /\ Become(r, "cleaning")
    /\ UNCHANGED <<time, leases, since, sequence>>

\* No quorum, or the cleanup finished, failed or was cancelled (deadline, lost
\* executor Lease): the deferred release runs with a context of its own.
StopCycle(r) ==
    /\ phase[r] \in {"acking", "cleaning"}
    /\ Become(r, "releasing")
    /\ since' = [since EXCEPT ![r] = Clock(r)]
    /\ sequence' = [sequence EXCEPT ![r] = 0]
    /\ UNCHANGED <<time, leases>>

\* Mutant: the release does not look at the holder.
UpsertInactiveAnyHolder(r, now) ==
    gate' = IF gate.seq = 0
            THEN gate
            ELSE [holder |-> NoHolder, renew |-> now, seq |-> gate.seq]

\* Mutant: the release deletes the Lease and its sequence annotation.
UpsertInactiveForgetsSequence(r, now) ==
    gate' = IF HeldByOther(r, now)
            THEN gate
            ELSE [holder |-> NoHolder, renew |-> now, seq |-> 0]

\* LeaseGate.Release: a gate another process holds is left alone.
UpsertInactive(r, now) ==
    gate' = IF gate.seq = 0 \/ HeldByOther(r, now)
            THEN gate
            ELSE [holder |-> NoHolder, renew |-> now, seq |-> gate.seq]

Release(r) ==
    /\ phase[r] = "releasing"
    /\ \E now \in since[r] .. Clock(r) : UpsertInactive(r, now)
    /\ Return(r)
    /\ UNCHANGED <<time, exec>>

\* The activation fails (another holder, a conflict, an API error, the deadline)
\* and RunLoop returns the error; or the release fails, which is only logged; or
\* the process dies.  The gate stays as it is, held until it expires.
AbandonCycle(r) ==
    /\ phase[r] # "idle"
    /\ Return(r)
    /\ UNCHANGED <<time, leases>>

\* A cleanup ends at its deadline, give or take StopLag.
Tick ==
    /\ time < MaxTime
    /\ \A r \in Replica :
        phase[r] = "cleaning" => Clock(r) < since[r] + GCTimeout + StopLag
    /\ time' = time + 1
    /\ UNCHANGED <<leases, phase, since, sequence>>

Step(r) ==
    \/ HoldIdle(r) \/ StartCycle(r) \/ RenewExecutor(r)
    \/ Activate(r) \/ ActivateAnswerLost(r) \/ BeginCleanup(r)
    \/ StopCycle(r) \/ Release(r) \/ AbandonCycle(r)

Next == Tick \/ \E r \in Replica : Step(r)

Spec == Init /\ [][Next]_vars

\* Time passes, and a replica that has begun a cycle gets on with it: its
\* calls return or time out, because every one of them has a context.
FairSpec ==
    /\ Spec
    /\ WF_vars(Tick)
    /\ \A r \in Replica :
        WF_vars(BeginCleanup(r) \/ StopCycle(r) \/ Release(r) \/ AbandonCycle(r))

-----------------------------------------------------------------------------
Phases == {"idle", "activating", "acking", "cleaning", "releasing"}

\* The leases, the clocks and the cycle's variables have their types.
TypeOK ==
    /\ time \in Nat
    /\ gate \in [holder : Replica \cup {NoHolder}, renew : Nat, seq : Nat]
    /\ exec \in [holder : Replica \cup {NoHolder}, renew : Nat]
    /\ phase \in [Replica -> Phases]
    /\ since \in [Replica -> Nat]
    /\ sequence \in [Replica -> Nat]

cleaners == {r \in Replica : phase[r] = "cleaning"}

\* While a replica cleans, the gate is its own, was activated by this very
\* cycle, and is unexpired on the clock of every replica: no mirror can drop
\* its gate file and no other executor can take the gate.
GateCoversCleanup ==
    \A r \in cleaners :
        /\ gate.holder = r
        /\ gate.seq = sequence[r]
        /\ \A q \in Replica : GateActive(Clock(q))

\* Two cycles that are waiting for acknowledgements or cleaning never carry the
\* same sequence, so the acknowledgements of one are never counted for another.
SequenceNamesOneCycle ==
    \A r, q \in Replica :
        /\ r # q
        /\ {phase[r], phase[q]} \subseteq {"acking", "cleaning"}
        => sequence[r] # sequence[q]

\* At most one replica cleans at a time, and it starts only when none does.
Exclusive == INSTANCE ExclusiveCleanup WITH Replica <- Replica, cleaners <- cleaners
ExclusiveSpec == Exclusive!Spec

\* Whatever crashed or failed, registry writers are not locked out for ever:
\* an activated gate is released or expires on every replica's clock.
GateReopens ==
    (gate.holder # NoHolder) ~> (\A r \in Replica : ~ GateActive(Clock(r)))
=============================================================================
