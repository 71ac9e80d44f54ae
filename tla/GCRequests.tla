----------------------------- MODULE GCRequests -----------------------------
(***************************************************************************)
(* The garbage-collection request Secrets and the loop that serves them.   *)
(*                                                                         *)
(* The controller and the cron schedule queue requests; an executor lists  *)
(* them, prunes the expired results, arms all queued requests once one of  *)
(* them has waited out the debounce delay, and in a later step runs one    *)
(* cleanup for all active requests and marks them done.  Between the List  *)
(* and the last write the executor works on the copies it listed: an       *)
(* Update of a copy fails when the Secret has changed since, a Delete goes *)
(* by name and does not look.                                              *)
(*                                                                         *)
(* The executor Lease is not a lock: a process that lost it finishes the   *)
(* call it is in, so any executor may take a step.  Cleanups exclude each  *)
(* other by the maintenance gate (module MaintenanceGate).                 *)
(***************************************************************************)
EXTENDS Integers, FiniteSets

CONSTANTS
    Executor,     \* identities of the cleaner processes
    Owner,        \* the deleted objects that ask for a cleanup, one Secret each
    Scheduled,    \* the Secret of the cron schedule
    MaxAsks       \* bound: how often cleanups are asked for

ASSUME KeyAssumption == Scheduled \notin Owner
ASSUME BoundAssumption == MaxAsks \in Nat

VARIABLES
    request,      \* what classifyRequest makes of each Secret, see States
    publishing,   \* some publication pod is Pending, Running or Unknown
    pc,           \* per executor: where runLoopStep is
    seen,         \* per executor: the requests as it listed them
    fresh,        \* per executor: the Secrets unchanged since the list
    todo,         \* per executor: the Secrets still to be written in this loop
    checked,      \* per executor: startupBackfillChecked
    asks,         \* how often a cleanup was asked for
    sweeping,     \* history, per executor: the requests last asked for before
                  \* its running cleanup began
    covered       \* history: the requests last asked for before some cleanup
                  \* began that has succeeded

listing == <<pc, seen, todo>>
requestsVars == <<request, publishing, listing, fresh, checked, asks, sweeping, covered>>

-----------------------------------------------------------------------------
Key == Owner \cup {Scheduled}

\* A queued request turns ripe when the activation delay is over, a done one
\* expires when the completed-request TTL is.
Queued == {"queued", "ripe"}
Pending == Queued \cup {"active"}
Done == {"done", "expired"}
States == {"absent"} \cup Pending \cup Done

Select(list, states) == {k \in Key : list[k] \in states}

cleaners == {e \in Executor : pc[e] = "cleaning"}

\* Every write gives the Secret a new resourceVersion.
Write(k, state) ==
    /\ request' = [request EXCEPT ![k] = state]
    /\ fresh' = [e \in Executor |-> fresh[e] \ {k}]

CountAsk ==
    /\ asks < MaxAsks
    /\ asks' = asks + 1

\* queueDMCRGCRequestSecret, ensureScheduledRequest: requested now, phase
\* queued, no switch, whatever the Secret was before.
Ask(k) ==
    /\ Write(k, "queued")
    /\ sweeping' = [e \in Executor |-> sweeping[e] \ {k}]
    /\ covered' = covered \ {k}

Goto(e, label) == pc' = [pc EXCEPT ![e] = label]

\* Mutant: the loop's list survives the step.
ReturnKeepingTodo(e) ==
    /\ Goto(e, "idle")
    /\ seen' = [seen EXCEPT ![e] = [k \in Key |-> "absent"]]
    /\ UNCHANGED todo

\* The step is over, with its local variables.
Return(e) ==
    /\ Goto(e, "idle")
    /\ seen' = [seen EXCEPT ![e] = [k \in Key |-> "absent"]]
    /\ todo' = [todo EXCEPT ![e] = {}]

\* The loop over todo[e] has handled k; after the last one, the step is over.
Handled(e, k) ==
    IF todo[e] = {k}
    THEN Return(e)
    ELSE /\ todo' = [todo EXCEPT ![e] = @ \ {k}]
         /\ UNCHANGED <<pc, seen>>

\* Mutant: an Update that is not conditional on the resourceVersion.
UpdateCopyBlindly(e, k, state) ==
    IF request[k] = "absent" THEN UNCHANGED <<request, fresh>> ELSE Write(k, state)

\* Update of the listed copy of k: NotFound is ignored, a conflict is not.
UpdateCopy(e, k, state) ==
    IF request[k] = "absent"
    THEN UNCHANGED <<request, fresh>>
    ELSE k \in fresh[e] /\ Write(k, state)

-----------------------------------------------------------------------------
RequestsInit ==
    /\ request = [k \in Key |-> "absent"]
    /\ publishing = FALSE
    /\ pc = [e \in Executor |-> "idle"]
    /\ seen = [e \in Executor |-> [k \in Key |-> "absent"]]
    /\ fresh = [e \in Executor |-> {}]
    /\ todo = [e \in Executor |-> {}]
    /\ checked = [e \in Executor |-> FALSE]
    /\ asks = 0
    /\ sweeping = [e \in Executor |-> {}]
    /\ covered = {}

\* The controller's ensureGarbageCollectionRequest: Create, or Get and Update.
EnsureRequest(k) ==
    /\ CountAsk
    /\ Ask(k)
    /\ UNCHANGED <<publishing, listing, checked>>

\* A request waits out the activation delay, a result its TTL.
Ripen(k) ==
    /\ request[k] = "queued"
    /\ request' = [request EXCEPT ![k] = "ripe"]
    /\ UNCHANGED <<publishing, listing, fresh, checked, asks, sweeping, covered>>

Expire(k) ==
    /\ request[k] = "done"
    /\ request' = [request EXCEPT ![k] = "expired"]
    /\ UNCHANGED <<publishing, listing, fresh, checked, asks, sweeping, covered>>

PublicationStarts ==
    /\ ~ publishing
    /\ publishing' = TRUE
    /\ UNCHANGED <<request, listing, fresh, checked, asks, sweeping, covered>>

PublicationEnds ==
    /\ publishing
    /\ publishing' = FALSE
    /\ UNCHANGED <<request, listing, fresh, checked, asks, sweeping, covered>>

-----------------------------------------------------------------------------
NothingPending == Select(request, Pending) = {}

\* maybeEnqueueStartupBackfillRequest, up to ensureScheduledRequest: nothing to
\* do when a request is pending or the report finds nothing stale.
StartupBackfill(e) ==
    /\ pc[e] = "idle"
    /\ ~ checked[e]
    /\ checked' = [checked EXCEPT ![e] = TRUE]
    /\ \/ UNCHANGED <<pc, asks>>
       \/ NothingPending /\ CountAsk /\ Goto(e, "asking")
    /\ UNCHANGED <<request, publishing, seen, fresh, todo, sweeping, covered>>

\* maybeEnqueueScheduledRequest, up to ensureScheduledRequest: the cron time has
\* come and no request is pending.
ScheduleDue(e) ==
    /\ pc[e] = "idle"
    /\ NothingPending
    /\ CountAsk
    /\ Goto(e, "asking")
    /\ UNCHANGED <<request, publishing, seen, fresh, todo, checked, sweeping, covered>>

EnsureScheduledRequest(e) ==
    /\ pc[e] = "asking"
    /\ Ask(Scheduled)
    /\ Goto(e, "idle")
    /\ UNCHANGED <<publishing, seen, todo, checked, asks>>

\* runRequestCycle: List; the expired results are pruned first.
List(e) ==
    /\ pc[e] = "idle"
    /\ seen' = [seen EXCEPT ![e] = request]
    /\ fresh' = [fresh EXCEPT ![e] = Key]
    /\ todo' = [todo EXCEPT ![e] = Select(request, {"expired"})]
    /\ Goto(e, "pruning")
    /\ UNCHANGED <<request, publishing, checked, asks, sweeping, covered>>

\* deleteRequest: by name.
Prune(e, k) ==
    /\ pc[e] = "pruning"
    /\ k \in todo[e]
    /\ Write(k, "absent")
    /\ todo' = [todo EXCEPT ![e] = @ \ {k}]
    /\ UNCHANGED <<publishing, pc, seen, checked, asks, sweeping, covered>>

\* No request is active and none has waited long enough.
NothingToDo(e) ==
    /\ pc[e] = "pruning" /\ todo[e] = {}
    /\ Select(seen[e], {"ripe", "active"}) = {}
    /\ Return(e)
    /\ UNCHANGED <<request, publishing, fresh, checked, asks, sweeping, covered>>

\* One request is ripe: all queued requests are armed, unless a publication
\* pod is active.
StartArming(e) ==
    /\ pc[e] = "pruning" /\ todo[e] = {}
    /\ Select(seen[e], {"active"}) = {}
    /\ Select(seen[e], {"ripe"}) # {}
    /\ ~ publishing
    /\ Goto(e, "arming")
    /\ todo' = [todo EXCEPT ![e] = Select(seen[e], Queued)]
    /\ UNCHANGED <<request, publishing, seen, fresh, checked, asks, sweeping, covered>>

Defer(e) ==
    /\ pc[e] = "pruning" /\ todo[e] = {}
    /\ Select(seen[e], {"active"}) = {}
    /\ Select(seen[e], {"ripe"}) # {}
    /\ publishing
    /\ Return(e)
    /\ UNCHANGED <<request, publishing, fresh, checked, asks, sweeping, covered>>

Arm(e, k) ==
    /\ pc[e] = "arming"
    /\ k \in todo[e]
    /\ UpdateCopy(e, k, "active")
    /\ Handled(e, k)
    /\ UNCHANGED <<publishing, checked, asks, sweeping, covered>>

\* runActiveRequestCycle: with an active publication pod the requests go back
\* to the queue, otherwise the gate is activated.
StartRequeueing(e) ==
    /\ pc[e] = "pruning" /\ todo[e] = {}
    /\ Select(seen[e], {"active"}) # {}
    /\ publishing
    /\ Goto(e, "requeueing")
    /\ todo' = [todo EXCEPT ![e] = Select(seen[e], {"active"})]
    /\ UNCHANGED <<request, publishing, seen, fresh, checked, asks, sweeping, covered>>

Requeue(e, k) ==
    /\ pc[e] = "requeueing"
    /\ k \in todo[e]
    /\ UpdateCopy(e, k, "queued")
    /\ Handled(e, k)
    /\ UNCHANGED <<publishing, checked, asks, sweeping, covered>>

StartGate(e) ==
    /\ pc[e] = "pruning" /\ todo[e] = {}
    /\ Select(seen[e], {"active"}) # {}
    /\ ~ publishing
    /\ Goto(e, "gating")
    /\ UNCHANGED <<request, publishing, seen, fresh, todo, checked, asks, sweeping, covered>>

\* activateMaintenanceGate and the acknowledgement quorum: no other replica is
\* cleaning (ExclusiveCleanup).
BeginCleanup(e) ==
    /\ pc[e] = "gating"
    /\ cleaners = {}
    /\ Goto(e, "cleaning")
    /\ sweeping' = [sweeping EXCEPT ![e] = Key]
    /\ UNCHANGED <<request, publishing, seen, fresh, todo, checked, asks, covered>>

\* Mutant: the requests that were queued are completed, not the active ones.
FinishCleanupOfQueued(e) ==
    /\ pc[e] = "cleaning"
    /\ Goto(e, "completing")
    /\ todo' = [todo EXCEPT ![e] = Select(seen[e], Queued)]
    /\ covered' = covered \cup sweeping[e]
    /\ sweeping' = [sweeping EXCEPT ![e] = {}]
    /\ UNCHANGED <<request, publishing, seen, fresh, checked, asks>>

\* cleanupRunner succeeds; the requests that were active are marked done.
FinishCleanup(e) ==
    /\ pc[e] = "cleaning"
    /\ Goto(e, "completing")
    /\ todo' = [todo EXCEPT ![e] = Select(seen[e], {"active"})]
    /\ covered' = covered \cup sweeping[e]
    /\ sweeping' = [sweeping EXCEPT ![e] = {}]
    /\ UNCHANGED <<request, publishing, seen, fresh, checked, asks>>

Complete(e, k) ==
    /\ pc[e] = "completing"
    /\ k \in todo[e]
    /\ UpdateCopy(e, k, "done")
    /\ Handled(e, k)
    /\ UNCHANGED <<publishing, checked, asks, sweeping, covered>>

\* Any API call, the gate or the cleanup fails, or the process dies: RunLoop
\* returns and the container restarts with a new planner.  A quorum that is not
\* ready only ends the step, which is the same but for the planner.
Restart(e) ==
    /\ pc[e] # "idle"
    /\ Return(e)
    /\ \/ checked' = [checked EXCEPT ![e] = FALSE]
       \/ pc[e] = "gating" /\ UNCHANGED checked
    /\ sweeping' = [sweeping EXCEPT ![e] = {}]
    /\ UNCHANGED <<request, publishing, fresh, asks, covered>>

Cycle(e) ==
    \/ EnsureScheduledRequest(e) \/ List(e) \/ NothingToDo(e)
    \/ StartArming(e) \/ Defer(e) \/ StartRequeueing(e) \/ StartGate(e)
    \/ BeginCleanup(e) \/ FinishCleanup(e)
    \/ \E k \in Key :
        Prune(e, k) \/ Arm(e, k) \/ Requeue(e, k) \/ Complete(e, k)

Planner(e) == StartupBackfill(e) \/ ScheduleDue(e)

Environment ==
    \/ \E k \in Owner : EnsureRequest(k)
    \/ \E k \in Key : Ripen(k) \/ Expire(k)
    \/ PublicationStarts \/ PublicationEnds

RequestsNext ==
    \/ Environment
    \/ \E e \in Executor : Cycle(e) \/ Planner(e) \/ Restart(e)

RequestsSpec == RequestsInit /\ [][RequestsNext]_requestsVars

Labels == {"idle", "asking", "pruning", "arming", "requeueing", "gating",
           "cleaning", "completing"}

\* An executor whose call fails returns.  One that keeps restarting, or whose
\* calls keep failing, gets through each part of the step now and then: the
\* container is restarted, the API and the object store come back.
FairSpec ==
    /\ RequestsSpec
    /\ \A k \in Key : WF_requestsVars(Ripen(k))
    /\ \A e \in Executor :
        /\ WF_requestsVars(Restart(e))
        /\ \A label \in Labels : SF_requestsVars(pc[e] = label /\ Cycle(e))

-----------------------------------------------------------------------------
\* Requests, listed copies and the executors' control state have their types,
\* and an executor outside its loops has nothing left to write.
RequestsTypeOK ==
    /\ request \in [Key -> States]
    /\ publishing \in BOOLEAN
    /\ pc \in [Executor -> Labels]
    /\ seen \in [Executor -> [Key -> States]]
    /\ fresh \in [Executor -> SUBSET Key]
    /\ todo \in [Executor -> SUBSET Key]
    /\ checked \in [Executor -> BOOLEAN]
    /\ asks \in Nat
    /\ sweeping \in [Executor -> SUBSET Key]
    /\ covered \in SUBSET Key
    /\ \A e \in Executor : todo[e] # {} =>
        pc[e] \in {"pruning", "arming", "requeueing", "completing"}

\* A request that reads as done was answered by a cleanup that began after it
\* was last asked for, also when it was queued again while a cleanup for its
\* earlier ask was running, or two executors serve the same requests.
DoneMeansCleaned == Select(request, Done) \subseteq covered

\* When publications leave a gap, every request comes to a cleanup or is pruned:
\* none stays queued or active for ever, whatever restarts and conflicts occur.
RequestsServed ==
    <>[](~ publishing) =>
        \A k \in Key : (request[k] \in Pending) ~> (request[k] \notin Pending)
=============================================================================
