--------------------------- MODULE WorkloadDelivery ---------------------------
(* Delivery of published models to a workload: the admission webhook holds the    *)
(* Pods of an annotated workload behind a scheduling gate, and the controller     *)
(* resolves the references, writes what the Pods need into the Pod template and   *)
(* removes the gate. The controller works on informer caches that lag and writes  *)
(* merge patches without a precondition, while the workload's owner edits it and  *)
(* models are published and deleted.                                              *)
EXTENDS Naturals, FiniteSets, FiniteSetsExt

CONSTANTS Models,      \* models a workload may refer to
          Settings,    \* deployments of the module, and what digests it meets
          Capacity,    \* of the node cache
          MaxDigest, MaxCreates, MaxEdits, MaxSpecEdits, MaxFaults      \* bounds

ASSUME DeliveryAssumption ==
  /\ IsFiniteSet(Models)
  /\ Settings \subseteq [cache : BOOLEAN, class : BOOLEAN, size : [0..MaxDigest -> Nat]]
  /\ {Capacity, MaxDigest, MaxCreates, MaxEdits, MaxSpecEdits, MaxFaults} \subseteq Nat

VARIABLES
  setting,    \* node cache enabled, storage class of shared claims set; the size of
              \* each digest, 0 when it is not known
  w,          \* the workload as the API server stores it
  models,     \* digest of each model, 0 when it is not Ready
  claims,     \* shared claims
  news,       \* the workload was written since the informers read it
  cache,      \* the informers' workload
  known,      \* the informers' models
  queued,     \* the workload is in the controller's queue
  ctl,        \* the reconcile under way
  digests, creates, edits, specEdits, faults

storeVars == <<w, models, claims>>
readVars  == <<news, cache, known>>
bounds    == <<digests, creates, edits, specEdits, faults>>
vars      == <<setting, storeVars, readVars, queued, ctl, bounds>>

(* What is delivered is a set of pairs: the models and their digests.            *)
Deliveries == SUBSET (Models \X (1..MaxDigest))
Reasons == {"none", "InvalidSpec", "NoStorageClass", "Capacity", "ClaimPending",
            "MaterializerPending"}

(* stamp: the resolved annotations and their signature; pod: the volumes, mounts  *)
(* and environment of the containers, "foreign" a cache volume of the user's;     *)
(* blocked: the reason on the object; fin: the controller's finalizer.            *)
Workload == [uid : 1..MaxCreates, refs : SUBSET Models, stamp : Deliveries,
             pod : [mount : Deliveries, foreign : BOOLEAN], gate : BOOLEAN,
             blocked : Reasons, fin : BOOLEAN, deleting : BOOLEAN]
NoWorkload == [uid |-> 0, refs |-> {}, stamp |-> {}, pod |-> [mount |-> {}, foreign |-> FALSE],
               gate |-> FALSE, blocked |-> "none", fin |-> FALSE, deleting |-> FALSE]
Exists(o) == o.uid # 0

Idle == [step |-> "idle", seen |-> NoWorkload, want |-> NoWorkload, compares |-> FALSE]

-----------------------------------------------------------------------------
(* The template as the controller reads it.                                      *)
Refers(o)        == o.refs # {}
HasGate(o)       == o.gate
HasCacheMount(o) == o.pod.foreign
HasManagedState(o) == o.stamp # {} \/ o.pod.mount # {} \/ HasGate(o)
Interest(o) == Exists(o) /\ (Refers(o) \/ HasManagedState(o))

(* and as it writes it.                                                          *)
Unmounted(pod) == [pod EXCEPT !.mount = {}]
Mounted(pod, delivery) == [pod EXCEPT !.mount = delivery]
RemoveManagedState(o) == [o EXCEPT !.stamp = {}, !.pod = Unmounted(o.pod), !.gate = FALSE]

Stopped(o, reason) ==
  [RemoveManagedState(o) EXCEPT !.gate = TRUE, !.blocked = reason, !.fin = FALSE]

Rendered(o, delivery, reason) ==
  [o EXCEPT !.stamp = delivery, !.pod = Mounted(o.pod, delivery),
            !.gate = (reason # "none"), !.blocked = reason, !.fin = TRUE]

(* Mutant of AllReady: the phase of the models is not looked at.                  *)
AllReadyUnchecked(refs, of) == refs # {}

AllReady(refs, of) == \A m \in refs : of[m] # 0
Resolve(refs, of) == {<<m, of[m]>> : m \in refs}
Size == setting.size
Sized(delivery) == \A d \in delivery : Size[d[2]] > 0
Fits(delivery) ==
  /\ Sized(delivery)
  /\ MapThenSumSet(LAMBDA d : Size[d[2]], delivery) <= Capacity

(* Why the template cannot be rendered at all, and why it stays gated when it is.  *)
ContractError(o) ==
  IF HasCacheMount(o) THEN "InvalidSpec"
  ELSE IF setting.cache \/ setting.class THEN "none" ELSE "NoStorageClass"
GateReason(delivery) ==
  IF ~setting.cache THEN "ClaimPending" ELSE IF Fits(delivery) THEN "none" ELSE "Capacity"

(* Mutant of Admitted: an update is gated only when its references change.       *)
AdmittedByReferences(old, new) ==
  [new EXCEPT !.gate = @ \/ (Refers(new) /\ (~Exists(old) \/ new.refs # old.refs))]

(* The webhook sees creations and updates, those of the controller included.     *)
Admitted(old, new) ==
  [new EXCEPT !.gate = @ \/ (Refers(new) /\ (~Exists(old) \/ new.stamp = {} \/ new.refs # old.refs))]

(* A deleted object is gone with its last finalizer.                             *)
Stored(old, new) == IF new.deleting /\ ~new.fin THEN NoWorkload ELSE Admitted(old, new)

(* A merge patch carries the fields in which what was wanted differs from what    *)
(* was seen, lists as a whole, and changes them in whatever is stored now.        *)
Merged(cur, seen, want) ==
  [cur EXCEPT !.stamp   = IF want.stamp = seen.stamp THEN @ ELSE want.stamp,
              !.pod     = IF want.pod = seen.pod THEN @ ELSE want.pod,
              !.gate    = IF want.gate = seen.gate THEN @ ELSE want.gate,
              !.blocked = IF want.blocked = seen.blocked THEN @ ELSE want.blocked,
              !.fin     = IF want.fin = seen.fin THEN @ ELSE want.fin]
-----------------------------------------------------------------------------
Init ==
  /\ setting \in Settings
  /\ w = NoWorkload /\ cache = NoWorkload
  /\ models = [m \in Models |-> 0] /\ known = models
  /\ claims = {} /\ news = FALSE /\ queued = FALSE /\ ctl = Idle
  /\ digests = 0 /\ creates = 0 /\ edits = 0 /\ specEdits = 0 /\ faults = 0

(* Reconcile's reading: everything it decides on comes from the caches. "next" is  *)
(* its first call, "compares" whether it reads the stored workload before patching.*)
Begin(next, want, compares) ==
  ctl' = [step |-> next, seen |-> cache, want |-> want, compares |-> compares]

Finalize ==
  /\ cache.deleting /\ cache.fin
  /\ Begin("patch", [cache EXCEPT !.fin = FALSE], FALSE)

Remove ==
  /\ ~cache.deleting /\ ~Refers(cache) /\ HasManagedState(cache)
  /\ Begin("drop", [RemoveManagedState(cache) EXCEPT !.fin = FALSE], FALSE)

KeepPending ==
  /\ ~cache.deleting /\ Refers(cache) /\ ~AllReady(cache.refs, known)
  /\ Begin("drop", Stopped(cache, "none"), TRUE)

Block ==
  /\ ~cache.deleting /\ Refers(cache) /\ AllReady(cache.refs, known)
  /\ ContractError(cache) # "none"
  /\ Begin("drop", Stopped(cache, ContractError(cache)), TRUE)

(* A storage class leads through the claim, also when the node cache is enabled.  *)
Apply ==
  /\ ~cache.deleting /\ Refers(cache) /\ AllReady(cache.refs, known)
  /\ ContractError(cache) = "none"
  /\ LET delivery == Resolve(cache.refs, known)
     IN  Begin(IF setting.class THEN "ensure" ELSE "compare",
               Rendered(cache, delivery, GateReason(delivery)), TRUE)

(* Nothing to do: the workload is gone, finalized, or neither refers nor is managed.*)
Nothing ==
  /\ \/ ~Exists(cache)
     \/ cache.deleting /\ ~cache.fin
     \/ ~cache.deleting /\ ~Interest(cache)
  /\ UNCHANGED ctl

Reconcile ==
  /\ ctl.step = "idle" /\ queued
  /\ queued' = FALSE
  /\ Nothing \/ (Exists(cache) /\ (Finalize \/ Remove \/ KeepPending \/ Block \/ Apply))
  /\ UNCHANGED <<setting, storeVars, readVars, bounds>>

Go(step, want) == ctl' = [ctl EXCEPT !.step = step, !.want = want]
ClaimsOf(uid) == {c \in claims : c.uid = uid}

DropClaims ==
  /\ ctl.step = "drop"
  /\ claims' = claims \ ClaimsOf(ctl.seen.uid)
  /\ Go(IF ctl.compares THEN "compare" ELSE "patch", ctl.want)
  /\ UNCHANGED <<setting, w, models, readVars, queued, bounds>>

(* The claim of this set of models, all of known size; no claim is named under    *)
(* the node cache, and the API server refuses to create one without a name.       *)
Claimable == ~setting.cache /\ Sized(ctl.want.stamp)
EnsureClaim ==
  /\ ctl.step = "ensure" /\ Claimable
  /\ LET own == {c \in ClaimsOf(ctl.seen.uid) : c.of = ctl.want.stamp}
     IN  /\ claims' = IF own # {} THEN claims
                      ELSE claims \cup {[uid |-> ctl.seen.uid, of |-> ctl.want.stamp, bound |-> FALSE]}
         /\ Go("stale", [ctl.want EXCEPT !.blocked =
                IF \E c \in own : c.bound THEN "MaterializerPending" ELSE "ClaimPending"])
  /\ UNCHANGED <<setting, w, models, readVars, queued, bounds>>

DropStale ==
  /\ ctl.step = "stale"
  /\ claims' = claims \ {c \in ClaimsOf(ctl.seen.uid) : c.of # ctl.want.stamp}
  /\ Go("compare", ctl.want)
  /\ UNCHANGED <<setting, w, models, readVars, queued, bounds>>

(* Nothing is patched when nothing was changed, the workload is gone, or it       *)
(* already is as wanted.                                                         *)
Written(o) == <<o.stamp, o.pod, o.gate, o.fin, o.blocked>>
Compare ==
  /\ ctl.step = "compare"
  /\ IF ctl.want = ctl.seen \/ ~Exists(w) \/ Written(w) = Written(ctl.want)
     THEN ctl' = Idle ELSE Go("patch", ctl.want)
  /\ UNCHANGED <<setting, storeVars, readVars, queued, bounds>>

(* The patch names the workload only: it lands on whatever bears the name. It is   *)
(* refused when there is none, and when it adds a finalizer to a deleted one.     *)
Refused == ~Exists(w) \/ (w.deleting /\ ctl.want.fin /\ ~ctl.seen.fin)
Patch ==
  /\ ctl.step = "patch" /\ ~Refused
  /\ w' = Stored(w, Merged(w, ctl.seen, ctl.want))
  /\ news' = (news \/ w' # w)
  /\ ctl' = Idle
  /\ UNCHANGED <<setting, models, claims, cache, known, queued, bounds>>

(* A call fails, because it must or because of a fault: the reconcile is repeated. *)
CallFails ==
  /\ ctl.step # "idle"
  /\ IF \/ ctl.step = "ensure" /\ ~Claimable
        \/ ctl.step = "patch" /\ Refused
     THEN UNCHANGED faults
     ELSE faults < MaxFaults /\ faults' = faults + 1
  /\ ctl' = Idle /\ queued' = TRUE
  /\ UNCHANGED <<setting, storeVars, readVars, digests, creates, edits, specEdits>>

Controller == Reconcile \/ DropClaims \/ EnsureClaim \/ DropStale \/ Compare \/ Patch

(* A controller that restarts, or takes over, reads everything anew.              *)
Restart ==
  /\ faults < MaxFaults /\ faults' = faults + 1
  /\ ctl' = Idle /\ news' = FALSE /\ cache' = w /\ known' = models /\ queued' = Interest(w)
  /\ UNCHANGED <<setting, storeVars, digests, creates, edits, specEdits>>
-----------------------------------------------------------------------------
(* Mutant of Passes: only a workload that refers to a model is looked at.         *)
PassesReferring(old, new) == Exists(new) /\ new.refs # {}

(* The event filter; a watch that reconnects delivers the latest version only.    *)
Passes(old, new) == Exists(new) /\ (Interest(new) \/ (old.uid = new.uid /\ Interest(old)))

SeeWorkload ==
  /\ news /\ news' = FALSE
  /\ cache' = w /\ queued' = (queued \/ Passes(cache, w))
  /\ UNCHANGED <<setting, storeVars, known, ctl, bounds>>

(* A model's event reaches the workloads that the index of the cache lists for it. *)
SeeModel(m) ==
  /\ known[m] # models[m]
  /\ known' = [known EXCEPT ![m] = models[m]]
  /\ queued' = (queued \/ m \in cache.refs)
  /\ UNCHANGED <<setting, storeVars, news, cache, ctl, bounds>>
-----------------------------------------------------------------------------
(* The owner of the workload.                                                    *)
Create(refs, foreign) ==
  /\ ~Exists(w) /\ creates < MaxCreates
  /\ creates' = creates + 1
  /\ w' = Admitted(w, [NoWorkload EXCEPT !.uid = creates + 1, !.refs = refs, !.pod.foreign = foreign])
  /\ news' = TRUE
  /\ UNCHANGED <<setting, models, claims, cache, known, queued, ctl, digests, edits, specEdits, faults>>

Edit(new) ==
  /\ Exists(w) /\ ~w.deleting /\ new # w
  /\ w' = Admitted(w, new) /\ news' = TRUE
  /\ UNCHANGED <<setting, models, claims, cache, known, queued, ctl, digests, creates, faults>>
EditCounted(new) == edits < MaxEdits /\ edits' = edits + 1 /\ UNCHANGED specEdits /\ Edit(new)

Refer(refs) == EditCounted([w EXCEPT !.refs = refs])

(* The owner sets the whole template to its own, or the Pod spec only, as one does *)
(* who merges annotations.                                                       *)
ReplaceTemplate(foreign) ==
  EditCounted([RemoveManagedState(w) EXCEPT !.pod.foreign = foreign])
ReplaceSpec ==
  /\ specEdits < MaxSpecEdits /\ specEdits' = specEdits + 1 /\ UNCHANGED edits
  /\ Edit([RemoveManagedState(w) EXCEPT !.stamp = w.stamp])

Delete ==
  /\ Exists(w) /\ ~w.deleting
  /\ w' = Stored(w, [w EXCEPT !.deleting = TRUE]) /\ news' = TRUE
  /\ UNCHANGED <<setting, models, claims, cache, known, queued, ctl, bounds>>

(* Models are published under ever new digests, and deleted or no longer Ready.   *)
Publish(m) ==
  /\ digests < MaxDigest /\ digests' = digests + 1
  /\ models' = [models EXCEPT ![m] = digests + 1]
  /\ UNCHANGED <<setting, w, claims, readVars, queued, ctl, creates, edits, specEdits, faults>>
Withdraw(m) ==
  /\ models[m] # 0 /\ models' = [models EXCEPT ![m] = 0]
  /\ UNCHANGED <<setting, w, claims, readVars, queued, ctl, bounds>>

(* Kubernetes: a claim is bound; a claim goes with its owner.                     *)
BindClaim(c) ==
  /\ ~c.bound /\ claims' = (claims \ {c}) \cup {[c EXCEPT !.bound = TRUE]}
  /\ UNCHANGED <<setting, w, models, readVars, queued, ctl, bounds>>
CollectClaim(c) ==
  /\ c.uid # w.uid /\ claims' = claims \ {c}
  /\ UNCHANGED <<setting, w, models, readVars, queued, ctl, bounds>>

Environment ==
  \/ \E refs \in SUBSET Models : Refer(refs)
  \/ \E refs \in SUBSET Models, foreign \in BOOLEAN : Create(refs, foreign)
  \/ \E foreign \in BOOLEAN : ReplaceTemplate(foreign)
  \/ ReplaceSpec \/ Delete
  \/ \E m \in Models : Publish(m) \/ Withdraw(m)
  \/ \E c \in claims : BindClaim(c) \/ CollectClaim(c)

Next == Controller \/ CallFails \/ Restart \/ SeeWorkload \/ (\E m \in Models : SeeModel(m)) \/ Environment

(* The controller and its watches run; the calls that must fail do.              *)
Fairness ==
  /\ WF_vars(Controller \/ CallFails) /\ WF_vars(SeeWorkload)
  /\ \A m \in Models : WF_vars(SeeModel(m))

Spec == Init /\ [][Next]_vars /\ Fairness
-----------------------------------------------------------------------------
(* What a claim is, and the type of every variable.                              *)
TypeOK ==
  /\ setting \in Settings
  /\ w \in Workload \cup {NoWorkload} /\ cache \in Workload \cup {NoWorkload}
  /\ models \in [Models -> 0..MaxDigest] /\ known \in [Models -> 0..MaxDigest]
  /\ claims \subseteq [uid : 1..MaxCreates, of : Deliveries, bound : BOOLEAN]
  /\ news \in BOOLEAN /\ queued \in BOOLEAN
  /\ ctl \in [step : {"idle", "drop", "ensure", "stale", "compare", "patch"}, seen : Workload \cup {NoWorkload},
              want : Workload \cup {NoWorkload}, compares : BOOLEAN]
  /\ digests \in 0..MaxDigest /\ creates \in 0..MaxCreates
  /\ edits \in 0..MaxEdits /\ specEdits \in 0..MaxSpecEdits /\ faults \in 0..MaxFaults

(* The Pods of an annotated workload may start without a model.                   *)
StartsEmpty(o) == Refers(o) /\ ~HasGate(o) /\ o.pod.mount = {}

(* They do not (FAQ.md:100-107: "must fail closed ... instead of starting with an  *)
(* empty model directory"), whatever stale patch lands on a newer workload and     *)
(* whatever is edited between two reconciles, unless somebody has set the Pod spec *)
(* of a resolved template apart from its annotations: the webhook goes by these.   *)
StartsWithModels == StartsEmpty(w) => specEdits > 0

(* What the workload is once everybody has read the last edit: see Reconcile. A    *)
(* claim for models of unknown size is an error for ever, and nothing is promised. *)
Settled ==
  LET delivery == Resolve(w.refs, models)
      own      == ClaimsOf(w.uid)
      clean    == w.stamp = {} /\ w.pod.mount = {} /\ ~w.fin /\ own = {}
  IN  CASE ~Refers(w) -> clean /\ ~w.gate
        [] Refers(w) /\ ~AllReady(w.refs, models) -> clean /\ w.gate /\ w.blocked = "none"
        [] Refers(w) /\ AllReady(w.refs, models) /\ ContractError(w) # "none" ->
             clean /\ w.gate /\ w.blocked = ContractError(w)
        [] OTHER -> setting.cache \/ Sized(delivery) =>
             /\ w.stamp = delivery /\ w.pod.mount = delivery /\ w.fin
             /\ IF setting.cache
                THEN w.gate = ~Fits(delivery) /\ (w.blocked = IF w.gate THEN "Capacity" ELSE "none")
                ELSE w.gate /\ \E c \in own : own = {c} /\ c.of = delivery

(* Whatever was edited, published, withdrawn, restarted or lost on the way, a      *)
(* workload that refers to models or is managed ends as its references and the    *)
(* models ask: delivered, pending, blocked or clean, its claims included; and a   *)
(* deleted one goes.                                                              *)
Converges == <>[](Interest(w) => ~w.deleting /\ Settled)
=============================================================================
