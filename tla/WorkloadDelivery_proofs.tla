------------------------ MODULE WorkloadDelivery_proofs ------------------------
(* For any models, sizes and deployments and any number of edits, publications    *)
(* and failures: the state keeps its types, and a workload that waits for models  *)
(* does not start without them. The second does not rest on what the controller   *)
(* has read, which may be old: the webhook leaves no object without its gate that *)
(* is not stamped, and neither the owner nor a stale patch parts stamp and mounts.*)
EXTENDS WorkloadDelivery, TLAPS

(* The reconcile works on a workload that it has read. *)
WorksOnWorkload == ctl.step # "idle" => ctl.seen \in Workload /\ ctl.want \in Workload

TypeInv == TypeOK /\ WorksOnWorkload

(* The objects: what is made of a workload is a workload.                        *)

LEMMA WorkloadExists == (\A o \in Workload : Exists(o)) /\ ~Exists(NoWorkload) /\ NoWorkload.refs = {}
BY DEF Workload, NoWorkload, Exists

LEMMA NoWorkloadType ==
  NoWorkload \in [uid : {0}, refs : SUBSET Models, stamp : Deliveries, pod : [mount : Deliveries, foreign : BOOLEAN],
                 gate : BOOLEAN, blocked : Reasons, fin : BOOLEAN, deleting : BOOLEAN]
<1>1. {} \in Deliveries /\ {} \in SUBSET Models /\ "none" \in Reasons
  BY DEF Deliveries, Reasons
<1>2. [mount |-> {}, foreign |-> FALSE] \in [mount : Deliveries, foreign : BOOLEAN]
  BY <1>1
<1> QED
  BY <1>1, <1>2 DEF NoWorkload

LEMMA IsWorkload == \A o \in Workload \cup {NoWorkload} : Exists(o) => o \in Workload
BY WorkloadExists

LEMMA RemovedType == \A o \in Workload : RemoveManagedState(o) \in Workload
BY ZenonT(60) DEF RemoveManagedState, Unmounted, Workload, Deliveries

LEMMA StoppedType == \A o \in Workload : \A reason \in Reasons : Stopped(o, reason) \in Workload
<1> SUFFICES ASSUME NEW o \in Workload, NEW reason \in Reasons PROVE Stopped(o, reason) \in Workload
  OBVIOUS
<1> DEFINE r == RemoveManagedState(o)
<1>1. r \in Workload
  BY RemovedType
<1> HIDE DEF r
<1>2. [r EXCEPT !.gate = TRUE, !.blocked = reason, !.fin = FALSE] \in Workload
  BY <1>1 DEF Workload
<1> QED
  BY <1>2 DEF Stopped, r

LEMMA RenderedType == \A o \in Workload : \A delivery \in Deliveries : \A reason \in Reasons : Rendered(o, delivery,
    reason) \in Workload
BY ZenonT(60) DEF Rendered, Mounted, Workload

LEMMA AdmittedType == \A old : \A new \in Workload : Admitted(old, new) \in Workload
BY DEF Admitted, Workload, Refers, Exists

LEMMA StoredType == \A old : \A new \in Workload : Stored(old, new) \in Workload \cup {NoWorkload}
BY AdmittedType DEF Stored

LEMMA MergedType == \A cur, seen, want \in Workload : Merged(cur, seen, want) \in Workload
<1> SUFFICES ASSUME NEW cur \in Workload, NEW seen \in Workload, NEW want \in Workload
             PROVE  Merged(cur, seen, want) \in Workload
  OBVIOUS
<1> DEFINE stamp == IF want.stamp = seen.stamp THEN cur.stamp ELSE want.stamp
           pod == IF want.pod = seen.pod THEN cur.pod ELSE want.pod
           gate == IF want.gate = seen.gate THEN cur.gate ELSE want.gate
           blocked == IF want.blocked = seen.blocked THEN cur.blocked ELSE want.blocked
           fin == IF want.fin = seen.fin THEN cur.fin ELSE want.fin
<1>1. /\ stamp \in Deliveries /\ pod \in [mount : Deliveries, foreign : BOOLEAN]
      /\ gate \in BOOLEAN /\ blocked \in Reasons /\ fin \in BOOLEAN
  BY DEF Workload
<1>2. Merged(cur, seen, want) =
        [cur EXCEPT !.stamp = stamp, !.pod = pod, !.gate = gate, !.blocked = blocked, !.fin = fin]
  BY DEF Merged
<1> HIDE DEF stamp, pod, gate, blocked, fin
<1> QED
  BY ZenonT(60), <1>1, <1>2 DEF Workload

(* What is resolved of models that are all ready is a delivery.                   *)
LEMMA ResolvedType == ASSUME TypeOK, NEW refs \in SUBSET Models, AllReady(refs, known) PROVE Resolve(refs, known) \in
    Deliveries
BY SMTT(40), DeliveryAssumption DEF TypeOK, AllReady, Resolve, Deliveries

LEMMA ReasonTypes == (\A o : ContractError(o) \in Reasons) /\ (\A d : GateReason(d) \in Reasons)
BY DEF ContractError, GateReason, Reasons

-----------------------------------------------------------------------------
LEMMA BoundTypes ==
  Capacity \in Nat /\ MaxDigest \in Nat /\ MaxCreates \in Nat /\ MaxEdits \in Nat /\ MaxSpecEdits \in Nat /\
      MaxFaults \in Nat
BY DeliveryAssumption

LEMMA IdleType ==
  Idle \in [step : {"idle", "drop", "ensure", "stale", "compare", "patch"}, seen : Workload \cup {NoWorkload},
            want : Workload \cup {NoWorkload}, compares : BOOLEAN]
BY DEF Idle

LEMMA TypeInit == Init => TypeInv
<1> SUFFICES ASSUME Init PROVE TypeInv
  OBVIOUS
<1>1. models \in [Models -> 0..MaxDigest]
  BY BoundTypes DEF Init
<1>2. ctl.step = "idle"
  BY DEF Init, Idle
<1>3. digests \in 0..MaxDigest /\ creates \in 0..MaxCreates /\ edits \in 0..MaxEdits /\ specEdits \in 0..MaxSpecEdits
    /\ faults \in 0..MaxFaults
  BY BoundTypes DEF Init
<1> QED
  BY <1>1, <1>2, <1>3, IdleType DEF Init, TypeInv, TypeOK, WorksOnWorkload

LEMMA TypeNext == TypeInv /\ [Next]_vars => TypeInv'
<1> SUFFICES ASSUME TypeInv, [Next]_vars PROVE TypeInv'
  OBVIOUS
<1> USE BoundTypes DEF TypeInv, TypeOK, WorksOnWorkload, Idle, storeVars, readVars, bounds
<1>1. ASSUME Reconcile PROVE TypeInv'
  <2>1. CASE Nothing
    BY <1>1, <2>1 DEF Reconcile, Nothing
  <2>2. CASE Exists(cache) /\ (Finalize \/ Remove \/ KeepPending \/ Block \/ Apply)
    <3>1. cache \in Workload
      BY <2>2, IsWorkload
    <3>2. CASE Finalize
      <4>1. [cache EXCEPT !.fin = FALSE] \in Workload
        BY <3>1 DEF Workload
      <4> QED
        BY <1>1, <3>1, <3>2, <4>1 DEF Reconcile, Finalize, Begin
    <3>3. CASE Remove
      <4> DEFINE r == RemoveManagedState(cache)
      <4>1. r \in Workload
        BY <3>1, RemovedType
      <4> HIDE DEF r
      <4>2. [r EXCEPT !.fin = FALSE] \in Workload
        BY <4>1 DEF Workload
      <4> QED
        BY <1>1, <3>1, <3>3, <4>2 DEF Reconcile, Remove, Begin, r
    <3>4. CASE KeepPending
      <4>1. Stopped(cache, "none") \in Workload
        BY <3>1, StoppedType DEF Reasons
      <4> QED
        BY <1>1, <3>1, <3>4, <4>1 DEF Reconcile, KeepPending, Begin
    <3>5. CASE Block
      <4>1. Stopped(cache, ContractError(cache)) \in Workload
        BY <3>1, StoppedType, ReasonTypes
      <4> QED
        BY <1>1, <3>1, <3>5, <4>1 DEF Reconcile, Block, Begin
    <3>6. CASE Apply
      <4> DEFINE delivery == Resolve(cache.refs, known)
      <4>1. cache.refs \in SUBSET Models
        BY <3>1 DEF Workload
      <4>2. delivery \in Deliveries
        BY <3>6, <4>1, ResolvedType DEF Apply
      <4>3. Rendered(cache, delivery, GateReason(delivery)) \in Workload
        BY <3>1, <4>2, RenderedType, ReasonTypes
      <4> QED
        BY <1>1, <3>1, <3>6, <4>3 DEF Reconcile, Apply, Begin
    <3> QED
      BY <2>2, <3>2, <3>3, <3>4, <3>5, <3>6
  <2> QED
    BY <1>1, <2>1, <2>2 DEF Reconcile
<1>2. ASSUME DropClaims PROVE TypeInv'
  BY <1>2 DEF DropClaims, Go, ClaimsOf
<1>3. ASSUME EnsureClaim PROVE TypeInv'
  <2>1. ctl.seen \in Workload /\ ctl.want \in Workload
    BY <1>3 DEF EnsureClaim
  <2>2. \A reason \in Reasons : [ctl.want EXCEPT !.blocked = reason] \in Workload
    BY <2>1 DEF Workload
  <2>3. [uid |-> ctl.seen.uid, of |-> ctl.want.stamp, bound |-> FALSE] \in [uid : 1..MaxCreates, of : Deliveries,
      bound : BOOLEAN]
    BY <2>1 DEF Workload
  <2>4. claims' \subseteq [uid : 1..MaxCreates, of : Deliveries, bound : BOOLEAN]
    BY <1>3, <2>3 DEF EnsureClaim
  <2>5. PICK reason \in {"MaterializerPending", "ClaimPending"} : ctl' = [ctl EXCEPT !.step = "stale", !.want =
      [ctl.want EXCEPT !.blocked = reason]]
    BY <1>3 DEF EnsureClaim, Go
  <2>6. [ctl.want EXCEPT !.blocked = reason] \in Workload
    BY <2>2 DEF Reasons
  <2> QED
    BY <1>3, <2>1, <2>4, <2>5, <2>6 DEF EnsureClaim
<1>4. ASSUME DropStale PROVE TypeInv'
  BY <1>4 DEF DropStale, Go, ClaimsOf
<1>5. ASSUME Compare PROVE TypeInv'
  <2>1. CASE ctl' = Idle
    BY <1>5, <2>1 DEF Compare
  <2>2. CASE ctl' = [ctl EXCEPT !.step = "patch", !.want = ctl.want]
    BY <1>5, <2>2 DEF Compare
  <2> QED
    BY <1>5, <2>1, <2>2 DEF Compare, Go
<1>6. ASSUME Patch PROVE TypeInv'
  <2>1. w \in Workload /\ ctl.seen \in Workload /\ ctl.want \in Workload
    BY <1>6, IsWorkload DEF Patch, Refused
  <2>2. w' \in Workload \cup {NoWorkload}
    BY <1>6, <2>1, MergedType, StoredType DEF Patch
  <2> QED
    BY <1>6, <2>2 DEF Patch
<1>7. ASSUME CallFails PROVE TypeInv'
  BY <1>7 DEF CallFails
<1>8. ASSUME Restart PROVE TypeInv'
  <2>1. ctl' = Idle /\ ctl'.step = "idle"
    BY <1>8 DEF Restart
  <2>2. queued' \in BOOLEAN /\ faults' \in 0..MaxFaults
    BY <1>8 DEF Restart, Interest
  <2> QED
    BY <1>8, <2>1, <2>2, IdleType DEF Restart
<1>9. ASSUME SeeWorkload PROVE TypeInv'
  BY <1>9 DEF SeeWorkload, Passes, Interest
<1>10. ASSUME NEW m \in Models, SeeModel(m) PROVE TypeInv'
  BY <1>10 DEF SeeModel
<1>11. ASSUME NEW refs \in SUBSET Models, Refer(refs) PROVE TypeInv'
  <2> DEFINE new == [w EXCEPT !.refs = refs]
  <2>1. w \in Workload
    BY <1>11, IsWorkload DEF Refer, EditCounted, Edit
  <2>2. new \in Workload
    BY <2>1 DEF Workload
  <2>3. w' \in Workload
    BY <1>11, <2>2, AdmittedType DEF Refer, EditCounted, Edit
  <2> HIDE DEF new
  <2> QED
    BY <1>11, <2>3 DEF Refer, EditCounted, Edit
<1>12. ASSUME NEW refs \in SUBSET Models, NEW foreign \in BOOLEAN, Create(refs, foreign) PROVE TypeInv'
  <2> DEFINE new == [NoWorkload EXCEPT !.uid = creates + 1, !.refs = refs, !.pod.foreign = foreign]
  <2>1. creates + 1 \in 1..MaxCreates
    BY <1>12 DEF Create
  <2> DEFINE o == [NoWorkload EXCEPT !.uid = creates + 1]
  <2>2. o \in Workload
    <3>1. \A u \in 1..MaxCreates : [NoWorkload EXCEPT !.uid = u] \in Workload
      BY NoWorkloadType DEF Workload
    <3> QED
      BY <2>1, <3>1
  <2> HIDE DEF o
  <2>3. [o EXCEPT !.refs = refs, !.pod.foreign = foreign] \in Workload
    BY <2>2 DEF Workload
  <2>3a. new = [o EXCEPT !.refs = refs, !.pod.foreign = foreign]
    BY DEF o
  <2> HIDE DEF new
  <2>4. w' = Admitted(w, new)
    BY <1>12 DEF Create, new
  <2>5. w' \in Workload
    BY <2>3, <2>3a, <2>4, AdmittedType
  <2> QED
    BY <1>12, <2>1, <2>5 DEF Create
<1>13. ASSUME NEW foreign \in BOOLEAN, ReplaceTemplate(foreign) PROVE TypeInv'
  <2> DEFINE r == RemoveManagedState(w)
             new == [r EXCEPT !.pod.foreign = foreign]
  <2>1. r \in Workload
    BY <1>13, IsWorkload, RemovedType DEF ReplaceTemplate, EditCounted, Edit
  <2> HIDE DEF r
  <2>2. new \in Workload
    BY <2>1 DEF Workload
  <2> HIDE DEF new
  <2>3. w' = Admitted(w, new)
    BY <1>13 DEF ReplaceTemplate, EditCounted, Edit, new, r
  <2>4. w' \in Workload
    BY <2>2, <2>3, AdmittedType
  <2> QED
    BY <1>13, <2>4 DEF ReplaceTemplate, EditCounted, Edit
<1>14. ASSUME ReplaceSpec PROVE TypeInv'
  <2> DEFINE r == RemoveManagedState(w)
             new == [r EXCEPT !.stamp = w.stamp]
  <2>1. r \in Workload /\ w \in Workload
    BY <1>14, IsWorkload, RemovedType DEF ReplaceSpec, Edit
  <2> HIDE DEF r
  <2>2. new \in Workload
    BY <2>1 DEF Workload
  <2> HIDE DEF new
  <2>3. w' = Admitted(w, new)
    BY <1>14 DEF ReplaceSpec, Edit, new, r
  <2>4. w' \in Workload
    BY <2>2, <2>3, AdmittedType
  <2> QED
    BY <1>14, <2>4 DEF ReplaceSpec, Edit
<1>15. ASSUME Delete PROVE TypeInv'
  <2>1. w \in Workload
    BY <1>15, IsWorkload DEF Delete
  <2>2. [w EXCEPT !.deleting = TRUE] \in Workload
    BY <2>1 DEF Workload
  <2>3. w' \in Workload \cup {NoWorkload}
    BY <1>15, <2>2, StoredType DEF Delete
  <2> QED
    BY <1>15, <2>3 DEF Delete
<1>16. ASSUME NEW m \in Models, Publish(m) PROVE TypeInv'
  BY <1>16 DEF Publish
<1>17. ASSUME NEW m \in Models, Withdraw(m) PROVE TypeInv'
  BY <1>17 DEF Withdraw
<1>18. ASSUME NEW c \in claims, BindClaim(c) PROVE TypeInv'
  BY <1>18 DEF BindClaim
<1>19. ASSUME NEW c \in claims, CollectClaim(c) PROVE TypeInv'
  BY <1>19 DEF CollectClaim
<1>20. ASSUME UNCHANGED vars PROVE TypeInv'
  BY <1>20 DEF vars
<1> QED
  BY <1>1, <1>2, <1>3, <1>4, <1>5, <1>6, <1>7, <1>8, <1>9, <1>10, <1>11, <1>12, <1>13, <1>14, <1>15, <1>16, <1>17,
      <1>18, <1>19, <1>20 DEF Next, Controller, Environment

LEMMA TypesHold == Spec => []TypeInv
BY TypeInit, TypeNext, PTL DEF Spec

(* The workload, its claims, what the informers and the reconcile have read and   *)
(* the bounds keep their types, in particular what a stale merge patch leaves.    *)
THEOREM TypeCorrect == Spec => []TypeOK
<1>1. TypeInv => TypeOK
  BY DEF TypeInv
<1> QED
  BY <1>1, TypesHold, PTL

-----------------------------------------------------------------------------
(* The stamp says what is mounted, in what is stored as in what is read and        *)
(* wanted; and what is wanted leaves a user's own volume alone.                   *)

AsStamped(o) == o.stamp = o.pod.mount

StampGates == Refers(w) /\ ~HasGate(w) => w.stamp # {}

MountsAreStamped ==
  /\ ctl.want.pod.foreign = ctl.seen.pod.foreign
  /\ specEdits = 0 => AsStamped(w) /\ AsStamped(cache) /\ AsStamped(ctl.seen) /\ AsStamped(ctl.want)

StartInv == StampGates /\ MountsAreStamped

LEMMA NoWorkloadStamped == AsStamped(NoWorkload) /\ NoWorkload.refs = {}
BY DEF AsStamped, NoWorkload

(* Whatever the controller makes of a workload is as it is stamped.              *)

LEMMA RemovedStamped == \A o \in Workload : AsStamped(RemoveManagedState(o)) /\ RemoveManagedState(o).pod.foreign =
    o.pod.foreign
BY DEF AsStamped, RemoveManagedState, Unmounted, Workload

LEMMA StoppedStamped == \A o \in Workload : \A reason \in Reasons :
  AsStamped(Stopped(o, reason)) /\ Stopped(o, reason).pod.foreign = o.pod.foreign
<1> SUFFICES ASSUME NEW o \in Workload, NEW reason \in Reasons
             PROVE  AsStamped(Stopped(o, reason)) /\ Stopped(o, reason).pod.foreign = o.pod.foreign
  OBVIOUS
<1> DEFINE r == RemoveManagedState(o)
<1>1. r \in Workload /\ AsStamped(r) /\ r.pod.foreign = o.pod.foreign
  BY RemovedType, RemovedStamped
<1> HIDE DEF r
<1>2. [r EXCEPT !.gate = TRUE, !.blocked = reason, !.fin = FALSE].stamp = r.stamp
      /\ [r EXCEPT !.gate = TRUE, !.blocked = reason, !.fin = FALSE].pod = r.pod
  BY <1>1 DEF Workload
<1> QED
  BY <1>1, <1>2 DEF Stopped, AsStamped, r

LEMMA RenderedStamped == \A o \in Workload : \A delivery \in Deliveries : \A reason \in Reasons :
  AsStamped(Rendered(o, delivery, reason)) /\ Rendered(o, delivery, reason).pod.foreign = o.pod.foreign
BY DEF AsStamped, Rendered, Mounted, Workload

(* What is stored has passed the webhook.                                        *)

LEMMA AdmittedGates == \A old : \A new \in Workload :
  /\ Refers(Admitted(old, new)) /\ ~HasGate(Admitted(old, new)) => Admitted(old, new).stamp # {}
  /\ AsStamped(new) => AsStamped(Admitted(old, new))
BY DEF Admitted, Refers, HasGate, AsStamped, Workload

LEMMA StoredGates == \A old : \A new \in Workload :
  /\ Refers(Stored(old, new)) /\ ~HasGate(Stored(old, new)) => Stored(old, new).stamp # {}
  /\ AsStamped(new) => AsStamped(Stored(old, new))
BY AdmittedGates, NoWorkloadStamped DEF Stored, Refers

(* A merge patch changes stamp and mounts together or not at all, in whatever     *)
(* workload it lands.                                                            *)
LEMMA MergedStamped ==
  ASSUME NEW cur \in Workload, NEW seen \in Workload, NEW want \in Workload, want.pod.foreign = seen.pod.foreign,
         AsStamped(cur), AsStamped(seen), AsStamped(want)
  PROVE  AsStamped(Merged(cur, seen, want))
<1>1. want.stamp = seen.stamp <=> want.pod = seen.pod
  <2>1. /\ want.pod \in [mount : Deliveries, foreign : BOOLEAN] /\ seen.pod \in [mount : Deliveries, foreign : BOOLEAN]
        /\ want.stamp = want.pod.mount /\ seen.stamp = seen.pod.mount
    BY DEF Workload, AsStamped
  <2>2. want.pod.mount = seen.pod.mount => want.pod = seen.pod
    BY <2>1
  <2> QED
    BY <2>1, <2>2
<1>2. /\ Merged(cur, seen, want).stamp = IF want.stamp = seen.stamp THEN cur.stamp ELSE want.stamp
      /\ Merged(cur, seen, want).pod = IF want.pod = seen.pod THEN cur.pod ELSE want.pod
  BY DEF Merged, Workload
<1> QED
  BY <1>1, <1>2 DEF AsStamped

LEMMA StartInit == Init => StartInv
BY NoWorkloadStamped DEF Init, StartInv, StampGates, MountsAreStamped, Idle, Refers

LEMMA StartNext == TypeInv /\ StartInv /\ [Next]_vars => StartInv'
<1> SUFFICES ASSUME TypeInv, StartInv, [Next]_vars PROVE StartInv'
  OBVIOUS
<1>0. specEdits \in Nat /\ (ctl.step # "idle" => ctl.seen \in Workload /\ ctl.want \in Workload)
  BY BoundTypes DEF TypeInv, TypeOK, WorksOnWorkload
<1> USE <1>0, NoWorkloadStamped DEF StartInv, StampGates, MountsAreStamped, Idle, storeVars, readVars, bounds
<1>1. ASSUME Reconcile PROVE StartInv'
  <2> USE DEF TypeInv, TypeOK
  <2>1. CASE Nothing
    BY <1>1, <2>1 DEF Reconcile, Nothing
  <2>2. CASE Exists(cache) /\ (Finalize \/ Remove \/ KeepPending \/ Block \/ Apply)
    <3>1. cache \in Workload
      BY <2>2, IsWorkload
    <3>2. PICK step, want, compares :
            /\ ctl' = [step |-> step, seen |-> cache, want |-> want, compares |-> compares]
            /\ want.pod.foreign = cache.pod.foreign /\ (AsStamped(cache) => AsStamped(want))
      <4>1. CASE Finalize
        <5>1. [cache EXCEPT !.fin = FALSE].pod = cache.pod /\ [cache EXCEPT !.fin = FALSE].stamp = cache.stamp
          BY <3>1 DEF Workload
        <5> DEFINE want == [cache EXCEPT !.fin = FALSE]
        <5>2. ctl' = [step |-> "patch", seen |-> cache, want |-> want, compares |-> FALSE]
          BY <4>1 DEF Finalize, Begin
        <5>3. want.pod.foreign = cache.pod.foreign /\ (AsStamped(cache) => AsStamped(want))
          BY <5>1 DEF AsStamped
        <5> HIDE DEF want
        <5> QED
          BY <5>2, <5>3
      <4>2. CASE Remove
        <5> DEFINE r == RemoveManagedState(cache)
        <5>1. r \in Workload /\ AsStamped(r) /\ r.pod.foreign = cache.pod.foreign
          BY <3>1, RemovedType, RemovedStamped
        <5> HIDE DEF r
        <5>2. [r EXCEPT !.fin = FALSE].pod = r.pod /\ [r EXCEPT !.fin = FALSE].stamp = r.stamp
          BY <5>1 DEF Workload
        <5> DEFINE want == [r EXCEPT !.fin = FALSE]
        <5>3. ctl' = [step |-> "drop", seen |-> cache, want |-> want, compares |-> FALSE]
          BY <4>2 DEF Remove, Begin, r
        <5>4. want.pod.foreign = cache.pod.foreign /\ AsStamped(want)
          BY <5>1, <5>2 DEF AsStamped
        <5> HIDE DEF want
        <5> QED
          BY <5>3, <5>4
      <4>3. CASE KeepPending
        BY <3>1, <4>3, StoppedStamped DEF KeepPending, Begin, Reasons
      <4>4. CASE Block
        BY <3>1, <4>4, StoppedStamped, ReasonTypes DEF Block, Begin
      <4>5. CASE Apply
        <5> DEFINE delivery == Resolve(cache.refs, known)
        <5>1. cache.refs \in SUBSET Models
          BY <3>1 DEF Workload
        <5>2. delivery \in Deliveries
          BY <4>5, <5>1, ResolvedType DEF Apply
        <5>3. AsStamped(Rendered(cache, delivery, GateReason(delivery)))
              /\ Rendered(cache, delivery, GateReason(delivery)).pod.foreign = cache.pod.foreign
          BY <3>1, <5>2, RenderedStamped, ReasonTypes
        <5> QED
          BY <4>5, <5>3 DEF Apply, Begin
      <4> QED
        BY <2>2, <4>1, <4>2, <4>3, <4>4, <4>5
    <3> QED
      BY <1>1, <3>2 DEF Reconcile
  <2> QED
    BY <1>1, <2>1, <2>2 DEF Reconcile
<1>2. ASSUME DropClaims PROVE StartInv'
  BY <1>2 DEF DropClaims, Go, TypeInv, TypeOK
<1>3. ASSUME EnsureClaim PROVE StartInv'
  <2>1. ctl.want \in Workload
    BY <1>3 DEF EnsureClaim
  <2>2. PICK reason \in {"MaterializerPending", "ClaimPending"} : ctl' = [ctl EXCEPT !.step = "stale", !.want =
      [ctl.want EXCEPT !.blocked = reason]]
    BY <1>3 DEF EnsureClaim, Go
  <2>3. "want" \in DOMAIN ctl /\ "seen" \in DOMAIN ctl
    BY DEF TypeInv, TypeOK
  <2>4. ctl'.seen = ctl.seen /\ ctl'.want = [ctl.want EXCEPT !.blocked = reason]
    BY <2>2, <2>3
  <2>5. ctl'.want.stamp = ctl.want.stamp /\ ctl'.want.pod = ctl.want.pod
    BY <2>1, <2>4 DEF Workload
  <2> QED
    BY <1>3, <2>4, <2>5 DEF EnsureClaim, AsStamped
<1>4. ASSUME DropStale PROVE StartInv'
  BY <1>4 DEF DropStale, Go, TypeInv, TypeOK
<1>5. ASSUME Compare PROVE StartInv'
  <2>1. "want" \in DOMAIN ctl /\ "seen" \in DOMAIN ctl
    BY DEF TypeInv, TypeOK
  <2>2. CASE ctl' = Idle
    BY <1>5, <2>2 DEF Compare
  <2>3. CASE ctl' = [ctl EXCEPT !.step = "patch", !.want = ctl.want]
    <3>1. ctl'.seen = ctl.seen /\ ctl'.want = ctl.want
      BY <2>1, <2>3
    <3> QED
      BY <1>5, <3>1 DEF Compare
  <2> QED
    BY <1>5, <2>2, <2>3 DEF Compare, Go
<1>6. ASSUME Patch PROVE StartInv'
  <2>1. w \in Workload /\ ctl.seen \in Workload /\ ctl.want \in Workload
    BY <1>6, IsWorkload DEF Patch, Refused, TypeInv, TypeOK
  <2> DEFINE new == Merged(w, ctl.seen, ctl.want)
  <2>2. new \in Workload /\ (specEdits = 0 => AsStamped(new))
    BY <2>1, MergedType, MergedStamped
  <2> HIDE DEF new
  <2>3. w' = Stored(w, new)
    BY <1>6 DEF Patch, new
  <2> QED
    BY <1>6, <2>2, <2>3, StoredGates DEF Patch
<1>7. ASSUME CallFails PROVE StartInv'
  BY <1>7 DEF CallFails
<1>8. ASSUME Restart PROVE StartInv'
  BY <1>8 DEF Restart, Interest
<1>9. ASSUME SeeWorkload PROVE StartInv'
  BY <1>9 DEF SeeWorkload, Passes, Interest
<1>10. ASSUME NEW m \in Models, SeeModel(m) PROVE StartInv'
  BY <1>10 DEF SeeModel
<1>11. ASSUME NEW refs \in SUBSET Models, Refer(refs) PROVE StartInv'
  <2> DEFINE new == [w EXCEPT !.refs = refs]
  <2>1. w \in Workload
    BY <1>11, IsWorkload DEF Refer, EditCounted, Edit, TypeInv, TypeOK
  <2>2. new \in Workload /\ (AsStamped(w) => AsStamped(new))
    BY <2>1 DEF Workload, AsStamped
  <2> HIDE DEF new
  <2>3. w' = Admitted(w, new)
    BY <1>11 DEF Refer, EditCounted, Edit, new
  <2> QED
    BY <1>11, <2>2, <2>3, AdmittedGates DEF Refer, EditCounted, Edit
<1>12. ASSUME NEW refs \in SUBSET Models, NEW foreign \in BOOLEAN, Create(refs, foreign) PROVE StartInv'
  <2> DEFINE o == [NoWorkload EXCEPT !.uid = creates + 1]
             new == [o EXCEPT !.refs = refs, !.pod.foreign = foreign]
  <2>1. creates + 1 \in 1..MaxCreates
    BY <1>12, BoundTypes DEF Create, TypeInv, TypeOK
  <2>2. o \in Workload /\ AsStamped(o)
    <3>1. \A u \in 1..MaxCreates : [NoWorkload EXCEPT !.uid = u] \in Workload /\ AsStamped([NoWorkload EXCEPT !.uid = u])
      BY NoWorkloadType DEF Workload, AsStamped
    <3> QED
      BY <2>1, <3>1
  <2> HIDE DEF o
  <2>3. new \in Workload /\ AsStamped(new)
    BY <2>2 DEF Workload, AsStamped
  <2>4. w' = Admitted(w, new)
    BY <1>12 DEF Create, o
  <2> HIDE DEF new
  <2> QED
    BY <1>12, <2>3, <2>4, AdmittedGates DEF Create
<1>13. ASSUME NEW foreign \in BOOLEAN, ReplaceTemplate(foreign) PROVE StartInv'
  <2> DEFINE r == RemoveManagedState(w)
             new == [r EXCEPT !.pod.foreign = foreign]
  <2>1. r \in Workload /\ AsStamped(r)
    BY <1>13, IsWorkload, RemovedType, RemovedStamped DEF ReplaceTemplate, EditCounted, Edit, TypeInv, TypeOK
  <2> HIDE DEF r
  <2>2. new \in Workload /\ AsStamped(new)
    BY <2>1 DEF Workload, AsStamped
  <2> HIDE DEF new
  <2>3. w' = Admitted(w, new)
    BY <1>13 DEF ReplaceTemplate, EditCounted, Edit, new, r
  <2> QED
    BY <1>13, <2>2, <2>3, AdmittedGates DEF ReplaceTemplate, EditCounted, Edit
<1>14. ASSUME ReplaceSpec PROVE StartInv'
  <2> DEFINE r == RemoveManagedState(w)
             new == [r EXCEPT !.stamp = w.stamp]
  <2>1. r \in Workload /\ w \in Workload
    BY <1>14, IsWorkload, RemovedType DEF ReplaceSpec, Edit, TypeInv, TypeOK
  <2> HIDE DEF r
  <2>2. new \in Workload
    BY <2>1 DEF Workload
  <2> HIDE DEF new
  <2>3. w' = Admitted(w, new) /\ specEdits' > 0
    BY <1>14 DEF ReplaceSpec, Edit, new, r
  <2>4. UNCHANGED <<ctl, cache>>
    BY <1>14 DEF ReplaceSpec, Edit
  <2>5. Refers(w') /\ ~HasGate(w') => ~(w'.stamp = {})
    BY <2>2, <2>3, AdmittedGates
  <2> QED
    BY <2>3, <2>4, <2>5 DEF Refers, HasGate
<1>15. ASSUME Delete PROVE StartInv'
  <2>1. w \in Workload
    BY <1>15, IsWorkload DEF Delete, TypeInv, TypeOK
  <2> DEFINE new == [w EXCEPT !.deleting = TRUE]
  <2>2. new \in Workload /\ (AsStamped(w) => AsStamped(new))
    BY <2>1 DEF Workload, AsStamped
  <2> HIDE DEF new
  <2>3. w' = Stored(w, new)
    BY <1>15 DEF Delete, new
  <2> QED
    BY <1>15, <2>2, <2>3, StoredGates DEF Delete
<1>16. ASSUME NEW m \in Models, Publish(m) PROVE StartInv'
  BY <1>16 DEF Publish
<1>17. ASSUME NEW m \in Models, Withdraw(m) PROVE StartInv'
  BY <1>17 DEF Withdraw
<1>18. ASSUME NEW c \in claims, BindClaim(c) PROVE StartInv'
  BY <1>18 DEF BindClaim
<1>19. ASSUME NEW c \in claims, CollectClaim(c) PROVE StartInv'
  BY <1>19 DEF CollectClaim
<1>20. ASSUME UNCHANGED vars PROVE StartInv'
  BY <1>20 DEF vars
<1> QED
  BY <1>1, <1>2, <1>3, <1>4, <1>5, <1>6, <1>7, <1>8, <1>9, <1>10, <1>11, <1>12, <1>13, <1>14, <1>15, <1>16, <1>17,
      <1>18, <1>19, <1>20 DEF Next, Controller, Environment

LEMMA StartHolds == Spec => []StartInv
BY TypesHold, StartInit, StartNext, PTL DEF Spec

(* The Pods of a workload that refers to models start with mounts or not at all,  *)
(* however late caches and patches are, unless its Pod spec was set apart from    *)
(* the annotations.                                                              *)
THEOREM PodsStartWithModels == Spec => []StartsWithModels
<1>1. TypeInv /\ StartInv => StartsWithModels
  BY BoundTypes DEF TypeInv, TypeOK, StartInv, StampGates, MountsAreStamped, AsStamped, StartsWithModels,
      StartsEmpty, Refers, HasGate
<1> QED
  BY <1>1, TypesHold, StartHolds, PTL
=============================================================================
