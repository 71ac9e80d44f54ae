------------------------ MODULE GarbageCollection_proofs ------------------------
(***************************************************************************)
(* What is proved of the two sides of DMCR's garbage collection: GCRequests, *)
(* the requests and the loop that serves them, and SealedBlobs, what the      *)
(* registry stores while uploads complete and the collector deletes.          *)
(*                                                                         *)
(* GCRequests, for any number of executors, owners and requests: a request    *)
(* that reads as done was answered by a cleanup that began after it was last  *)
(* asked for. The invariant ties the listed copies to the history: while an   *)
(* executor cleans, each request it has listed and that is still unchanged    *)
(* was asked for before the cleanup began; while it marks them done, each of  *)
(* them that is still unchanged is covered.                                   *)
(*                                                                         *)
(* SealedBlobs, for any number of sessions, repositories, digests and         *)
(* requests: what a published digest resolves to is kept by two things: of a  *)
(* repository only one request is under way, which knows that its object is   *)
(* there; and while the collector works from its lists no request is. The     *)
(* second is the premise Drained, see SealedBlobs.                            *)
(***************************************************************************)
EXTENDS GCRequests, SealedBlobs, FiniteSetTheorems, TLAPS

-----------------------------------------------------------------------------
(* GCRequests.                                                                *)

\* The listed copies an Update could still replace belong to the cleanup.
CopiesSwept ==
    \A e \in Executor :
        /\ pc[e] = "cleaning" => fresh[e] \subseteq sweeping[e]
        /\ pc[e] = "completing" => fresh[e] \subseteq covered

RequestsInv == RequestsTypeOK /\ CopiesSwept /\ DoneMeansCleaned

\* The end of a step resets the executor's local variables.
LEMMA ReturnTypes ==
    ASSUME RequestsTypeOK, NEW e \in Executor, Return(e)
    PROVE  /\ pc' \in [Executor -> Labels]
           /\ seen' \in [Executor -> [Key -> States]]
           /\ todo' \in [Executor -> SUBSET Key]
           /\ \A x \in Executor : todo'[x] # {} =>
                pc'[x] \in {"pruning", "arming", "requeueing", "completing"}
           /\ \A x \in Executor : pc'[x] = pc[x] \/ pc'[x] = "idle"
  <1>1. pc' \in [Executor -> Labels]
    BY DEF Return, Goto, RequestsTypeOK, Labels
  <1>2. [k \in Key |-> "absent"] \in [Key -> States]
    BY DEF States
  <1>3. seen' \in [Executor -> [Key -> States]]
    BY <1>2 DEF Return, RequestsTypeOK
  <1>4. todo' \in [Executor -> SUBSET Key]
    BY DEF Return, RequestsTypeOK
  <1>5. \A x \in Executor : todo'[x] # {} =>
                pc'[x] \in {"pruning", "arming", "requeueing", "completing"}
    BY DEF Return, Goto, RequestsTypeOK
  <1>6. \A x \in Executor : pc'[x] = pc[x] \/ pc'[x] = "idle"
    BY DEF Return, Goto, RequestsTypeOK
  <1> QED BY <1>1, <1>3, <1>4, <1>5, <1>6

\* A step of the loop over todo[e] leaves e in the loop or back in RunLoop.
LEMMA HandledTypes ==
    ASSUME RequestsTypeOK, NEW e \in Executor, NEW k \in Key, Handled(e, k),
           pc[e] \in {"arming", "requeueing", "completing"}
    PROVE  /\ pc' \in [Executor -> Labels]
           /\ seen' \in [Executor -> [Key -> States]]
           /\ todo' \in [Executor -> SUBSET Key]
           /\ \A x \in Executor : todo'[x] # {} =>
                pc'[x] \in {"pruning", "arming", "requeueing", "completing"}
           /\ \A x \in Executor : pc'[x] = pc[x] \/ pc'[x] = "idle"
  <1>1. CASE Return(e)
    BY <1>1, ReturnTypes
  <1>2. CASE todo' = [todo EXCEPT ![e] = @ \ {k}] /\ UNCHANGED <<pc, seen>>
    <2>1. todo' \in [Executor -> SUBSET Key]
      BY <1>2 DEF RequestsTypeOK
    <2>2. \A x \in Executor : todo'[x] \subseteq todo[x]
      BY <1>2 DEF RequestsTypeOK
    <2>3. \A x \in Executor : todo'[x] # {} =>
                pc'[x] \in {"pruning", "arming", "requeueing", "completing"}
      BY <1>2, <2>2 DEF RequestsTypeOK
    <2> QED BY <1>2, <2>1, <2>3 DEF RequestsTypeOK
  <1> QED BY <1>1, <1>2 DEF Handled

\* Writing the listed copy of k changes nothing, or only k, which was fresh.
LEMMA UpdateCopyEffect ==
    ASSUME RequestsTypeOK, NEW e \in Executor, NEW k \in Key, NEW s \in States,
           UpdateCopy(e, k, s)
    PROVE  /\ request' \in [Key -> States]
           /\ fresh' \in [Executor -> SUBSET Key]
           /\ \A x \in Executor : fresh'[x] \subseteq fresh[x]
           /\ \A j \in Key : request'[j] = request[j]
                \/ (j = k /\ request'[j] = s /\ k \in fresh[e])
  <1>1. CASE request[k] = "absent"
    BY <1>1 DEF UpdateCopy, RequestsTypeOK
  <1>2. CASE request[k] # "absent"
    BY <1>2 DEF UpdateCopy, Write, RequestsTypeOK
  <1> QED BY <1>1, <1>2

LEMMA RequestsInvInit == RequestsInit => RequestsInv
  <1> SUFFICES ASSUME RequestsInit PROVE RequestsInv
    OBVIOUS
  <1>1. [k \in Key |-> "absent"] \in [Key -> States]
    BY DEF States
  <1>2. RequestsTypeOK
    BY <1>1 DEF RequestsInit, RequestsTypeOK, Labels
  <1>3. CopiesSwept
    BY DEF RequestsInit, CopiesSwept
  <1>4. DoneMeansCleaned
    BY DEF RequestsInit, DoneMeansCleaned, Select, Done
  <1> QED BY <1>2, <1>3, <1>4 DEF RequestsInv

\* Asking again resets the history together with the Secret.
LEMMA AskKeepsInv ==
    ASSUME RequestsInv, NEW k \in Key, Ask(k), UNCHANGED <<publishing, seen, todo>>,
           checked' \in [Executor -> BOOLEAN], asks' \in Nat,
           pc' \in [Executor -> Labels],
           \A e \in Executor : pc'[e] = pc[e] \/ (pc[e] = "asking" /\ pc'[e] = "idle")
    PROVE  RequestsInv'
  <1> USE DEF RequestsInv
  <1>1. RequestsTypeOK'
    BY DEF RequestsTypeOK, Ask, Write, States, Pending, Queued
  <1>2. CopiesSwept'
    BY DEF RequestsTypeOK, CopiesSwept, Ask, Write
  <1>3. DoneMeansCleaned'
    BY DEF RequestsTypeOK, DoneMeansCleaned, Select, Done, Ask, Write
  <1> QED BY <1>1, <1>2, <1>3

\* One turn of a loop: only a fresh copy is written, and a copy that is marked
\* done while fresh is covered.
LEMMA TurnKeepsInv ==
    ASSUME RequestsInv, NEW e \in Executor, NEW k \in Key, NEW s \in States,
           pc[e] \in {"arming", "requeueing", "completing"},
           s \in Done => pc[e] = "completing",
           UpdateCopy(e, k, s), Handled(e, k),
           UNCHANGED <<publishing, checked, asks, sweeping, covered>>
    PROVE  RequestsInv'
  <1> USE DEF RequestsInv
  <1>1. RequestsTypeOK'
    BY HandledTypes, UpdateCopyEffect DEF RequestsTypeOK
  <1>2. CopiesSwept'
    <2>1. \A x \in Executor : fresh'[x] \subseteq fresh[x]
      BY UpdateCopyEffect
    <2>2. \A x \in Executor : pc'[x] = pc[x] \/ pc'[x] = "idle"
      BY HandledTypes
    <2> QED BY <2>1, <2>2 DEF CopiesSwept
  <1>3. DoneMeansCleaned'
    <2>1. \A j \in Key : request'[j] = request[j]
                \/ (j = k /\ request'[j] = s /\ k \in fresh[e])
      BY UpdateCopyEffect
    <2>2. s \in Done => fresh[e] \subseteq covered
      BY DEF CopiesSwept
    <2> QED BY <2>1, <2>2 DEF DoneMeansCleaned, Select
  <1> QED BY <1>1, <1>2, <1>3

\* A step that touches no Secret and no history, and moves only one executor
\* to a label other than cleaning and completing.
LEMMA MoveKeepsInv ==
    ASSUME RequestsInv, RequestsTypeOK', UNCHANGED <<request, fresh, sweeping, covered>>,
           \A x \in Executor :
              pc'[x] = pc[x] \/ pc'[x] \notin {"cleaning", "completing"}
    PROVE  RequestsInv'
  <1>1. CopiesSwept'
    BY DEF RequestsInv, CopiesSwept
  <1>2. DoneMeansCleaned'
    BY DEF RequestsInv, DoneMeansCleaned, Select
  <1> QED BY <1>1, <1>2 DEF RequestsInv

LEMMA EnvironmentKeepsInv == RequestsInv /\ Environment => RequestsInv'
  <1> SUFFICES ASSUME RequestsInv, Environment PROVE RequestsInv'
    OBVIOUS
  <1> USE DEF RequestsInv
  <1>1. ASSUME NEW k \in Owner, EnsureRequest(k) PROVE RequestsInv'
    <2>1. /\ Ask(k) /\ asks' \in Nat /\ pc' = pc /\ checked' = checked
          /\ UNCHANGED <<publishing, seen, todo>>
      BY <1>1 DEF EnsureRequest, CountAsk, RequestsTypeOK, listing
    <2> QED BY <2>1, AskKeepsInv DEF RequestsTypeOK, Key
  <1>2. ASSUME NEW k \in Key, Ripen(k) PROVE RequestsInv'
    <2>1. RequestsTypeOK'
      BY <1>2 DEF Ripen, RequestsTypeOK, listing, States, Pending, Queued
    <2>2. CopiesSwept' /\ DoneMeansCleaned'
      BY <1>2 DEF Ripen, RequestsTypeOK, listing, CopiesSwept, DoneMeansCleaned, Select, Done
    <2> QED BY <2>1, <2>2
  <1>3. ASSUME NEW k \in Key, Expire(k) PROVE RequestsInv'
    <2>1. RequestsTypeOK'
      BY <1>3 DEF Expire, RequestsTypeOK, listing, States, Done
    <2>2. CopiesSwept' /\ DoneMeansCleaned'
      BY <1>3 DEF Expire, RequestsTypeOK, listing, CopiesSwept, DoneMeansCleaned, Select, Done
    <2> QED BY <2>1, <2>2
  <1>4. CASE PublicationStarts \/ PublicationEnds
    BY <1>4, MoveKeepsInv DEF PublicationStarts, PublicationEnds, RequestsTypeOK, listing
  <1> QED BY <1>1, <1>2, <1>3, <1>4 DEF Environment

LEMMA CycleKeepsInv ==
    ASSUME RequestsInv, NEW e \in Executor, Cycle(e) PROVE RequestsInv'
  <1> USE DEF RequestsInv
  <1>1. CASE EnsureScheduledRequest(e)
    <2>1. /\ Ask(Scheduled) /\ asks' = asks /\ checked' = checked
          /\ UNCHANGED <<publishing, seen, todo>>
          /\ pc[e] = "asking" /\ pc' = [pc EXCEPT ![e] = "idle"]
      BY <1>1 DEF EnsureScheduledRequest, Goto
    <2>2. pc' \in [Executor -> Labels]
      BY <2>1 DEF RequestsTypeOK, Labels
    <2>3. \A x \in Executor : pc'[x] = pc[x] \/ (pc[x] = "asking" /\ pc'[x] = "idle")
      BY <2>1 DEF RequestsTypeOK
    <2> QED BY <2>1, <2>2, <2>3, AskKeepsInv DEF RequestsTypeOK, Key
  <1>2. CASE List(e)
    <2>1. pc' \in [Executor -> Labels] /\ todo' \in [Executor -> SUBSET Key]
      BY <1>2 DEF List, Goto, RequestsTypeOK, Labels, Select
    <2>2. seen' \in [Executor -> [Key -> States]] /\ fresh' \in [Executor -> SUBSET Key]
      BY <1>2 DEF List, RequestsTypeOK
    <2>3. \A x \in Executor : pc'[x] = IF x = e THEN "pruning" ELSE pc[x]
      BY <1>2 DEF List, Goto, RequestsTypeOK
    <2>4. \A x \in Executor : x # e => todo'[x] = todo[x] /\ fresh'[x] = fresh[x]
      BY <1>2 DEF List, RequestsTypeOK
    <2>5. RequestsTypeOK'
      BY <1>2, <2>1, <2>2, <2>3, <2>4 DEF List, RequestsTypeOK
    <2>6. CopiesSwept'
      BY <1>2, <2>3, <2>4 DEF List, CopiesSwept
    <2>7. DoneMeansCleaned'
      BY <1>2 DEF List, DoneMeansCleaned, Select
    <2> QED BY <2>5, <2>6, <2>7
  <1>3. ASSUME NEW k \in Key, Prune(e, k) PROVE RequestsInv'
    <2>1. RequestsTypeOK'
      BY <1>3 DEF Prune, Write, RequestsTypeOK, States
    <2>2. CopiesSwept'
      BY <1>3 DEF Prune, Write, RequestsTypeOK, CopiesSwept
    <2>3. DoneMeansCleaned'
      BY <1>3 DEF Prune, Write, RequestsTypeOK, DoneMeansCleaned, Select, Done
    <2> QED BY <2>1, <2>2, <2>3
  <1>4. CASE NothingToDo(e) \/ Defer(e)
    <2>1. Return(e) /\ UNCHANGED <<request, publishing, fresh, checked, asks, sweeping, covered>>
      BY <1>4 DEF NothingToDo, Defer
    <2>2. RequestsTypeOK'
      BY <2>1, ReturnTypes DEF RequestsTypeOK
    <2> QED BY <2>1, <2>2, ReturnTypes, MoveKeepsInv
  <1>5. CASE StartArming(e) \/ StartRequeueing(e)
    <2>1. /\ \E l \in {"arming", "requeueing"} : pc' = [pc EXCEPT ![e] = l]
          /\ \E w \in SUBSET Key : todo' = [todo EXCEPT ![e] = w]
          /\ UNCHANGED <<request, publishing, seen, fresh, checked, asks, sweeping, covered>>
      BY <1>5 DEF StartArming, StartRequeueing, Goto, Select
    <2>2. RequestsTypeOK' /\ \A x \in Executor : pc'[x] = pc[x] \/ pc'[x] \in {"arming", "requeueing"}
      BY <2>1 DEF RequestsTypeOK, Labels
    <2> QED BY <2>1, <2>2, MoveKeepsInv
  <1>6. CASE StartGate(e)
    <2>1. RequestsTypeOK' /\ \A x \in Executor : pc'[x] = pc[x] \/ pc'[x] = "gating"
      BY <1>6 DEF StartGate, Goto, RequestsTypeOK, Labels
    <2> QED BY <1>6, <2>1, MoveKeepsInv DEF StartGate
  <1>7. CASE BeginCleanup(e)
    <2>1. RequestsTypeOK'
      BY <1>7 DEF BeginCleanup, Goto, RequestsTypeOK, Labels
    <2>2. CopiesSwept'
      BY <1>7 DEF BeginCleanup, Goto, RequestsTypeOK, CopiesSwept
    <2>3. DoneMeansCleaned'
      BY <1>7 DEF BeginCleanup, DoneMeansCleaned, Select
    <2> QED BY <2>1, <2>2, <2>3
  <1>8. CASE FinishCleanup(e)
    <2>1. Select(seen[e], {"active"}) \in SUBSET Key
      BY DEF Select
    <2>2. RequestsTypeOK'
      BY <1>8, <2>1 DEF FinishCleanup, Goto, RequestsTypeOK, Labels
    <2>3. CopiesSwept'
      BY <1>8 DEF FinishCleanup, Goto, RequestsTypeOK, CopiesSwept
    <2>4. DoneMeansCleaned'
      BY <1>8 DEF FinishCleanup, DoneMeansCleaned, Select
    <2> QED BY <2>2, <2>3, <2>4
  <1>9. ASSUME NEW k \in Key, Arm(e, k) \/ Requeue(e, k) \/ Complete(e, k)
        PROVE  RequestsInv'
    <2>1. CASE Arm(e, k)
      BY <2>1, TurnKeepsInv DEF Arm, States, Pending, Done
    <2>2. CASE Requeue(e, k)
      BY <2>2, TurnKeepsInv DEF Requeue, States, Pending, Queued, Done
    <2>3. CASE Complete(e, k)
      BY <2>3, TurnKeepsInv DEF Complete, States, Done
    <2> QED BY <1>9, <2>1, <2>2, <2>3
  <1> QED BY <1>1, <1>2, <1>3, <1>4, <1>5, <1>6, <1>7, <1>8, <1>9 DEF Cycle

LEMMA RequestsInvStep == RequestsInv /\ [RequestsNext]_requestsVars => RequestsInv'
  <1> SUFFICES ASSUME RequestsInv, [RequestsNext]_requestsVars PROVE RequestsInv'
    OBVIOUS
  <1> USE DEF RequestsInv
  <1>1. CASE UNCHANGED requestsVars
    BY <1>1 DEF requestsVars, listing, RequestsTypeOK, CopiesSwept, DoneMeansCleaned, Select
  <1>2. CASE Environment
    BY <1>2, EnvironmentKeepsInv
  <1>3. ASSUME NEW e \in Executor, Cycle(e) PROVE RequestsInv'
    BY <1>3, CycleKeepsInv
  <1>4. ASSUME NEW e \in Executor, Planner(e) PROVE RequestsInv'
    <2>1. /\ pc' = pc \/ pc' = [pc EXCEPT ![e] = "asking"]
          /\ asks' \in Nat /\ checked' \in [Executor -> BOOLEAN]
          /\ pc[e] = "idle"
          /\ UNCHANGED <<request, publishing, seen, fresh, todo, sweeping, covered>>
      <3>1. asks \in Nat /\ checked \in [Executor -> BOOLEAN]
        BY DEF RequestsTypeOK
      <3>2. CASE StartupBackfill(e)
        <4>1. asks' \in Nat
          BY <3>1, <3>2 DEF StartupBackfill, CountAsk
        <4>2. checked' \in [Executor -> BOOLEAN]
          BY <3>1, <3>2 DEF StartupBackfill
        <4>3. pc' = pc \/ pc' = [pc EXCEPT ![e] = "asking"]
          BY <3>2 DEF StartupBackfill, Goto
        <4> QED BY <3>2, <4>1, <4>2, <4>3 DEF StartupBackfill
      <3>3. CASE ScheduleDue(e)
        <4>1. asks' \in Nat
          BY <3>1, <3>3 DEF ScheduleDue, CountAsk
        <4> QED BY <3>1, <3>3, <4>1 DEF ScheduleDue, Goto
      <3> QED BY <1>4, <3>2, <3>3 DEF Planner
    <2>2. RequestsTypeOK' /\ \A x \in Executor : pc'[x] = pc[x] \/ pc'[x] = "asking"
      BY <2>1 DEF RequestsTypeOK, Labels
    <2> QED BY <2>1, <2>2, MoveKeepsInv
  <1>5. ASSUME NEW e \in Executor, Restart(e) PROVE RequestsInv'
    <2>1. /\ Return(e) /\ checked' \in [Executor -> BOOLEAN]
          /\ sweeping' = [sweeping EXCEPT ![e] = {}]
          /\ UNCHANGED <<request, publishing, fresh, asks, covered>>
      BY <1>5 DEF Restart, RequestsTypeOK
    <2>2. RequestsTypeOK'
      BY <2>1, ReturnTypes DEF RequestsTypeOK
    <2>3. CopiesSwept'
      BY <2>1 DEF Return, Goto, RequestsTypeOK, CopiesSwept
    <2>4. DoneMeansCleaned'
      BY <2>1 DEF DoneMeansCleaned, Select
    <2> QED BY <2>2, <2>3, <2>4
  <1> QED BY <1>1, <1>2, <1>3, <1>4, <1>5 DEF RequestsNext

THEOREM RequestsInvariant == RequestsSpec => []RequestsInv
  <1> QED BY RequestsInvInit, RequestsInvStep, PTL DEF RequestsSpec

\* Requests, copies and control state keep their types for any number of
\* executors and owners.
THEOREM RequestTypes == RequestsSpec => []RequestsTypeOK
  <1>1. RequestsInv => RequestsTypeOK
    BY DEF RequestsInv
  <1> QED BY <1>1, RequestsInvariant, PTL

\* Whatever executors overlap, restart or collide with new asks, a request that
\* reads as done was answered by a cleanup that began after it was last asked
\* for (markRequestsCompleted writes the listed copies only).
THEOREM DoneRequestsWereCleaned == RequestsSpec => []DoneMeansCleaned
  <1>1. RequestsInv => DoneMeansCleaned
    BY DEF RequestsInv
  <1> QED BY <1>1, RequestsInvariant, PTL

-----------------------------------------------------------------------------
(* SealedBlobs.                                                               *)

(* The stages of a request after which its object is assembled, verified.     *)
Assembled == Pcs \ {"idle", "assemble"}
Verified == Assembled \ {"verify"}
Busy(c) == call[c].pc # "idle"

(* A request is for one session, and a repository has one at a time.          *)
CallsTyped == \A c \in Calls : call[c] = Idle \/ (Busy(c) /\ call[c].upload \in Uploads)
OneCall == \A c, e \in Calls :
  Busy(c) /\ Busy(e) /\ RepoOf[call[c].upload] = RepoOf[call[e].upload] => c = e

(* A session whose parts are sent takes no more of them: what was sealed or is *)
(* being completed does not change any more.                                  *)
CallsSent == \A c \in Calls :
  /\ Busy(c) => multipart[call[c].upload] \notin {"none", "open"}
  /\ call[c].pc \in Assembled => multipart[call[c].upload] = "done"
ObjectsDone == \A u \in objects : multipart[u] = "done"
SealsDone == \A d \in Digests : metadata[d] # None => multipart[metadata[d]] = "done" /\ DigestOf[metadata[d]] = d

(* Under the policy that rereads, what passed the verification is right.      *)
VerifiedContent == Rereads => \A c \in Calls : call[c].pc \in Verified => call[c].upload \notin corrupt

ContentInv ==
  /\ TypeOK /\ CallsTyped /\ OneCall /\ CallsSent /\ ObjectsDone /\ SealsDone
  /\ VerifiedContent /\ SealedContent

-----------------------------------------------------------------------------
(* From here on, requests end before the collector lists, and either the      *)
(* policy rereads or no transfer is damaged.                                  *)
SoundPolicy == Rereads \/ corrupt = {}

GCQuiet == gc.pc \notin {"idle", "checked", "closed"} => \A c \in Calls : call[c] = Idle

(* A request past the assembly has its object, and one that is about to delete *)
(* it has found the digest sealed by another.                                 *)
CallsHold == \A c \in Calls :
  /\ call[c].pc \in Assembled => call[c].upload \in objects
  /\ call[c].pc \in {"linkDuplicate", "dedup"} => metadata[DigestOf[call[c].upload]] # call[c].upload

(* What the collector deletes is not sealed, what its registry sweeps is not  *)
(* in a manifest.                                                             *)
DoomedLoose == gc.pc \in {"multi", "delete", "postDelete"} => gc.doomed \cap Sealed = {}
MarkedKept == gc.pc = "marked" => \A r \in manifests : DigestsIn(r) \subseteq gc.marked

StoreInv == ContentInv /\ SoundPolicy /\ GCQuiet /\ CallsHold /\ DoomedLoose /\ MarkedKept /\ PublishedReadable

-----------------------------------------------------------------------------
(* What is left for the cycle to delete of what it answers for, stage by      *)
(* stage.                                                                     *)
Open(us) == {u \in us : multipart[u] \in {"open", "sent"}}
StageInv ==
  LET old == objects \cap gc.targeted  all == objects \cap (gc.targeted \cup gc.sealed) IN
  /\ gc.pc = "stored" => old \subseteq gc.stored
  /\ gc.pc \in {"multi", "delete"} => old \subseteq Sealed \cup gc.doomed
  /\ gc.pc = "delete" => Open(gc.targeted) \subseteq gc.multi
  /\ gc.pc \in {"delete", "marked"} => Sealed \subseteq gc.sealed
  /\ gc.pc \in {"marked", "postStored", "postDelete", "done"} => Open(gc.targeted) = {}
  /\ gc.pc = "marked" => old \subseteq gc.sealed
  /\ gc.pc = "done" => gc.sealed = {} /\ old = {}
  /\ gc.pc = "postStored" => all \subseteq gc.stored
  /\ gc.pc = "postDelete" => all \subseteq Sealed \cup gc.doomed
  /\ \A u \in gc.sealed : multipart[u] = "done"

CycleInv == StoreInv /\ StageInv
-----------------------------------------------------------------------------
(* Types, and what requests and sessions promise whatever the collector does. *)
LEMMA TypeStep ==
  ASSUME TypeOK, CallsTyped, [Next]_vars
  PROVE  TypeOK'
<1> USE MappingAssumption DEF TypeOK, CallsTyped, Idle, IdleGC, Pcs, GCPcs, GoOn, End, Answer, GCStep, store, sessions, Sealed
<1>1. ASSUME NEW r \in Repos, StartPublication(r) PROVE TypeOK' BY <1>1 DEF StartPublication
<1>2. ASSUME NEW r \in Repos, DeleteModel(r) PROVE TypeOK' BY <1>2 DEF DeleteModel
<1>3. ASSUME NEW r \in Repos, PutManifest(r) PROVE TypeOK' BY <1>3 DEF PutManifest
<1>4. ASSUME NEW u \in Uploads, HandleStart(u) PROVE TypeOK' BY <1>4 DEF HandleStart
<1>5. ASSUME NEW u \in Uploads, SendParts(u) PROVE TypeOK' BY <1>5 DEF SendParts
<1>6. ASSUME NEW u \in Uploads, HandleAbort(u) PROVE TypeOK' BY <1>6 DEF HandleAbort
<1>7. ASSUME NEW u \in Uploads, Ages(u) PROVE TypeOK' BY <1>7 DEF Ages
<1>8. ASSUME NEW c \in Calls, NEW u \in Uploads, HandleComplete(c, u) PROVE TypeOK' BY <1>8 DEF HandleComplete
<1>9. ASSUME NEW c \in Calls, CompleteMultipartUploadOrUseCompletedObject(c) PROVE TypeOK'
  <2>1. call[c].upload \in Uploads
    BY <1>9 DEF CompleteMultipartUploadOrUseCompletedObject, Busy
  <2>2. multipart' \in {multipart, [multipart EXCEPT ![call[c].upload] = "done"]}
    BY <1>9 DEF CompleteMultipartUploadOrUseCompletedObject
  <2>3. objects' \subseteq Uploads
    BY <1>9, <2>1 DEF CompleteMultipartUploadOrUseCompletedObject
  <2>4. call' \in [Calls -> [pc : Pcs, upload : Uploads \cup {None}]]
    BY <1>9 DEF CompleteMultipartUploadOrUseCompletedObject
  <2>5. multipart' \in [Uploads -> {"none", "open", "sent", "done", "aborted"}]
    BY <2>1, <2>2
  <2>6. QED BY <1>9, <2>3, <2>4, <2>5 DEF CompleteMultipartUploadOrUseCompletedObject
<1>10. ASSUME NEW c \in Calls, VerifyUploadedObject(c) PROVE TypeOK'
  <2>1. objects' \in {objects, objects \ {call[c].upload}} /\ (GoOn(c, "check") \/ End(c))
    BY <1>10 DEF VerifyUploadedObject
  <2>2. call' \in [Calls -> [pc : Pcs, upload : Uploads \cup {None}]]
    BY <2>1
  <2>3. QED BY <1>10, <2>1, <2>2 DEF VerifyUploadedObject
<1>11. ASSUME NEW c \in Calls, SealedBlobState(c) PROVE TypeOK' BY <1>11 DEF SealedBlobState
<1>12. ASSUME NEW c \in Calls, WriteSealedBlobMetadata(c) PROVE TypeOK' BY <1>12 DEF WriteSealedBlobMetadata
<1>13. ASSUME NEW c \in Calls, PutRepositoryLink(c) PROVE TypeOK'
  <2>1. call[c].upload \in Uploads
    BY <1>13 DEF PutRepositoryLink, Busy
  <2>2. call' \in [Calls -> [pc : Pcs, upload : Uploads \cup {None}]] /\ acked' \subseteq Uploads
    BY <1>13, <2>1 DEF PutRepositoryLink
  <2>3. links' \in [Repos -> SUBSET Digests]
    BY <1>13, <2>1 DEF PutRepositoryLink
  <2>4. QED BY <1>13, <2>2, <2>3 DEF PutRepositoryLink
<1>14. ASSUME NEW c \in Calls, DeleteUploadedObject(c) PROVE TypeOK' BY <1>14 DEF DeleteUploadedObject
<1>15. ASSUME NEW c \in Calls, CallBreaks(c) PROVE TypeOK' BY <1>15 DEF CallBreaks
<1>16. ASSUME BeginCycle PROVE TypeOK' BY <1>16 DEF BeginCycle
<1>17. ASSUME CloseGate PROVE TypeOK' BY <1>17 DEF CloseGate
<1>18. ASSUME DiscoverStored PROVE TypeOK' BY <1>18 DEF DiscoverStored
<1>19. ASSUME StaleDirectUploadPrefixes PROVE TypeOK' BY <1>19 DEF StaleDirectUploadPrefixes
<1>20. ASSUME DiscoverMultipartUploads PROVE TypeOK' BY <1>20 DEF DiscoverMultipartUploads
<1>21. ASSUME DeleteStalePrefixes PROVE TypeOK'
  <2>1. links' \in [Repos -> SUBSET Digests] /\ manifests' \subseteq Repos
    BY <1>21 DEF DeleteStalePrefixes
  <2>2. multipart' \in [Uploads -> {"none", "open", "sent", "done", "aborted"}] /\ objects' \subseteq Uploads
    BY <1>21 DEF DeleteStalePrefixes
  <2>3. gc' \in [pc : GCPcs, recent : SUBSET Uploads, targeted : SUBSET Uploads, repos : SUBSET Repos,
                 stored : SUBSET Uploads, multi : SUBSET Uploads, doomed : SUBSET Uploads,
                 sealed : SUBSET Uploads, marked : SUBSET Digests]
    BY SMTT(40), <1>21 DEF DeleteStalePrefixes
  <2>4. QED BY <1>21, <2>1, <2>2, <2>3 DEF DeleteStalePrefixes
<1>22. ASSUME MarkManifests PROVE TypeOK'
  <2>1. \A r \in Repos : DigestsIn(r) \subseteq Digests
    BY DEF DigestsIn
  <2>2. UNION {DigestsIn(r) : r \in manifests} \subseteq Digests
    BY <2>1
  <2>3. QED BY <1>22, <2>2 DEF MarkManifests
<1>23. ASSUME NEW d \in Digests, SweepBlob(d) PROVE TypeOK' BY <1>23 DEF SweepBlob
<1>24. ASSUME PostGarbageCollect PROVE TypeOK' BY <1>24 DEF PostGarbageCollect
<1>25. ASSUME EndCycle PROVE TypeOK' BY <1>25 DEF EndCycle
<1>26. ASSUME StopCycle PROVE TypeOK' BY <1>26 DEF StopCycle
<1>27. CASE UNCHANGED vars BY <1>27 DEF vars
<1>28. QED BY <1>1, <1>2, <1>3, <1>4, <1>5, <1>6, <1>7, <1>8, <1>9, <1>10, <1>11, <1>12, <1>13, <1>14, <1>15, <1>16, <1>17, <1>18, <1>19, <1>20, <1>21, <1>22, <1>23, <1>24, <1>25, <1>26, <1>27 DEF Next, Handler, Collect

LEMMA ContentStep ==
  ASSUME ContentInv, [Next]_vars
  PROVE  ContentInv'
<1> DEFINE Kept == CallsTyped /\ OneCall /\ CallsSent /\ ObjectsDone /\ SealsDone /\ VerifiedContent /\ SealedContent
<1> USE MappingAssumption
    DEF ContentInv, TypeOK, CallsTyped, OneCall, CallsSent, ObjectsDone, SealsDone, VerifiedContent, SealedContent,
        Idle, Pcs, Assembled, Verified, Busy, Waiting, Working, GoOn, End, Answer, GCStep, store, sessions
<1>1. ASSUME NEW r \in Repos, StartPublication(r) PROVE Kept' BY <1>1 DEF StartPublication
<1>2. ASSUME NEW r \in Repos, DeleteModel(r) PROVE Kept' BY <1>2 DEF DeleteModel
<1>3. ASSUME NEW r \in Repos, PutManifest(r) PROVE Kept' BY <1>3 DEF PutManifest
<1>4. ASSUME NEW u \in Uploads, HandleStart(u) PROVE Kept' BY <1>4 DEF HandleStart
<1>5. ASSUME NEW u \in Uploads, SendParts(u) PROVE Kept' BY <1>5 DEF SendParts
<1>6. ASSUME NEW u \in Uploads, HandleAbort(u) PROVE Kept' BY <1>6 DEF HandleAbort
<1>7. ASSUME NEW u \in Uploads, Ages(u) PROVE Kept' BY <1>7 DEF Ages
<1>8. ASSUME NEW c \in Calls, NEW u \in Uploads, HandleComplete(c, u) PROVE Kept' BY <1>8 DEF HandleComplete
<1>9. ASSUME NEW c \in Calls, CompleteMultipartUploadOrUseCompletedObject(c) PROVE Kept'
  BY SMTT(40), <1>9 DEF CompleteMultipartUploadOrUseCompletedObject
<1>10. ASSUME NEW c \in Calls, VerifyUploadedObject(c) PROVE Kept'
  <2>1. call[c].upload \in Uploads /\ multipart[call[c].upload] = "done"
    BY <1>10 DEF VerifyUploadedObject
  <2>2. objects' \subseteq objects /\ (GoOn(c, "check") \/ End(c))
    BY <1>10 DEF VerifyUploadedObject
  <2>3. Rereads /\ GoOn(c, "check") => call[c].upload \notin corrupt
    BY <1>10, <2>1 DEF VerifyUploadedObject
  <2>4. UNCHANGED <<multipart, corrupt, metadata>>
    BY <1>10 DEF VerifyUploadedObject
  <2>5. (CallsTyped /\ OneCall /\ CallsSent)'
    <3>1. CASE GoOn(c, "check")
      BY <1>10, <2>1, <2>4, <3>1
    <3>2. CASE End(c)
      BY <2>4, <3>2
    <3>3. QED BY <2>2, <3>1, <3>2
  <2>6. VerifiedContent'
    BY <1>10, <2>2, <2>3, <2>4 DEF VerifyUploadedObject
  <2>7. QED BY <2>2, <2>4, <2>5, <2>6
<1>11. ASSUME NEW c \in Calls, SealedBlobState(c) PROVE Kept' BY <1>11 DEF SealedBlobState
<1>12. ASSUME NEW c \in Calls, WriteSealedBlobMetadata(c) PROVE Kept' BY <1>12 DEF WriteSealedBlobMetadata
<1>13. ASSUME NEW c \in Calls, PutRepositoryLink(c) PROVE Kept'
  <2>1. call[c].upload \in Uploads
    BY <1>13 DEF PutRepositoryLink
  <2>2. (call[c].pc = "linkDuplicate" /\ GoOn(c, "dedup")) \/ End(c)
    BY <1>13 DEF PutRepositoryLink
  <2>3. UNCHANGED <<multipart, objects, corrupt, metadata>>
    BY <1>13 DEF PutRepositoryLink
  <2>4. CASE End(c)
    BY <2>3, <2>4
  <2>5. CASE call[c].pc = "linkDuplicate" /\ GoOn(c, "dedup")
    BY <2>1, <2>3, <2>5
  <2>6. QED BY <2>2, <2>4, <2>5
<1>14. ASSUME NEW c \in Calls, DeleteUploadedObject(c) PROVE Kept' BY <1>14 DEF DeleteUploadedObject
<1>15. ASSUME NEW c \in Calls, CallBreaks(c) PROVE Kept' BY <1>15 DEF CallBreaks
<1>16. ASSUME BeginCycle PROVE Kept' BY <1>16 DEF BeginCycle
<1>17. ASSUME CloseGate PROVE Kept' BY <1>17 DEF CloseGate
<1>18. ASSUME DiscoverStored PROVE Kept' BY <1>18 DEF DiscoverStored
<1>19. ASSUME StaleDirectUploadPrefixes PROVE Kept' BY <1>19 DEF StaleDirectUploadPrefixes
<1>20. ASSUME DiscoverMultipartUploads PROVE Kept' BY <1>20 DEF DiscoverMultipartUploads
<1>21. ASSUME DeleteStalePrefixes PROVE Kept' BY <1>21 DEF DeleteStalePrefixes
<1>22. ASSUME MarkManifests PROVE Kept' BY <1>22 DEF MarkManifests
<1>23. ASSUME NEW d \in Digests, SweepBlob(d) PROVE Kept' BY <1>23 DEF SweepBlob
<1>24. ASSUME PostGarbageCollect PROVE Kept' BY <1>24 DEF PostGarbageCollect
<1>25. ASSUME EndCycle PROVE Kept' BY <1>25 DEF EndCycle
<1>26. ASSUME StopCycle PROVE Kept' BY <1>26 DEF StopCycle
<1>27. CASE UNCHANGED vars BY <1>27 DEF vars
<1>28. Kept'
  BY <1>1, <1>2, <1>3, <1>4, <1>5, <1>6, <1>7, <1>8, <1>9, <1>10, <1>11, <1>12, <1>13, <1>14, <1>15, <1>16, <1>17, <1>18, <1>19, <1>20, <1>21, <1>22, <1>23, <1>24, <1>25, <1>26, <1>27 DEF Next, Handler, Collect
<1>29. QED BY <1>28, TypeStep DEF ContentInv

THEOREM ContentCorrect == Spec => []ContentInv
<1>1. Init => ContentInv
  BY MappingAssumption
  DEF Init, ContentInv, TypeOK, CallsTyped, OneCall, CallsSent, ObjectsDone, SealsDone, VerifiedContent, SealedContent,
      Idle, IdleGC, Pcs, GCPcs, Assembled, Verified, Busy
<1>2. ContentInv /\ [Next]_vars => ContentInv'
  BY ContentStep
<1>3. QED BY <1>1, <1>2, PTL DEF Spec

(* The state keeps its types.                                                 *)
THEOREM TypeCorrect == Spec => []TypeOK
<1>1. ContentInv => TypeOK
  BY DEF ContentInv
<1>2. QED BY <1>1, ContentCorrect, PTL

(* The policy that rereads never seals damaged bytes, whether or not requests  *)
(* run beside the collector (verification.go, completion.go).                 *)
THEOREM ContentIntact == Spec => []SealedContent
<1>1. ContentInv => SealedContent
  BY DEF ContentInv
<1>2. QED BY <1>1, ContentCorrect, PTL

-----------------------------------------------------------------------------
(* What is published stays readable.                                          *)
LEMMA PolicyStep ==
  ASSUME ContentInv, SoundPolicy, Rereads \/ MaxCorrupt = 0, [Next]_vars
  PROVE  SoundPolicy'
<1>1. CASE Rereads
  BY <1>1 DEF SoundPolicy
<1>2. CASE corrupt = {} /\ MaxCorrupt = 0
  <2>1. ASSUME NEW u \in Uploads, SendParts(u) PROVE corrupt' = {}
    <3>1. Cardinality({u}) = 1
      BY FS_Singleton
    <3>2. corrupt' \in {{}, {u}} /\ Cardinality(corrupt') <= 0
      BY <1>2, <2>1 DEF SendParts
    <3>3. QED BY <3>1, <3>2
  <2>2. (\E u \in Uploads : SendParts(u)) \/ UNCHANGED corrupt
    BY DEF Next, vars, sessions, Handler, Collect, GCStep, StartPublication, DeleteModel, PutManifest, HandleStart, HandleAbort, Ages,
           HandleComplete, CompleteMultipartUploadOrUseCompletedObject, VerifyUploadedObject, SealedBlobState, WriteSealedBlobMetadata,
           PutRepositoryLink, DeleteUploadedObject, CallBreaks, BeginCycle, CloseGate, DiscoverStored, StaleDirectUploadPrefixes,
           DiscoverMultipartUploads, DeleteStalePrefixes, MarkManifests, SweepBlob, PostGarbageCollect, EndCycle, StopCycle
  <2>3. QED BY <1>2, <2>1, <2>2 DEF SoundPolicy
<1>3. QED BY <1>1, <1>2 DEF SoundPolicy

LEMMA StoreStep ==
  ASSUME StoreInv, Drained, Rereads \/ MaxCorrupt = 0, [Next]_vars
  PROVE  StoreInv'
<1> DEFINE Kept == GCQuiet /\ CallsHold /\ DoomedLoose /\ MarkedKept /\ PublishedReadable
<1>0. ASSUME UNCHANGED vars PROVE Kept'
  <2>1. UNCHANGED <<phase, objects, metadata, links, manifests, call, gc>>
    BY <1>0 DEF vars
  <2>2. (GCQuiet /\ CallsHold /\ DoomedLoose /\ MarkedKept)'
    BY <2>1 DEF StoreInv, GCQuiet, CallsHold, DoomedLoose, MarkedKept, DigestsIn, Sealed, Verified, GateOpen, Waiting, Working, Busy, Assembled
  <2>3. PublishedReadable'
    BY <2>1 DEF StoreInv, PublishedReadable, Readable, DigestsIn
  <2>4. QED BY <2>2, <2>3
<1> USE MappingAssumption
    DEF StoreInv, SoundPolicy, ContentInv, TypeOK, CallsTyped, OneCall, CallsSent, SealsDone, SealedContent,
        GCQuiet, CallsHold, DoomedLoose, MarkedKept, PublishedReadable, Readable, Sealed, DigestsIn, GateOpen,
        Idle, IdleGC, Pcs, Assembled, Verified, Busy, Waiting, Working, GoOn, End, Answer, GCStep, store, sessions
<1>1. ASSUME NEW r \in Repos, StartPublication(r) PROVE Kept' BY <1>1 DEF StartPublication
<1>2. ASSUME NEW r \in Repos, DeleteModel(r) PROVE Kept' BY <1>2 DEF DeleteModel
<1>3. ASSUME NEW r \in Repos, PutManifest(r) PROVE Kept' BY <1>3 DEF PutManifest
<1>4. ASSUME NEW u \in Uploads, HandleStart(u) PROVE Kept' BY <1>4 DEF HandleStart
<1>5. ASSUME NEW u \in Uploads, SendParts(u) PROVE Kept' BY <1>5 DEF SendParts
<1>6. ASSUME NEW u \in Uploads, HandleAbort(u) PROVE Kept' BY <1>6 DEF HandleAbort
<1>7. ASSUME NEW u \in Uploads, Ages(u) PROVE Kept' BY <1>7 DEF Ages
<1>8. ASSUME NEW c \in Calls, NEW u \in Uploads, HandleComplete(c, u) PROVE Kept' BY <1>8 DEF HandleComplete
<1>9. ASSUME NEW c \in Calls, CompleteMultipartUploadOrUseCompletedObject(c) PROVE Kept'
  BY SMTT(40), <1>9 DEF CompleteMultipartUploadOrUseCompletedObject
<1>10. ASSUME NEW c \in Calls, VerifyUploadedObject(c) PROVE Kept' BY <1>10 DEF VerifyUploadedObject
<1>11. ASSUME NEW c \in Calls, SealedBlobState(c) PROVE Kept' BY <1>11 DEF SealedBlobState
<1>12. ASSUME NEW c \in Calls, WriteSealedBlobMetadata(c) PROVE Kept' BY <1>12 DEF WriteSealedBlobMetadata
<1>13. ASSUME NEW c \in Calls, PutRepositoryLink(c) PROVE Kept' BY <1>13 DEF PutRepositoryLink
<1>14. ASSUME NEW c \in Calls, DeleteUploadedObject(c) PROVE Kept' BY <1>14 DEF DeleteUploadedObject
<1>15. ASSUME NEW c \in Calls, CallBreaks(c) PROVE Kept' BY <1>15 DEF CallBreaks
<1>16. ASSUME BeginCycle PROVE Kept' BY <1>16 DEF BeginCycle
<1>17. ASSUME CloseGate PROVE Kept' BY <1>17 DEF CloseGate
<1>18. ASSUME DiscoverStored PROVE Kept' BY <1>18 DEF DiscoverStored
<1>19. ASSUME StaleDirectUploadPrefixes PROVE Kept' BY <1>19 DEF StaleDirectUploadPrefixes
<1>20. ASSUME DiscoverMultipartUploads PROVE Kept' BY <1>20 DEF DiscoverMultipartUploads
<1>21. ASSUME DeleteStalePrefixes PROVE Kept' BY <1>21 DEF DeleteStalePrefixes
<1>22. ASSUME MarkManifests PROVE Kept' BY <1>22 DEF MarkManifests
<1>23. ASSUME NEW d \in Digests, SweepBlob(d) PROVE Kept' BY <1>23 DEF SweepBlob
<1>24. ASSUME PostGarbageCollect PROVE Kept' BY <1>24 DEF PostGarbageCollect
<1>25. ASSUME EndCycle PROVE Kept' BY <1>25 DEF EndCycle
<1>26. ASSUME StopCycle PROVE Kept' BY <1>26 DEF StopCycle
<1>28. Kept'
  BY <1>1, <1>2, <1>3, <1>4, <1>5, <1>6, <1>7, <1>8, <1>9, <1>10, <1>11, <1>12, <1>13, <1>14, <1>15, <1>16, <1>17, <1>18, <1>19, <1>20, <1>21, <1>22, <1>23, <1>24, <1>25, <1>26, <1>0 DEF Next, Handler, Collect
<1>29. ContentInv' /\ SoundPolicy'
  BY ContentStep, PolicyStep
<1>30. QED BY <1>28, <1>29

LEMMA StoreCorrect ==
  ASSUME Drained, Rereads \/ MaxCorrupt = 0
  PROVE  Spec => []StoreInv
<1>1. Init => StoreInv
  BY MappingAssumption
  DEF Init, StoreInv, SoundPolicy, ContentInv, TypeOK, CallsTyped, OneCall, CallsSent, ObjectsDone, SealsDone, VerifiedContent,
      SealedContent, GCQuiet, CallsHold, DoomedLoose, MarkedKept, PublishedReadable, Idle, IdleGC, Pcs, GCPcs, Assembled, Verified, Busy
<1>2. StoreInv /\ [Next]_vars => StoreInv'
  BY StoreStep
<1>3. QED BY <1>1, <1>2, PTL DEF Spec

(* A published digest can be read and is that digest's, whoever else uploads,  *)
(* deduplicates, deletes or collects it (completion.go, cleanup.go), when      *)
(* admitted requests end before the cleanup lists and the bytes either arrive  *)
(* whole or are read again.                                                   *)
THEOREM PublishedStaysReadable ==
  ASSUME Drained, Rereads \/ MaxCorrupt = 0
  PROVE  Spec => []BlobsIntact
<1>1. StoreInv => BlobsIntact
  BY DEF StoreInv, ContentInv, BlobsIntact
<1>2. QED BY <1>1, StoreCorrect, PTL

-----------------------------------------------------------------------------
(* A cycle that runs to its end has cleaned what it answers for.              *)
LEMMA StageStep ==
  ASSUME CycleInv, Drained, [Next]_vars
  PROVE  StageInv'
<1> USE MappingAssumption
    DEF CycleInv, StageInv, Open, StoreInv, ContentInv, TypeOK, CallsTyped, ObjectsDone, SealsDone, GCQuiet, DoomedLoose,
        Sealed, GateOpen, Idle, IdleGC, Pcs, Busy, GoOn, End, Answer, GCStep, store, sessions
<1>1. ASSUME NEW r \in Repos, StartPublication(r) PROVE StageInv' BY <1>1 DEF StartPublication
<1>2. ASSUME NEW r \in Repos, DeleteModel(r) PROVE StageInv' BY <1>2 DEF DeleteModel
<1>3. ASSUME NEW r \in Repos, PutManifest(r) PROVE StageInv' BY <1>3 DEF PutManifest
<1>4. ASSUME NEW u \in Uploads, HandleStart(u) PROVE StageInv' BY <1>4 DEF HandleStart
<1>5. ASSUME NEW u \in Uploads, SendParts(u) PROVE StageInv' BY <1>5 DEF SendParts
<1>6. ASSUME NEW u \in Uploads, HandleAbort(u) PROVE StageInv' BY <1>6 DEF HandleAbort
<1>7. ASSUME NEW u \in Uploads, Ages(u) PROVE StageInv' BY <1>7 DEF Ages
<1>8. ASSUME NEW c \in Calls, NEW u \in Uploads, HandleComplete(c, u) PROVE StageInv' BY <1>8 DEF HandleComplete
<1>9. ASSUME NEW c \in Calls, CompleteMultipartUploadOrUseCompletedObject(c) PROVE StageInv' BY <1>9 DEF CompleteMultipartUploadOrUseCompletedObject
<1>10. ASSUME NEW c \in Calls, VerifyUploadedObject(c) PROVE StageInv' BY <1>10 DEF VerifyUploadedObject
<1>11. ASSUME NEW c \in Calls, SealedBlobState(c) PROVE StageInv' BY <1>11 DEF SealedBlobState
<1>12. ASSUME NEW c \in Calls, WriteSealedBlobMetadata(c) PROVE StageInv' BY <1>12 DEF WriteSealedBlobMetadata
<1>13. ASSUME NEW c \in Calls, PutRepositoryLink(c) PROVE StageInv' BY <1>13 DEF PutRepositoryLink
<1>14. ASSUME NEW c \in Calls, DeleteUploadedObject(c) PROVE StageInv' BY <1>14 DEF DeleteUploadedObject
<1>15. ASSUME NEW c \in Calls, CallBreaks(c) PROVE StageInv' BY <1>15 DEF CallBreaks
<1>16. ASSUME BeginCycle PROVE StageInv' BY <1>16 DEF BeginCycle
<1>17. ASSUME CloseGate PROVE StageInv' BY <1>17 DEF CloseGate
<1>18. ASSUME DiscoverStored PROVE StageInv' BY <1>18 DEF DiscoverStored
<1>19. ASSUME StaleDirectUploadPrefixes PROVE StageInv' BY <1>19 DEF StaleDirectUploadPrefixes
<1>20. ASSUME DiscoverMultipartUploads PROVE StageInv' BY <1>20 DEF DiscoverMultipartUploads
<1>21. ASSUME DeleteStalePrefixes PROVE StageInv' BY <1>21 DEF DeleteStalePrefixes
<1>22. ASSUME MarkManifests PROVE StageInv' BY <1>22 DEF MarkManifests
<1>23. ASSUME NEW d \in Digests, SweepBlob(d) PROVE StageInv' BY <1>23 DEF SweepBlob
<1>24. ASSUME PostGarbageCollect PROVE StageInv' BY <1>24 DEF PostGarbageCollect
<1>25. ASSUME EndCycle PROVE StageInv' BY <1>25 DEF EndCycle
<1>26. ASSUME StopCycle PROVE StageInv' BY <1>26 DEF StopCycle
<1>27. CASE UNCHANGED vars BY <1>27 DEF vars
<1>28. QED BY <1>1, <1>2, <1>3, <1>4, <1>5, <1>6, <1>7, <1>8, <1>9, <1>10, <1>11, <1>12, <1>13, <1>14, <1>15, <1>16, <1>17, <1>18, <1>19, <1>20, <1>21, <1>22, <1>23, <1>24, <1>25, <1>26, <1>27 DEF Next, Handler, Collect

(* Nothing is left of the sessions a finished cycle was asked to clean, and no *)
(* object of those that lost their digest in it (cleanup.go).                 *)
THEOREM FinishedCycleReclaims ==
  ASSUME Drained, Rereads \/ MaxCorrupt = 0
  PROVE  Spec => CycleReclaims
<1> DEFINE Over == gc.pc \in {"done", "postDelete"} /\ gc.doomed = {} /\ gc'.pc = "idle"
           Reclaimed(u) == u \in Sealed \/ (u \notin objects /\ multipart[u] \notin {"open", "sent"})
<1>1. Init => CycleInv
  <2>1. Init => StageInv
    BY DEF Init, StageInv, IdleGC
  <2>2. Init => StoreInv
    BY MappingAssumption
    DEF Init, StoreInv, SoundPolicy, ContentInv, TypeOK, CallsTyped, OneCall, CallsSent, ObjectsDone, SealsDone, VerifiedContent,
        SealedContent, GCQuiet, CallsHold, DoomedLoose, MarkedKept, PublishedReadable, Idle, IdleGC, Pcs, GCPcs, Assembled, Verified, Busy
  <2>3. QED BY <2>1, <2>2 DEF CycleInv
<1>2. CycleInv /\ [Next]_vars => CycleInv'
  BY StoreStep, StageStep DEF CycleInv
<1>3. CycleInv => [Over => \A u \in gc.targeted \cup gc.sealed : Reclaimed(u)]_vars
  <2> SUFFICES ASSUME CycleInv, Over, NEW u \in gc.targeted \cup gc.sealed PROVE Reclaimed(u)
    OBVIOUS
  <2>1. u \in Uploads
    BY DEF CycleInv, StoreInv, ContentInv, TypeOK
  <2>2. multipart[u] \notin {"open", "sent"}
    BY <2>1 DEF CycleInv, StageInv, Open
  <2>3. u \in objects => u \in Sealed
    BY DEF CycleInv, StageInv
  <2>4. QED BY <2>2, <2>3
<1>4. QED BY <1>1, <1>2, <1>3, PTL DEF Spec, CycleReclaims

=============================================================================
