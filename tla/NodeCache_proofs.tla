--------------------------- MODULE NodeCache_proofs ---------------------------
(***************************************************************************)
(* Proofs about the node cache, for every number of Pods and artifacts and    *)
(* every layout of theirs.                                                   *)
(*                                                                         *)
(* First the layout: the validation of a chunk index is enough, whatever the  *)
(* order in which the chunks of an accepted file are written, they write it   *)
(* whole and do not write over each other. There is no induction rule for the *)
(* provers at hand; these proofs take the smallest counterexample instead.    *)
(*                                                                         *)
(* Then the agent and the CSI driver. A directory is whole when it is marked  *)
(* because the agent follows the artifact at the head of its queue from the   *)
(* root to the marker, and nobody else turns a directory into a ready one; a  *)
(* mount is kept because what is prefetched was not ready, and what is evicted *)
(* was not wanted when the eviction was planned.                             *)
(***************************************************************************)
EXTENDS NodeCache, FiniteSetTheorems, SequenceTheorems, WellFoundedInduction, TLAPS

(* Every set of numbers that is not empty has a smallest one.                *)
LEMMA Smallest ==
  ASSUME NEW S \in SUBSET Nat, S # {}
  PROVE  \E x \in S : \A y \in S : x <= y
<1> DEFINE R == OpToRel(<, Nat)
<1>1. IsWellFoundedOn(R, Nat)
  BY NatLessThanWellFounded
<1>2. ASSUME NEW x \in S, NEW y \in S PROVE <<y, x>> \in R <=> y < x
  BY DEF OpToRel
<1> HIDE DEF R
<1>3. PICK x \in S : \A y \in S : ~(<<y, x>> \in R)
  BY <1>1, WFMin
<1>4. ASSUME NEW y \in S PROVE x <= y
  <2>1. ~(<<y, x>> \in R)
    BY <1>3
  <2>2. ~(y < x)
    BY <2>1, <1>2
  <2>3. x \in Nat /\ y \in Nat
    OBVIOUS
  <2>4. QED BY <2>2, <2>3
<1>5. QED BY <1>4

-----------------------------------------------------------------------------

(* In an accepted file every index is the index of exactly one chunk, so     *)
(* sorting the chunks loses none.                                            *)
LEMMA ByIndexIsBijective ==
  ASSUME NEW chunks \in Seq(Chunk), chunks # <<>>,
         {chunks[i].index : i \in DOMAIN chunks} = 0 .. Len(chunks) - 1
  PROVE  /\ \A i \in DOMAIN chunks : ByIndex(chunks)[chunks[i].index] = chunks[i]
         /\ \A n \in 0 .. Len(chunks) - 1 : \E i \in DOMAIN chunks : chunks[i].index = n /\ ByIndex(chunks)[n] = chunks[i]
         /\ \A i, j \in DOMAIN chunks : chunks[i].index = chunks[j].index => i = j
<1> DEFINE N == Len(chunks)
           indexOf == [i \in 1 .. N |-> chunks[i].index]
<1>1. N \in Nat \ {0} /\ DOMAIN chunks = 1 .. N
  OBVIOUS
<1>2. indexOf \in Surjection(1 .. N, 0 .. N - 1)
  <2>1. \A i \in 1 .. N : indexOf[i] \in 0 .. N - 1
    BY <1>1
  <2>2. \A n \in 0 .. N - 1 : \E i \in 1 .. N : indexOf[i] = n
    BY <1>1
  <2>3. QED BY <2>1, <2>2 DEF Surjection
<1>3. IsFiniteSet(1 .. N) /\ Cardinality(1 .. N) = Cardinality(0 .. N - 1)
  <2>1. IsFiniteSet(1 .. N) /\ Cardinality(1 .. N) = N
    BY <1>1, FS_Interval, SMT
  <2>2. Cardinality(0 .. N - 1) = N
    BY SMTT(40), <1>1, FS_Interval
  <2>3. QED BY <2>1, <2>2
<1>4. indexOf \in Injection(1 .. N, 0 .. N - 1)
  BY <1>2, <1>3, FS_SurjSameCardinalityImpliesInj
<1>5. ASSUME NEW i \in DOMAIN chunks, NEW j \in DOMAIN chunks, chunks[i].index = chunks[j].index PROVE i = j
  <2>1. indexOf[i] = indexOf[j]
    BY <1>1, <1>5
  <2>2. QED BY <1>1, <1>4, <2>1 DEF Injection, IsInjective
<1>6. ASSUME NEW n \in 0 .. N - 1
      PROVE  \E i \in DOMAIN chunks : chunks[i].index = n /\ ByIndex(chunks)[n] = chunks[i]
  <2>1. \E i \in DOMAIN chunks : chunks[i].index = n
    BY <1>6
  <2>2. QED BY <2>1 DEF ByIndex
<1>7. ASSUME NEW i \in DOMAIN chunks PROVE ByIndex(chunks)[chunks[i].index] = chunks[i]
  <2>1. chunks[i].index \in 0 .. N - 1
    OBVIOUS
  <2>2. PICK j \in DOMAIN chunks : chunks[j].index = chunks[i].index /\ ByIndex(chunks)[chunks[i].index] = chunks[j]
    BY <1>6, <2>1
  <2>3. QED BY <1>5, <2>2
<1>8. QED BY <1>5, <1>6, <1>7

-----------------------------------------------------------------------------

(* Each chunk ends before every later one begins.                            *)
LEMMA ChunksInOrder ==
  ASSUME NEW last \in Nat, NEW chunk, \A n \in 0 .. last : chunk[n] \in Chunk /\ chunk[n].size > 0,
         \A n \in 1 .. last : chunk[n].offset = chunk[n - 1].offset + chunk[n - 1].size
  PROVE  \A n, m \in 0 .. last : n < m => chunk[n].offset + chunk[n].size <= chunk[m].offset
<1> DEFINE Begin(n) == chunk[n].offset
           Stop(n) == chunk[n].offset + chunk[n].size
           Bad == {m \in 0 .. last : \E n \in 0 .. last : n < m /\ ~(Stop(n) <= Begin(m))}
<1>0. \A n \in 0 .. last : Begin(n) \in Nat /\ Stop(n) \in Nat /\ Begin(n) < Stop(n)
  BY DEF Chunk
<1>1. SUFFICES Bad = {}
  OBVIOUS
<1>2. SUFFICES ASSUME Bad # {} PROVE FALSE
  OBVIOUS
<1>3. PICK m \in Bad : \A k \in Bad : m <= k
  <2>1. Bad \in SUBSET Nat
    OBVIOUS
  <2> HIDE DEF Bad
  <2>2. QED BY <1>2, <2>1, Smallest
<1>4. PICK n \in 0 .. last : n < m /\ ~(Stop(n) <= Begin(m))
  BY <1>3
<1>5. m \in 1 .. last /\ m - 1 \in 0 .. last
  BY <1>4
<1>6. Begin(m) = Stop(m - 1)
  BY <1>5
<1>7. CASE n = m - 1
  BY <1>0, <1>4, <1>5, <1>6, <1>7
<1>8. CASE n < m - 1
  <2>1. m - 1 \notin Bad
    BY <1>3, <1>5
  <2>2. Stop(n) <= Begin(m - 1)
    BY <1>5, <1>8, <2>1
  <2> HIDE DEF Begin, Stop, Bad
  <2>3. QED BY <1>0, <1>4, <1>5, <1>6, <2>2
<1>9. QED BY <1>4, <1>5, <1>7, <1>8

(* A byte before the end of the last chunk lies in one of them.              *)
LEMMA ChunksCover ==
  ASSUME NEW last \in Nat, NEW chunk, \A n \in 0 .. last : chunk[n] \in Chunk /\ chunk[n].size > 0,
         chunk[0].offset = 0,
         \A n \in 1 .. last : chunk[n].offset = chunk[n - 1].offset + chunk[n - 1].size,
         NEW b \in Nat, b < chunk[last].offset + chunk[last].size
  PROVE  \E n \in 0 .. last : b \in Bytes(chunk[n])
<1> DEFINE Begin(n) == chunk[n].offset
           Stop(n) == chunk[n].offset + chunk[n].size
           Later == {n \in 0 .. last : b < Stop(n)}
<1>0. \A n \in 0 .. last : Begin(n) \in Nat /\ Stop(n) \in Nat
  BY DEF Chunk
<1>1. last \in Later
  OBVIOUS
<1>2. PICK n \in Later : \A k \in Later : n <= k
  <2>1. Later \in SUBSET Nat
    OBVIOUS
  <2> HIDE DEF Later
  <2>2. QED BY <1>1, <2>1, Smallest
<1>3. Begin(n) <= b
  <2>1. CASE n = 0
    BY <1>0, <2>1
  <2>2. CASE n # 0
    <3>1. n \in 1 .. last /\ n - 1 \in 0 .. last
      BY <2>2
    <3>2. n - 1 \notin Later
      BY <1>2, <3>1
    <3>3. ~(b < Stop(n - 1)) /\ Begin(n) = Stop(n - 1)
      BY <3>1, <3>2
    <3> HIDE DEF Begin, Stop, Later
    <3>4. QED BY <1>0, <3>1, <3>3
  <2>3. QED BY <2>1, <2>2
<1>4. b < Stop(n)
  OBVIOUS
<1>5. n \in 0 .. last /\ b \in Bytes(chunk[n])
  <2>1. n \in 0 .. last /\ Begin(n) \in Nat /\ Stop(n) \in Nat
    BY <1>0
  <2>2. b \in Begin(n) .. Stop(n) - 1
    <3> HIDE DEF Begin, Stop, Later
    <3>1. QED BY <1>3, <1>4, <2>1
  <2>3. Bytes(chunk[n]) = Begin(n) .. Stop(n) - 1
    BY Zenon DEF Bytes, Begin, Stop
  <2> HIDE DEF Begin, Stop, Later
  <2>4. QED BY <2>1, <2>2, <2>3
<1>6. QED BY <1>5

-----------------------------------------------------------------------------

(* What ends before something that ends at s ends before s.                   *)
LEMMA EndsBefore ==
  ASSUME NEW a \in Nat, NEW b \in Nat, NEW c \in Nat, NEW d \in Nat, NEW s \in Nat, a + b <= c, c + d = s
  PROVE  a + b <= s
  OBVIOUS

(* The chunks of a file that validateChunkIndexFile accepts tile it: every    *)
(* byte is written by exactly one of them, none is written behind the end.   *)
THEOREM AcceptedFileIsTiled ==
  ASSUME NEW file \in ChunkFiles, NEW packs, ValidateChunkIndexFile(file, packs)
  PROVE  Tiles(file)
<1> DEFINE chunks == file.chunks
           last == Len(chunks) - 1
           chunk == ByIndex(chunks)
<1>1. chunks \in Seq(Chunk) /\ chunks # <<>> /\ last \in Nat /\ file.size \in Nat
  BY DEF ChunkFiles, ValidateChunkIndexFile
<1>2. /\ \A i \in DOMAIN chunks : chunk[chunks[i].index] = chunks[i]
      /\ \A n \in 0 .. last : \E i \in DOMAIN chunks : chunks[i].index = n /\ chunk[n] = chunks[i]
      /\ \A i, j \in DOMAIN chunks : chunks[i].index = chunks[j].index => i = j
  BY <1>1, ByIndexIsBijective DEF ValidateChunkIndexFile
<1>3. \A i \in DOMAIN chunks : chunks[i].index \in 0 .. last /\ chunks[i] \in Chunk
  BY <1>1 DEF ValidateChunkIndexFile
<1>4. \A n \in 0 .. last : chunk[n] \in Chunk /\ chunk[n].size > 0
  <2>1. \A n \in 0 .. last : chunk[n] \in Chunk
    BY <1>2, <1>3
  <2>2. \A n \in 0 .. last : chunk[n].size \in 1 .. MaxChunkPayload
    BY DEF ValidateChunkIndexFile, ValidateChunkIndexChunk
  <2>3. QED BY <2>1, <2>2, LimitAssumption
<1>5. /\ chunk[0].offset = 0
      /\ \A n \in 1 .. last : chunk[n].offset = chunk[n - 1].offset + chunk[n - 1].size
      /\ chunk[last].offset + chunk[last].size = file.size
  BY DEF ValidateChunkIndexFile
<1> HIDE DEF chunk, chunks, last
<1>6. \A n, m \in 0 .. last : n < m => chunk[n].offset + chunk[n].size <= chunk[m].offset
  BY <1>1, <1>4, <1>5, ChunksInOrder
<1>7. ASSUME NEW b \in 0 .. file.size - 1 PROVE \E i \in DOMAIN chunks : b \in Bytes(chunks[i])
  <2>1. b \in Nat /\ b < chunk[last].offset + chunk[last].size
    BY <1>1, <1>5
  <2>2. PICK n \in 0 .. last : b \in Bytes(chunk[n])
    BY <1>1, <1>4, <1>5, <2>1, ChunksCover
  <2>3. QED BY <1>2, <2>2
<1>8. ASSUME NEW i \in DOMAIN chunks PROVE Bytes(chunks[i]) \subseteq 0 .. file.size - 1
  <2> DEFINE n == chunks[i].index
  <2>1. n \in 0 .. last /\ chunk[n] = chunks[i] /\ last \in 0 .. last
    BY <1>1, <1>2, <1>3
  <2> HIDE DEF n
  <2>2. n = last \/ n < last
    BY <1>1, <2>1
  <2>3. /\ chunk[n].offset \in Nat /\ chunk[n].size \in Nat
        /\ chunk[last].offset \in Nat /\ chunk[last].size \in Nat
    BY <1>4, <2>1 DEF Chunk
  <2>4. chunk[n].offset + chunk[n].size <= file.size
    <3>1. CASE n = last
      BY <1>1, <1>5, <2>3, <3>1
    <3>2. CASE n < last
      <4>1. chunk[n].offset + chunk[n].size <= chunk[last].offset
        BY <1>6, <2>1, <3>2
      <4>2. QED BY <1>1, <1>5, <2>3, <4>1, EndsBefore
    <3>3. QED BY <2>2, <3>1, <3>2
  <2>5. Bytes(chunk[n]) \subseteq 0 .. file.size - 1
    BY SMTT(40), <1>1, <2>3, <2>4 DEF Bytes
  <2>6. QED BY <2>1, <2>5
<1>9. ASSUME NEW i \in DOMAIN chunks, NEW j \in DOMAIN chunks, i # j
      PROVE  Bytes(chunks[i]) \cap Bytes(chunks[j]) = {}
  <2> DEFINE n == chunks[i].index  m == chunks[j].index
  <2>1. /\ n \in 0 .. last /\ chunk[n] = chunks[i]
        /\ m \in 0 .. last /\ chunk[m] = chunks[j] /\ n # m
    BY <1>2, <1>3, <1>9
  <2> HIDE DEF n, m
  <2>2. /\ chunk[n].offset \in Nat /\ chunk[n].size \in Nat
        /\ chunk[m].offset \in Nat /\ chunk[m].size \in Nat
    BY <1>4, <2>1 DEF Chunk
  <2>3. chunk[n].offset + chunk[n].size <= chunk[m].offset \/ chunk[m].offset + chunk[m].size <= chunk[n].offset
    BY <1>1, <1>6, <2>1
  <2>4. Bytes(chunk[n]) \cap Bytes(chunk[m]) = {}
    BY <2>2, <2>3 DEF Bytes
  <2>5. QED BY <2>1, <2>4
<1>10. QED BY <1>7, <1>8, <1>9 DEF Tiles, chunks

-----------------------------------------------------------------------------
(* The helpers of the agent. *)

(* A set in some order.                                                     *)
LEMMA Arranged ==
  ASSUME NEW S, IsFiniteSet(S)
  PROVE  SetToSeq(S) \in Seq(S) /\ ToSet(SetToSeq(S)) = S /\ Len(SetToSeq(S)) = Cardinality(S)
<1> DEFINE n == Cardinality(S)  D == 1 .. n  s == SetToSeq(S)
<1>1. n \in Nat /\ ExistsBijection(D, S)
  BY FS_CardinalityType
<1>2. IsFiniteSet(D) /\ Cardinality(D) = n
  BY <1>1, FS_Interval
<1>3. \E f \in [D -> S] : IsInjective(f)
  BY <1>1 DEF ExistsBijection, Bijection, Injection, IsInjective
<1>4. s \in [D -> S] /\ IsInjective(s)
  BY <1>3 DEF SetToSeq
<1>5. s \in Injection(D, S)
  BY <1>4 DEF Injection, IsInjective
<1>6. s \in Surjection(D, S)
  BY <1>5, <1>2, FS_Injection
<1>7. \A x \in S : \E i \in D : s[i] = x
  BY <1>6 DEF Surjection
<1> HIDE DEF s
<1>8. s \in Seq(S) /\ Len(s) = n
  BY <1>1, <1>4
<1>9. ToSet(s) = S
  BY <1>4, <1>7, <1>8 DEF ToSet
<1>10. QED BY <1>8, <1>9 DEF s

LEMMA Doubling == ASSUME NEW n \in Nat PROVE Backoff(n) \in 1 .. MaxBackoff
BY CacheAssumption DEF Backoff

(* What is touched becomes the last, and none is lost.                      *)
LEMMA Used ==
  ASSUME TypeOK, NEW d \in Digests, TouchUsage(d)
  PROVE  lru' \in Seq(Digests) /\ ToSet(lru') = Digests /\ Len(lru') = Cardinality(Digests) /\ idle' \in 0 .. Len(lru')
<1> DEFINE k == Rank(d)  n == Len(lru)
<1>1. lru \in Seq(Digests) /\ ToSet(lru) = Digests /\ n = Cardinality(Digests) /\ idle \in 0 .. n
  BY DEF TypeOK
<1>2. k \in 1 .. n /\ lru[k] = d
  <2>1. \E i \in DOMAIN lru : lru[i] = d
    BY <1>1 DEF ToSet
  <2>2. QED BY <2>1, <1>1 DEF Rank
<1>3. lru' = Append(SubSeq(lru, 1, k - 1) \o SubSeq(lru, k + 1, n), d)
  BY DEF TouchUsage, RemoveAt
<1> HIDE DEF k
<1>4. lru' \in Seq(Digests) /\ Len(lru') = n
  BY <1>1, <1>2, <1>3
<1>5. \A i \in 1 .. n : lru'[i] = IF i < k THEN lru[i] ELSE IF i < n THEN lru[i + 1] ELSE d
  BY SMTT(40), <1>1, <1>2, <1>3
<1>6. ToSet(lru') = Digests
  <2>1. ToSet(lru') \subseteq Digests
    BY <1>4 DEF ToSet
  <2>2. ASSUME NEW e \in Digests PROVE \E i \in 1 .. n : lru'[i] = e
    <3>1. PICK j \in 1 .. n : lru[j] = e
      BY <1>1 DEF ToSet
    <3>2. CASE j < k
      BY <3>1, <3>2, <1>5
    <3>3. CASE j = k
      BY <3>1, <3>3, <1>2, <1>5
    <3>4. CASE j > k
      <4>1. lru'[j - 1] = e /\ j - 1 \in 1 .. n
        BY <3>1, <3>4, <1>2, <1>5
      <4>2. QED BY <4>1
    <3>5. QED BY <3>2, <3>3, <3>4, <1>2, <3>1
  <2>3. QED BY SMTT(40), <2>1, <2>2, <1>4 DEF ToSet
<1>7. idle' \in 0 .. n
  BY <1>1 DEF TouchUsage
<1>8. QED BY <1>1, <1>4, <1>6, <1>7

-----------------------------------------------------------------------------
(* The agent works on the head of its queue, *)
Handling == {"inspect", "extract", "install", "replace", "mark"}
Extracting == Handling \ {"inspect"}
QueueHolds == pc \in Handling => queue # <<>>

(* which is not ready before it is marked, and whole when it is moved,        *)
NotReadyYet == pc \in Extracting => ~EntryReady(store[Head(queue)])
RootHeld == pc \in Extracting \ {"mark"} /\ Head(queue) \in Chunked => work[Head(queue)].root
MovedWhole == pc \in {"install", "replace"} /\ Head(queue) \in Chunked => work[Head(queue)].chunks = Chunks[Head(queue)]
MarkedWhole == pc = "mark" => store[Head(queue)].model = Chunks[Head(queue)]

(* and evicts nothing that it wants and that is ready.                       *)
PlanLoose == pc = "evict" => \A d \in desired \cap Ready : <<"store", d>> \notin plan

NodeInv == TypeOK /\ QueueHolds /\ RootHeld /\ NotReadyYet /\ MovedWhole /\ MarkedWhole /\ PlanLoose /\ ReadyIsWhole


(* The parts of the types.                                                    *)
PodTypes ==
  /\ \A p \in Pods : want[p] \in Wants[p]
  /\ pod \in [Pods -> {"absent", "active", "ending", "gone"}]
  /\ csi \in [Pods -> {"idle", "authorized", "ready", "mounted", "published"}]
  /\ mount \in [Pods -> {"none", "store", "previous", "removed"}]
StoreTypes == store \in [Digests -> Entries] /\ previous \in [Digests -> Entries] /\ cut \subseteq Digests
WorkTypes ==
  /\ work \in [Digests -> Roots]
  /\ \A d \in Digests : work[d] = NoRoot \/ (d \in Chunked /\ work[d].root /\ work[d].chunks \subseteq Chunks[d])
  /\ staging \subseteq Digests \ Chunked
UsageTypes == lru \in Seq(Digests) /\ ToSet(lru) = Digests /\ Len(lru) = Cardinality(Digests) /\ idle \in 0 .. Len(lru)
AgentTypes ==
  /\ pc \in {"down", "load", "prefetch", "inspect", "extract", "install", "replace", "mark", "scan", "evict", "wait"}
  /\ desired \subseteq Digests /\ queue \in Seq(Digests) /\ plan \subseteq Directories
RetryTypes == attempts \in [Digests -> Nat] /\ wait \in [Digests -> 0 .. MaxBackoff]
BudgetType == budget \in [faults : 0 .. MaxFaults, kills : 0 .. MaxKills]

LEMMA TypeParts == TypeOK <=> PodTypes /\ StoreTypes /\ WorkTypes /\ UsageTypes /\ AgentTypes /\ RetryTypes /\ BudgetType
BY DEF TypeOK, PodTypes, StoreTypes, WorkTypes, UsageTypes, AgentTypes, RetryTypes, BudgetType

LEMMA EntryKinds ==
  /\ \A d \in Digests : \A model \in SUBSET Chunks[d] : \A marker \in {"none", "torn", "ok"} : \A dir \in BOOLEAN :
       [dir |-> dir, marker |-> marker, model |-> model] \in Entries
  /\ \A e \in Entries : \A model \in SUBSET e.model : \A marker \in {"none", "torn", "ok"} : \A dir \in BOOLEAN :
       [dir |-> dir, marker |-> marker, model |-> model] \in Entries
  /\ \A e \in Entries : \E d \in Digests : e \in [dir : BOOLEAN, marker : {"none", "torn", "ok"}, model : SUBSET Chunks[d]]
<1>1. \A e : e \in Entries <=> \E d \in Digests : e \in [dir : BOOLEAN, marker : {"none", "torn", "ok"}, model : SUBSET Chunks[d]]
  BY DEF Entries
<1>2. QED BY <1>1

LEMMA InHand ==
  ASSUME TypeOK, QueueHolds, pc \in Handling
  PROVE  Head(queue) \in Digests /\ Tail(queue) \in Seq(Digests) /\ queue \in Seq(Digests) /\ queue # <<>>
BY DEF TypeOK, QueueHolds

(* A failure and a success take the head off the queue.                      *)
LEMMA HeadDone ==
  ASSUME TypeOK, NEW d \in Digests, Tail(queue) \in Seq(Digests), Fail(d) \/ Succeed(d)
  PROVE  RetryTypes' /\ queue' \in Seq(Digests) /\ pc' = "prefetch"
<1> USE DEF TypeOK, RetryTypes
<1>1. CASE Fail(d)
  <2>1. attempts[d] \in Nat /\ attempts[d] + 1 \in Nat
    OBVIOUS
  <2>2. Backoff(attempts[d] + 1) \in 0 .. MaxBackoff
    <3>1. \A n \in Nat : Backoff(n) \in 1 .. MaxBackoff
      BY Doubling
    <3>2. Backoff(attempts[d] + 1) \in 1 .. MaxBackoff
      BY <2>1, <3>1
    <3>3. QED BY <3>2, CacheAssumption
  <2>3. attempts' \in [Digests -> Nat]
    BY <1>1, <2>1 DEF Fail
  <2>4. wait' \in [Digests -> 0 .. MaxBackoff]
    BY <1>1, <2>2 DEF Fail
  <2>5. QED BY <1>1, <2>3, <2>4 DEF Fail
<1>2. CASE Succeed(d)
  BY <1>2, CacheAssumption DEF Succeed
<1>3. QED BY <1>1, <1>2

LEMMA RootFields ==
  ASSUME NEW r \in Roots
  PROVE  /\ [r EXCEPT !.root = TRUE] = [root |-> TRUE, chunks |-> r.chunks, pack |-> r.pack]
         /\ \A cs : [r EXCEPT !.chunks = cs] = [root |-> r.root, chunks |-> cs, pack |-> r.pack]
         /\ \A cs : [r EXCEPT !.chunks = cs, !.pack = TRUE] = [root |-> r.root, chunks |-> cs, pack |-> TRUE]
         /\ r.pack \in BOOLEAN
<1>1. \A b : [r EXCEPT !.root = b] = [root |-> b, chunks |-> r.chunks, pack |-> r.pack]
  BY DEF Roots
<1>2. \A cs : [r EXCEPT !.chunks = cs] = [root |-> r.root, chunks |-> cs, pack |-> r.pack]
  BY DEF Roots
<1>3. \A cs, b : [r EXCEPT !.chunks = cs, !.pack = b] = [root |-> r.root, chunks |-> cs, pack |-> b]
  <2>1. \A cs, b : [[root |-> r.root, chunks |-> cs, pack |-> r.pack] EXCEPT !.pack = b] = [root |-> r.root, chunks |-> cs, pack |-> b]
    OBVIOUS
  <2>2. QED BY <1>2, <2>1
<1>4. r.pack \in BOOLEAN
  BY DEF Roots
<1>5. QED BY <1>1, <1>2, <1>3, <1>4, Zenon

LEMMA RootPrepared ==
  ASSUME WorkTypes, NEW d \in Digests, PrepareMaterializationRoot(d)
  PROVE  WorkTypes'
<1>1. staging' \subseteq Digests \ Chunked
  BY DEF WorkTypes, PrepareMaterializationRoot
<1>2. CASE d \in Chunked
  <2>1. work' = [work EXCEPT ![d] = [root |-> TRUE, chunks |-> work[d].chunks, pack |-> work[d].pack]]
    BY <1>2, RootFields DEF WorkTypes, PrepareMaterializationRoot, PrepareChunkMaterializeWorkRoot
  <2>2. work[d].chunks \subseteq Chunks[d] /\ work[d].pack \in BOOLEAN
    BY DEF WorkTypes, Roots, NoRoot
  <2>3. QED BY <1>1, <1>2, <2>1, <2>2 DEF WorkTypes, Roots
<1>3. CASE d \notin Chunked
  <2>1. work' = work
    BY <1>3 DEF WorkTypes, PrepareMaterializationRoot
  <2>2. QED BY <1>1, <2>1 DEF WorkTypes
<1>4. QED BY <1>2, <1>3

LEMMA RootCleared ==
  ASSUME WorkTypes, NEW d \in Digests, work' = [work EXCEPT ![d] = NoRoot]
  PROVE  work' \in [Digests -> Roots]
         /\ \A e \in Digests : work'[e] = NoRoot \/ (e \in Chunked /\ work'[e].root /\ work'[e].chunks \subseteq Chunks[e])
BY DEF WorkTypes, Roots, NoRoot

LEMMA RootRewritten ==
  ASSUME WorkTypes, NEW d \in Digests, d \in Chunked, NEW cs \in SUBSET Chunks[d], NEW b \in BOOLEAN,
         work' = [work EXCEPT ![d] = [root |-> TRUE, chunks |-> cs, pack |-> b]], staging' \subseteq staging
  PROVE  WorkTypes'
<1>1. [root |-> TRUE, chunks |-> cs, pack |-> b] \in Roots
  BY DEF Roots
<1>2. work' \in [Digests -> Roots]
  BY <1>1 DEF WorkTypes
<1>3. QED BY <1>2 DEF WorkTypes

LEMMA MarkersCleared ==
  ASSUME WorkTypes, NEW d \in Digests, d \in Chunked, work[d].root, ClearFileMarkers(d), staging' \subseteq staging
  PROVE  WorkTypes'
<1>1. work[d] \in Roots
  BY DEF WorkTypes
<1>2. work' = [work EXCEPT ![d] = [root |-> work[d].root, chunks |-> {}, pack |-> work[d].pack]]
  BY <1>1, RootFields DEF ClearFileMarkers
<1>3. work[d].root = TRUE /\ work[d].pack \in BOOLEAN /\ {} \in SUBSET Chunks[d]
  BY <1>1 DEF Roots
<1>4. QED BY <1>2, <1>3, RootRewritten

LEMMA ChunkRemembered ==
  ASSUME WorkTypes, NEW d \in Digests, d \in Chunked, work[d].root, NEW c \in Chunks[d], UNCHANGED staging,
         \/ work' = [work EXCEPT ![d].chunks = @ \cup {c}]
         \/ work' = [work EXCEPT ![d] = [work[d] EXCEPT !.chunks = @ \cup {c}, !.pack = TRUE]]
  PROVE  WorkTypes' /\ work'[d].root
<1> DEFINE cs == work[d].chunks \cup {c}
<1>1. work[d] \in Roots
  BY DEF WorkTypes
<1>2. work[d].root = TRUE /\ work[d].pack \in BOOLEAN
  BY <1>1 DEF Roots
<1>3. cs \subseteq Chunks[d]
  BY <1>2 DEF WorkTypes, NoRoot
<1>4. CASE work' = [work EXCEPT ![d].chunks = @ \cup {c}]
  <2>1. work' = [work EXCEPT ![d] = [root |-> work[d].root, chunks |-> cs, pack |-> work[d].pack]]
    BY <1>1, <1>4, RootFields
  <2>2. QED BY <1>1, <1>2, <1>3, <2>1, RootRewritten DEF WorkTypes
<1>5. CASE work' = [work EXCEPT ![d] = [work[d] EXCEPT !.chunks = @ \cup {c}, !.pack = TRUE]]
  <2>1. [work[d] EXCEPT !.chunks = work[d].chunks \cup {c}, !.pack = TRUE] = [root |-> work[d].root, chunks |-> cs, pack |-> TRUE]
    BY <1>1, RootFields
  <2>2. work' = [work EXCEPT ![d] = [root |-> work[d].root, chunks |-> cs, pack |-> TRUE]]
    BY <1>5, <2>1
  <2>3. QED BY <1>1, <1>2, <1>3, <2>2, RootRewritten DEF WorkTypes
<1>6. QED BY <1>4, <1>5

LEMMA EntryChanged ==
  ASSUME StoreTypes, NEW d \in Digests
  PROVE  /\ \A m \in {"none", "torn", "ok"} : [store EXCEPT ![d].marker = m] \in [Digests -> Entries]
         /\ [store EXCEPT ![d].dir = TRUE] \in [Digests -> Entries]
         /\ \A m \in {"none", "torn", "ok"} : \A model \in SUBSET store[d].model :
              [store EXCEPT ![d].marker = m, ![d].model = model] \in [Digests -> Entries]
<1> DEFINE e == store[d]
<1>1. e \in Entries
  BY DEF StoreTypes
<1>2. PICK f \in Digests : e \in [dir : BOOLEAN, marker : {"none", "torn", "ok"}, model : SUBSET Chunks[f]]
  BY <1>1, EntryKinds
<1>3. e.dir \in BOOLEAN /\ e.marker \in {"none", "torn", "ok"}
  BY <1>2
<1>4. \A m : [e EXCEPT !.marker = m] = [dir |-> e.dir, marker |-> m, model |-> e.model]
  BY <1>2
<1>5. \A b : [e EXCEPT !.dir = b] = [dir |-> b, marker |-> e.marker, model |-> e.model]
  BY <1>2
<1>6. \A m, model : [e EXCEPT !.marker = m, !.model = model] = [dir |-> e.dir, marker |-> m, model |-> model]
  <2>1. \A m, model : [[dir |-> e.dir, marker |-> m, model |-> e.model] EXCEPT !.model = model] = [dir |-> e.dir, marker |-> m, model |-> model]
    OBVIOUS
  <2>2. QED BY <1>4, <2>1
<1> HIDE DEF e
<1>7. \A m \in {"none", "torn", "ok"} : [e EXCEPT !.marker = m] \in Entries
  BY <1>1, <1>3, <1>4, EntryKinds
<1>8. \A b \in BOOLEAN : [e EXCEPT !.dir = b] \in Entries
  <2>1. e.model \in SUBSET e.model
    OBVIOUS
  <2>2. QED BY <1>1, <1>3, <1>5, <2>1, EntryKinds
<1>9. \A m \in {"none", "torn", "ok"} : \A model \in SUBSET e.model : [e EXCEPT !.marker = m, !.model = model] \in Entries
  <2>1. ASSUME NEW m \in {"none", "torn", "ok"}, NEW model \in SUBSET e.model
        PROVE  [e EXCEPT !.marker = m, !.model = model] \in Entries
    <3>1. [dir |-> e.dir, marker |-> m, model |-> model] \in Entries
      BY <1>1, <1>3, EntryKinds
    <3>2. QED BY <1>6, <3>1
  <2>2. QED BY <2>1
<1>10. [e EXCEPT !.dir = TRUE] \in Entries
  BY <1>8, Zenon
<1>11. QED BY <1>7, <1>9, <1>10 DEF StoreTypes, e

LEMMA EntryReplaced ==
  ASSUME StoreTypes, NEW d \in Digests, NEW e \in Entries, NEW f \in Entries, UNCHANGED cut,
         store' = store \/ store' = [store EXCEPT ![d] = e],
         previous' = previous \/ previous' = [previous EXCEPT ![d] = f]
  PROVE  StoreTypes'
BY DEF StoreTypes

LEMMA RootHolds ==
  ASSUME WorkTypes, NEW d \in Digests
  PROVE  work[d].chunks \subseteq Chunks[d]
<1>1. NoRoot.chunks = {}
  BY DEF NoRoot
<1>2. QED BY <1>1 DEF WorkTypes

-----------------------------------------------------------------------------
(* The types, part by part. *)

LEMMA WorkStep ==
  ASSUME TypeOK, QueueHolds, RootHeld, [Next]_vars
  PROVE  WorkTypes'
<1>1. UNCHANGED <<work, staging>>
      \/ Materialize \/ (\E c \in UNION {Chunks[d] : d \in Chunked} : MaterializeChunk(c)) \/ MaterializeFails \/
      ReplaceMaterializedDestination \/ ApplyEvictionPlan
  BY DEF Next, RunRuntimeCycle, NodePublishVolume, vars, node, disk, usage, retries, agent, LoadDesiredArtifacts,
         EnsureDesiredArtifacts, ExtractLayers, ExtractChunkedLayers, StageExistingDestination, WriteMarker, Scan,
         Ticker, Restart, Kill, Age, AuthorizePublish, ReadySource, BindMount, TouchMounted, PublishAgain, Unpublish,
         Schedule, End
<1> USE CacheAssumption
    DEF TypeOK, QueueHolds, Handling, Extracting, WorkTypes, Exit, CSI, Fault, node, disk, usage, retries, agent
<1>2. CASE UNCHANGED <<work, staging>>
  BY <1>2
<1>3. ASSUME Materialize PROVE WorkTypes'
  <2>1. Head(queue) \in Digests
    BY <1>3, InHand DEF Materialize
  <2>2. UNCHANGED <<work, staging>> \/ PrepareMaterializationRoot(Head(queue))
    BY <1>3 DEF Materialize
  <2>3. QED BY <2>1, <2>2, RootPrepared DEF WorkTypes
<1>4. ASSUME NEW c \in UNION {Chunks[d] : d \in Chunked}, MaterializeChunk(c) PROVE WorkTypes'
  <2> DEFINE d == Head(queue)
  <2>1. d \in Digests /\ d \in Chunked /\ c \in Chunks[d] /\ work[d].root
    BY <1>4, InHand DEF MaterializeChunk, RootHeld
  <2>2. \/ work' = [work EXCEPT ![d].chunks = @ \cup {c}]
        \/ work' = [work EXCEPT ![d] = [work[d] EXCEPT !.chunks = @ \cup {c}, !.pack = TRUE]]
    BY <1>4 DEF MaterializeChunk
  <2>3. UNCHANGED staging
    BY <1>4 DEF MaterializeChunk
  <2>4. WorkTypes
    OBVIOUS
  <2> HIDE DEF d
  <2>5. QED BY ONLY <2>1, <2>2, <2>3, <2>4, ChunkRemembered
<1>5. ASSUME MaterializeFails PROVE WorkTypes'
  <2> DEFINE d == Head(queue)
  <2>1. d \in Digests /\ (d \in Chunked => work[d].root)
    BY <1>5, InHand DEF MaterializeFails, RootHeld
  <2>2. staging' \subseteq staging /\ (UNCHANGED work \/ (d \in Chunked /\ ClearFileMarkers(d)))
    BY <1>5, <2>1 DEF MaterializeFails
  <2>3. CASE UNCHANGED work
    BY <2>2, <2>3
  <2>4. CASE d \in Chunked /\ ClearFileMarkers(d)
    BY <2>1, <2>2, <2>4, MarkersCleared
  <2>5. QED BY <2>2, <2>3, <2>4
<1>6. ASSUME ReplaceMaterializedDestination PROVE WorkTypes'
  <2>1. Head(queue) \in Digests
    BY <1>6, InHand DEF ReplaceMaterializedDestination
  <2>2. staging' \subseteq staging /\ (UNCHANGED work \/ work' = [work EXCEPT ![Head(queue)] = NoRoot])
    BY <1>6, <2>1 DEF ReplaceMaterializedDestination
  <2>3. CASE UNCHANGED work
    BY <2>2, <2>3
  <2>4. CASE work' = [work EXCEPT ![Head(queue)] = NoRoot]
    <3>1. WorkTypes
      OBVIOUS
    <3>2. QED BY <2>1, <2>2, <2>4, <3>1, RootCleared
  <2>5. QED BY <2>2, <2>3, <2>4
<1>7. ASSUME ApplyEvictionPlan PROVE WorkTypes'
  <2>1. \A x \in plan : x[2] \in Digests
    BY DEF Directories
  <2>2. staging' \subseteq staging /\ (UNCHANGED work \/ \E x \in plan : work' = [work EXCEPT ![x[2]] = NoRoot])
    BY <1>7 DEF ApplyEvictionPlan, RemoveAll
  <2>3. ASSUME NEW x \in plan, work' = [work EXCEPT ![x[2]] = NoRoot] PROVE WorkTypes'
    BY <2>1, <2>2, <2>3, RootCleared
  <2>4. QED BY <2>2, <2>3
<1>8. QED BY <1>1, <1>2, <1>3, <1>4, <1>5, <1>6, <1>7

LEMMA PodStep ==
  ASSUME TypeOK, QueueHolds, RootHeld, [Next]_vars
  PROVE  PodTypes'
<1>1. UNCHANGED <<want, pod, csi, mount>>
      \/ LoadDesiredArtifacts \/ StageExistingDestination \/ ReplaceMaterializedDestination \/ ApplyEvictionPlan \/
      Kill \/ (\E p \in Pods : AuthorizePublish(p) \/ ReadySource(p) \/ BindMount(p) \/ TouchMounted(p) \/
      PublishAgain(p) \/ Unpublish(p) \/ Schedule(p) \/ End(p))
  BY DEF Next, RunRuntimeCycle, NodePublishVolume, vars, node, disk, usage, retries, agent, EnsureDesiredArtifacts,
         Materialize, ExtractLayers, MaterializeChunk, ExtractChunkedLayers, MaterializeFails, WriteMarker, Scan,
         Ticker, Restart, Age
<1> USE CacheAssumption
    DEF TypeOK, QueueHolds, Handling, Extracting, PodTypes, Rebind, Exit, RemoveAll, CSI, Fault, node, disk, usage, retries, agent
<1>2. CASE UNCHANGED <<want, pod, csi, mount>>
  BY <1>2
<1>3. ASSUME LoadDesiredArtifacts PROVE PodTypes'
  BY <1>3 DEF LoadDesiredArtifacts
<1>4. ASSUME StageExistingDestination PROVE PodTypes'
  <2>1. \A p \in Pods : mount'[p] = mount[p] \/ mount'[p] = "removed" \/ mount'[p] = "previous"
    BY <1>4 DEF StageExistingDestination
  <2>2. mount' = mount \/ (DOMAIN mount' = Pods /\ mount' = [p \in Pods |-> mount'[p]])
    BY <1>4 DEF StageExistingDestination
  <2>3. mount' \in [Pods -> {"none", "store", "previous", "removed"}]
    BY <2>1, <2>2
  <2>4. QED BY <1>4, <2>3 DEF StageExistingDestination
<1>5. ASSUME ReplaceMaterializedDestination PROVE PodTypes'
  BY <1>5 DEF ReplaceMaterializedDestination
<1>6. ASSUME ApplyEvictionPlan PROVE PodTypes'
  BY <1>6 DEF ApplyEvictionPlan
<1>7. ASSUME Kill PROVE PodTypes'
  BY <1>7 DEF Kill
<1>8. ASSUME NEW p \in Pods, AuthorizePublish(p) PROVE PodTypes'
  BY <1>8 DEF AuthorizePublish
<1>9. ASSUME NEW p \in Pods, ReadySource(p) PROVE PodTypes'
  BY <1>9 DEF ReadySource
<1>10. ASSUME NEW p \in Pods, BindMount(p) PROVE PodTypes'
  BY <1>10 DEF BindMount
<1>11. ASSUME NEW p \in Pods, TouchMounted(p) PROVE PodTypes'
  BY <1>11 DEF TouchMounted
<1>12. ASSUME NEW p \in Pods, PublishAgain(p) PROVE PodTypes'
  BY <1>12 DEF PublishAgain
<1>13. ASSUME NEW p \in Pods, Unpublish(p) PROVE PodTypes'
  BY <1>13 DEF Unpublish
<1>14. ASSUME NEW p \in Pods, Schedule(p) PROVE PodTypes'
  BY <1>14 DEF Schedule
<1>15. ASSUME NEW p \in Pods, End(p) PROVE PodTypes'
  BY <1>15 DEF End
<1>16. QED BY <1>1, <1>2, <1>3, <1>4, <1>5, <1>6, <1>7, <1>8, <1>9, <1>10, <1>11, <1>12, <1>13, <1>14, <1>15

LEMMA BudgetStep ==
  ASSUME TypeOK, QueueHolds, RootHeld, [Next]_vars
  PROVE  BudgetType'
<1>1. UNCHANGED budget
      \/ LoadDesiredArtifacts \/ Materialize \/ MaterializeFails \/ Kill \/ (\E p \in Pods : AuthorizePublish(p) \/
      BindMount(p))
  BY DEF Next, RunRuntimeCycle, NodePublishVolume, vars, node, disk, usage, retries, agent, EnsureDesiredArtifacts,
         ExtractLayers, MaterializeChunk, ExtractChunkedLayers, StageExistingDestination,
         ReplaceMaterializedDestination, WriteMarker, Scan, ApplyEvictionPlan, Ticker, Restart, Age, ReadySource,
         TouchMounted, PublishAgain, Unpublish, Schedule, End
<1> USE CacheAssumption
    DEF TypeOK, QueueHolds, Handling, Extracting, BudgetType, Exit, CSI, Fault, node, disk, usage, retries, agent
<1>2. CASE UNCHANGED budget
  BY <1>2
<1>3. ASSUME LoadDesiredArtifacts PROVE BudgetType'
  <2>1. UNCHANGED budget \/ Fault
    BY <1>3 DEF LoadDesiredArtifacts
  <2>2. QED BY <2>1
<1>4. ASSUME Materialize PROVE BudgetType'
  <2>1. UNCHANGED budget \/ Fault
    BY <1>4 DEF Materialize
  <2>2. QED BY <2>1
<1>5. ASSUME MaterializeFails PROVE BudgetType'
  BY SMTT(40), <1>5 DEF MaterializeFails
<1>6. ASSUME Kill PROVE BudgetType'
  <2>1. budget.kills > 0 /\ budget' = [budget EXCEPT !.kills = @ - 1]
    BY <1>6 DEF Kill
  <2>2. budget.kills - 1 \in 0 .. MaxKills
    BY <2>1
  <2>3. QED BY <2>1, <2>2
<1>7. ASSUME NEW p \in Pods, AuthorizePublish(p) PROVE BudgetType'
  BY <1>7 DEF AuthorizePublish
<1>8. ASSUME NEW p \in Pods, BindMount(p) PROVE BudgetType'
  <2>1. UNCHANGED budget \/ Fault
    BY <1>8 DEF BindMount
  <2>2. QED BY <2>1
<1>9. QED BY <1>1, <1>2, <1>3, <1>4, <1>5, <1>6, <1>7, <1>8

LEMMA AgentStep ==
  ASSUME TypeOK, QueueHolds, RootHeld, [Next]_vars
  PROVE  AgentTypes'
<1>1. UNCHANGED <<pc, desired, queue, plan>>
      \/ LoadDesiredArtifacts \/ EnsureDesiredArtifacts \/ Materialize \/ ExtractLayers \/ ExtractChunkedLayers \/
      MaterializeFails \/ StageExistingDestination \/ ReplaceMaterializedDestination \/ WriteMarker \/ Scan \/
      ApplyEvictionPlan \/ Ticker \/ Restart \/ Kill
  BY ZenonT(60) DEF Next, RunRuntimeCycle, NodePublishVolume, vars, node, disk, usage, retries, agent, MaterializeChunk,
         Age, AuthorizePublish, ReadySource, BindMount, TouchMounted, PublishAgain, Unpublish, Schedule, End
<1> USE CacheAssumption
    DEF TypeOK, QueueHolds, Handling, Extracting, AgentTypes, Exit, CSI, Fault, node, disk, usage, retries, agent
<1>2. CASE UNCHANGED <<pc, desired, queue, plan>>
  BY <1>2
<1>3. ASSUME LoadDesiredArtifacts PROVE AgentTypes'
  <2>1. DesiredArtifacts \subseteq Digests
    <3>1. ASSUME NEW p \in Pods PROVE want[p].digest \in Digests
      OBVIOUS
    <3>2. QED BY <3>1 DEF DesiredArtifacts, Active
  <2>2. \A ds \in SUBSET Digests : SetToSeq(ds) \in Seq(Digests)
    <3>1. ASSUME NEW ds \in SUBSET Digests PROVE SetToSeq(ds) \in Seq(Digests)
      <4>1. IsFiniteSet(ds)
        BY FS_Subset
      <4>2. QED BY <4>1, Arranged
    <3>2. QED BY <3>1
  <2>3. CASE Exit
    BY <1>3, <2>3 DEF LoadDesiredArtifacts
  <2>4. CASE desired' = DesiredArtifacts /\ queue' = SetToSeq(desired' \ Ready) /\ pc' = "prefetch" /\ UNCHANGED plan
    <3>1. desired' \ Ready \in SUBSET Digests
      BY <2>1, <2>4
    <3>2. QED BY <2>1, <2>2, <2>4, <3>1
  <2>5. QED BY <1>3, <2>3, <2>4 DEF LoadDesiredArtifacts
<1>4. ASSUME EnsureDesiredArtifacts PROVE AgentTypes'
  <2>1. queue # <<>> => Tail(queue) \in Seq(Digests)
    OBVIOUS
  <2>2. queue' \in Seq(Digests) /\ pc' \in {"scan", "prefetch", "inspect"}
    BY <1>4, <2>1 DEF EnsureDesiredArtifacts
  <2>3. QED BY <1>4, <2>2 DEF EnsureDesiredArtifacts
<1>5. ASSUME Materialize PROVE AgentTypes'
  <2>1. Head(queue) \in Digests /\ Tail(queue) \in Seq(Digests)
    BY <1>5, InHand DEF Materialize
  <2>2. \/ Fail(Head(queue)) \/ Succeed(Head(queue))
        \/ pc' = "extract" /\ UNCHANGED queue
    BY <1>5 DEF Materialize
  <2>3. CASE pc' = "extract" /\ UNCHANGED queue
    BY <1>5, <2>1, <2>3 DEF Materialize
  <2>4. CASE Fail(Head(queue)) \/ Succeed(Head(queue))
    <3>1. pc' = "prefetch" /\ queue' \in Seq(Digests)
      BY <2>1, <2>4, HeadDone
    <3>2. QED BY <1>5, <3>1 DEF Materialize
  <2>5. QED BY <2>2, <2>3, <2>4
<1>6. ASSUME ExtractLayers PROVE AgentTypes'
  BY <1>6 DEF ExtractLayers
<1>7. ASSUME ExtractChunkedLayers PROVE AgentTypes'
  BY <1>7 DEF ExtractChunkedLayers
<1>8. ASSUME MaterializeFails PROVE AgentTypes'
  <2>1. Head(queue) \in Digests /\ Tail(queue) \in Seq(Digests)
    BY <1>8, InHand DEF MaterializeFails
  <2>2. Fail(Head(queue)) /\ UNCHANGED <<desired, plan>>
    BY <1>8 DEF MaterializeFails
  <2>3. pc' = "prefetch" /\ queue' \in Seq(Digests)
    BY <2>1, <2>2, HeadDone
  <2>4. QED BY <2>2, <2>3
<1>9. ASSUME StageExistingDestination PROVE AgentTypes'
  BY <1>9 DEF StageExistingDestination
<1>10. ASSUME ReplaceMaterializedDestination PROVE AgentTypes'
  <2>1. Head(queue) \in Digests /\ Tail(queue) \in Seq(Digests)
    BY <1>10, InHand DEF ReplaceMaterializedDestination
  <2>2. Fail(Head(queue)) \/ (pc' = "mark" /\ UNCHANGED queue)
    BY <1>10 DEF ReplaceMaterializedDestination
  <2>3. CASE pc' = "mark" /\ UNCHANGED queue
    BY <1>10, <2>1, <2>3 DEF ReplaceMaterializedDestination
  <2>4. CASE Fail(Head(queue))
    <3>1. pc' = "prefetch" /\ queue' \in Seq(Digests)
      BY <2>1, <2>4, HeadDone
    <3>2. QED BY <1>10, <3>1 DEF ReplaceMaterializedDestination
  <2>5. QED BY <2>2, <2>3, <2>4
<1>11. ASSUME WriteMarker PROVE AgentTypes'
  <2>1. Head(queue) \in Digests /\ Tail(queue) \in Seq(Digests)
    BY <1>11, InHand DEF WriteMarker
  <2>2. Succeed(Head(queue)) /\ UNCHANGED <<desired, plan>>
    BY <1>11 DEF WriteMarker
  <2>3. pc' = "prefetch" /\ queue' \in Seq(Digests)
    BY <2>1, <2>2, HeadDone
  <2>4. QED BY <2>2, <2>3
<1>12. ASSUME Scan PROVE AgentTypes'
  <2>1. \A ds : MalformedCandidates(ds) \subseteq Directories
    BY DEF MalformedCandidates
  <2>2. \A ds, kept : SizePressureCandidates(ds, kept) \subseteq Digests /\ UnusedAgeCandidates(ds) \subseteq Digests
    BY DEF SizePressureCandidates, UnusedAgeCandidates, Ready
  <2>3. PlanEviction(desired) \subseteq Directories
    BY ZenonT(60), <2>1, <2>2 DEF PlanEviction, Directories
  <2>4. QED BY <1>12, <2>3 DEF Scan
<1>13. ASSUME ApplyEvictionPlan PROVE AgentTypes'
  BY <1>13 DEF ApplyEvictionPlan
<1>14. ASSUME Ticker PROVE AgentTypes'
  BY <1>14 DEF Ticker
<1>15. ASSUME Restart PROVE AgentTypes'
  BY <1>15 DEF Restart
<1>16. ASSUME Kill PROVE AgentTypes'
  BY <1>16 DEF Kill
<1>17. QED BY <1>1, <1>2, <1>3, <1>4, <1>5, <1>6, <1>7, <1>8, <1>9, <1>10, <1>11, <1>12, <1>13, <1>14, <1>15, <1>16

LEMMA PrunedTypes ==
  ASSUME attempts \in [Digests -> Nat], wait \in [Digests -> 0 .. MaxBackoff], NEW wanted, PruneFailures(wanted)
  PROVE  RetryTypes'
<1>1. 0 \in 0 .. MaxBackoff
  BY CacheAssumption
<1>2. QED BY <1>1 DEF PruneFailures, RetryTypes

LEMMA RetryStep ==
  ASSUME TypeOK, QueueHolds, RootHeld, [Next]_vars
  PROVE  RetryTypes'
<1>1. UNCHANGED <<attempts, wait>>
      \/ LoadDesiredArtifacts \/ Materialize \/ MaterializeFails \/ ReplaceMaterializedDestination \/ WriteMarker \/
      Ticker \/ Kill
  BY DEF Next, RunRuntimeCycle, NodePublishVolume, vars, node, disk, usage, retries, agent, EnsureDesiredArtifacts,
         ExtractLayers, MaterializeChunk, ExtractChunkedLayers, StageExistingDestination, Scan, ApplyEvictionPlan,
         Restart, Age, AuthorizePublish, ReadySource, BindMount, TouchMounted, PublishAgain, Unpublish, Schedule, End
<1> USE CacheAssumption
    DEF TypeOK, QueueHolds, Handling, Extracting, RetryTypes, Exit, CSI, Fault, node, disk, usage, retries, agent
<1>2. CASE UNCHANGED <<attempts, wait>>
  BY <1>2
<1>3. ASSUME LoadDesiredArtifacts PROVE RetryTypes'
  <2>1. PruneFailures(desired') \/ Exit
    BY <1>3 DEF LoadDesiredArtifacts
  <2>2. CASE PruneFailures(desired')
    BY <2>2, PrunedTypes
  <2>3. CASE Exit
    BY <2>3
  <2>4. QED BY <2>1, <2>2, <2>3
<1>4. ASSUME Materialize PROVE RetryTypes'
  <2>1. Head(queue) \in Digests /\ Tail(queue) \in Seq(Digests)
    BY <1>4, InHand DEF Materialize
  <2>2. Fail(Head(queue)) \/ Succeed(Head(queue)) \/ UNCHANGED retries
    BY <1>4 DEF Materialize
  <2>3. CASE Fail(Head(queue)) \/ Succeed(Head(queue))
    BY <2>1, <2>3, HeadDone
  <2>4. CASE UNCHANGED retries
    BY <2>4
  <2>5. QED BY <2>2, <2>3, <2>4
<1>5. ASSUME MaterializeFails PROVE RetryTypes'
  <2>1. Head(queue) \in Digests /\ Tail(queue) \in Seq(Digests)
    BY <1>5, InHand DEF MaterializeFails
  <2>2. Fail(Head(queue)) \/ Succeed(Head(queue)) \/ UNCHANGED retries
    BY <1>5 DEF MaterializeFails
  <2>3. CASE Fail(Head(queue)) \/ Succeed(Head(queue))
    BY <2>1, <2>3, HeadDone
  <2>4. CASE UNCHANGED retries
    BY <2>4
  <2>5. QED BY <2>2, <2>3, <2>4
<1>6. ASSUME ReplaceMaterializedDestination PROVE RetryTypes'
  <2>1. Head(queue) \in Digests /\ Tail(queue) \in Seq(Digests)
    BY <1>6, InHand DEF ReplaceMaterializedDestination
  <2>2. Fail(Head(queue)) \/ Succeed(Head(queue)) \/ UNCHANGED retries
    BY <1>6 DEF ReplaceMaterializedDestination
  <2>3. CASE Fail(Head(queue)) \/ Succeed(Head(queue))
    BY <2>1, <2>3, HeadDone
  <2>4. CASE UNCHANGED retries
    BY <2>4
  <2>5. QED BY <2>2, <2>3, <2>4
<1>7. ASSUME WriteMarker PROVE RetryTypes'
  <2>1. Head(queue) \in Digests /\ Tail(queue) \in Seq(Digests)
    BY <1>7, InHand DEF WriteMarker
  <2>2. Fail(Head(queue)) \/ Succeed(Head(queue)) \/ UNCHANGED retries
    BY <1>7 DEF WriteMarker
  <2>3. CASE Fail(Head(queue)) \/ Succeed(Head(queue))
    BY <2>1, <2>3, HeadDone
  <2>4. CASE UNCHANGED retries
    BY <2>4
  <2>5. QED BY <2>2, <2>3, <2>4
<1>8. ASSUME Ticker PROVE RetryTypes'
  BY <1>8 DEF Ticker
<1>9. ASSUME Kill PROVE RetryTypes'
  BY <1>9 DEF Kill
<1>10. QED BY <1>1, <1>2, <1>3, <1>4, <1>5, <1>6, <1>7, <1>8, <1>9

LEMMA StoreStep ==
  ASSUME TypeOK, QueueHolds, RootHeld, [Next]_vars
  PROVE  StoreTypes'
<1>1. UNCHANGED <<store, previous, cut>>
      \/ StageExistingDestination \/ ReplaceMaterializedDestination \/ WriteMarker \/ ApplyEvictionPlan \/ Kill \/ (\E
      p \in Pods : TouchMounted(p))
  BY DEF Next, RunRuntimeCycle, NodePublishVolume, vars, node, disk, usage, retries, agent, LoadDesiredArtifacts,
         EnsureDesiredArtifacts, Materialize, ExtractLayers, MaterializeChunk, ExtractChunkedLayers, MaterializeFails,
         Scan, Ticker, Restart, Age, AuthorizePublish, ReadySource, BindMount, PublishAgain, Unpublish, Schedule, End
<1> USE CacheAssumption
    DEF TypeOK, QueueHolds, Handling, Extracting, StoreTypes, Exit, NoDir, RemoveAll, Interrupted, CSI, Fault, node, disk, usage, retries, agent
<1>2. CASE UNCHANGED <<store, previous, cut>>
  BY <1>2
<1>3. ASSUME StageExistingDestination PROVE StoreTypes'
  <2>1. Head(queue) \in Digests
    BY <1>3, InHand DEF StageExistingDestination
  <2>2. NoDir \in Entries /\ store[Head(queue)] \in Entries
    BY <2>1, EntryKinds
  <2>3. /\ UNCHANGED cut
        /\ store' = store \/ store' = [store EXCEPT ![Head(queue)] = NoDir]
        /\ previous' = previous \/ previous' = [previous EXCEPT ![Head(queue)] = store[Head(queue)]]
    BY <1>3 DEF StageExistingDestination
  <2> HIDE DEF NoDir
  <2>4. QED BY <2>1, <2>2, <2>3, EntryReplaced
<1>4. ASSUME ReplaceMaterializedDestination PROVE StoreTypes'
  <2>1. Head(queue) \in Digests
    BY <1>4, InHand DEF ReplaceMaterializedDestination
  <2>2. NoDir \in Entries /\ MaterializedModelContract(Head(queue)) \in Entries
    <3>1. ResolveModelPath(Head(queue)) \subseteq Chunks[Head(queue)]
      <4>1. CASE Head(queue) \in Chunked
        <5>1. work[Head(queue)].chunks \subseteq Chunks[Head(queue)]
          BY <2>1, TypeParts, RootHolds
        <5>2. QED BY <4>1, <5>1 DEF ResolveModelPath
      <4>2. CASE Head(queue) \notin Chunked
        BY <4>2 DEF ResolveModelPath
      <4>3. QED BY <4>1, <4>2
    <3>2. "none" \in {"none", "torn", "ok"} /\ TRUE \in BOOLEAN /\ FALSE \in BOOLEAN /\ {} \in SUBSET Chunks[Head(queue)]
      OBVIOUS
    <3>3. QED BY <2>1, <3>1, <3>2, EntryKinds, Zenon DEF MaterializedModelContract
  <2>3. /\ UNCHANGED cut
        /\ store' = store \/ store' = [store EXCEPT ![Head(queue)] = MaterializedModelContract(Head(queue))]
        /\ previous' = previous \/ previous' = [previous EXCEPT ![Head(queue)] = NoDir]
    BY <1>4 DEF ReplaceMaterializedDestination
  <2> HIDE DEF NoDir
  <2>4. QED BY <2>1, <2>2, <2>3, EntryReplaced
<1>5. ASSUME WriteMarker PROVE StoreTypes'
  <2>1. Head(queue) \in Digests
    BY <1>5, InHand DEF WriteMarker
  <2>2. store' = [store EXCEPT ![Head(queue)].marker = "ok"] /\ UNCHANGED previous /\ cut' \subseteq cut
    BY <1>5 DEF WriteMarker
  <2>3. QED BY <2>1, <2>2, EntryChanged
<1>6. ASSUME ApplyEvictionPlan PROVE StoreTypes'
  <2>1. \A x \in plan : x[2] \in Digests
    BY DEF Directories
  <2>2. ASSUME NEW x \in plan PROVE NoDir \in Entries
    BY <2>1, EntryKinds
  <2>3. CASE UNCHANGED <<store, previous, cut>>
    BY <2>3
  <2>4. ASSUME NEW x \in plan, RemoveAll(x), UNCHANGED cut PROVE StoreTypes'
    <3>1. store' \in {store, [store EXCEPT ![x[2]] = NoDir]} /\ previous' \in {previous, [previous EXCEPT ![x[2]] = NoDir]}
      BY <2>4
    <3>2. QED BY <2>1, <2>2, <2>4, <3>1
  <2>5. QED BY <1>6, <2>3, <2>4 DEF ApplyEvictionPlan
<1>7. ASSUME Kill PROVE StoreTypes'
  <2>1. CASE UNCHANGED <<store, cut>>
    BY <1>7, <2>1 DEF Kill
  <2>2. CASE pc = "mark" /\ store' = [store EXCEPT ![Head(queue)].marker = "torn"] /\ UNCHANGED cut
    <3>1. Head(queue) \in Digests
      BY <2>2, InHand
    <3>2. QED BY <1>7, <2>2, <3>1, EntryChanged DEF Kill
  <2>3. ASSUME NEW d \in Digests, NEW marker \in {"none", "ok", "torn"}, NEW model \in SUBSET store[d].model,
               store' = [store EXCEPT ![d].marker = marker, ![d].model = model], cut' = cut \cup {d}
        PROVE  StoreTypes'
    BY ZenonT(60), <1>7, <2>3, EntryChanged DEF Kill
  <2>4. QED BY <1>7, <2>1, <2>2, <2>3 DEF Kill
<1>8. ASSUME NEW p \in Pods, TouchMounted(p) PROVE StoreTypes'
  <2>1. want[p].digest \in Digests /\ TRUE \in BOOLEAN
    OBVIOUS
  <2>2. store' = [store EXCEPT ![want[p].digest].dir = TRUE] /\ UNCHANGED <<previous, cut>>
    BY <1>8 DEF TouchMounted
  <2>3. QED BY <2>1, <2>2, EntryChanged
<1>9. QED BY <1>1, <1>2, <1>3, <1>4, <1>5, <1>6, <1>7, <1>8

LEMMA UsageStep ==
  ASSUME TypeOK, QueueHolds, RootHeld, [Next]_vars
  PROVE  UsageTypes'
<1>1. UNCHANGED <<lru, idle>>
      \/ WriteMarker \/ Age \/ (\E p \in Pods : TouchMounted(p))
  BY DEF Next, RunRuntimeCycle, NodePublishVolume, vars, node, disk, usage, retries, agent, LoadDesiredArtifacts,
         EnsureDesiredArtifacts, Materialize, ExtractLayers, MaterializeChunk, ExtractChunkedLayers, MaterializeFails,
         StageExistingDestination, ReplaceMaterializedDestination, Scan, ApplyEvictionPlan, Ticker, Restart, Kill,
         AuthorizePublish, ReadySource, BindMount, PublishAgain, Unpublish, Schedule, End
<1> USE CacheAssumption
    DEF TypeOK, QueueHolds, Handling, Extracting, UsageTypes, Exit, CSI, Fault, node, disk, usage, retries, agent
<1>2. CASE UNCHANGED <<lru, idle>>
  BY <1>2
<1>3. ASSUME WriteMarker PROVE UsageTypes'
  <2>1. Head(queue) \in Digests
    BY <1>3, InHand DEF WriteMarker
  <2>2. TouchUsage(Head(queue))
    BY <1>3 DEF WriteMarker
  <2>3. QED BY <2>1, <2>2, Used
<1>4. ASSUME Age PROVE UsageTypes'
  BY <1>4 DEF Age
<1>5. ASSUME NEW p \in Pods, TouchMounted(p) PROVE UsageTypes'
  BY <1>5, Used DEF TouchMounted
<1>6. QED BY <1>1, <1>2, <1>3, <1>4, <1>5

-----------------------------------------------------------------------------

LEMMA AtRest ==
  ASSUME pc' \notin Handling \cup {"evict"}
  PROVE  (QueueHolds /\ RootHeld /\ NotReadyYet /\ MovedWhole /\ MarkedWhole /\ PlanLoose)'
BY DEF QueueHolds, RootHeld, NotReadyYet, MovedWhole, MarkedWhole, PlanLoose, Handling, Extracting

(* What keeps a directory whole.                                             *)
LEMMA DirectoriesKept ==
  ASSUME ReadyIsWhole,
         \A d \in Digests : EntryReady(store'[d]) /\ d \notin cut' =>
           (EntryReady(store[d]) /\ d \notin cut /\ store'[d].model = store[d].model) \/ store'[d].model = Chunks[d]
  PROVE  ReadyIsWhole'
BY DEF ReadyIsWhole, Ready

LEMMA WholeStep ==
  ASSUME NodeInv, TypeOK', [Next]_vars
  PROVE  (QueueHolds /\ RootHeld /\ NotReadyYet /\ MovedWhole /\ MarkedWhole /\ PlanLoose /\ ReadyIsWhole)'
<1> DEFINE Whole == QueueHolds /\ RootHeld /\ NotReadyYet /\ MovedWhole /\ MarkedWhole /\ PlanLoose /\ ReadyIsWhole
<1> USE CacheAssumption
    DEF NodeInv, QueueHolds, RootHeld, NotReadyYet, MovedWhole, MarkedWhole, PlanLoose, ReadyIsWhole, EntryReady, Ready,
        Handling, Extracting, CSI, node, disk, usage, retries, agent, NoDir, Fault
<1>1. ASSUME LoadDesiredArtifacts PROVE Whole'
  <2>1. pc' \in {"prefetch", "down"} /\ UNCHANGED <<store, cut>>
    BY <1>1 DEF LoadDesiredArtifacts, Exit, disk
  <2>2. QED BY <2>1, AtRest
<1>2. ASSUME EnsureDesiredArtifacts PROVE Whole'
  BY <1>2 DEF EnsureDesiredArtifacts
<1>3. ASSUME Materialize PROVE Whole'
  <2> DEFINE d == Head(queue)
  <2>1. UNCHANGED <<store, cut>> /\ d \in Digests /\ pc = "inspect" /\ queue # <<>>
    BY <1>3, InHand DEF Materialize
  <2>2. CASE pc' = "prefetch"
    BY <2>1, <2>2, AtRest
  <2>3. CASE pc' = "extract" /\ PrepareMaterializationRoot(d) /\ ~EntryReady(store[d]) /\ UNCHANGED queue
    <3>1. d \in Chunked => work'[d].root
      <4>1. work[d] \in Roots /\ work \in [Digests -> Roots]
        BY <2>1, TypeParts DEF WorkTypes
      <4>2. d \in Chunked => work' = [work EXCEPT ![d] = [root |-> TRUE, chunks |-> work[d].chunks, pack |-> work[d].pack]]
        BY <2>1, <2>3, <4>1, RootFields DEF PrepareMaterializationRoot, PrepareChunkMaterializeWorkRoot
      <4>3. QED BY <2>1, <4>1, <4>2
    <3>2. QED BY <2>1, <2>3, <3>1
  <2>4. QED BY <1>3, <2>2, <2>3 DEF Materialize, Fail, Succeed, MaybeReuseMaterialization
<1>4. ASSUME ExtractLayers PROVE Whole'
  BY <1>4 DEF ExtractLayers
<1>5. ASSUME NEW c \in UNION {Chunks[d] : d \in Chunked}, MaterializeChunk(c) PROVE Whole'
  <2> DEFINE d == Head(queue)
  <2>1. /\ UNCHANGED <<store, cut, queue, pc, desired, plan>> /\ d \in Digests /\ d \in Chunked /\ pc = "extract" /\ work[d].root
        /\ work \in [Digests -> Roots]
    BY <1>5, InHand, TypeParts DEF MaterializeChunk, WorkTypes
  <2>2. work'[d].root
    <3>1. \/ work' = [work EXCEPT ![d].chunks = @ \cup {c}]
          \/ work' = [work EXCEPT ![d] = [work[d] EXCEPT !.chunks = @ \cup {c}, !.pack = TRUE]]
      BY <1>5 DEF MaterializeChunk
    <3>2. WorkTypes /\ c \in Chunks[d] /\ UNCHANGED staging
      BY <1>5, TypeParts DEF MaterializeChunk
    <3> HIDE DEF d
    <3>3. QED BY ONLY <2>1, <3>1, <3>2, ChunkRemembered
  <2>3. QED BY <2>1, <2>2
<1>6. ASSUME ExtractChunkedLayers PROVE Whole'
  <2> DEFINE d == Head(queue)
  <2>1. /\ pc = "extract" /\ pc' = "install" /\ UNCHANGED <<store, cut, queue, work>>
        /\ \A c \in Chunks[d] : c \in work[d].chunks
    BY <1>6 DEF ExtractChunkedLayers, ChunkComplete
  <2>2. work[d].chunks = Chunks[d]
    BY <2>1, InHand, TypeParts, RootHolds
  <2>3. QED BY <2>1, <2>2
<1>7. ASSUME MaterializeFails PROVE Whole'
  <2>1. pc' = "prefetch" /\ UNCHANGED <<store, cut>>
    BY <1>7 DEF MaterializeFails, Fail
  <2>2. QED BY <2>1, AtRest
<1>8. ASSUME StageExistingDestination PROVE Whole'
  <2> DEFINE d == Head(queue)
  <2>1. /\ pc = "install" /\ pc' = "replace" /\ UNCHANGED <<cut, queue, work>> /\ d \in Digests
        /\ store' = store \/ store' = [store EXCEPT ![d] = NoDir]
    BY <1>8, InHand DEF StageExistingDestination
  <2>2. ~EntryReady(store'[d])
    BY <2>1, TypeParts DEF StoreTypes
  <2>3. ReadyIsWhole'
    <3>1. \A e \in Digests : EntryReady(store'[e]) => store'[e] = store[e]
      BY <2>1, <2>2, TypeParts DEF StoreTypes
    <3>2. QED BY <2>1, <3>1, DirectoriesKept
  <2>4. QED BY <2>1, <2>2, <2>3
<1>9. ASSUME ReplaceMaterializedDestination PROVE Whole'
  <2> DEFINE d == Head(queue)
  <2>1. pc = "replace" /\ d \in Digests /\ UNCHANGED cut
    BY <1>9, InHand DEF ReplaceMaterializedDestination
  <2>2. CASE pc' = "prefetch" /\ UNCHANGED store
    BY <2>1, <2>2, AtRest
  <2>3. CASE pc' = "mark" /\ UNCHANGED queue /\ store' = [store EXCEPT ![d] = MaterializedModelContract(d)]
    <3>1. MaterializedModelContract(d).model = Chunks[d] /\ ~EntryReady(MaterializedModelContract(d))
      BY <2>1 DEF MaterializedModelContract, ResolveModelPath
    <3>2. store'[d] = MaterializedModelContract(d) /\ \A e \in Digests \ {d} : store'[e] = store[e]
      BY <2>1, <2>3, TypeParts DEF StoreTypes
    <3>3. ReadyIsWhole'
      BY <2>1, <3>1, <3>2, DirectoriesKept
    <3>4. QED BY <2>1, <2>3, <3>1, <3>2, <3>3
  <2>4. QED BY <1>9, <2>2, <2>3 DEF ReplaceMaterializedDestination, Fail
<1>10. ASSUME WriteMarker PROVE Whole'
  <2> DEFINE d == Head(queue)
  <2>1. pc = "mark" /\ pc' = "prefetch" /\ d \in Digests /\ cut' = cut \ {d} /\ store' = [store EXCEPT ![d].marker = "ok"]
    BY <1>10, InHand DEF WriteMarker, Succeed
  <2>2. store \in [Digests -> Entries]
    BY TypeParts DEF StoreTypes
  <2>3. store'[d].model = store[d].model /\ \A e \in Digests \ {d} : store'[e] = store[e]
    BY <2>1, <2>2
  <2>4. ReadyIsWhole'
    BY <2>1, <2>3, DirectoriesKept
  <2>5. QED BY <2>1, <2>4, AtRest
<1>11. ASSUME Scan PROVE Whole'
  <2>1. UNCHANGED <<store, cut, desired, queue>> /\ plan' = PlanEviction(desired) /\ pc' = "evict"
    BY <1>11 DEF Scan
  <2>2. ASSUME NEW d \in desired \cap Ready PROVE <<"store", d>> \notin PlanEviction(desired)
    <3>1. <<"store", d>> \notin MalformedCandidates(desired)
      BY <2>2 DEF MalformedCandidates
    <3>2. d \notin UnusedAgeCandidates(desired)
      BY <2>2 DEF UnusedAgeCandidates
    <3>3. \A kept : d \notin SizePressureCandidates(desired, kept)
      BY <2>2 DEF SizePressureCandidates
    <3>4. QED BY <3>1, <3>2, <3>3 DEF PlanEviction
  <2>3. QED BY <2>1, <2>2
<1>12. ASSUME ApplyEvictionPlan PROVE Whole'
  <2>1. UNCHANGED <<cut, desired, queue>> /\ pc = "evict"
    BY <1>12 DEF ApplyEvictionPlan
  <2>2. CASE pc' = "wait" /\ UNCHANGED store
    BY <2>1, <2>2, AtRest
  <2>3. ASSUME NEW x \in plan, RemoveAll(x), plan' = plan \ {x}, pc' = pc PROVE Whole'
    <3>1. x[2] \in Digests /\ store \in [Digests -> Entries]
      BY TypeParts DEF AgentTypes, Directories, StoreTypes
    <3>2. \A e \in Digests : EntryReady(store'[e]) => store'[e] = store[e]
      BY <2>3, <3>1 DEF RemoveAll
    <3>3. ReadyIsWhole'
      BY <2>1, <3>2, DirectoriesKept
    <3>4. QED BY <2>1, <2>3, <3>2, <3>3
  <2>4. QED BY <1>12, <2>2, <2>3 DEF ApplyEvictionPlan
<1>13. ASSUME Ticker PROVE Whole'
  BY <1>13 DEF Ticker
<1>14. ASSUME Restart PROVE Whole'
  BY <1>14 DEF Restart
<1>15. ASSUME Kill PROVE Whole'
  <2>1. pc' = "down"
    BY <1>15 DEF Kill, Exit
  <2>2. store \in [Digests -> Entries]
    BY TypeParts DEF StoreTypes
  <2>3. \A e \in Digests : EntryReady(store'[e]) /\ e \notin cut' => store'[e] = store[e] /\ e \notin cut
    <3>1. CASE UNCHANGED <<store, cut>>
      BY <3>1
    <3>2. CASE pc = "mark" /\ store' = [store EXCEPT ![Head(queue)].marker = "torn"] /\ UNCHANGED cut
      BY <2>2, <3>2, InHand
    <3>3. ASSUME NEW d \in Digests, NEW marker \in {"none", "ok", "torn"}, NEW model \in SUBSET store[d].model,
                 store' = [store EXCEPT ![d].marker = marker, ![d].model = model], cut' = cut \cup {d}
          PROVE  \A e \in Digests : e \notin cut' => store'[e] = store[e] /\ e \notin cut
      BY <2>2, <3>3
    <3> DEFINE Same == \A e \in Digests : EntryReady(store'[e]) /\ e \notin cut' => store'[e] = store[e] /\ e \notin cut
    <3>4. ASSUME NEW d \in Digests, NEW marker \in {"none", "ok", "torn"}, NEW model \in SUBSET store[d].model,
                 store' = [store EXCEPT ![d].marker = marker, ![d].model = model], cut' = cut \cup {d}
          PROVE  Same
      BY <3>3, <3>4
    <3>5. (UNCHANGED <<store, cut>> => Same) /\ (pc = "mark" /\ store' = [store EXCEPT ![Head(queue)].marker = "torn"] /\ UNCHANGED cut => Same)
      BY <3>1, <3>2
    <3> HIDE DEF Same
    <3>6. Same
      BY <1>15, <3>4, <3>5 DEF Kill, Interrupted
    <3>7. QED BY <3>6 DEF Same
  <2>4. ReadyIsWhole'
    BY <2>3, DirectoriesKept
  <2>5. QED BY <2>1, <2>4, AtRest
<1>16. ASSUME Age PROVE Whole'
  BY <1>16 DEF Age
<1>17. ASSUME NEW p \in Pods, AuthorizePublish(p) PROVE Whole'
  BY <1>17 DEF AuthorizePublish
<1>18. ASSUME NEW p \in Pods, ReadySource(p) PROVE Whole'
  BY <1>18 DEF ReadySource
<1>19. ASSUME NEW p \in Pods, BindMount(p) PROVE Whole'
  BY <1>19 DEF BindMount
<1>20. ASSUME NEW p \in Pods, TouchMounted(p) PROVE Whole'
  <2>1. UNCHANGED <<cut, pc, queue, work, desired, plan>> /\ store' = [store EXCEPT ![want[p].digest].dir = TRUE]
    BY <1>20 DEF TouchMounted
  <2>2. store \in [Digests -> Entries]
    BY TypeParts DEF StoreTypes
  <2>3. \A e \in Digests : store'[e].marker = store[e].marker /\ store'[e].model = store[e].model
    BY <2>1, <2>2
  <2>4. ReadyIsWhole'
    BY <2>1, <2>3, DirectoriesKept
  <2>5. pc \in Handling => Head(queue) \in Digests
    BY InHand
  <2>6. QED BY <2>1, <2>3, <2>4, <2>5
<1>21. ASSUME NEW p \in Pods, PublishAgain(p) PROVE Whole'
  BY <1>21 DEF PublishAgain
<1>22. ASSUME NEW p \in Pods, Unpublish(p) PROVE Whole'
  BY <1>22 DEF Unpublish
<1>23. ASSUME NEW p \in Pods, Schedule(p) PROVE Whole'
  BY <1>23 DEF Schedule
<1>24. ASSUME NEW p \in Pods, End(p) PROVE Whole'
  BY <1>24 DEF End
<1>25. ASSUME UNCHANGED vars PROVE Whole'
  BY <1>25 DEF vars
<1>26. QED BY <1>1, <1>2, <1>3, <1>4, <1>5, <1>6, <1>7, <1>8, <1>9, <1>10, <1>11, <1>12, <1>13, <1>14, <1>15, <1>16, <1>17, <1>18, <1>19, <1>20, <1>21, <1>22, <1>23, <1>24, <1>25 DEF Next, RunRuntimeCycle, NodePublishVolume

LEMMA NodeStep ==
  ASSUME NodeInv, [Next]_vars
  PROVE  NodeInv'
<1>1. (PodTypes /\ StoreTypes /\ WorkTypes /\ UsageTypes /\ AgentTypes /\ RetryTypes /\ BudgetType)'
  BY PodStep, StoreStep, WorkStep, UsageStep, AgentStep, RetryStep, BudgetStep DEF NodeInv
<1>2. TypeOK'
  BY <1>1 DEF TypeOK, PodTypes, StoreTypes, WorkTypes, UsageTypes, AgentTypes, RetryTypes, BudgetType
<1>3. QED BY <1>2, WholeStep DEF NodeInv

THEOREM NodeCorrect == Spec => []NodeInv
<1>1. Init => NodeInv
  <2> SUFFICES ASSUME Init PROVE NodeInv
    OBVIOUS
  <2>1. IsFiniteSet(Digests)
    BY CacheAssumption
  <2>2. UsageTypes
    BY <2>1, Arranged, FS_CardinalityType DEF Init, UsageTypes
  <2>3. StoreTypes
    BY EntryKinds DEF Init, StoreTypes, NoDir
  <2>4. WorkTypes
    BY DEF Init, WorkTypes, NoRoot, Roots
  <2>5. PodTypes /\ AgentTypes /\ RetryTypes /\ BudgetType
    BY CacheAssumption DEF Init, PodTypes, AgentTypes, RetryTypes, BudgetType
  <2>6. QED BY <2>2, <2>3, <2>4, <2>5, TypeParts
        DEF Init, NodeInv, QueueHolds, RootHeld, NotReadyYet, MovedWhole, MarkedWhole, PlanLoose, ReadyIsWhole, Handling, Extracting,
            NoDir, Ready, EntryReady
<1>2. NodeInv /\ [Next]_vars => NodeInv'
  BY NodeStep
<1>3. QED BY <1>1, <1>2, PTL DEF Spec

(* The state keeps its types.                                                 *)
THEOREM TypeCorrect == Spec => []TypeOK
<1>1. NodeInv => TypeOK
  BY DEF NodeInv
<1>2. QED BY <1>1, NodeCorrect, PTL

(* A directory that is marked as ready holds the whole model.                 *)
THEOREM ReadyStaysWhole == Spec => []ReadyIsWhole
<1>1. NodeInv => ReadyIsWhole
  BY DEF NodeInv
<1>2. QED BY <1>1, NodeCorrect, PTL

-----------------------------------------------------------------------------
LEMMA MountStep ==
  ASSUME NodeInv, [Next]_vars, NEW p \in Pods, pod[p] = "active", want[p].digest \in desired \cap Ready, MountWhole(p)
  PROVE  MountWhole(p)'
<1> DEFINE e == want[p].digest
<1>1. e \in Digests /\ EntryReady(store[e]) /\ e \in desired /\ mount[p] = "store" /\ store[e].model = Chunks[e]
  BY DEF Ready, MountWhole
<1>2. store \in [Digests -> Entries] /\ mount \in [Pods -> {"none", "store", "previous", "removed"}]
  BY TypeParts DEF NodeInv, StoreTypes, PodTypes
<1>3. ASSUME want' = want, mount'[p] = "store", store'[e].model = store[e].model
      PROVE  MountWhole(p)'
  BY <1>1, <1>3 DEF MountWhole
<1> USE DEF node, disk, usage, retries, agent, CSI
<1>4. ASSUME UNCHANGED <<want, mount, store>> PROVE MountWhole(p)'
  BY <1>1, <1>3, <1>4
<1>5. ASSUME StageExistingDestination PROVE MountWhole(p)'
  <2>1. Head(queue) \in Digests /\ Head(queue) # e
    BY <1>1, <1>5, InHand DEF NodeInv, NotReadyYet, Handling, Extracting, StageExistingDestination
  <2>2. want' = want /\ mount'[p] = mount[p] /\ store'[e] = store[e]
    BY <1>1, <1>2, <1>5, <2>1 DEF StageExistingDestination
  <2>3. QED BY <1>1, <1>3, <2>2
<1>6. ASSUME ReplaceMaterializedDestination PROVE MountWhole(p)'
  <2>1. Head(queue) \in Digests /\ Head(queue) # e
    BY <1>1, <1>6, InHand DEF NodeInv, NotReadyYet, Handling, Extracting, ReplaceMaterializedDestination
  <2>2. want' = want /\ mount'[p] = mount[p] /\ store'[e] = store[e]
    BY <1>1, <1>2, <1>6, <2>1 DEF ReplaceMaterializedDestination, Rebind
  <2>3. QED BY <1>1, <1>3, <2>2
<1>7. ASSUME WriteMarker PROVE MountWhole(p)'
  <2>1. Head(queue) \in Digests /\ Head(queue) # e
    BY <1>1, <1>7, InHand DEF NodeInv, NotReadyYet, Handling, Extracting, WriteMarker
  <2>2. want' = want /\ mount' = mount /\ store'[e] = store[e]
    BY <1>1, <1>2, <1>7, <2>1 DEF WriteMarker
  <2>3. QED BY <1>1, <1>3, <2>2
<1>8. ASSUME ApplyEvictionPlan PROVE MountWhole(p)'
  <2>1. <<"store", e>> \notin plan
    BY <1>1, <1>8 DEF NodeInv, PlanLoose, Ready, ApplyEvictionPlan
  <2>2. CASE UNCHANGED <<mount, store>>
    BY <1>8, <2>2, <1>4 DEF ApplyEvictionPlan
  <2>3. ASSUME NEW x \in plan, RemoveAll(x) PROVE mount'[p] = mount[p] /\ store'[e] = store[e]
    <3>1. x = <<x[1], x[2]>> /\ x[2] \in Digests
      BY TypeParts DEF NodeInv, AgentTypes, Directories
    <3>2. x[1] = "store" => x[2] # e
      BY <2>1, <3>1
    <3>3. QED BY <1>1, <1>2, <2>3, <3>1, <3>2 DEF RemoveAll, Rebind
  <2>4. QED BY <1>1, <1>3, <1>8, <2>2, <2>3 DEF ApplyEvictionPlan
<1>9. ASSUME Kill PROVE MountWhole(p)'
  <2>1. want' = want /\ mount' = mount
    BY <1>9 DEF Kill
  <2>2. Interrupted
    BY <1>9 DEF Kill
  <2>3. CASE UNCHANGED store
    BY <1>9, <2>1, <2>3, <1>4
  <2>4. CASE pc = "mark" /\ store' = [store EXCEPT ![Head(queue)].marker = "torn"]
    <3>1. store'[e].model = store[e].model
      BY <1>1, <1>2, <2>4
    <3>2. QED BY <1>1, <1>3, <2>1, <3>1
  <2>5. ASSUME NEW d \in Digests, NEW marker \in {"none", "ok", "torn"}, NEW model \in SUBSET store[d].model,
               pc = "evict", <<"store", d>> \in plan, store' = [store EXCEPT ![d].marker = marker, ![d].model = model]
        PROVE  MountWhole(p)'
    <3>1. d # e
      BY <1>1, <2>5 DEF NodeInv, PlanLoose, Ready
    <3>2. store'[e].model = store[e].model
      BY <1>1, <1>2, <2>5, <3>1
    <3>3. QED BY <1>1, <1>3, <2>1, <3>2
  <2>6. QED BY <2>2, <2>3, <2>4, <2>5 DEF Interrupted
<1>10. ASSUME NEW q \in Pods, BindMount(q) PROVE MountWhole(p)'
  <2>1. want' = want /\ store' = store /\ mount'[p] = "store"
    BY <1>1, <1>2, <1>10 DEF BindMount
  <2>2. QED BY <1>3, <2>1
<1>11. ASSUME NEW q \in Pods, TouchMounted(q) PROVE MountWhole(p)'
  <2>1. want' = want /\ mount' = mount /\ store'[e].model = store[e].model
    BY <1>1, <1>2, <1>11 DEF TouchMounted
  <2>2. QED BY <1>1, <1>3, <2>1
<1>12. ASSUME NEW q \in Pods, Unpublish(q) PROVE MountWhole(p)'
  <2>1. want' = want /\ store' = store /\ mount'[p] = "store"
    BY <1>1, <1>2, <1>12 DEF Unpublish
  <2>2. QED BY <1>3, <2>1
<1>13. \/ UNCHANGED <<want, mount, store>>
       \/ StageExistingDestination \/ ReplaceMaterializedDestination \/ WriteMarker \/ ApplyEvictionPlan \/ Kill
       \/ \E q \in Pods : BindMount(q) \/ TouchMounted(q) \/ Unpublish(q)
  BY DEF Next, RunRuntimeCycle, NodePublishVolume, vars, LoadDesiredArtifacts, EnsureDesiredArtifacts, Materialize, ExtractLayers, MaterializeChunk, ExtractChunkedLayers, MaterializeFails, Scan, Ticker, Restart, Age, AuthorizePublish, ReadySource, PublishAgain, Schedule, End
<1>14. QED BY <1>4, <1>5, <1>6, <1>7, <1>8, <1>9, <1>10, <1>11, <1>12, <1>13

(* A model that is mounted whole into a running Pod stays whole as long as the *)
(* agent wants it and its directory is ready, whatever is evicted, replaced or *)
(* interrupted meanwhile.                                                     *)
THEOREM MountsKept == Spec => KeepsKnownMounts
<1> DEFINE Kept == \A p \in Pods :
      pod[p] = "active" /\ want[p].digest \in desired \cap Ready /\ MountWhole(p) => MountWhole(p)'
<1>1. NodeInv /\ [Next]_vars => [Kept]_vars
  BY MountStep
<1>2. Spec => [][Kept]_vars
  BY <1>1, NodeCorrect, PTL DEF Spec
<1>3. QED BY <1>2 DEF KeepsKnownMounts

=============================================================================
