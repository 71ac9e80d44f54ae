------------------------- MODULE PublishWorker_proofs -------------------------
(***************************************************************************)
(* Whatever the source is made of, and however often the worker is           *)
(* interrupted: it goes on soundly from what an earlier worker left in        *)
(* mirror, checkpoint and registry, and implements the publication of an      *)
(* artifact. What the layers hold is computed by recursion over files and     *)
(* segments; the induction that needs is over numbers, and of sets of them,   *)
(* for which the library's well-founded induction will do.                   *)
(*                                                                         *)
(* And of what a published model is said to be able to do: the status of a   *)
(* ready Model keeps guesses to itself and says when it does, whatever the    *)
(* files of the model, its source and its user say.                          *)
(***************************************************************************)
EXTENDS PublishWorker, ModelProfile, SequenceTheorems, WellFoundedInduction, TLAPS

(* Where the worker is: fetching, with its layers, or at an end.              *)
AtLayer == {"open", "parts", "savePart", "recover", "complete", "completed", "abort"}
AtEnd == {"inspect", "published", "finish"}
Loaded == AtLayer \cup AtEnd \cup {"plan", "next", "config", "manifest"}
Failing == Ended \cup {"fail"}
AtFile == {"upload", "download", "assemble"}
AtMirror == AtFile \cup {"mirror", "file", "mirrorFail"}
Fetching == AtMirror \cup {"fetch", "reserve"}
AtSession == {"parts", "savePart", "recover", "complete"}
AtSync == Loaded \ {"abort"}

-----------------------------------------------------------------------------
(* What is known of every state, whatever the source: what was fetched.       *)

(* The data a layer was described with are those of what it is read from.     *)
WellMade(l) ==
  IF l.kind = "raw" THEN l.segments = <<l.data>> ELSE l.data = DescribeGeneratedArchiveLayer(l.segments)

Entries == [object : Contents, upload : {"none", "open", "gone"}, parts : Contents]

FetchInv ==
  /\ scenario \in Scenarios /\ resolved \in DOMAIN scenario.revisions
  /\ selected \in Seq(Files) /\ file \in 1 .. Len(selected) + 1
  /\ staged \in BOOLEAN /\ reserved \in Nat
  /\ pc \in Fetching \cup Loaded \cup Failing \cup {"load"}
  /\ source \in Seq(LayersOfSource) /\ \A l \in DOMAIN source : WellMade(source[l])
  /\ DOMAIN mirror = {Locator(scenario, r) : r \in DOMAIN scenario.revisions}
  /\ \A l \in DOMAIN mirror : DOMAIN mirror[l] = Paths(scenario, l) /\ \A p \in DOMAIN mirror[l] : mirror[l][p] \in Entries
  /\ pc \in AtMirror \cup {"reserve"} => Remote(scenario) /\ selected = SelectedFiles(scenario, resolved)
  /\ pc \in AtMirror => scenario.mirror
  /\ pc \in {"fetch", "reserve", "mirror"} => file = 1
  /\ pc \in AtFile => file <= Len(selected)
  /\ pc = "download" => Len(Entry.parts) < Len(selected[file].data)

(* The checkpoint, the worker's copy and the sessions.                        *)

(* What a checkpoint says of a session is behind what the store has of it.    *)
BehindIn(c, store) == c.layer \in DOMAIN store =>
  /\ Len(store[c.layer].data) <= c.total
  /\ store[c.layer].state = "open" => c.sent <= Len(store[c.layer].data)

AtItsLayer ==
  /\ pc \in Fetching \cup {"load"} => layer = 0
  /\ pc \in AtLayer => layer > 0 /\ recoveries <= Attempts + (IF pc = "abort" THEN 1 ELSE 0)

SecretInv ==
  /\ BehindIn(secret.current, session)
  /\ secret.phase # "Running" => secret.current = Nothing
  /\ DOMAIN secret.completed \subseteq DOMAIN sealed

MemoryInv ==
  /\ pc \in AtSync => /\ secret.current \in {memory.current, Nothing}
                      /\ memory.phase # "Running" => memory.current = Nothing
  /\ pc \in {"plan", "next", "open"} \cup AtSession => BehindIn(memory.current, session)
  /\ DOMAIN memory.completed \subseteq DOMAIN sealed

OpenedInv ==
  /\ pc \in AtLayer \ {"open"} => /\ current.layer = Key(layer) /\ current.total = Size(layer)
                                  /\ Key(layer) \in DOMAIN session
  /\ pc \in AtSession =>
       /\ memory.current.layer = Key(layer) /\ memory.current.total = Size(layer)
       /\ pc # "savePart" => memory.current.sent <= current.sent
       /\ current.sent <= Size(layer)
       /\ Len(session[Key(layer)].data) <= Size(layer)
       /\ session[Key(layer)].state \in {"open", "done"} => current.sent <= Len(session[Key(layer)].data)
  /\ pc = "completed" => Key(layer) \in DOMAIN sealed

SessionInv == UploadTypeOK /\ AtItsLayer /\ SecretInv /\ MemoryInv /\ OpenedInv

(* The mirror: what it has at a path is a beginning of the file selected       *)
(* there, unless a tag that moves says where it is.                           *)
FromFile(f, e) == /\ e.object \in {<<>>, f.data} /\ Len(e.parts) <= Len(f.data)
                  /\ e.parts = SubSeq(f.data, 1, Len(e.parts))
MirrorFrom(m) == \A l \in DOMAIN m : \A p \in DOMAIN m[l] :
  \/ m[l][p].object = <<>> /\ m[l][p].parts = <<>>
  \/ Remote(scenario) /\ \E f \in Range(SelectedFiles(scenario, l)) : f.path = p /\ FromFile(f, m[l][p])

MirrorInv == ~MirrorOfTag =>
  /\ MirrorFrom(mirror)
  /\ pc \in AtFile \cup {"file"} => \A i \in 1 .. file - 1 : Snapshot[selected[i].path].object # <<>>
  /\ pc = "assemble" => Len(Entry.parts) = Len(selected[file].data)
  /\ pc \in Loaded \cup {"load"} => source = Layered(scenario, resolved)

Known == FetchInv /\ SessionInv /\ MirrorInv

-----------------------------------------------------------------------------
(* What is known besides if no two revisions can be taken for one another: the *)
(* checkpoint fits one of them, and what is sealed is of its layers. A worker  *)
(* that goes on from the checkpoint has found one with the same plan.         *)
Certain == ~MirrorOfTag /\ ~Confusable

DistinctKeys(layers) == \A l, m \in DOMAIN layers : DirectUploadLayerKey(layers[l]) = DirectUploadLayerKey(layers[m]) => l = m
IsPrefixOf(s, t) == Len(s) <= Len(t) /\ s = SubSeq(t, 1, Len(s))

(* A checkpoint's session c is one of layer x: what was sent and stored of it  *)
(* is a beginning of x.                                                      *)
Covers(c, x, store) ==
  /\ DirectUploadLayerKey(x) = c.layer /\ Len(x.data) = c.total
  /\ c.sent <= c.total /\ (x.kind = "raw" => c.hashed = SubSeq(x.data, 1, c.sent))
  /\ c.layer \in DOMAIN store => IsPrefixOf(store[c.layer].data, x.data)

Fits(r, plan) == DistinctKeys(Layered(scenario, r)) /\ PlanOf(Layered(scenario, r)) = plan
IsFitting(c, plan, store) == \E r \in DOMAIN scenario.revisions :
  Fits(r, plan) /\ \E l \in DOMAIN Layered(scenario, r) : Covers(c, Layered(scenario, r)[l], store)

FittingInv ==
  /\ secret.current = Nothing \/ IsFitting(secret.current, secret.plan, session)
  /\ secret.plan = NoPlan => secret.current = Nothing

PlannedInv ==
  /\ pc = "plan" => memory = secret /\ layer = 0
  /\ pc \in Loaded => DistinctKeys(source) /\ memory.plan = secret.plan /\ memory.completed = secret.completed
  /\ pc \in Loaded \ {"plan"} => Plan = secret.plan
  /\ pc \in {"plan", "next", "open"} => memory.current = secret.current

CoveredInv ==
  /\ pc \in AtSession => Covers(current, source[layer], session) /\ Covers(memory.current, source[layer], session)
  /\ pc = "complete" => current.sent = Size(layer)
  /\ pc = "completed" => Declared = source[layer].data /\ sealed[Key(layer)].data = source[layer].data

SealedInv ==
  /\ \A k \in DOMAIN secret.completed : k.kind # "raw" => sealed[k].digest = secret.completed[k]
  /\ DigestCoversLayer

(* The layers behind the worker are in the registry as its source has them.   *)
Processed == IF pc \in AtLayer THEN layer - 1 ELSE layer
ProcessedInv ==
  /\ pc \in AtLayer \ {"abort"} /\ ~Raw(layer) => Key(layer) \notin DOMAIN memory.completed
  /\ pc \in AtLayer \cup {"next", "config", "manifest"} =>
       \A m \in 1 .. Processed : Key(m) \in DOMAIN sealed /\ sealed[Key(m)].data = source[m].data
  /\ pc \in {"config", "manifest"} => layer = Len(source)

CertainInv == FittingInv /\ PlannedInv /\ CoveredInv /\ SealedInv /\ ProcessedInv /\ ArtifactOfOneRevision

ResumedInv == Known /\ (Certain => CertainInv)

(* What one store has of a session, an earlier one had, or it starts anew.     *)
DataKept(store, store2) == \A k \in DOMAIN store2 :
  store2[k].data = <<>> \/ (k \in DOMAIN store /\ store2[k].data = store[k].data)

-----------------------------------------------------------------------------
(* Sequences and functions: recursion over the first numbers has a value, and *)
(* what is taken, joined and summed up by it is what is meant.                *)

(* Every set of numbers that is not empty has a smallest one.                *)
LEMMA Smallest ==
  ASSUME NEW S \in SUBSET Nat, S # {}
  PROVE  \E x \in S : \A y \in S : x <= y
<1> DEFINE R == OpToRel(<, Nat)
<1>1. IsWellFoundedOn(R, Nat)
  BY NatLessThanWellFounded
<1>2. ASSUME NEW x \in S, NEW y \in S PROVE <<y, x>> \in R <=> y < x
  BY DEF OpToRel
<1> HIDE DEF R
<1>3. PICK x \in S : \A y \in S : ~(<<y, x>> \in R)
  BY <1>1, WFMin
<1>4. ASSUME NEW y \in S PROVE x <= y
  <2>1. ~(<<y, x>> \in R)
    BY <1>3
  <2>2. ~(y < x)
    BY <2>1, <1>2
  <2>3. x \in Nat /\ y \in Nat
    OBVIOUS
  <2>4. QED BY <2>2, <2>3
<1>5. QED BY <1>4

(* What holds at the first number and with each at the next holds up to the   *)
(* last.                                                                     *)
LEMMA UpTo ==
  ASSUME NEW n \in Nat, NEW P, 0 \in P, \A i \in 1 .. n : i - 1 \in P => i \in P
  PROVE  \A i \in 0 .. n : i \in P
<1> DEFINE Bad == {i \in 0 .. n : i \notin P}
<1> SUFFICES ASSUME Bad # {} PROVE FALSE
  OBVIOUS
<1>1. PICK i \in Bad : \A j \in Bad : i <= j
  <2>1. Bad \in SUBSET Nat
    OBVIOUS
  <2>2. QED BY <2>1, Smallest
<1>2. i \in 1 .. n /\ i - 1 \in 0 .. n
  BY <1>1
<1>3. i - 1 \notin Bad
  BY <1>1, <1>2
<1>4. QED BY <1>1, <1>2, <1>3

(* A function defined by recursion over the first numbers exists.            *)
Steps(f, n, base, step) == f[0] = base /\ \A i \in 1 .. n : f[i] = step[i][f[i - 1]]
Closed(A, n, step) == \A i \in 1 .. n : \A a \in A : step[i][a] \in A

(* It exists, with values in a set that every step stays in.                  *)
LEMMA Recursion ==
  ASSUME NEW n \in Nat, NEW A, NEW base \in A, NEW step, Closed(A, n, step)
  PROVE  \E f \in [0 .. n -> A] : Steps(f, n, base, step)
<1> USE DEF Steps, Closed
<1> DEFINE Follows(f, m) == Steps(f, m, base, step)
           P == {m \in Nat : m <= n => \E f \in [0 .. m -> A] : Follows(f, m)}
<1>1. 0 \in P
  <2> DEFINE f == [i \in 0 .. 0 |-> base]
  <2>1. f \in [0 .. 0 -> A] /\ Follows(f, 0)
    OBVIOUS
  <2> QED BY <2>1
<1>2. ASSUME NEW i \in 1 .. n, i - 1 \in P PROVE i \in P
  <2>0. i \in Nat /\ i - 1 \in Nat /\ i # 0 /\ i - 1 <= n /\ i - 1 \in 0 .. i - 1
    OBVIOUS
  <2>1. PICK f \in [0 .. i - 1 -> A] : Follows(f, i - 1)
    BY <1>2, <2>0
  <2> DEFINE last == step[i][f[i - 1]]
             g == [j \in 0 .. i |-> IF j = i THEN last ELSE f[j]]
  <2>2. last \in A
    <3>1. f[i - 1] \in A
      BY <2>0, <2>1
    <3> QED BY <3>1
  <2>3. g \in [0 .. i -> A]
    <3> HIDE DEF last
    <3>1. ASSUME NEW j \in 0 .. i, j # i PROVE f[j] \in A
      <4>1. j \in 0 .. i - 1
        BY <3>1, <2>0
      <4> QED BY <4>1, <2>1
    <3> QED BY <2>2, <3>1
  <2>4. ASSUME NEW j \in 1 .. i PROVE g[j] = step[j][g[j - 1]]
    <3>1. CASE j = i
      <4>1. i \in 0 .. i /\ i - 1 \in 0 .. i /\ i - 1 # i
        BY <2>0
      <4>2. g[i] = last /\ g[i - 1] = f[i - 1]
        <5> HIDE DEF last
        <5> QED BY <4>1
      <4> HIDE DEF g
      <4> QED BY <3>1, <4>2, <2>0
    <3>2. CASE j # i
      <4>1. j \in 1 .. i - 1 /\ j \in 0 .. i /\ j - 1 \in 0 .. i /\ j - 1 # i
        BY <3>2, <2>0
      <4>2. f[j] = step[j][f[j - 1]]
        BY <2>1, <4>1
      <4> HIDE DEF last
      <4>3. g[j] = f[j] /\ g[j - 1] = f[j - 1]
        BY <3>2, <4>1
      <4> HIDE DEF g
      <4> QED BY <4>2, <4>3
    <3> QED BY <3>1, <3>2
  <2>5. Follows(g, i)
    <3>1. g[0] = base
      <4>1. 0 \in 0 .. i /\ 0 # i
        BY <2>0
      <4> HIDE DEF last
      <4>2. g[0] = f[0]
        BY <4>1
      <4> QED BY <4>2, <2>1
    <3> HIDE DEF g
    <3> QED BY <3>1, <2>4
  <2> HIDE DEF g
  <2> QED BY <2>0, <2>3, <2>5
<1>3. n \in P
  <2>1. n \in 0 .. n
    OBVIOUS
  <2> HIDE DEF P
  <2> QED BY <1>1, <1>2, <2>1, UpTo
<1>4. \E f \in [0 .. n -> A] : Follows(f, n)
  <2>1. n <= n
    OBVIOUS
  <2> QED BY <1>3, <2>1
<1> QED BY <1>4

-----------------------------------------------------------------------------
(* Operators over lists. *)

(* How the recursive functions go on.                                        *)
Takes(taken, list, chosen, n) == taken[0] = <<>> /\ \A i \in 1 .. n :
  taken[i] = IF list[i] \in chosen THEN Append(taken[i - 1], list[i]) ELSE taken[i - 1]
Flattens(flatten, seqs, n) == flatten[1] = seqs[1] /\ \A i \in 2 .. n : flatten[i] = flatten[i - 1] \o seqs[i]

(* The members that are taken from a list are taken one after the other.      *)
LEMMA AmongIs ==
  ASSUME NEW S, NEW list \in Seq(S), NEW chosen, NEW T, T = Range(list) \cap chosen, NEW n, n = Len(list)
  PROVE  \E taken \in [0 .. n -> Seq(T)] : Takes(taken, list, chosen, n) /\ Among(list, chosen) = taken[n]
<1> DEFINE Taken(f) == f = [i \in 0 .. n |-> IF i = 0 THEN <<>>
                         ELSE IF list[i] \in chosen THEN Append(f[i - 1], list[i]) ELSE f[i - 1]]
           step == [i \in 1 .. n |-> [t \in Seq(T) |-> IF list[i] \in chosen THEN Append(t, list[i]) ELSE t]]
<1>1. n \in Nat /\ <<>> \in Seq(T)
  OBVIOUS
<1>2. ASSUME NEW i \in 1 .. n, list[i] \in chosen PROVE list[i] \in T
  BY <1>2 DEF Range
<1>3. \A i \in 1 .. n : \A t \in Seq(T) : step[i][t] \in Seq(T)
  BY <1>2
<1>4. PICK f \in [0 .. n -> Seq(T)] : f[0] = <<>> /\ \A i \in 1 .. n : f[i] = step[i][f[i - 1]]
  <2> DEFINE A == Seq(T)
             base == <<>>
  <2> HIDE DEF step, A, base
  <2>1. base \in A /\ \A i \in 1 .. n : \A a \in A : step[i][a] \in A
    BY <1>1, <1>3 DEF A, base
  <2>2. PICK f \in [0 .. n -> A] : Steps(f, n, base, step)
    BY <1>1, <2>1, Recursion DEF Closed
  <2> QED BY <2>2 DEF A, base, Steps
<1>5. ASSUME NEW i \in 0 .. n
      PROVE  f[i] = IF i = 0 THEN <<>> ELSE IF list[i] \in chosen THEN Append(f[i - 1], list[i]) ELSE f[i - 1]
  <2>1. CASE i = 0
    BY <1>4, <2>1
  <2>2. CASE i # 0
    <3>1. i \in 1 .. n /\ f[i - 1] \in Seq(T)
      BY <1>1, <2>2
    <3>2. f[i] = step[i][f[i - 1]]
      BY <1>4, <3>1
    <3> QED BY <2>2, <3>1, <3>2
  <2> QED BY <2>1, <2>2
<1>6. Taken(f)
  <2>1. f = [i \in 0 .. n |-> f[i]]
    OBVIOUS
  <2> HIDE DEF step
  <2> QED BY <1>5, <2>1
<1> DEFINE taken == CHOOSE taken : Taken(taken)
<1>7. Among(list, chosen) = taken[n]
  BY DEF Among
<1>8. Taken(taken)
  <2> HIDE DEF Taken
  <2> QED BY <1>6
<1> HIDE DEF taken, step
<1>9. /\ DOMAIN taken = 0 .. n /\ taken[0] = <<>>
      /\ \A i \in 1 .. n : taken[i] = IF list[i] \in chosen THEN Append(taken[i - 1], list[i]) ELSE taken[i - 1]
      /\ taken = [i \in 0 .. n |-> taken[i]]
  <2>1. DOMAIN taken = 0 .. n
    BY <1>8
  <2>2. taken[0] = <<>>
    BY <1>1, <1>8
  <2>3. ASSUME NEW i \in 1 .. n
        PROVE  taken[i] = IF list[i] \in chosen THEN Append(taken[i - 1], list[i]) ELSE taken[i - 1]
    <3>1. i \in 0 .. n /\ i # 0
      OBVIOUS
    <3> QED BY <3>1, <1>8
  <2>4. taken = [i \in 0 .. n |-> taken[i]]
    BY <1>8
  <2> HIDE DEF Taken
  <2> QED BY <2>1, <2>2, <2>3, <2>4
<1> HIDE DEF Taken
<1>10. \A i \in 0 .. n : taken[i] \in Seq(T)
  <2> DEFINE P == {i \in 0 .. n : taken[i] \in Seq(T)}
  <2>1. 0 \in P
    <3>1. 0 \in 0 .. n
      BY <1>1
    <3>2. taken[0] \in Seq(T)
      BY <1>1, <1>9
    <3> QED BY <3>1, <3>2
  <2>2. ASSUME NEW i \in 1 .. n, i - 1 \in P PROVE i \in P
    <3>1. i \in 0 .. n /\ taken[i - 1] \in Seq(T) /\ (list[i] \in chosen => list[i] \in T)
      BY <1>1, <1>2, <2>2
    <3>2. taken[i] = IF list[i] \in chosen THEN Append(taken[i - 1], list[i]) ELSE taken[i - 1]
      BY <1>9
    <3>3. taken[i] \in Seq(T)
      BY <3>1, <3>2
    <3> QED BY <3>1, <3>3
  <2> HIDE DEF P
  <2>3. \A i \in 0 .. n : i \in P
    BY <1>1, <2>1, <2>2, UpTo
  <2> QED BY <2>3 DEF P
<1>11. taken \in [0 .. n -> Seq(T)]
  BY <1>9, <1>10
<1> QED BY <1>7, <1>9, <1>11 DEF Takes

(* They are members of the list, and of what is chosen.                       *)
LEMMA AmongTyped ==
  ASSUME NEW S, NEW list \in Seq(S), NEW chosen
  PROVE  Among(list, chosen) \in Seq(Range(list) \cap chosen) /\ Among(list, chosen) \in Seq(S)
<1> DEFINE T == Range(list) \cap chosen
           n == Len(list)
<1>1. n \in Nat
  OBVIOUS
<1>2. T \subseteq S
  BY DEF Range
<1>3. Among(list, chosen) \in Seq(T)
  <2> HIDE DEF T, n
  <2>1. T = Range(list) \cap chosen /\ n = Len(list)
    BY DEF T, n
  <2>2. PICK taken \in [0 .. n -> Seq(T)] : Takes(taken, list, chosen, n) /\ Among(list, chosen) = taken[n]
    BY <2>1, AmongIs, ZenonT(60)
  <2> QED BY <1>1, <2>2
<1> HIDE DEF T
<1>4. Among(list, chosen) \in Seq(S)
  BY <1>2, <1>3, SeqMonotonic
<1> QED BY <1>3, <1>4 DEF T

(* Sequences are joined one after the other.                                  *)
LEMMA FlattenIs ==
  ASSUME NEW S, NEW seqs \in Seq(Seq(S)), NEW n, n = Len(seqs), n # 0
  PROVE  \E flatten \in [1 .. n -> Seq(S)] : Flattens(flatten, seqs, n) /\ FlattenSeq(seqs) = flatten[n]
<1> DEFINE Flat(f) == f = [i \in 1 .. n |-> IF i = 1 THEN seqs[i] ELSE f[i - 1] \o seqs[i]]
           step == [i \in 1 .. n - 1 |-> [t \in Seq(S) |-> t \o seqs[i + 1]]]
           m == n - 1
           A == Seq(S)
           base == seqs[1]
<1>1. n \in Nat /\ m \in Nat /\ base \in A
  OBVIOUS
<1>2. Closed(A, m, step)
  <2>1. ASSUME NEW i \in 1 .. m, NEW t \in A PROVE t \o seqs[i + 1] \in A
    <3>1. i + 1 \in 1 .. n
      BY <1>1
    <3>2. seqs[i + 1] \in A
      BY <3>1
    <3> QED BY <3>2
  <2> QED BY <2>1 DEF Closed
<1>3. PICK f \in [0 .. m -> A] : Steps(f, m, base, step)
  <2> HIDE DEF step, A, base, m
  <2> QED BY <1>1, <1>2, Recursion
<1> DEFINE g == [i \in 1 .. n |-> f[i - 1]]
<1>4. ASSUME NEW i \in 1 .. n
      PROVE  g[i] = IF i = 1 THEN seqs[i] ELSE g[i - 1] \o seqs[i]
  <2>1. CASE i = 1
    BY <1>1, <1>3, <2>1 DEF Steps
  <2>2. CASE i # 1
    <3>1. i - 1 \in 1 .. m /\ i - 1 \in 1 .. n /\ i - 2 \in 0 .. m /\ (i - 1) + 1 = i /\ (i - 1) - 1 = i - 2
      BY <1>1, <2>2
    <3>2. g[i] = f[i - 1] /\ g[i - 1] = f[i - 2]
      BY <3>1
    <3>3. f[i - 1] = step[i - 1][f[i - 2]] /\ f[i - 2] \in A
      <4> HIDE DEF step, A, m
      <4> QED BY <1>3, <3>1 DEF Steps
    <3>4. step[i - 1][f[i - 2]] = f[i - 2] \o seqs[i]
      BY <3>1, <3>3
    <3> HIDE DEF g, step
    <3> QED BY <2>2, <3>2, <3>3, <3>4
  <2> QED BY <2>1, <2>2
<1>5. Flat(g)
  <2>1. g = [i \in 1 .. n |-> g[i]]
    OBVIOUS
  <2> HIDE DEF g
  <2> QED BY <1>4, <2>1
<1> DEFINE flatten == CHOOSE flatten : Flat(flatten)
<1>6. FlattenSeq(seqs) = flatten[n]
  BY DEF FlattenSeq
<1>7. Flat(flatten)
  <2> HIDE DEF Flat
  <2> QED BY <1>5
<1> HIDE DEF flatten
<1>8. /\ flatten[1] = seqs[1]
      /\ \A i \in 2 .. n : flatten[i] = flatten[i - 1] \o seqs[i]
      /\ flatten = [i \in 1 .. n |-> flatten[i]]
  <2>1. flatten[1] = seqs[1]
    BY <1>1, <1>7
  <2>2. ASSUME NEW i \in 2 .. n PROVE flatten[i] = flatten[i - 1] \o seqs[i]
    <3>1. i \in 1 .. n /\ i # 1
      OBVIOUS
    <3> QED BY <3>1, <1>7
  <2>3. flatten = [i \in 1 .. n |-> flatten[i]]
    BY <1>7
  <2> HIDE DEF Flat
  <2> QED BY <2>1, <2>2, <2>3
<1> HIDE DEF Flat
<1>9. \A i \in 1 .. n : flatten[i] \in Seq(S)
  <2> DEFINE P == {i \in 0 .. n : i # 0 => flatten[i] \in Seq(S)}
  <2>1. 0 \in P
    BY <1>1
  <2>2. ASSUME NEW i \in 1 .. n, i - 1 \in P PROVE i \in P
    <3>1. CASE i = 1
      BY <1>1, <1>8, <3>1
    <3>2. CASE i # 1
      <4>1. i \in 2 .. n /\ flatten[i - 1] \in Seq(S) /\ seqs[i] \in Seq(S)
        BY <1>1, <2>2, <3>2
      <4>2. flatten[i] = flatten[i - 1] \o seqs[i]
        BY <1>8, <4>1
      <4>3. flatten[i] \in Seq(S)
        BY <4>1, <4>2
      <4> QED BY <4>3
    <3> QED BY <3>1, <3>2
  <2> HIDE DEF P
  <2>3. \A i \in 0 .. n : i \in P
    BY <1>1, <2>1, <2>2, UpTo
  <2> QED BY <2>3 DEF P
<1>10. flatten \in [1 .. n -> Seq(S)]
  BY <1>8, <1>9
<1> QED BY <1>6, <1>8, <1>10 DEF Flattens

(* What is joined of sequences over a set is a sequence over it.              *)
LEMMA FlattenTyped ==
  ASSUME NEW S, NEW seqs \in Seq(Seq(S))
  PROVE  FlattenSeq(seqs) \in Seq(S)
<1> DEFINE n == Len(seqs)
<1>1. CASE n = 0
  <2>1. FlattenSeq(seqs) = seqs /\ seqs = <<>>
    BY <1>1 DEF FlattenSeq
  <2> QED BY <2>1
<1>2. CASE n # 0
  <2>1. n \in Nat /\ n \in 1 .. n
    BY <1>2
  <2>2. n = Len(seqs)
    OBVIOUS
  <2> HIDE DEF n
  <2>3. PICK flatten \in [1 .. n -> Seq(S)] : Flattens(flatten, seqs, n) /\ FlattenSeq(seqs) = flatten[n]
    BY <1>2, <2>2, FlattenIs
  <2> QED BY <2>1, <2>3
<1> QED BY <1>1, <1>2

(* The size of files or layers is a number.                                   *)
LEMMA TotalSizeTyped ==
  ASSUME NEW T, \A t \in T : t.data \in Contents, NEW items \in Seq(T)
  PROVE  TotalSize(items) \in Nat
<1> DEFINE datas == [i \in DOMAIN items |-> items[i].data]
<1>1. datas \in Seq(Contents)
  <2>1. DOMAIN items = 1 .. Len(items) /\ Len(items) \in Nat
    OBVIOUS
  <2>2. ASSUME NEW i \in 1 .. Len(items) PROVE items[i].data \in Contents
    OBVIOUS
  <2> QED BY <2>1, <2>2
<1> HIDE DEF datas
<1>2. FlattenSeq(datas) \in Seq(STRING)
  BY <1>1, FlattenTyped DEF Contents
<1> QED BY <1>2 DEF TotalSize, datas

-----------------------------------------------------------------------------
(* A range of a layer.                                                        *)

(* How far a range of o to e, both counted from the layer's first part, lies in *)
(* what is written so far.                                                   *)
Cut(s, o, e) == SubSeq(s, o + 1, Smaller(e, Len(s)))
Behind(o, n) == IF o > n THEN o - n ELSE 0

(* A cut of a sequence: its length, and its members.                          *)
LEMMA CutIs ==
  ASSUME NEW S, NEW s \in Seq(S), NEW o \in Nat, NEW e \in Nat
  PROVE  /\ Cut(s, o, e) \in Seq(S)
         /\ Len(Cut(s, o, e)) = Behind(Smaller(e, Len(s)), o)
         /\ \A i \in 1 .. Len(Cut(s, o, e)) : Cut(s, o, e)[i] = s[o + i]
<1> DEFINE m == o + 1
           n == Smaller(e, Len(s))
<1>1. m \in Int /\ n \in Int /\ n <= Len(s) /\ m >= 1
  BY DEF Smaller
<1>2. \A i \in m .. n : s[i] \in S
  BY <1>1
<1> HIDE DEF n
<1>3. /\ SubSeq(s, m, n) \in Seq(S)
      /\ Len(SubSeq(s, m, n)) = IF m <= n THEN n - m + 1 ELSE 0
      /\ \A i \in 1 .. n - m + 1 : SubSeq(s, m, n)[i] = s[m + i - 1]
  BY <1>1, <1>2, SubSeqProperties
<1>4. Cut(s, o, e) = SubSeq(s, m, n)
  BY DEF Cut, n
<1>5. Len(Cut(s, o, e)) = Behind(n, o)
  BY <1>1, <1>3, <1>4 DEF Behind
<1>6. ASSUME NEW i \in 1 .. Len(Cut(s, o, e)) PROVE Cut(s, o, e)[i] = s[o + i]
  <2>1. i \in 1 .. n - m + 1 /\ m + i - 1 = o + i
    BY <1>1, <1>5 DEF Behind
  <2> QED BY <1>3, <1>4, <2>1
<1> QED BY <1>3, <1>4, <1>5, <1>6 DEF n

(* A cut of two sequences that are joined is a cut of each, joined.           *)
LEMMA CutConcat ==
  ASSUME NEW S, NEW s \in Seq(S), NEW t \in Seq(S), NEW o \in Nat, NEW e \in Nat, o <= e
  PROVE  Cut(s \o t, o, e) = Cut(s, o, e) \o Cut(t, Behind(o, Len(s)), Behind(e, Len(s)))
<1> DEFINE n == Len(s)
           k == Len(t)
           p == Behind(o, n)
           q == Behind(e, n)
           a == Cut(s, o, e)
           b == Cut(t, p, q)
           u == s \o t
           c == Cut(u, o, e)
<1>1. n \in Nat /\ k \in Nat /\ p \in Nat /\ q \in Nat
  BY DEF Behind
<1>2. /\ u \in Seq(S) /\ Len(u) = n + k
      /\ \A i \in 1 .. n + k : u[i] = IF i <= n THEN s[i] ELSE t[i - n]
  BY ConcatProperties
<1>3. /\ a \in Seq(S) /\ Len(a) = Behind(Smaller(e, n), o)
      /\ \A i \in 1 .. Len(a) : a[i] = s[o + i]
  BY CutIs
<1>4. /\ b \in Seq(S) /\ Len(b) = Behind(Smaller(q, k), p)
      /\ \A i \in 1 .. Len(b) : b[i] = t[p + i]
  <2> HIDE DEF p, q
  <2> QED BY <1>1, CutIs
<1>5. /\ c \in Seq(S) /\ Len(c) = Behind(Smaller(e, n + k), o)
      /\ \A i \in 1 .. Len(c) : c[i] = u[o + i]
  <2>0. u \in Seq(S) /\ Len(u) = n + k
    BY <1>2
  <2> HIDE DEF u, n, k
  <2>1. /\ c \in Seq(S) /\ Len(c) = Behind(Smaller(e, Len(u)), o)
        /\ \A i \in 1 .. Len(c) : c[i] = u[o + i]
    BY <2>0, CutIs
  <2> QED BY <2>0, <2>1
<1>6. /\ a \o b \in Seq(S) /\ Len(a \o b) = Len(a) + Len(b)
      /\ \A i \in 1 .. Len(a) + Len(b) : (a \o b)[i] = IF i <= Len(a) THEN a[i] ELSE b[i - Len(a)]
  <2> HIDE DEF a, b
  <2> QED BY <1>3, <1>4, ConcatProperties
<1>7. p = Behind(o, n) /\ q = Behind(e, n)
  OBVIOUS
<1> HIDE DEF a, b, c, n, k, p, q, u
<1>8. Len(c) = Len(a) + Len(b)
  BY <1>1, <1>3, <1>4, <1>5, <1>7, SMTT(30) DEF Behind, Smaller
<1>9. ASSUME NEW i \in 1 .. Len(c) PROVE c[i] = (a \o b)[i]
  <2>0. Len(c) \in Nat /\ Len(a) \in Nat /\ Len(b) \in Nat /\ i \in Nat /\ i >= 1 /\ i <= Len(c)
    BY <1>3, <1>4, <1>5
  <2>1. c[i] = u[o + i]
    BY <1>5, <2>0
  <2>2. o + i \in 1 .. n + k
    <3>1. i <= Behind(Smaller(e, n + k), o)
      BY <1>5, <2>0
    <3> QED BY <1>1, <2>0, <3>1 DEF Behind, Smaller
  <2>3. u[o + i] = IF o + i <= n THEN s[o + i] ELSE t[o + i - n]
    <3> DEFINE j == o + i
    <3>1. j \in 1 .. n + k
      BY <2>2
    <3> HIDE DEF j
    <3>2. u[j] = IF j <= n THEN s[j] ELSE t[j - n]
      BY <1>2, <3>1
    <3> QED BY <1>1, <2>0, <3>2 DEF j
  <2>4. (a \o b)[i] = IF i <= Len(a) THEN a[i] ELSE b[i - Len(a)]
    BY <1>6, <1>8
  <2>5. CASE i <= Len(a)
    <3>1. i \in 1 .. Len(a) /\ o + i <= n
      BY <1>1, <1>3, <2>0, <2>5 DEF Behind, Smaller
    <3>2. a[i] = s[o + i]
      BY <1>3, <3>1
    <3> QED BY <2>1, <2>3, <2>4, <2>5, <3>1, <3>2
  <2>6. CASE ~(i <= Len(a))
    <3>1. i - Len(a) \in 1 .. Len(b)
      BY <1>8, <2>0, <2>6
    <3>2. ~(o + i <= n) /\ o + i - n = p + (i - Len(a))
      BY <1>1, <1>3, <1>4, <1>7, <2>0, <3>1 DEF Behind, Smaller
    <3>3. b[i - Len(a)] = t[p + (i - Len(a))]
      BY <1>4, <3>1
    <3> QED BY <2>1, <2>3, <2>4, <2>6, <3>2, <3>3
  <2> QED BY <2>5, <2>6
<1>10. c = a \o b
  BY <1>5, <1>6, <1>8, <1>9, SeqEqual
<1> QED BY <1>10 DEF a, b, c, n, k, p, q, u

(* What has been written of a pack when its first files, s, are passed.       *)
After(s, o, length) ==
  [at |-> Len(s), remaining |-> length - Len(Cut(s, o, o + length)), out |-> Cut(s, o, o + length)]

(* A segment written behind those before it is the cut of all of them.        *)
LEMMA WritesSegment ==
  ASSUME NEW S, NEW s \in Seq(S), NEW t \in Seq(S), NEW o \in Nat, NEW length \in Nat
  PROVE  WriteSegment(After(s, o, length), t, o) = After(s \o t, o, length)
<1> DEFINE n == Len(s)
           k == Len(t)
           e == o + length
           a == Cut(s, o, e)
           p == Behind(o, n)
           q == Behind(e, n)
           b == Cut(t, p, q)
           rest == length - Len(a)
           cut == IntersectArchiveSegment(n, k, o, rest)
           piece == SubSeq(t, cut.start + 1, cut.start + cut.length)
<1>1. n \in Nat /\ k \in Nat /\ e \in Nat /\ o <= e /\ p \in Nat /\ q \in Nat
  BY DEF Behind
<1>2. a \in Seq(S) /\ Len(a) = Behind(Smaller(e, n), o)
  <2>1. e \in Nat
    BY <1>1
  <2> HIDE DEF e
  <2> QED BY <2>1, CutIs, ZenonT(60)
<1>3. b \in Seq(S) /\ Len(b) = Behind(Smaller(q, k), p)
  <2> HIDE DEF p, q
  <2> QED BY <1>1, CutIs
<1>4. Cut(s \o t, o, e) = a \o b
  <2> HIDE DEF e
  <2> QED BY <1>1, CutConcat
<1>5. Len(s \o t) = n + k
  BY ConcatProperties
<1>6. Len(a \o b) = Len(a) + Len(b)
  <2> HIDE DEF a, b
  <2> QED BY <1>2, <1>3, ConcatProperties
<1>7. e = o + length /\ p = Behind(o, n) /\ q = Behind(e, n) /\ rest = length - Len(a)
  OBVIOUS
<1>8. WriteSegment(After(s, o, length), t, o)
        = [at |-> n + k, remaining |-> rest - cut.length, out |-> a \o piece]
  BY DEF WriteSegment, After
<1>9. After(s \o t, o, length) = [at |-> n + k, remaining |-> length - (Len(a) + Len(b)), out |-> a \o b]
  <2> HIDE DEF a, b
  <2> QED BY <1>4, <1>5, <1>6, <1>7 DEF After
<1>10. b = SubSeq(t, p + 1, Smaller(q, k))
  BY DEF Cut
<1>11. /\ cut.start \in Nat /\ cut.length \in Nat /\ cut.length = Len(b)
       /\ cut.length = 0 => ~(p + 1 <= Smaller(q, k))
       /\ cut.length # 0 => cut.start = p /\ cut.start + cut.length = Smaller(q, k)
  <2> HIDE DEF a, b, n, k, e, p, q, rest
  <2>1. rest = IF e <= n THEN 0 ELSE IF o <= n THEN e - n ELSE length
    BY <1>1, <1>2, <1>7 DEF Behind, Smaller
  <2>2. rest \in Nat
    BY <1>1, <1>7, <2>1
  <2>3. CASE o < n + k /\ rest > 0
    <3> DEFINE start == IF o > n THEN o - n ELSE 0
    <3>1. cut = [start |-> start, length |-> Smaller(rest, k - start)]
      BY <2>3 DEF IntersectArchiveSegment
    <3>2. start = p /\ start \in Nat /\ start <= k
      BY <1>1, <1>7, <2>3 DEF Behind
    <3>3. cut.start = p /\ cut.length = Smaller(rest, k - p)
      <4> HIDE DEF start, cut
      <4> QED BY <3>1, <3>2
    <3>4. rest = q - p /\ q > p
      BY <1>1, <1>7, <2>1, <2>3 DEF Behind
    <3> HIDE DEF cut
    <3> QED BY <1>1, <1>3, <2>2, <3>2, <3>3, <3>4 DEF Behind, Smaller
  <2>4. CASE ~(o < n + k /\ rest > 0)
    <3>1. cut = [start |-> 0, length |-> 0]
      BY <2>4 DEF IntersectArchiveSegment
    <3>2. p >= k \/ q <= p
      BY <1>1, <1>7, <2>1, <2>4 DEF Behind
    <3>3. Len(b) = 0 /\ ~(p + 1 <= Smaller(q, k))
      BY <1>1, <1>3, <3>2 DEF Behind, Smaller
    <3> QED BY <3>1, <3>3
  <2> QED BY <2>3, <2>4
<1>12. piece = b
  <2> HIDE DEF a, b, n, k, e, p, q, rest, cut
  <2>1. CASE cut.length # 0
    BY <1>10, <1>11, <2>1
  <2>2. CASE cut.length = 0
    <3>1. Smaller(q, k) \in Int /\ cut.start + cut.length < cut.start + 1 /\ Smaller(q, k) < p + 1
      BY <1>1, <1>11, <2>2 DEF Smaller
    <3>2. b = <<>>
      BY <1>1, <1>10, <3>1, SubSeqEmpty
    <3>3. piece = <<>>
      BY <1>11, <3>1, SubSeqEmpty
    <3> QED BY <3>2, <3>3
  <2> QED BY <2>1, <2>2
<1>13. rest - cut.length = length - (Len(a) + Len(b))
  <2> HIDE DEF a, b, cut
  <2> QED BY <1>2, <1>3, <1>11
<1> HIDE DEF a, b, n, k, e, p, q, rest, cut, piece
<1> QED BY <1>8, <1>9, <1>12, <1>13

Joins(f, seqs, n) == f[0] = <<>> /\ \A i \in 1 .. n : f[i] = f[i - 1] \o seqs[i]

(* What is joined up to each of the segments.                                 *)
LEMMA PrefixesAre ==
  ASSUME NEW S, NEW seqs \in Seq(Seq(S)), NEW n, n = Len(seqs)
  PROVE  \E f \in [0 .. n -> Seq(S)] : Joins(f, seqs, n) /\ FlattenSeq(seqs) = f[n]
<1>1. n \in Nat
  OBVIOUS
<1>2. CASE n = 0
  <2> DEFINE f == [i \in 0 .. n |-> <<>>]
  <2>1. f \in [0 .. n -> Seq(S)] /\ f[0] = <<>> /\ f[n] = <<>>
    BY <1>2
  <2>2. FlattenSeq(seqs) = <<>>
    <3>1. Len(seqs) = 0 /\ seqs = <<>>
      BY <1>2, EmptySeq
    <3> QED BY <3>1 DEF FlattenSeq
  <2>3. Joins(f, seqs, n)
    BY <1>2, <2>1 DEF Joins
  <2> HIDE DEF f
  <2> QED BY <2>1, <2>2, <2>3
<1>3. CASE n # 0
  <2>1. PICK flatten \in [1 .. n -> Seq(S)] : Flattens(flatten, seqs, n) /\ FlattenSeq(seqs) = flatten[n]
    BY <1>3, FlattenIs
  <2> DEFINE f == [i \in 0 .. n |-> IF i = 0 THEN <<>> ELSE flatten[i]]
  <2>2. f \in [0 .. n -> Seq(S)] /\ f[0] = <<>> /\ f[n] = flatten[n]
    <3>1. ASSUME NEW i \in 0 .. n, i # 0 PROVE flatten[i] \in Seq(S)
      <4>1. i \in 1 .. n
        BY <1>1, <3>1
      <4> QED BY <4>1
    <3>2. 0 \in 0 .. n /\ n \in 0 .. n
      BY <1>1
    <3> QED BY <1>3, <3>1, <3>2
  <2>3. ASSUME NEW i \in 1 .. n PROVE f[i] = f[i - 1] \o seqs[i]
    <3>0. i \in 0 .. n /\ i # 0 /\ i - 1 \in 0 .. n /\ i \in Nat
      BY <1>1
    <3>1. CASE i = 1
      <4>1. f[1] = seqs[1] /\ f[0] = <<>>
        BY <2>1, <3>0, <3>1 DEF Flattens
      <4>2. seqs[1] \in Seq(S)
        BY <1>1, <3>0, <3>1
      <4>3. <<>> \o seqs[1] = seqs[1]
        BY <4>2, ConcatEmptySeq
      <4> HIDE DEF f
      <4>4. i - 1 = 0
        BY <3>1
      <4>5. f[1] = f[0] \o seqs[1]
        BY <4>1, <4>3
      <4> QED BY <3>1, <4>4, <4>5
    <3>2. CASE i # 1
      <4>1. i \in 2 .. n /\ i - 1 # 0
        BY <3>0, <3>2
      <4>2. f[i] = flatten[i] /\ f[i - 1] = flatten[i - 1]
        BY <3>0, <4>1
      <4> HIDE DEF f
      <4> QED BY <2>1, <4>1, <4>2 DEF Flattens
    <3> QED BY <3>1, <3>2
  <2>4. Joins(f, seqs, n)
    <3> HIDE DEF f
    <3> QED BY <2>2, <2>3 DEF Joins
  <2> HIDE DEF f
  <2> QED BY <2>1, <2>2, <2>4
<1> QED BY <1>2, <1>3

(* So a range written from the segments is the cut of what they make          *)
(* together.                                                                  *)
LEMMA WriteRangedIs ==
  ASSUME NEW S, NEW l, l.segments \in Seq(Seq(S)), NEW offset \in Nat, NEW length \in Nat
  PROVE  WriteRangedObjectSourceArchive(l, offset, length)
           = Cut(FlattenSeq(l.segments), offset, offset + length)
<1> DEFINE segs == l.segments
           n == Len(segs)
           Writes(w) == w = [i \in 0 .. n |-> IF i = 0 THEN [at |-> 0, remaining |-> length, out |-> <<>>]
                                             ELSE WriteSegment(w[i - 1], segs[i], offset)]
           written == CHOOSE w : Writes(w)
<1>1. WriteRangedObjectSourceArchive(l, offset, length) = written[n].out
  BY DEF WriteRangedObjectSourceArchive
<1>2. n \in Nat /\ segs \in Seq(Seq(S)) /\ n = Len(segs)
  OBVIOUS
<1> HIDE DEF n, segs
<1>3. PICK f \in [0 .. n -> Seq(S)] : Joins(f, segs, n) /\ FlattenSeq(segs) = f[n]
  BY <1>2, PrefixesAre
<1> DEFINE g == [i \in 0 .. n |-> After(f[i], offset, length)]
<1>4. After(f[0], offset, length) = [at |-> 0, remaining |-> length, out |-> <<>>]
  <2>1. f[0] = <<>>
    BY <1>3 DEF Joins
  <2>2. Smaller(offset + length, 0) \in Int /\ Smaller(offset + length, 0) < offset + 1
    BY DEF Smaller
  <2>3. SubSeq(<<>>, offset + 1, Smaller(offset + length, 0)) = <<>>
    BY <2>2, SubSeqEmpty
  <2>4. Cut(f[0], offset, offset + length) = <<>> /\ Len(f[0]) = 0
    BY <2>1, <2>3 DEF Cut
  <2> QED BY <2>4 DEF After
<1>5. ASSUME NEW i \in 1 .. n
      PROVE  WriteSegment(After(f[i - 1], offset, length), segs[i], offset) = After(f[i], offset, length)
  <2>1. i - 1 \in 0 .. n /\ i \in 1 .. n
    BY <1>2
  <2>2. f[i - 1] \in Seq(S) /\ segs[i] \in Seq(S)
    <3>1. segs[i] \in Seq(S)
      BY <1>2, <2>1
    <3>2. f[i - 1] \in Seq(S)
      BY <1>3, <2>1
    <3> QED BY <3>1, <3>2
  <2>3. f[i] = f[i - 1] \o segs[i]
    BY <1>3, <2>1 DEF Joins
  <2> QED BY <2>2, <2>3, WritesSegment
<1>6. Writes(g)
  <2>1. ASSUME NEW i \in 0 .. n
        PROVE  g[i] = IF i = 0 THEN [at |-> 0, remaining |-> length, out |-> <<>>]
                      ELSE WriteSegment(g[i - 1], segs[i], offset)
    <3>1. CASE i = 0
      <4>1. g[0] = After(f[0], offset, length)
        BY <1>2
      <4> HIDE DEF g
      <4> QED BY <3>1, <4>1, <1>4
    <3>2. CASE i # 0
      <4>1. i \in 1 .. n /\ i - 1 \in 0 .. n
        BY <1>2, <3>2
      <4>2. g[i] = After(f[i], offset, length) /\ g[i - 1] = After(f[i - 1], offset, length)
        BY <4>1
      <4> HIDE DEF g
      <4> QED BY <3>2, <4>1, <4>2, <1>5
    <3> QED BY <3>1, <3>2
  <2>2. g = [i \in 0 .. n |-> g[i]]
    OBVIOUS
  <2> HIDE DEF g
  <2> QED BY <2>1, <2>2
<1>7. Writes(written)
  <2> HIDE DEF Writes, g
  <2> QED BY <1>6
<1> HIDE DEF written
<1>8. /\ written[0] = [at |-> 0, remaining |-> length, out |-> <<>>]
      /\ \A i \in 1 .. n : written[i] = WriteSegment(written[i - 1], segs[i], offset)
  <2>1. written[0] = [at |-> 0, remaining |-> length, out |-> <<>>]
    BY <1>2, <1>7
  <2>2. ASSUME NEW i \in 1 .. n PROVE written[i] = WriteSegment(written[i - 1], segs[i], offset)
    <3>1. i \in 0 .. n /\ i # 0
      BY <1>2
    <3> QED BY <1>7, <3>1
  <2> QED BY <2>1, <2>2
<1> HIDE DEF Writes
<1>9. written[n] = After(f[n], offset, length)
  <2> DEFINE P == {i \in 0 .. n : written[i] = After(f[i], offset, length)}
  <2>1. 0 \in P
    BY <1>2, <1>4, <1>8
  <2>2. ASSUME NEW i \in 1 .. n, i - 1 \in P PROVE i \in P
    <3>1. i \in 0 .. n /\ written[i - 1] = After(f[i - 1], offset, length)
      BY <1>2, <2>2
    <3>2. written[i] = After(f[i], offset, length)
      BY <1>5, <1>8, <3>1
    <3> QED BY <3>1, <3>2
  <2> HIDE DEF P
  <2>3. n \in P
    <3>1. \A i \in 0 .. n : i \in P
      BY <1>2, <2>1, <2>2, UpTo
    <3> QED BY <1>2, <3>1
  <2> QED BY <2>3 DEF P
<1>10. written[n].out = Cut(f[n], offset, offset + length)
  BY <1>9 DEF After
<1> QED BY <1>1, <1>3, <1>10 DEF segs

-----------------------------------------------------------------------------
(* On whichever way a part is read, it is the part of the layer that was    *)
(* described: of the one file, of the files of the pack that it lies in, or of *)
(* the archive that is made once more.                                       *)
THEOREM RangeIsLayer ==
  ASSUME NEW l \in LayersOfSource, WellMade(l), NEW offset \in Nat, NEW length \in Nat,
         offset + length <= Len(l.data)
  PROVE  OpenPublishLayerRange(l, offset, length) = SubSeq(l.data, offset + 1, offset + length)
<1>1. /\ l.kind \in Archives /\ l.data \in Seq(STRING) /\ l.segments \in Seq(Seq(STRING))
      /\ Smaller(offset + length, Len(l.data)) = offset + length
  BY DEF LayersOfSource, Contents, Smaller
<1>2. CASE l.kind = "raw"
  <2>1. OpenPublishLayerRange(l, offset, length) = OpenRawObjectSourceLayerRange(l, offset, length)
    BY <1>2 DEF OpenPublishLayerRange
  <2>2. l.segments[1] = l.data
    BY <1>2 DEF WellMade
  <2> QED BY <2>1, <2>2 DEF OpenRawObjectSourceLayerRange
<1>3. CASE l.kind = "packed"
  <2>1. OpenPublishLayerRange(l, offset, length) = WriteRangedObjectSourceArchive(l, offset, length)
    BY <1>3 DEF OpenPublishLayerRange
  <2>2. WriteRangedObjectSourceArchive(l, offset, length)
          = Cut(FlattenSeq(l.segments), offset, offset + length)
    BY <1>1, WriteRangedIs
  <2>3. FlattenSeq(l.segments) = l.data
    BY <1>3 DEF WellMade, DescribeGeneratedArchiveLayer
  <2> QED BY <1>1, <2>1, <2>2, <2>3 DEF Cut
<1>4. CASE l.kind = "repacked"
  <2>1. OpenPublishLayerRange(l, offset, length) = OpenGeneratedArchiveLayerRange(l, offset, length)
    BY <1>4 DEF OpenPublishLayerRange
  <2>2. DescribeGeneratedArchiveLayer(l.segments) = l.data
    BY <1>4 DEF WellMade
  <2> QED BY <1>1, <2>1, <2>2 DEF OpenGeneratedArchiveLayerRange
<1> QED BY <1>1, <1>2, <1>3, <1>4 DEF Archives

(* So the next part that is sent is the next part of the layer.               *)
LEMMA NextPart ==
  ASSUME NEW l \in LayersOfSource, WellMade(l), NEW sent \in Nat, sent < Len(l.data)
  PROVE  OpenPublishLayerRange(l, sent, 1) = SubSeq(l.data, sent + 1, sent + 1)
<1>1. l.data \in Seq(STRING) /\ sent + 1 <= Len(l.data)
  BY DEF LayersOfSource, Contents
<1> QED BY <1>1, RangeIsLayer

-----------------------------------------------------------------------------
(* What is selected of a source, and the layers it makes.                     *)

WholeLayers == {l \in LayersOfSource : WellMade(l)}

(* A revision of a scenario is a list of files.                               *)
LEMMA RevisionTyped ==
  ASSUME NEW s \in Scenarios, NEW r \in DOMAIN s.revisions
  PROVE  /\ s.revisions[r] \in Seq(Files)
         /\ s.kind \in {"huggingface", "ollama", "file", "archive"} /\ s.requested \in Formats \cup {"auto"}
         /\ s.mirror \in BOOLEAN
<1> DEFINE T == Seq(Files)
<1>1. s.revisions \in Seq(T) /\ s.kind \in {"huggingface", "ollama", "file", "archive"}
      /\ s.requested \in Formats \cup {"auto"} /\ s.mirror \in BOOLEAN
  BY ScenarioAssumption
<1> HIDE DEF T
<1>2. s.revisions[r] \in T
  BY <1>1
<1> QED BY <1>1, <1>2 DEF T

(* The members of a list are of what it is a list of.                         *)
LEMMA RangeTyped ==
  ASSUME NEW S, NEW s \in Seq(S)
  PROVE  Range(s) \subseteq S
BY RangeOfSeq

(* A list of some members of another is typed as the other is.               *)
LEMMA SeqOfMembers ==
  ASSUME NEW S, NEW T, T \subseteq S, NEW s \in Seq(T)
  PROVE  s \in Seq(S) /\ Range(s) \subseteq T
BY SeqMonotonic, RangeTyped

(* The files of some kinds are files of the list, and of those kinds.         *)
LEMMA OfKindTyped ==
  ASSUME NEW files \in Seq(Files), NEW kinds
  PROVE  /\ OfKind(files, kinds) \in Seq(Files)
         /\ Range(OfKind(files, kinds)) \subseteq {f \in Range(files) : f.kind \in kinds}
<1> DEFINE chosen == {f \in Range(files) : f.kind \in kinds}
           T == Range(files) \cap chosen
<1>1. Among(files, chosen) \in Seq(T) /\ Among(files, chosen) \in Seq(Files)
  <2> HIDE DEF chosen
  <2> QED BY AmongTyped
<1>2. Range(Among(files, chosen)) \subseteq T
  <2> HIDE DEF T, chosen
  <2> QED BY <1>1, RangeTyped
<1> QED BY <1>1, <1>2 DEF OfKind

(* The files of a format are files of the revision.                           *)
LEMMA SelectRemoteTyped ==
  ASSUME NEW files \in Seq(Files), NEW format
  PROVE  /\ SelectRemoteFiles(format, files) \in Seq(Files)
         /\ Range(SelectRemoteFiles(format, files)) \subseteq Range(files)
<1>1. <<>> \in Seq(Files) /\ Range(<<>>) = {}
  BY DEF Range
<1> QED BY <1>1, OfKindTyped DEF SelectRemoteFiles

(* The format of a remote source is one whose rules there are.                *)
LEMMA FormatResolves ==
  ASSUME NEW files, NEW requested \in Formats \cup {"auto"}
  PROVE  ResolveRemoteFormat(files, requested) \in Resolvable
<1>1. DetectRemoteFormat(files) \in Resolvable
  BY DEF DetectRemoteFormat, Resolvable
<1> QED BY <1>1 DEF ResolveRemoteFormat, Resolvable

(* What is selected of a Hugging Face revision are files of it that have a    *)
(* size.                                                                      *)
LEMMA HuggingFaceTyped ==
  ASSUME NEW files \in Seq(Files), NEW requested \in Formats \cup {"auto"}
  PROVE  /\ HuggingFaceSelection(files, requested) \in Seq(Files)
         /\ \A f \in Range(HuggingFaceSelection(files, requested)) : f \in Range(files) /\ f.data # <<>>
<1> DEFINE format == ResolveRemoteFormat(files, requested)
           kept == SelectRemoteFiles(format, files)
<1>1. format \in Resolvable
  BY FormatResolves
<1>2. HuggingFaceSelection(files, requested) =
        IF kept # <<>> /\ FetchHuggingFaceProfileSummary(format, kept) /\ DescribeHuggingFaceRemoteFiles(kept)
        THEN kept ELSE <<>>
  <2> HIDE DEF format
  <2> QED BY <1>1 DEF HuggingFaceSelection, format
<1>3. kept \in Seq(Files) /\ Range(kept) \subseteq Range(files)
  BY SelectRemoteTyped
<1>4. <<>> \in Seq(Files) /\ Range(<<>>) = {}
  BY DEF Range
<1> HIDE DEF kept
<1>5. CASE HuggingFaceSelection(files, requested) = kept /\ DescribeHuggingFaceRemoteFiles(kept)
  BY <1>3, <1>5 DEF DescribeHuggingFaceRemoteFiles
<1>6. CASE HuggingFaceSelection(files, requested) = <<>>
  BY <1>4, <1>6
<1> QED BY <1>2, <1>5, <1>6

(* Of an Ollama model it is one file at most.                                 *)
LEMMA OllamaTyped ==
  ASSUME NEW files \in Seq(Files)
  PROVE  /\ FetchOllamaModel(files) \in Seq(Files) /\ Len(FetchOllamaModel(files)) <= 1
         /\ \A f \in Range(FetchOllamaModel(files)) : f \in Range(files) /\ f.data # <<>>
<1> DEFINE models == FetchOllamaModel(files)
           found == OfKind(files, ModelLayers)
<1>1. found \in Seq(Files) /\ Range(found) \subseteq Range(files)
  BY OfKindTyped
<1>2. models = <<>> \/ (models = found /\ Len(found) = 1 /\ found[1].data # <<>>)
  <2> HIDE DEF found
  <2> QED BY DEF FetchOllamaModel, SelectOllamaModelLayer, ValidateOllamaDescriptor, found
<1> HIDE DEF models, found
<1> DEFINE Good == models \in Seq(Files) /\ Len(models) <= 1 /\ \A f \in Range(models) : f \in Range(files) /\ f.data # <<>>
<1>3. ASSUME models = <<>> PROVE Good
  <2>1. Range(<<>>) = {} /\ <<>> \in Seq(Files) /\ Len(<<>>) = 0
    BY DEF Range
  <2> QED BY <1>3, <2>1
<1>4. ASSUME models = found, Len(found) = 1, found[1].data # <<>> PROVE Good
  <2>1. ASSUME NEW f \in Range(found) PROVE f = found[1]
    <3>1. DOMAIN found = {1}
      BY <1>1, <1>4
    <3> QED BY <3>1 DEF Range
  <2> QED BY <1>1, <1>4, <2>1
<1> QED BY <1>2, <1>3, <1>4 DEF models

(* An archive's entries are files below another root as well.                 *)
LEMMA NormalizedTyped ==
  ASSUME NEW entries \in Seq(Files)
  PROVE  Normalized(entries) \in Seq(Files)
<1> DEFINE prefix == DeriveArchiveRootPrefix(entries)
           normalized == [i \in DOMAIN entries |-> NormalizedArchiveFile(entries[i], prefix)]
<1>1. prefix \in Roots
  <2>1. \A entry \in Range(entries) : entry.root \in Roots
    <3>1. Range(entries) \subseteq Files
      BY RangeTyped
    <3> QED BY <3>1 DEF Files
  <2> DEFINE roots == {entry.root : entry \in Range(entries)}
  <2>2. roots \subseteq Roots
    BY <2>1
  <2>3. prefix = IF \E root \in roots : roots = {root} THEN CHOOSE root \in roots : TRUE ELSE NoRoot
    BY DEF DeriveArchiveRootPrefix
  <2> HIDE DEF roots, prefix
  <2>4. CASE \E root \in roots : roots = {root}
    <3>1. (CHOOSE root \in roots : TRUE) \in roots
      BY <2>4
    <3> QED BY <2>2, <2>3, <2>4, <3>1
  <2>5. CASE ~\E root \in roots : roots = {root}
    BY <2>3, <2>5 DEF Roots
  <2> QED BY <2>4, <2>5
<1>2. Normalized(entries) = normalized
  <2> HIDE DEF prefix
  <2> QED BY <1>1 DEF Normalized, prefix
<1>3. ASSUME NEW entry \in Files PROVE NormalizedArchiveFile(entry, prefix) \in Files
  <2> HIDE DEF prefix
  <2> DEFINE K == Kinds \cup {"link"} \cup OllamaKinds
  <2>1. Below(entry.kind) \in Kinds \cup {entry.kind}
    BY DEF Below, Kinds
  <2>2. entry \in [root : Roots, path : STRING, kind : K, data : Contents]
    BY DEF Files
  <2>3. "hidden" \in K /\ Below(entry.kind) \in K
    <3>1. entry.kind \in K
      BY <2>2
    <3> QED BY <2>1, <3>1 DEF Kinds
  <2> HIDE DEF K
  <2>4. NormalizedArchiveFile(entry, prefix) \in
          {[entry EXCEPT !.root = NoRoot]} \cup {[entry EXCEPT !.kind = k] : k \in {entry.kind, "hidden", Below(entry.kind)}}
    BY DEF NormalizedArchiveFile
  <2>5. ASSUME NEW k \in {entry.kind, "hidden", Below(entry.kind)} PROVE [entry EXCEPT !.kind = k] \in
                        [root : Roots, path : STRING, kind : K, data : Contents]
    BY <2>2, <2>3
  <2>6. [entry EXCEPT !.root = NoRoot] \in [root : Roots, path : STRING, kind : K, data : Contents]
    BY <2>2 DEF Roots
  <2> QED BY <2>4, <2>5, <2>6 DEF Files, K
<1>4. \A i \in DOMAIN entries : entries[i] \in Files
  OBVIOUS
<1> HIDE DEF prefix
<1>5. DOMAIN entries = 1 .. Len(entries) /\ Len(entries) \in Nat
  OBVIOUS
<1>6. normalized \in Seq(Files)
  BY <1>3, <1>4, <1>5
<1> QED BY <1>2, <1>6

(* What is selected of an archive are files.                                  *)
LEMMA InspectedTyped ==
  ASSUME NEW files \in Seq(Files), NEW requested \in Formats \cup {"auto"}
  PROVE  PrepareArchiveInspection(files, requested) \in Seq(Files)
<1> DEFINE format == ResolveRemoteFormat(files, requested)
           kept == SelectRemoteFiles(format, files)
<1>1. format \in Resolvable
  BY FormatResolves
<1>2. PrepareArchiveInspection(files, requested) =
        IF kept # <<>> /\ SummarizeArchive(format, kept) THEN kept ELSE <<>>
  <2> HIDE DEF format
  <2> QED BY <1>1 DEF PrepareArchiveInspection, format
<1>3. kept \in Seq(Files) /\ <<>> \in Seq(Files)
  BY SelectRemoteTyped
<1> HIDE DEF kept
<1> QED BY <1>2, <1>3

(* What is selected of a source are files, of a remote one files it has, none  *)
(* of them empty.                                                            *)
LEMMA SelectedTyped ==
  ASSUME NEW s \in Scenarios, NEW r \in DOMAIN s.revisions
  PROVE  /\ SelectedFiles(s, r) \in Seq(Files)
         /\ Remote(s) => \A f \in Range(SelectedFiles(s, r)) : f \in Range(s.revisions[r]) /\ f.data # <<>>
         /\ s.kind = "ollama" => Len(SelectedFiles(s, r)) <= 1
<1> DEFINE files == s.revisions[r]
<1>1. /\ files \in Seq(Files) /\ s.kind \in {"huggingface", "ollama", "file", "archive"}
      /\ s.requested \in Formats \cup {"auto"}
  BY RevisionTyped
<1> HIDE DEF files
<1>2. CASE s.kind = "huggingface"
  <2>1. SelectedFiles(s, r) = HuggingFaceSelection(files, s.requested)
    BY <1>2 DEF SelectedFiles, files
  <2> QED BY <1>1, <1>2, <2>1, HuggingFaceTyped DEF files
<1>3. CASE s.kind = "ollama"
  <2>1. SelectedFiles(s, r) = FetchOllamaModel(files)
    BY <1>3 DEF SelectedFiles, files
  <2> QED BY <1>1, <1>3, <2>1, OllamaTyped DEF files
<1>4. CASE s.kind = "archive"
  <2>1. SelectedFiles(s, r) = InspectModelArchive(files, s.requested)
    BY <1>4 DEF SelectedFiles, files
  <2>2. Normalized(files) \in Seq(Files) /\ <<>> \in Seq(Files)
    BY <1>1, NormalizedTyped
  <2>3. PrepareArchiveInspection(Normalized(files), s.requested) \in Seq(Files)
    BY <1>1, <2>2, InspectedTyped
  <2> QED BY <1>4, <2>1, <2>2, <2>3 DEF InspectModelArchive, Remote
<1>5. CASE s.kind = "file"
  <2>1. SelectedFiles(s, r) = ResolveDirectUploadStage(files, s.requested)
    BY <1>5 DEF SelectedFiles, files
  <2>2. <<>> \in Seq(Files)
    OBVIOUS
  <2> QED BY <1>1, <1>5, <2>1, <2>2 DEF ResolveDirectUploadStage, Remote
<1> QED BY <1>1, <1>2, <1>3, <1>4, <1>5

-----------------------------------------------------------------------------
(* Layers. *)

(* The data of files.                                                         *)
LEMMA DataTyped ==
  ASSUME NEW files \in Seq(Files)
  PROVE  Data(files) \in Seq(Contents)
<1>1. DOMAIN files = 1 .. Len(files) /\ Len(files) \in Nat
  OBVIOUS
<1>2. ASSUME NEW i \in 1 .. Len(files) PROVE files[i].data \in Contents
  <2>1. files[i] \in Files
    OBVIOUS
  <2> QED BY <2>1 DEF Files
<1> QED BY <1>1, <1>2 DEF Data

(* An archive is described as it is written.                                  *)
LEMMA ArchiveTyped ==
  ASSUME NEW kind \in {"packed", "repacked"}, NEW datas \in Seq(Contents)
  PROVE  Archive(kind, datas) \in WholeLayers
<1>1. FlattenSeq(datas) \in Contents
  BY FlattenTyped DEF Contents
<1> DEFINE l == Archive(kind, datas)
<1>2. l = [kind |-> kind, path |-> MaterializedModelPathName, data |-> FlattenSeq(datas), segments |-> datas]
  BY DEF Archive, DescribeGeneratedArchiveLayer
<1> HIDE DEF l
<1>3. l \in LayersOfSource
  BY <1>1, <1>2 DEF LayersOfSource, LayerPaths, Archives
<1>4. WellMade(l)
  BY <1>2 DEF WellMade, DescribeGeneratedArchiveLayer
<1> QED BY <1>3, <1>4 DEF WholeLayers, l

(* A layer of one file is its data.                                           *)
LEMMA RawTyped ==
  ASSUME NEW path \in STRING, NEW data \in Contents
  PROVE  RawLayer(path, data) \in WholeLayers
<1>1. <<data>> \in Seq(Contents)
  OBVIOUS
<1> QED BY <1>1 DEF RawLayer, WholeLayers, WellMade, LayersOfSource, LayerPaths, Archives

(* And so are those of several.                                               *)
LEMMA RawLayersTyped ==
  ASSUME NEW files \in Seq(Files)
  PROVE  RawLayers(files) \in Seq(WholeLayers)
<1>1. DOMAIN files = 1 .. Len(files) /\ Len(files) \in Nat
  OBVIOUS
<1>2. ASSUME NEW i \in 1 .. Len(files) PROVE RawLayer(files[i].path, files[i].data) \in WholeLayers
  <2>1. files[i] \in Files
    OBVIOUS
  <2>2. files[i].path \in STRING /\ files[i].data \in Contents
    BY <2>1 DEF Files
  <2> QED BY <2>2, RawTyped
<1> QED BY <1>1, <1>2 DEF RawLayers

(* Every layer of every source is whole: its digest is of the bytes that are   *)
(* sent.                                                                     *)
LEMMA BuiltWhole ==
  ASSUME NEW files \in Seq(Files)
  PROVE  BuildObjectSourcePublishLayers(files) \in Seq(WholeLayers)
<1> DEFINE bundled == Partition(files)
           packed == Among(files, bundled)
           single == Among(files, Range(files) \ bundled)
           first == IF packed = <<>> THEN <<>> ELSE <<PackedLayer(Data(packed))>>
<1>1. packed \in Seq(Files) /\ single \in Seq(Files)
  <2> HIDE DEF bundled
  <2> QED BY AmongTyped
<1>2. first \in Seq(WholeLayers)
  <2> HIDE DEF packed
  <2>1. PackedLayer(Data(packed)) \in WholeLayers
    BY <1>1, DataTyped, ArchiveTyped DEF PackedLayer
  <2> QED BY <2>1
<1>3. RawLayers(single) \in Seq(WholeLayers) /\ RawLayers(files) \in Seq(WholeLayers)
  <2> HIDE DEF single
  <2> QED BY <1>1, RawLayersTyped
<1>4. first \o RawLayers(single) \in Seq(WholeLayers)
  <2> HIDE DEF first, single
  <2> QED BY <1>2, <1>3, ConcatProperties
<1>5. BuildObjectSourcePublishLayers(files) = IF Len(files) = 1 THEN RawLayers(files) ELSE first \o RawLayers(single)
  BY DEF BuildObjectSourcePublishLayers
<1> HIDE DEF first, single
<1> QED BY <1>3, <1>4, <1>5

(* The layers of whatever is selected, whatever the source.                   *)
LEMMA LayersWhole ==
  ASSUME NEW s \in Scenarios, NEW r \in DOMAIN s.revisions, NEW files \in Seq(Files)
  PROVE  LayersFor(s, r, files) \in Seq(WholeLayers)
<1>1. BuildObjectSourcePublishLayers(files) \in Seq(WholeLayers)
  BY BuiltWhole
<1>2. PublishUploadArchive(s.revisions[r], files) \in Seq(WholeLayers)
  <2> DEFINE written == WriteLayerArchiveFromArchiveSource(s.revisions[r], files)
  <2>1. written \in Seq(Files)
    <3>1. Normalized(s.revisions[r]) \in Seq(Files)
      BY RevisionTyped, NormalizedTyped
    <3> QED BY <3>1, AmongTyped DEF WriteLayerArchiveFromArchiveSource
  <2> HIDE DEF written
  <2>2. RepackedLayer(Data(written)) \in WholeLayers
    BY <2>1, DataTyped, ArchiveTyped DEF RepackedLayer
  <2> QED BY <2>2 DEF PublishUploadArchive, written
<1> QED BY <1>1, <1>2 DEF LayersFor

(* Layers that are whole are layers.                                          *)
LEMMA WholeAreLayers ==
  ASSUME NEW layers \in Seq(WholeLayers)
  PROVE  layers \in Seq(LayersOfSource) /\ \A l \in DOMAIN layers : layers[l] \in WholeLayers /\ layers[l] \in LayersOfSource
<1>1. WholeLayers \subseteq LayersOfSource
  BY DEF WholeLayers
<1>2. layers \in Seq(LayersOfSource)
  BY <1>1, SeqMonotonic
<1>3. \A l \in DOMAIN layers : layers[l] \in WholeLayers
  OBVIOUS
<1> QED BY <1>1, <1>2, <1>3

-----------------------------------------------------------------------------
(* What is fetched.                                                           *)

(* Once there are layers the worker is with them or fails.                    *)
LEMMA UploadPcs ==
  ASSUME UploadStep \/ Interruption
  PROVE  pc' = pc \/ pc' \in Loaded \cup Failing
<1> USE DEF Loaded, AtLayer, AtEnd, Failing, Ended
<1>1. ASSUME LoadCheckpoint PROVE pc' = pc \/ pc' \in Loaded \cup Failing
  BY <1>1 DEF LoadCheckpoint
<1>2. ASSUME EnsureProgressPlan PROVE pc' = pc \/ pc' \in Loaded \cup Failing
  BY <1>2 DEF EnsureProgressPlan, Save
<1>3. ASSUME UploadPublishLayer PROVE pc' = pc \/ pc' \in Loaded \cup Failing
  BY <1>3 DEF UploadPublishLayer
<1>4. ASSUME ResumeSession PROVE pc' = pc \/ pc' \in Loaded \cup Failing
  BY <1>4 DEF ResumeSession, Save, Retried
<1>5. ASSUME StartSession PROVE pc' = pc \/ pc' \in Loaded \cup Failing
  BY <1>5 DEF StartSession, Save, Retried
<1>6. ASSUME UploadPart PROVE pc' = pc \/ pc' \in Loaded \cup Failing
  BY <1>6 DEF UploadPart
<1>7. ASSUME RecoverRawDirectBlobPart PROVE pc' = pc \/ pc' \in Loaded \cup Failing
  BY <1>7 DEF RecoverRawDirectBlobPart, Recovered, Retry
<1>8. ASSUME RecoverDirectBlobUpload PROVE pc' = pc \/ pc' \in Loaded \cup Failing
  BY <1>8 DEF RecoverDirectBlobUpload, Recovered, Retry
<1>9. ASSUME RecoveryFails PROVE pc' = pc \/ pc' \in Loaded \cup Failing
  BY <1>9 DEF RecoveryFails
<1>10. ASSUME SaveRunningLayer PROVE pc' = pc \/ pc' \in Loaded \cup Failing
  BY <1>10 DEF SaveRunningLayer, Save
<1>11. ASSUME MarkSealing PROVE pc' = pc \/ pc' \in Loaded \cup Failing
  BY <1>11 DEF MarkSealing, Save
<1>12. ASSUME CompleteDirectUpload PROVE pc' = pc \/ pc' \in Loaded \cup Failing
  BY <1>12 DEF CompleteDirectUpload, Retried
<1>13. ASSUME MarkLayerCompleted PROVE pc' = pc \/ pc' \in Loaded \cup Failing
  BY <1>13 DEF MarkLayerCompleted, Save
<1>14. ASSUME UploadPublishConfig PROVE pc' = pc \/ pc' \in Loaded \cup Failing
  BY <1>14 DEF UploadPublishConfig
<1>15. ASSUME PublishManifest PROVE pc' = pc \/ pc' \in Loaded \cup Failing
  BY <1>15 DEF PublishManifest
<1>16. ASSUME InspectPublishedModelPack PROVE pc' = pc \/ pc' \in Loaded \cup Failing
  BY <1>16 DEF InspectPublishedModelPack
<1>17. ASSUME PersistDirectUploadTerminalState PROVE pc' = pc \/ pc' \in Loaded \cup Failing
  BY <1>17 DEF PersistDirectUploadTerminalState, Exit
<1>18. ASSUME AbortSession PROVE pc' = pc \/ pc' \in Loaded \cup Failing
  BY <1>18 DEF AbortSession
<1>19. ASSUME Interruption PROVE pc' = pc \/ pc' \in Loaded \cup Failing
  BY <1>19 DEF Interruption, Terminate, Kill, Exit, SessionExpires
<1> QED
  BY <1>1, <1>2, <1>3, <1>4, <1>5, <1>6, <1>7, <1>8, <1>9, <1>10, <1>11, <1>12, <1>13, <1>14, <1>15, <1>16, <1>17,
      <1>18, <1>19 DEF UploadStep

(* There is a snapshot for every revision.                                    *)
LEMMA LocatorIn ==
  ASSUME FetchInv
  PROVE  Locator(scenario, resolved) \in DOMAIN mirror
BY DEF FetchInv

(* The entry of the file that is copied.                                     *)
LEMMA EntryTyped ==
  ASSUME FetchInv, pc \in AtMirror, file \in DOMAIN selected
  PROVE  /\ Locator(scenario, resolved) \in DOMAIN mirror
         /\ selected[file].path \in DOMAIN Snapshot
         /\ Entry \in Entries
         /\ selected[file] \in Files /\ selected[file].data \in Contents /\ selected[file].data # <<>>
<1>1. /\ scenario \in Scenarios /\ resolved \in DOMAIN scenario.revisions
      /\ selected \in Seq(Files) /\ Remote(scenario) /\ selected = SelectedFiles(scenario, resolved)
      /\ Locator(scenario, resolved) \in DOMAIN mirror
      /\ \A l \in DOMAIN mirror : DOMAIN mirror[l] = Paths(scenario, l) /\ \A p \in DOMAIN mirror[l] : mirror[l][p] \in Entries
  BY LocatorIn DEF FetchInv
<1>2. selected[file] \in Range(selected)
  BY DEF Range
<1>3. selected[file] \in Range(scenario.revisions[resolved]) /\ selected[file].data # <<>>
  BY <1>1, <1>2, SelectedTyped
<1>4. selected[file] \in Files
  BY <1>1
<1>5. selected[file].path \in Paths(scenario, Locator(scenario, resolved))
  BY <1>1, <1>3 DEF Paths, Located
<1> QED BY <1>1, <1>3, <1>4, <1>5 DEF Files, Snapshot, Entry

(* What becomes of the mirror when an entry is replaced.                     *)
MirrorTyped(m) ==
  /\ DOMAIN m = {Locator(scenario, r) : r \in DOMAIN scenario.revisions}
  /\ \A l \in DOMAIN m : DOMAIN m[l] = Paths(scenario, l) /\ \A p \in DOMAIN m[l] : m[l][p] \in Entries

(* An entry that is written is one of those there are.                        *)
LEMMA UpdateTyped ==
  ASSUME FetchInv, pc \in AtMirror, file \in DOMAIN selected, NEW e \in Entries, Update(e)
  PROVE  MirrorTyped(mirror') /\ mirror'[Locator(scenario, resolved)][selected[file].path] = e
<1> DEFINE loc == Locator(scenario, resolved)
           path == selected[file].path
<1>1. loc \in DOMAIN mirror /\ path \in DOMAIN mirror[loc]
  BY EntryTyped DEF Snapshot
<1>2. mirror' = [mirror EXCEPT ![loc][path] = e]
  BY DEF Update
<1>3. MirrorTyped(mirror)
  BY DEF FetchInv, MirrorTyped
<1> HIDE DEF loc, path
<1>4. mirror'[loc][path] = e /\ DOMAIN mirror' = DOMAIN mirror
  BY <1>1, <1>2
<1>5. ASSUME NEW l \in DOMAIN mirror
      PROVE  DOMAIN mirror'[l] = DOMAIN mirror[l] /\ \A p \in DOMAIN mirror[l] : mirror'[l][p] \in Entries
  BY <1>1, <1>2, <1>3 DEF MirrorTyped
<1> QED BY <1>3, <1>4, <1>5 DEF MirrorTyped, loc, path

(* What is fetched at first, which is nothing.                                *)
LEMMA FetchInit == Init => FetchInv
<1> SUFFICES ASSUME Init PROVE FetchInv
  OBVIOUS
<1>1. scenario \in Scenarios /\ resolved = 1 /\ selected = <<>> /\ file = 1 /\ staged = ~Remote(scenario)
      /\ reserved = 0 /\ pc = "fetch" /\ source = <<>>
  BY DEF Init
<1>2. 1 \in DOMAIN scenario.revisions
  <2> DEFINE T == Seq(Files)
  <2>1. scenario.revisions \in Seq(T) /\ scenario.revisions # <<>>
    BY <1>1, ScenarioAssumption
  <2> HIDE DEF T
  <2> QED BY <2>1
<1>3. MirrorTyped(mirror)
  <2>1. mirror = [l \in {Locator(scenario, r) : r \in DOMAIN scenario.revisions} |-> [p \in Paths(scenario, l) |-> NoFile]]
    BY DEF Init
  <2>2. NoFile \in Entries
    BY DEF NoFile, Entries, Contents
  <2> QED BY <2>1, <2>2 DEF MirrorTyped
<1>4. selected \in Seq(Files) /\ file \in 1 .. Len(selected) + 1 /\ source \in Seq(LayersOfSource) /\ DOMAIN source = {}
  BY <1>1
<1>5. staged \in BOOLEAN
  BY <1>1 DEF Remote
<1> QED BY <1>1, <1>2, <1>3, <1>4, <1>5 DEF FetchInv, MirrorTyped, Fetching, AtMirror, AtFile

(* The size of files is a number.                                             *)
LEMMA TotalNat ==
  ASSUME NEW files \in Seq(Files)
  PROVE  TotalSize(files) \in Nat
<1>1. \A f \in Files : f.data \in Contents
  BY DEF Files
<1> QED BY <1>1, TotalSizeTyped

(* The layers of what was selected are whole.                                 *)
LEMMA StartedWhole ==
  ASSUME FetchInv, NEW files \in Seq(Files), files # <<>>
  PROVE  /\ LayersFor(scenario, resolved, files) \in Seq(LayersOfSource)
         /\ \A l \in DOMAIN LayersFor(scenario, resolved, files) : WellMade(LayersFor(scenario, resolved, files)[l])
<1>1. LayersFor(scenario, resolved, files) \in Seq(WholeLayers)
  BY LayersWhole DEF FetchInv
<1> HIDE DEF LayersFor
<1> QED BY <1>1, WholeAreLayers DEF WholeLayers

(* An entry of the mirror with other parts or another object.                 *)
LEMMA EntryWith ==
  ASSUME NEW e \in Entries, NEW u \in {"none", "open", "gone"}, NEW c \in Contents
  PROVE  /\ [e EXCEPT !.upload = u, !.parts = <<>>] \in Entries
         /\ [e EXCEPT !.object = c] \in Entries
         /\ [e EXCEPT !.parts = c] \in Entries
<1>1. <<>> \in Contents
  BY DEF Contents
<1> QED BY <1>1 DEF Entries

(* What is fetched stays well formed with every step.                         *)
LEMMA FetchNext == FetchInv /\ [Next]_vars => FetchInv'
<1> SUFFICES ASSUME FetchInv, [Next]_vars PROVE FetchInv'
  OBVIOUS
<1> USE DEF uploadVars, fetching, upload, registry, Fetching, AtMirror, AtFile, Loaded, AtLayer, AtEnd, Failing, Ended
<1>0. /\ scenario \in Scenarios /\ resolved \in DOMAIN scenario.revisions
      /\ selected \in Seq(Files) /\ file \in 1 .. Len(selected) + 1
      /\ staged \in BOOLEAN /\ reserved \in Nat
      /\ source \in Seq(LayersOfSource) /\ \A l \in DOMAIN source : WellMade(source[l])
      /\ MirrorTyped(mirror)
  BY DEF FetchInv, MirrorTyped
(* What a step leaves alone.                                                 *)
<1> DEFINE Same == scenario' = scenario /\ resolved' = resolved /\ selected' = selected /\ reserved' = reserved
           SourceTyped == source' \in Seq(LayersOfSource) /\ \A l \in DOMAIN source' : WellMade(source'[l])
<1>1. ASSUME ResolveSource PROVE FetchInv'
  <2>1. /\ scenario' = scenario /\ file' = 1 /\ mirror' = mirror /\ staged' = staged /\ reserved' = reserved
        /\ source' = source /\ pc' \in {"fail", "reserve"} /\ Remote(scenario)
    BY <1>1 DEF ResolveSource
  <2>2. resolved' \in DOMAIN scenario.revisions
    <3> DEFINE T == Seq(Files)
    <3>1. scenario.revisions \in Seq(T)
      BY <1>0, ScenarioAssumption
    <3> HIDE DEF T
    <3>2. DOMAIN scenario.revisions = 1 .. Len(scenario.revisions) /\ Len(scenario.revisions) \in Nat
      BY <3>1
    <3>3. resolved' = resolved \/ resolved' \in resolved .. Len(scenario.revisions)
      BY <1>1 DEF ResolveSource
    <3> QED BY <1>0, <3>2, <3>3
  <2>3. \/ selected' = selected /\ pc' = "fail"
        \/ selected' = SelectedFiles(scenario, resolved')
    BY <1>1 DEF ResolveSource
  <2>4. selected' \in Seq(Files)
    BY <1>0, <2>2, <2>3, SelectedTyped
  <2>5. file' \in 1 .. Len(selected') + 1
    BY <2>1, <2>4
  <2> QED BY <1>0, <2>1, <2>2, <2>3, <2>4, <2>5 DEF FetchInv, MirrorTyped, Remote
<1>2. ASSUME InspectUpload PROVE FetchInv'
  <2>1. /\ scenario' = scenario /\ file' = file /\ mirror' = mirror /\ staged' = staged /\ reserved' = reserved
        /\ resolved' = resolved /\ pc' \in {"fail", "load"}
    BY <1>2 DEF InspectUpload, StartUpload
  <2>2. SelectedFiles(scenario, resolved) \in Seq(Files)
    BY <1>0, SelectedTyped
  <2>3. selected' \in Seq(Files)
    <3>1. selected' \in {SelectedFiles(scenario, resolved), <<>>, selected}
      BY <1>2 DEF InspectUpload
    <3>2. <<>> \in Seq(Files)
      OBVIOUS
    <3> QED BY <1>0, <2>2, <3>1, <3>2
  <2>4. source' = source \/ (selected' # <<>> /\ source' = LayersFor(scenario, resolved, selected'))
    BY <1>2 DEF InspectUpload, StartUpload
  <2>5. SourceTyped
    BY <1>0, <2>3, <2>4, StartedWhole
  <2>6. file = 1
    BY <1>2 DEF InspectUpload, FetchInv
  <2>7. file' \in 1 .. Len(selected') + 1
    BY <2>1, <2>3, <2>6
  <2> HIDE DEF SourceTyped
  <2> QED BY <1>0, <2>1, <2>3, <2>5, <2>7 DEF FetchInv, MirrorTyped, SourceTyped
<1>3. ASSUME ReserveRemoteStorage PROVE FetchInv'
  <2>1. /\ scenario' = scenario /\ resolved' = resolved /\ selected' = selected /\ file' = file
        /\ mirror' = mirror /\ staged' = staged /\ pc = "reserve" /\ pc' \in {"mirror", "fail", "load"}
        /\ pc' = "mirror" => scenario.mirror
    BY <1>3 DEF ReserveRemoteStorage, StartUpload
  <2>2. TotalSize(selected) \in Nat
    BY <1>0, TotalNat
  <2>3. ReservationBytes \in Nat
    BY <2>2 DEF ReservationBytes, HuggingFaceStorageReservationBytes, ReserveOllamaStorage
  <2>4. reserved' \in Nat
    BY <1>0, <1>3, <2>3 DEF ReserveRemoteStorage
  <2>5. source' = source \/ (selected # <<>> /\ source' = LayersFor(scenario, resolved, selected))
    BY <1>3 DEF ReserveRemoteStorage, StartUpload
  <2>6. SourceTyped
    BY <1>0, <2>5, StartedWhole
  <2>7. Remote(scenario) /\ selected = SelectedFiles(scenario, resolved)
    BY <2>1 DEF FetchInv
  <2> HIDE DEF SourceTyped
  <2> QED BY <1>0, <2>1, <2>4, <2>6, <2>7 DEF FetchInv, MirrorTyped, SourceTyped
<1>4. ASSUME PrepareSourceMirror PROVE FetchInv'
  BY <1>0, <1>4 DEF PrepareSourceMirror, unfetched, FetchInv, MirrorTyped
<1> DEFINE SameButMirror == /\ scenario' = scenario /\ resolved' = resolved /\ selected' = selected
                            /\ staged' = staged /\ reserved' = reserved /\ source' = source
           Copying == Remote(scenario) /\ selected = SelectedFiles(scenario, resolved) /\ scenario.mirror
<1>5. ASSUME StatFile PROVE FetchInv'
  <2>1. SameButMirror /\ pc = "file" /\ file <= Len(selected) /\ pc' \in {"file", "upload", "mirrorFail"}
        /\ file' \in {file, file + 1}
    BY <1>5 DEF StatFile, unfetched
  <2>2. file \in DOMAIN selected /\ file' \in 1 .. Len(selected) + 1 /\ Copying
    BY <1>0, <2>1 DEF FetchInv
  <2>3. Copied \in Entries
    <3>1. Entry \in Entries
      BY <2>1, <2>2, EntryTyped
    <3>2. <<>> \in Contents
      BY DEF Contents
    <3> QED BY <3>1, <3>2, EntryWith DEF Copied
  <2>4. mirror' = mirror \/ Update(Copied)
    BY <1>5 DEF StatFile
  <2>5. MirrorTyped(mirror')
    BY <1>0, <2>1, <2>2, <2>3, <2>4, UpdateTyped
  <2>6. pc' = "upload" => file' = file
    BY <1>5 DEF StatFile
  <2> QED BY <1>0, <2>1, <2>2, <2>5, <2>6 DEF FetchInv, MirrorTyped
<1>6. ASSUME EnsureUpload PROVE FetchInv'
  <2> DEFINE started == [Entry EXCEPT !.upload = "open", !.parts = <<>>]
  <2>1. SameButMirror /\ pc = "upload" /\ file' = file /\ pc' \in {"download", "mirrorFail"}
    BY <1>6 DEF EnsureUpload, unfetched
  <2>2. file \in DOMAIN selected /\ Copying
    BY <1>0, <2>1 DEF FetchInv
  <2>3. started \in Entries
    <3>1. Entry \in Entries
      BY <2>1, <2>2, EntryTyped
    <3>2. <<>> \in Contents
      BY DEF Contents
    <3> QED BY <3>1, <3>2, EntryWith
  <2>4. mirror' = mirror \/ Update(started)
    BY <1>6 DEF EnsureUpload
  <2>5. MirrorTyped(mirror')
    <3> HIDE DEF started
    <3> QED BY <1>0, <2>1, <2>2, <2>3, <2>4, UpdateTyped
  <2>6. pc' = "download" => Len(Entry'.parts) < Len(selected[file].data)
    <3> SUFFICES ASSUME pc' = "download" PROVE Len(Entry'.parts) < Len(selected[file].data)
      OBVIOUS
    <3>1. CASE Update(started)
      <4>1. mirror'[Locator(scenario, resolved)][selected[file].path] = started
        <5> HIDE DEF started
        <5> QED BY <2>1, <2>2, <2>3, <3>1, UpdateTyped
      <4>2. Entry' = started
        BY <2>1, <4>1 DEF Entry, Snapshot
      <4>3. Len(selected[file].data) > 0
        <5>1. selected[file].data \in Contents /\ selected[file].data # <<>>
          BY <2>1, <2>2, EntryTyped
        <5> QED BY <5>1, EmptySeq DEF Contents
      <4>4. started.parts = <<>> /\ Len(<<>>) = 0
        <5>1. Entry \in Entries
          BY <2>1, <2>2, EntryTyped
        <5> QED BY <5>1 DEF Entries
      <4> QED BY <4>2, <4>3, <4>4
    <3>2. CASE mirror' = mirror /\ Len(Entry.parts) < Len(selected[file].data)
      BY <2>1, <3>2 DEF Entry, Snapshot
    <3> QED BY <1>6, <3>1, <3>2 DEF EnsureUpload
  <2> QED BY <1>0, <2>1, <2>2, <2>5, <2>6 DEF FetchInv, MirrorTyped
<1>7. ASSUME DownloadPart PROVE FetchInv'
  <2> DEFINE n == Len(Entry.parts) + 1
             more == [Entry EXCEPT !.parts = Append(@, selected[file].data[n])]
  <2>1. SameButMirror /\ pc = "download" /\ file' = file /\ pc' \in {"download", "assemble", "mirrorFail"}
    BY <1>7 DEF DownloadPart, unfetched
  <2>2. file \in DOMAIN selected /\ Copying /\ Len(Entry.parts) < Len(selected[file].data)
    BY <1>0, <2>1 DEF FetchInv
  <2>3. Entry \in Entries /\ selected[file].data \in Seq(STRING)
    BY <2>1, <2>2, EntryTyped DEF Contents
  <2>4. selected[file].data[n] \in STRING /\ n \in Nat /\ n <= Len(selected[file].data)
    BY <2>2, <2>3 DEF Entries, Contents
  <2>5. more \in Entries /\ Len(more.parts) = n
    <3>1. Append(Entry.parts, selected[file].data[n]) \in Seq(STRING) /\ Len(Append(Entry.parts, selected[file].data[n])) = n
      <4>1. Entry.parts \in Seq(STRING)
        BY <2>3 DEF Entries, Contents
      <4> QED BY <2>4, <4>1, AppendProperties
    <3> HIDE DEF n
    <3> QED BY <2>3, <3>1 DEF Entries, Contents
  <2>6. mirror' = mirror \/ Update(more)
    BY <1>7 DEF DownloadPart
  <2>7. MirrorTyped(mirror')
    <3> HIDE DEF more
    <3> QED BY <1>0, <2>1, <2>2, <2>5, <2>6, UpdateTyped
  <2>8. pc' = "download" => Len(Entry'.parts) < Len(selected[file].data)
    <3> SUFFICES ASSUME pc' = "download" PROVE Len(Entry'.parts) < Len(selected[file].data)
      OBVIOUS
    <3>1. Update(more) /\ n # Len(selected[file].data)
      BY <1>7 DEF DownloadPart
    <3>2. mirror'[Locator(scenario, resolved)][selected[file].path] = more
      <4> HIDE DEF more
      <4> QED BY <2>1, <2>2, <2>5, <3>1, UpdateTyped
    <3>3. Entry' = more
      BY <2>1, <3>2 DEF Entry, Snapshot
    <3> HIDE DEF more, n
    <3> QED BY <2>3, <2>4, <2>5, <3>1, <3>3
  <2> QED BY <1>0, <2>1, <2>2, <2>7, <2>8 DEF FetchInv, MirrorTyped
<1>8. ASSUME CompleteMultipartUpload PROVE FetchInv'
  <2> DEFINE assembled == [Copied EXCEPT !.object = Entry.parts]
  <2>1. SameButMirror /\ pc = "assemble" /\ pc' \in {"file", "mirrorFail"} /\ file' \in {file, file + 1}
    BY <1>8 DEF CompleteMultipartUpload, unfetched
  <2>2. file \in DOMAIN selected /\ file' \in 1 .. Len(selected) + 1 /\ Copying
    BY <1>0, <2>1 DEF FetchInv
  <2>3. assembled \in Entries
    <3>1. Entry \in Entries
      BY <2>1, <2>2, EntryTyped
    <3>2. Copied \in Entries
      <4>1. <<>> \in Contents
        BY DEF Contents
      <4> QED BY <3>1, <4>1, EntryWith DEF Copied
    <3>3. Entry.parts \in Contents
      BY <3>1 DEF Entries
    <3> HIDE DEF Copied, Entry
    <3> QED BY <3>2, <3>3, EntryWith
  <2>4. mirror' = mirror \/ Update(assembled)
    BY <1>8 DEF CompleteMultipartUpload
  <2>5. MirrorTyped(mirror')
    <3> HIDE DEF assembled
    <3> QED BY <1>0, <2>1, <2>2, <2>3, <2>4, UpdateTyped
  <2> QED BY <1>0, <2>1, <2>2, <2>5 DEF FetchInv, MirrorTyped
<1>9. ASSUME MirrorPublishFiles PROVE FetchInv'
  <2>1. /\ scenario' = scenario /\ resolved' = resolved /\ selected' = selected /\ file' = file /\ mirror' = mirror
        /\ staged' = staged /\ reserved' = reserved /\ pc = "file" /\ pc' \in {"load", "fail", "mirrorFail"}
    BY <1>9 DEF MirrorPublishFiles, unfetched
  <2>2. Copying
    BY <2>1 DEF FetchInv
  <2>3. Mirrored \in Seq(Files)
    <3>1. DOMAIN selected = 1 .. Len(selected) /\ Len(selected) \in Nat
      BY <1>0
    <3>2. ASSUME NEW i \in 1 .. Len(selected) PROVE [selected[i] EXCEPT !.data = Snapshot[selected[i].path].object] \in Files
      <4>1. selected[i] \in Files /\ selected[i] \in Range(selected)
        BY <1>0, <3>1 DEF Range
      <4>2. selected[i].path \in Paths(scenario, Locator(scenario, resolved))
        <5>1. selected[i] \in Range(scenario.revisions[resolved])
          BY <1>0, <2>2, <4>1, SelectedTyped
        <5> QED BY <1>0, <5>1 DEF Paths, Located
      <4>3. Snapshot[selected[i].path] \in Entries
        BY <1>0, <4>2 DEF MirrorTyped, Snapshot
      <4>4. Snapshot[selected[i].path].object \in Contents
        BY <4>3 DEF Entries
      <4> QED BY <4>1, <4>4 DEF Files
    <3> QED BY <3>1, <3>2 DEF Mirrored
  <2>4. source' = source \/ source' = BuildObjectSourcePublishLayers(Mirrored)
    BY <1>9 DEF MirrorPublishFiles
  <2>5. BuildObjectSourcePublishLayers(Mirrored) \in Seq(WholeLayers)
    BY <2>3, BuiltWhole
  <2>6. SourceTyped
    BY <1>0, <2>4, <2>5, WholeAreLayers DEF WholeLayers
  <2> HIDE DEF SourceTyped
  <2> QED BY <1>0, <2>1, <2>2, <2>6 DEF FetchInv, MirrorTyped, SourceTyped
<1>10. ASSUME MirrorFails PROVE FetchInv'
  <2>1. SameButMirror /\ pc = "mirrorFail" /\ pc' = "fail" /\ file' = file
    BY <1>10 DEF MirrorFails, unfetched
  <2>2. MirrorTyped(mirror')
    <3>1. mirror' = mirror \/ mirror' = [mirror EXCEPT ![Locator(scenario, resolved)] = FailedSnapshot(@)]
      BY <1>10 DEF MirrorFails
    <3>2. ASSUME NEW l \in DOMAIN mirror
          PROVE  /\ DOMAIN FailedSnapshot(mirror[l]) = DOMAIN mirror[l]
                 /\ \A p \in DOMAIN mirror[l] : FailedSnapshot(mirror[l])[p] \in Entries
      <4>1. \A p \in DOMAIN mirror[l] : mirror[l][p] \in Entries
        BY <1>0 DEF MirrorTyped
      <4>2. ASSUME NEW e \in Entries PROVE [e EXCEPT !.upload = "none", !.parts = <<>>] \in Entries
        <5>1. <<>> \in Contents
          BY DEF Contents
        <5> QED BY <5>1, EntryWith
      <4> QED BY <4>1, <4>2 DEF FailedSnapshot
    <3> QED BY <1>0, <3>1, <3>2 DEF MirrorTyped
  <2> QED BY <1>0, <2>1, <2>2 DEF FetchInv, MirrorTyped
<1>11. ASSUME CleanupStagedUploadObject PROVE FetchInv'
  <2>1. /\ scenario' = scenario /\ resolved' = resolved /\ selected' = selected /\ file' = file /\ mirror' = mirror
        /\ source' = source /\ reserved' = reserved /\ pc' \in {"finish", "fail"} /\ staged' \in BOOLEAN
    BY <1>0, <1>11 DEF CleanupStagedUploadObject
  <2> QED BY <1>0, <2>1 DEF FetchInv, MirrorTyped
<1>12. ASSUME Recreate PROVE FetchInv'
  <2>1. /\ scenario' = scenario /\ resolved' = resolved /\ selected' = <<>> /\ file' = 1 /\ mirror' = mirror
        /\ source' = <<>> /\ reserved' = reserved /\ pc' = "fetch" /\ staged' = staged
    BY <1>12 DEF Recreate
  <2>2. selected' \in Seq(Files) /\ file' \in 1 .. Len(selected') + 1 /\ SourceTyped
    BY <2>1
  <2> HIDE DEF SourceTyped
  <2> QED BY <1>0, <2>1, <2>2 DEF FetchInv, MirrorTyped, SourceTyped
<1>13. ASSUME UploadStep \/ Interruption, UNCHANGED <<source, fetching>> PROVE FetchInv'
  <2>1. pc' = pc \/ pc' \in Loaded \cup Failing
    BY <1>13, UploadPcs
  <2> QED BY <1>13, <2>1 DEF FetchInv, Entry, Snapshot
<1>14. ASSUME UNCHANGED vars PROVE FetchInv'
  BY <1>14 DEF vars, FetchInv, Entry, Snapshot
<1> QED
  BY <1>1, <1>2, <1>3, <1>4, <1>5, <1>6, <1>7, <1>8, <1>9, <1>10, <1>11, <1>12, <1>13, <1>14 DEF Next, Work, MirrorFile

-----------------------------------------------------------------------------
(* Checkpoint and sessions.                                                   *)

BudgetTyped == budget \in [faults : 0 .. MaxFaults, terminations : 0 .. MaxTerminations, kills : 0 .. MaxKills]

(* There is no layer that a checkpoint without one could be of.               *)
LEMMA NothingTyped == Nothing \in Currents /\ Nothing.layer \notin Keys /\ <<>> \in Contents
<1>1. <<>> \in Contents
  BY DEF Contents
<1> QED BY <1>1 DEF Nothing, NoKey, Currents, Keys, Archives

(* A fault that a step may meet is one less.                                  *)
LEMMA FaultTyped == BudgetTyped /\ Fault => BudgetTyped'
BY UploadAssumption DEF BudgetTyped, Fault

(* Without a fault the budget stays.                                          *)
LEMMA BudgetKept == BudgetTyped /\ UNCHANGED budget => BudgetTyped'
BY DEF BudgetTyped

(* What is written to the Secret of a checkpoint differs in no more than its  *)
(* current layer.                                                             *)
LEMMA NormalizesTo ==
  ASSUME NEW s, IsCheckpoint(s)
  PROVE  /\ IsCheckpoint(NormalizeState(s))
         /\ NormalizeState(s).current \in {s.current, Nothing}
         /\ NormalizeState(s).phase = s.phase
         /\ NormalizeState(s).plan = s.plan
         /\ NormalizeState(s).completed = s.completed
         /\ NormalizeState(s).phase # "Running" => NormalizeState(s).current = Nothing
<1>1. NormalizeState(s) \in {s, [s EXCEPT !.current = Nothing]}
  BY DEF NormalizeState
<1>2. s.phase # "Running" => NormalizeState(s) = [s EXCEPT !.current = Nothing]
  BY DEF NormalizeState
<1> QED BY <1>1, <1>2, NothingTyped DEF IsCheckpoint

(* The checkpoint of a layer that is being sent.                              *)
LEMMA RunningTyped ==
  ASSUME IsCheckpoint(memory), NEW c \in Currents
  PROVE  /\ IsCheckpoint(Running(c)) /\ Running(c).phase = "Running" /\ Running(c).current = c
         /\ Running(c).plan = memory.plan /\ Running(c).completed = memory.completed
BY DEF IsCheckpoint, Running

(* The checkpoint after a state was saved, by a step that makes the sessions  *)
(* store.                                                                    *)
LEMMA Saved ==
  ASSUME SessionInv, NEW s, IsCheckpoint(s), NEW next, NEW onError, next # onError, NEW store,
         BehindIn(secret.current, store), BehindIn(s.current, store), DOMAIN store \subseteq Keys,
         Save(s, next, onError)
  PROVE  /\ memory' = s /\ IsCheckpoint(secret') /\ BehindIn(secret'.current, store)
         /\ secret'.phase # "Running" => secret'.current = Nothing
         /\ secret'.completed \in {secret.completed, s.completed}
         /\ pc' \in {next, onError}
         /\ pc' = next => secret'.current \in {s.current, Nothing}
         /\ BudgetTyped'
<1>1. IsCheckpoint(secret) /\ BudgetTyped /\ (secret.phase # "Running" => secret.current = Nothing)
  BY DEF SessionInv, UploadTypeOK, SecretInv, BudgetTyped
<1>2. BehindIn(Nothing, store)
  BY NothingTyped DEF BehindIn
<1> DEFINE n == NormalizeState(s)
<1>3. /\ memory' = s /\ pc' \in {next, onError} /\ secret' \in {secret, n}
      /\ pc' = next => secret' = n
      /\ Fault \/ UNCHANGED budget
  BY DEF Save
<1>4. /\ IsCheckpoint(n) /\ n.current \in {s.current, Nothing} /\ n.completed = s.completed
      /\ n.phase # "Running" => n.current = Nothing
  BY NormalizesTo
<1>5. BehindIn(n.current, store)
  <2> HIDE DEF n
  <2> QED BY <1>2, <1>4
<1>6. BudgetTyped'
  BY <1>1, <1>3, FaultTyped, BudgetKept
<1> HIDE DEF n
<1> QED BY <1>1, <1>3, <1>4, <1>5, <1>6

(* What is hashed of a layer is what is read of it.                           *)
LEMMA HashedIs ==
  ASSUME FetchInv, layer \in DOMAIN source, NEW h \in Contents, NEW from \in Nat, NEW to \in Nat, from <= to, to <= Size(layer)
  PROVE  /\ Hashed(h, from, to) \in Contents
         /\ Raw(layer) => Hashed(h, from, to) = h \o SubSeq(source[layer].data, from + 1, to)
<1>1. source[layer] \in LayersOfSource /\ WellMade(source[layer])
  BY DEF FetchInv
<1>2. to - from \in Nat /\ from + (to - from) = to
  OBVIOUS
<1>3. source[layer].data \in Contents
  BY <1>1 DEF LayersOfSource
<1>4. OpenPublishLayerRange(source[layer], from, to - from) = SubSeq(source[layer].data, from + 1, to)
  BY <1>1, <1>2, RangeIsLayer DEF Size
<1>5. SubSeq(source[layer].data, from + 1, to) \in Contents
  <2>1. from + 1 \in 1 .. Len(source[layer].data) + 1 /\ to \in 0 .. Len(source[layer].data)
    BY <1>3 DEF Size, Contents
  <2> QED BY <1>3, <2>1, SubSeqProperties DEF Contents
<1>6. h \o SubSeq(source[layer].data, from + 1, to) \in Contents
  BY <1>5, ConcatProperties DEF Contents
<1> QED BY <1>4, <1>6 DEF Hashed

(* The layer that is worked on, and its session.                              *)
LEMMA AtWork ==
  ASSUME FetchInv, SessionInv, pc \in AtLayer
  PROVE  /\ layer \in DOMAIN source /\ source[layer] \in LayersOfSource
         /\ Key(layer) \in Keys /\ Size(layer) \in Nat /\ source[layer].data \in Contents
         /\ layer \in Nat
<1>1. source \in Seq(LayersOfSource) /\ layer \in 0 .. Len(source) /\ layer > 0
  BY DEF SessionInv, UploadTypeOK, AtItsLayer
<1>2. layer \in DOMAIN source /\ source[layer] \in LayersOfSource
  BY <1>1
<1> QED BY <1>1, <1>2 DEF LayersOfSource, Key, DirectUploadLayerKey, Keys, Size, Contents

(* A session of the store.                                                    *)
LEMMA SessionIs ==
  ASSUME FetchInv, SessionInv, NEW k \in DOMAIN session
  PROVE  /\ session[k] \in Sessions /\ session[k].data \in Contents /\ Len(session[k].data) \in Nat
         /\ k \in Keys
BY DEF SessionInv, UploadTypeOK, ByKey, Sessions, Contents

(* At first there is neither a session nor a checkpoint.                      *)
LEMMA SessionInit == Init => SessionInv
<1> SUFFICES ASSUME Init PROVE SessionInv
  OBVIOUS
<1>1. /\ secret = [phase |-> "Idle", plan |-> NoPlan, completed |-> <<>>, current |-> Nothing]
      /\ memory = secret /\ layer = 0 /\ current = Nothing /\ recoveries = 0
      /\ session = <<>> /\ sealed = <<>> /\ manifest = <<>> /\ pc = "fetch" /\ source = <<>>
      /\ budget = [faults |-> MaxFaults, terminations |-> MaxTerminations, kills |-> MaxKills]
  BY DEF Init, UploadInit
<1>2. ByKey(<<>>, Contents) /\ ByKey(<<>>, Sessions) /\ ByKey(<<>>, Blobs) /\ DOMAIN <<>> = {}
  BY DEF ByKey
<1>3. IsCheckpoint(secret)
  BY <1>1, <1>2, NothingTyped DEF IsCheckpoint, NoPlan
<1>4. source \in Seq(LayersOfSource) /\ Len(source) = 0
  BY <1>1
<1>5. UploadTypeOK
  BY <1>1, <1>2, <1>3, <1>4, NothingTyped, UploadAssumption DEF UploadTypeOK
<1>6. BehindIn(Nothing, session)
  BY <1>1 DEF BehindIn
<1> QED
  BY <1>1, <1>2, <1>5, <1>6 DEF SessionInv, AtItsLayer, SecretInv, MemoryInv, OpenedInv, AtLayer, AtSync, AtSession,
     Loaded, AtEnd, Fetching, AtMirror, AtFile

(* What the budget allows is all that goes wrong.                             *)
LEMMA BudgetNext == BudgetTyped /\ [Next]_vars => BudgetTyped'
<1> SUFFICES ASSUME BudgetTyped, [Next]_vars PROVE BudgetTyped'
  OBVIOUS
<1> DEFINE Spent == Fault \/ UNCHANGED budget
<1>0. Spent => BudgetTyped'
  BY FaultTyped, BudgetKept
<1> USE DEF uploadVars, fetching, upload, registry
<1>1. ASSUME ResolveSource \/ InspectUpload \/ ReserveRemoteStorage PROVE Spent
  BY <1>1 DEF ResolveSource, InspectUpload, ReserveRemoteStorage
<1>2. ASSUME PrepareSourceMirror \/ MirrorFile \/ MirrorPublishFiles \/ MirrorFails PROVE Spent
  BY <1>2 DEF PrepareSourceMirror, MirrorFile, MirrorPublishFiles, MirrorFails, StatFile, EnsureUpload, DownloadPart,
     CompleteMultipartUpload
<1>3. ASSUME CleanupStagedUploadObject \/ Recreate PROVE Spent
  BY <1>3 DEF CleanupStagedUploadObject, Recreate
<1>4. ASSUME LoadCheckpoint \/ EnsureProgressPlan \/ UploadPublishLayer \/ ResumeSession \/ StartSession \/ UploadPart PROVE Spent
  BY <1>4 DEF LoadCheckpoint, EnsureProgressPlan, UploadPublishLayer, ResumeSession, StartSession, UploadPart, Save, Retried
<1>5. ASSUME RecoverRawDirectBlobPart \/ RecoverDirectBlobUpload \/ RecoveryFails \/ SaveRunningLayer PROVE Spent
  BY <1>5 DEF RecoverRawDirectBlobPart, RecoverDirectBlobUpload, RecoveryFails, SaveRunningLayer, Save
<1>6. ASSUME MarkSealing \/ CompleteDirectUpload \/ MarkLayerCompleted \/ UploadPublishConfig PROVE Spent
  BY <1>6 DEF MarkSealing, CompleteDirectUpload, MarkLayerCompleted, UploadPublishConfig, Save, Retried
<1>7. ASSUME PublishManifest \/ InspectPublishedModelPack \/ PersistDirectUploadTerminalState \/ AbortSession PROVE Spent
  BY <1>7 DEF PublishManifest, InspectPublishedModelPack, PersistDirectUploadTerminalState, AbortSession
<1>8. ASSUME Terminate \/ Kill PROVE BudgetTyped'
  BY <1>8, UploadAssumption DEF Terminate, Kill, BudgetTyped
<1>9. ASSUME \E k \in DOMAIN session : SessionExpires(k) PROVE Spent
  BY <1>9 DEF SessionExpires
<1>10. ASSUME UNCHANGED vars PROVE Spent
  BY <1>10 DEF vars
<1> HIDE DEF Spent
<1> QED
  BY <1>0, <1>1, <1>2, <1>3, <1>4, <1>5, <1>6, <1>7, <1>8, <1>9, <1>10 DEF Next, Work, UploadStep, Interruption

(* A step that neither has to do with the checkpoint nor with the registry.    *)
LEMMA QuietStep ==
  ASSUME SessionInv, FetchInv', BudgetTyped', UNCHANGED <<secret, memory, upload, registry>>,
         source' = source \/ layer = 0,
         \/ pc \in Fetching \cup {"load"} /\ pc' \in Fetching \cup {"load"} \cup Failing
         \/ source' = source /\ pc' \in AtEnd \cup Failing \cup {"manifest"} /\ (pc' \in Failing \/ pc \in AtSync \ AtLayer)
         \/ source' = source /\ pc' = pc
  PROVE  SessionInv'
<1> USE DEF upload, registry
<1>1. UploadTypeOK'
  <2>1. source' \in Seq(LayersOfSource)
    BY DEF FetchInv
  <2>2. layer' \in 0 .. Len(source')
    BY <2>1 DEF SessionInv, UploadTypeOK
  <2> QED BY <2>1, <2>2 DEF SessionInv, UploadTypeOK, BudgetTyped
<1> USE DEF AtLayer, AtSync, AtSession, Loaded, AtEnd, Fetching, AtMirror, AtFile, Failing, Ended
<1>2. AtItsLayer'
  BY DEF SessionInv, AtItsLayer
<1>3. SecretInv'
  BY DEF SessionInv, SecretInv, BehindIn
<1>4. MemoryInv'
  BY DEF SessionInv, MemoryInv, BehindIn
<1>5. OpenedInv'
  BY DEF SessionInv, OpenedInv, Key, Size
<1> QED BY <1>1, <1>2, <1>3, <1>4, <1>5 DEF SessionInv

(* Nothing that is done to fetch the source touches a session.                *)
LEMMA FetchSteps ==
  ASSUME FetchInv, SessionInv, FetchInv', BudgetTyped',
         \/ ResolveSource \/ InspectUpload \/ ReserveRemoteStorage
         \/ PrepareSourceMirror \/ MirrorFile \/ MirrorPublishFiles \/ MirrorFails
         \/ CleanupStagedUploadObject
  PROVE  SessionInv'
<1> DEFINE Quiet == /\ UNCHANGED <<secret, memory, upload, registry>> /\ (source' = source \/ layer = 0)
                    /\ \/ pc \in Fetching \cup {"load"} /\ pc' \in Fetching \cup {"load"} \cup Failing
                       \/ source' = source /\ pc' \in AtEnd \cup Failing \cup {"manifest"}
                            /\ (pc' \in Failing \/ pc \in AtSync \ AtLayer)
                       \/ source' = source /\ pc' = pc
<1>1. Quiet => SessionInv'
  BY QuietStep
<1>2. pc \in Fetching => layer = 0
  BY DEF SessionInv, AtItsLayer
<1> USE DEF upload, registry, unfetched, AtLayer, AtSync, Loaded, AtEnd, Fetching, AtMirror, AtFile, Failing, Ended
<1>3. CASE ResolveSource
  <2>1. Quiet BY <1>3 DEF ResolveSource
  <2> QED BY <1>1, <2>1
<1>4. CASE InspectUpload
  <2>1. Quiet BY <1>2, <1>4 DEF InspectUpload, StartUpload
  <2> QED BY <1>1, <2>1
<1>5. CASE ReserveRemoteStorage
  <2>1. Quiet BY <1>2, <1>5 DEF ReserveRemoteStorage, StartUpload
  <2> QED BY <1>1, <2>1
<1>6. CASE PrepareSourceMirror
  <2>1. Quiet BY <1>6 DEF PrepareSourceMirror
  <2> QED BY <1>1, <2>1
<1>7. CASE MirrorFile
  <2>1. Quiet BY <1>7 DEF MirrorFile, StatFile, EnsureUpload, DownloadPart, CompleteMultipartUpload
  <2> QED BY <1>1, <2>1
<1>8. CASE MirrorPublishFiles
  <2>1. Quiet BY <1>2, <1>8 DEF MirrorPublishFiles
  <2> QED BY <1>1, <2>1
<1>9. CASE MirrorFails
  <2>1. Quiet BY <1>9 DEF MirrorFails
  <2> QED BY <1>1, <2>1
<1>10. CASE CleanupStagedUploadObject
  <2>1. Quiet BY <1>10 DEF CleanupStagedUploadObject
  <2> QED BY <1>1, <2>1
<1> QED BY <1>3, <1>4, <1>5, <1>6, <1>7, <1>8, <1>9, <1>10

(* The steps between the layers and after them, and what comes from outside.  *)
LEMMA OtherSteps ==
  ASSUME FetchInv, SessionInv, FetchInv', BudgetTyped', UNCHANGED <<source, fetching>>,
         \/ LoadCheckpoint \/ UploadPublishLayer \/ UploadPublishConfig \/ PublishManifest
         \/ InspectPublishedModelPack \/ PersistDirectUploadTerminalState \/ AbortSession
         \/ Interruption
  PROVE  SessionInv'
<1> USE DEF upload, registry
<1>0. /\ IsCheckpoint(secret) /\ IsCheckpoint(memory) /\ source \in Seq(LayersOfSource)
      /\ layer \in 0 .. Len(source) /\ current \in Currents /\ recoveries \in 0 .. Attempts + 1
      /\ ByKey(session, Sessions) /\ ByKey(sealed, Blobs) /\ ByKey(manifest, Blobs)
      /\ AtItsLayer /\ SecretInv /\ MemoryInv /\ OpenedInv
  BY DEF SessionInv, UploadTypeOK
<1>1. ASSUME UNCHANGED <<secret, memory, upload, registry>>, pc' \in Failing PROVE SessionInv'
  BY <1>1, QuietStep
<1>2. CASE LoadCheckpoint
  <2>1. CASE pc' = "fail"
    <3>1. /\ memory' = secret /\ UNCHANGED <<secret, upload, registry>>
      BY <1>2 DEF LoadCheckpoint
    <3>2. UploadTypeOK'
      BY <1>0, <3>1 DEF UploadTypeOK, BudgetTyped
    <3> QED
      BY <1>0, <2>1, <3>1, <3>2 DEF SessionInv, AtItsLayer, SecretInv, MemoryInv, OpenedInv, BehindIn,
         AtLayer, AtSync, AtSession, Loaded, AtEnd, Fetching, AtMirror, AtFile
  <2>2. CASE pc' = "plan"
    <3>1. /\ memory' = secret /\ UNCHANGED <<secret, upload, registry>>
      BY <1>2 DEF LoadCheckpoint
    <3>2. UploadTypeOK'
      BY <1>0, <3>1 DEF UploadTypeOK, BudgetTyped
    <3> QED
      BY <1>0, <2>2, <3>1, <3>2 DEF SessionInv, AtItsLayer, SecretInv, MemoryInv, OpenedInv, BehindIn,
         AtLayer, AtSync, AtSession, Loaded, AtEnd, Fetching, AtMirror, AtFile
  <2> QED BY <1>2, <2>1, <2>2 DEF LoadCheckpoint
<1>3. CASE UploadPublishLayer
  <2>1. /\ pc = "next" /\ pc' \in {"config", "next", "fail", "open"} /\ current' = Nothing /\ recoveries' = 0
        /\ UNCHANGED <<secret, memory, registry>>
        /\ (layer' = layer /\ pc' = "config") \/ (layer' = layer + 1 /\ layer' \in DOMAIN source)
    BY <1>3 DEF UploadPublishLayer, Planned
  <2>2. layer' \in 0 .. Len(source) /\ (pc' = "open" => layer' > 0)
    BY <1>0, <2>1
  <2>3. UploadTypeOK'
    BY <1>0, <2>1, <2>2, NothingTyped, UploadAssumption DEF UploadTypeOK, BudgetTyped
  <2> QED
    BY <1>0, <2>1, <2>2, <2>3, UploadAssumption DEF SessionInv, AtItsLayer, SecretInv, MemoryInv, OpenedInv, BehindIn,
       AtLayer, AtSync, AtSession, Loaded, AtEnd, Fetching, AtMirror, AtFile
<1>4. CASE UploadPublishConfig \/ InspectPublishedModelPack
  BY <1>4, QuietStep DEF UploadPublishConfig, InspectPublishedModelPack, AtLayer, AtSync, Loaded, AtEnd, Failing
<1>5. CASE PublishManifest
  <2> DEFINE named == [k \in KeysOf(source) |-> sealed[k]]
  <2>1. /\ pc = "manifest" /\ pc' \in {"inspect", "fail"} /\ UNCHANGED <<secret, memory, upload, session, sealed>>
        /\ manifest' = manifest \/ (KeysOf(source) \subseteq DOMAIN sealed /\ manifest' = named)
    BY <1>5 DEF PublishManifest
  <2>2. ByKey(manifest', Blobs)
    BY <1>0, <2>1 DEF ByKey
  <2>3. UploadTypeOK'
    BY <1>0, <2>1, <2>2 DEF UploadTypeOK, BudgetTyped
  <2> QED
    BY <1>0, <2>1, <2>3 DEF SessionInv, AtItsLayer, SecretInv, MemoryInv, OpenedInv, BehindIn,
       AtLayer, AtSync, AtSession, Loaded, AtEnd, Fetching, AtMirror, AtFile
<1>6. CASE PersistDirectUploadTerminalState
  <2> DEFINE s == [secret EXCEPT !.phase = IF pc = "finish" THEN "Completed" ELSE "Failed"]
  <2>1. /\ pc' \in Failing /\ UNCHANGED <<memory, upload, registry>> /\ secret' \in {secret, NormalizeState(s)}
    BY <1>6 DEF PersistDirectUploadTerminalState, Exit, Failing, Ended
  <2>2. CASE secret' = secret
    BY <1>1, <2>1, <2>2
  <2>3. CASE secret' = NormalizeState(s)
    <3>1. IsCheckpoint(s) /\ s.phase # "Running" /\ s.completed = secret.completed
      BY <1>0 DEF IsCheckpoint
    <3>2. IsCheckpoint(secret') /\ secret'.current = Nothing /\ secret'.completed = secret.completed
      <4> HIDE DEF s
      <4> QED BY <2>3, <3>1, NormalizesTo
    <3>3. UploadTypeOK'
      BY <1>0, <2>1, <3>2 DEF UploadTypeOK, BudgetTyped
    <3>4. BehindIn(Nothing, session)
      BY <1>0, NothingTyped DEF BehindIn, ByKey
    <3> HIDE DEF s
    <3> QED
      BY <1>0, <2>1, <3>2, <3>3, <3>4 DEF SessionInv, AtItsLayer, SecretInv, MemoryInv, OpenedInv, BehindIn, Failing, Ended,
         AtLayer, AtSync, AtSession, Loaded, AtEnd, Fetching, AtMirror, AtFile
  <2> QED BY <2>1, <2>2, <2>3
<1>7. CASE AbortSession
  <2>1. /\ pc = "abort" /\ pc' = "fail" /\ UNCHANGED <<secret, memory, upload, sealed, manifest>>
    BY <1>7 DEF AbortSession
  <2>2. /\ ByKey(session', Sessions) /\ DOMAIN session' = DOMAIN session
        /\ \A k \in DOMAIN session : session'[k].data = session[k].data
                                     /\ (session'[k].state = "open" => session[k].state = "open")
    <3>1. CASE session' = session
      BY <1>0, <3>1
    <3>2. CASE session' = [session EXCEPT ![Key(layer)].state = IF @ = "open" THEN "aborted" ELSE @]
      <4>1. \A k \in DOMAIN session : session[k] \in Sessions
        BY <1>0 DEF ByKey
      <4> QED BY <1>0, <3>2, <4>1 DEF ByKey, Sessions
    <3> QED BY <1>7, <3>1, <3>2 DEF AbortSession
  <2>3. UploadTypeOK'
    BY <1>0, <2>1, <2>2 DEF UploadTypeOK, BudgetTyped
  <2> QED
    BY <1>0, <2>1, <2>2, <2>3 DEF SessionInv, AtItsLayer, SecretInv, MemoryInv, OpenedInv, BehindIn,
       AtLayer, AtSync, AtSession, Loaded, AtEnd, Fetching, AtMirror, AtFile
<1>8. CASE Terminate \/ Kill
  BY <1>1, <1>8 DEF Terminate, Kill, Exit, Failing, Ended
<1>9. ASSUME NEW e \in DOMAIN session, SessionExpires(e) PROVE SessionInv'
  <2>1. /\ session[e].state = "open" /\ session' = [session EXCEPT ![e].state = "expired"]
        /\ UNCHANGED <<secret, memory, pc, upload, sealed, manifest>>
    BY <1>9 DEF SessionExpires
  <2>2. /\ ByKey(session', Sessions) /\ DOMAIN session' = DOMAIN session
        /\ \A k \in DOMAIN session : session'[k].data = session[k].data
                                     /\ (session'[k].state \in {"open", "done"} => session[k].state = session'[k].state)
    <3>1. \A k \in DOMAIN session : session[k] \in Sessions
      BY <1>0 DEF ByKey
    <3> QED BY <1>0, <2>1, <3>1 DEF ByKey, Sessions
  <2>3. UploadTypeOK'
    BY <1>0, <2>1, <2>2 DEF UploadTypeOK, BudgetTyped
  <2>4. AtItsLayer' /\ SecretInv' /\ MemoryInv'
    BY <1>0, <2>1, <2>2 DEF AtItsLayer, SecretInv, MemoryInv, BehindIn
  <2>5. OpenedInv'
    BY <1>0, <2>1, <2>2 DEF OpenedInv, Key, Size
  <2> QED BY <2>3, <2>4, <2>5 DEF SessionInv
<1> QED BY <1>2, <1>3, <1>4, <1>5, <1>6, <1>7, <1>8, <1>9 DEF Interruption

(* A worker that is created again has the checkpoint's copy and no session.   *)
LEMMA RecreateStep ==
  ASSUME SessionInv, FetchInv', BudgetTyped', Recreate
  PROVE  SessionInv'
<1> USE DEF upload, registry
<1>1. /\ pc' = "fetch" /\ source' = <<>> /\ memory' = secret /\ layer' = 0 /\ current' = Nothing /\ recoveries' = 0
      /\ UNCHANGED <<secret, registry>>
  BY DEF Recreate
<1>2. source' \in Seq(LayersOfSource) /\ layer' \in 0 .. Len(source')
  BY <1>1
<1>3. UploadTypeOK'
  BY <1>1, <1>2, NothingTyped, UploadAssumption DEF SessionInv, UploadTypeOK, BudgetTyped
<1> QED
  BY <1>1, <1>3 DEF SessionInv, AtItsLayer, SecretInv, MemoryInv, OpenedInv, BehindIn,
     AtLayer, AtSync, AtSession, Loaded, AtEnd, Fetching, AtMirror, AtFile

(* A running layer is saved: its session is not ahead of the store.          *)
LEMMA RunningSaved ==
  ASSUME FetchInv, SessionInv, FetchInv', pc \in AtLayer \ {"abort"},
         UNCHANGED <<source, layer, recoveries, sealed, manifest>>,
         current' \in Currents, current'.layer = Key(layer), current'.total = Size(layer), current'.sent <= Size(layer),
         ByKey(session', Sessions), Key(layer) \in DOMAIN session', Len(session'[Key(layer)].data) <= Size(layer),
         session'[Key(layer)].state \in {"open", "done"} => current'.sent <= Len(session'[Key(layer)].data),
         BehindIn(secret.current, session'),
         NEW next \in {"parts", "complete"}, NEW onError \in {"fail", "abort"}, Save(Running(current'), next, onError)
  PROVE  SessionInv'
<1> DEFINE s == Running(current')
           store == session'
<1>1. /\ IsCheckpoint(s) /\ s.phase = "Running" /\ s.current = current' /\ s.completed = memory.completed
  BY RunningTyped DEF SessionInv, UploadTypeOK
<1>2. BehindIn(s.current, store)
  BY <1>1 DEF BehindIn
<1>3. next # onError /\ DOMAIN store \subseteq Keys
  BY DEF ByKey
<1>4. /\ memory' = s /\ IsCheckpoint(secret') /\ BehindIn(secret'.current, store)
      /\ secret'.phase # "Running" => secret'.current = Nothing
      /\ secret'.completed \in {secret.completed, s.completed}
      /\ pc' \in {next, onError}
      /\ pc' = next => secret'.current \in {s.current, Nothing}
      /\ BudgetTyped'
  <2> HIDE DEF s, store
  <2>1. Save(s, next, onError) /\ BehindIn(secret.current, store)
    BY DEF s, store
  <2> QED BY <1>1, <1>2, <1>3, <2>1, Saved
<1> HIDE DEF s
<1>5. /\ source \in Seq(LayersOfSource) /\ layer \in 0 .. Len(source) /\ recoveries \in 0 .. Attempts + 1
      /\ ByKey(sealed, Blobs) /\ ByKey(manifest, Blobs)
      /\ layer > 0 /\ recoveries <= Attempts
      /\ DOMAIN secret.completed \subseteq DOMAIN sealed /\ DOMAIN memory.completed \subseteq DOMAIN sealed
  <2>1. layer > 0 /\ recoveries <= Attempts
    BY UploadAssumption DEF SessionInv, AtItsLayer, AtLayer
  <2> QED BY <2>1 DEF SessionInv, UploadTypeOK, SecretInv, MemoryInv
<1>6. UploadTypeOK'
  BY <1>1, <1>4, <1>5 DEF UploadTypeOK, BudgetTyped
<1> USE DEF AtLayer, AtSync, AtSession, Loaded, AtEnd, Fetching, AtMirror, AtFile
<1>7. AtItsLayer'
  BY <1>4, <1>5, UploadAssumption DEF AtItsLayer
<1>8. SecretInv'
  BY <1>1, <1>4, <1>5 DEF SecretInv
<1>9. MemoryInv'
  BY <1>1, <1>2, <1>4, <1>5 DEF MemoryInv
<1>10. OpenedInv'
  <2>1. Key(layer)' = Key(layer) /\ Size(layer)' = Size(layer)
    BY DEF Key, Size
  <2>2. current'.sent \in Nat
    BY DEF Currents
  <2> QED BY <1>1, <1>4, <2>1, <2>2 DEF OpenedInv
<1> QED BY <1>6, <1>7, <1>8, <1>9, <1>10 DEF SessionInv

(* A step that keeps the checkpoint and goes from one place of a layer to     *)
(* another.                                                                  *)
LEMMA WorkedOn ==
  ASSUME FetchInv, SessionInv, FetchInv', BudgetTyped', pc \in AtSession,
         UNCHANGED <<source, layer, secret, memory, sealed, manifest>>,
         pc' \in AtSession \cup {"abort", "fail"}, recoveries' \in 0 .. Attempts + 1,
         recoveries' > Attempts => pc' = "abort",
         current' \in Currents, current'.layer = Key(layer), current'.total = Size(layer),
         pc' \in {"parts", "recover", "complete"} => memory.current.sent <= current'.sent, current'.sent <= Size(layer),
         BehindIn(memory.current, session'),
         ByKey(session', Sessions), DOMAIN session' = DOMAIN session, Len(session'[Key(layer)].data) <= Size(layer),
         session'[Key(layer)].state \in {"open", "done"} => current'.sent <= Len(session'[Key(layer)].data),
         \A k \in DOMAIN session : k # Key(layer) => session'[k] = session[k]
  PROVE  SessionInv'
<1>1. /\ IsCheckpoint(secret) /\ IsCheckpoint(memory) /\ source \in Seq(LayersOfSource) /\ layer \in 0 .. Len(source)
      /\ ByKey(sealed, Blobs) /\ ByKey(manifest, Blobs) /\ current \in Currents
      /\ layer > 0 /\ SecretInv /\ MemoryInv /\ OpenedInv
  BY DEF SessionInv, UploadTypeOK, AtItsLayer, AtSession, AtLayer
<1>2. Key(layer)' = Key(layer) /\ Size(layer)' = Size(layer)
  BY DEF Key, Size
<1>4. /\ memory.current.layer = Key(layer) /\ memory.current.total = Size(layer)
      /\ Key(layer) \in DOMAIN session
  BY <1>1 DEF OpenedInv, AtSession, AtLayer
<1>7. BehindIn(secret.current, session')
  <2>1. secret.current \in {memory.current, Nothing}
    BY <1>1 DEF MemoryInv, AtSync, AtSession, Loaded, AtLayer
  <2>2. BehindIn(Nothing, session')
    BY NothingTyped DEF BehindIn, ByKey
  <2> QED BY <2>1, <2>2
<1>8. UploadTypeOK'
  BY <1>1 DEF UploadTypeOK, BudgetTyped
<1> USE DEF AtLayer, AtSync, AtSession, Loaded, AtEnd, Fetching, AtMirror, AtFile
<1>9. AtItsLayer'
  BY <1>1, UploadAssumption DEF AtItsLayer
<1>10. SecretInv'
  BY <1>1, <1>7 DEF SecretInv
<1>11. MemoryInv'
  BY <1>1 DEF MemoryInv
<1>12. OpenedInv'
  BY <1>2, <1>4 DEF OpenedInv
<1> QED BY <1>8, <1>9, <1>10, <1>11, <1>12 DEF SessionInv

(* The parts a helper lists are there.                                       *)
LEMMA ListedIs ==
  ASSUME FetchInv, SessionInv, Key(layer) \in DOMAIN session
  PROVE  Listed(layer) \in Nat /\ Listed(layer) <= Len(session[Key(layer)].data)
<1>1. Len(session[Key(layer)].data) \in Nat
  BY SessionIs
<1> QED BY <1>1, UploadAssumption DEF Listed, Smaller

(* The session of the layer that is worked on.                                *)
LEMMA SessionAtWork ==
  ASSUME FetchInv, SessionInv, pc \in AtSession
  PROVE  /\ Key(layer) \in DOMAIN session /\ Key(layer) \in Keys /\ Size(layer) \in Nat
         /\ layer \in DOMAIN source
         /\ session[Key(layer)].data \in Contents /\ session[Key(layer)].state \in {"open", "done", "aborted", "expired"}
         /\ current \in Currents /\ current.sent \in Nat /\ current.hashed \in Contents
         /\ current.layer = Key(layer) /\ current.total = Size(layer) /\ current.sent <= Size(layer)
         /\ Len(session[Key(layer)].data) <= Size(layer)
         /\ session[Key(layer)].state \in {"open", "done"} => current.sent <= Len(session[Key(layer)].data)
         /\ recoveries \in 0 .. Attempts
<1> USE DEF AtSession, AtLayer
<1>1. current \in Currents /\ recoveries \in 0 .. Attempts + 1 /\ OpenedInv /\ AtItsLayer
  BY DEF SessionInv, UploadTypeOK
<1>2. recoveries \in 0 .. Attempts
  BY <1>1, UploadAssumption DEF AtItsLayer
<1>3. Key(layer) \in DOMAIN session /\ current.layer = Key(layer) /\ current.total = Size(layer)
  BY <1>1 DEF OpenedInv
<1>4. session[Key(layer)].data \in Contents /\ session[Key(layer)].state \in {"open", "done", "aborted", "expired"}
  BY <1>3, SessionIs DEF Sessions
<1> QED BY <1>1, <1>2, <1>3, <1>4, AtWork DEF OpenedInv, Currents

(* Its checkpoint is not ahead of the store, and, unless the store's list has *)
(* just called the worker back, not ahead of the worker.                      *)
LEMMA MemoryAtWork ==
  ASSUME FetchInv, SessionInv, pc \in AtSession
  PROVE  /\ BehindIn(memory.current, session) /\ memory.current.sent \in Nat
         /\ memory.current.layer = Key(layer) /\ memory.current.total = Size(layer)
         /\ pc # "savePart" => memory.current.sent <= current.sent
BY DEF SessionInv, MemoryInv, OpenedInv, UploadTypeOK, IsCheckpoint, Currents

(* What a worker has sent of its layer, up to part n.                         *)
LEMMA SentTyped ==
  ASSUME FetchInv, SessionInv, pc \in AtSession, NEW n \in Nat, current.sent <= n, n <= Size(layer)
  PROVE  /\ Sent(n) \in Currents /\ Sent(n).layer = current.layer /\ Sent(n).total = current.total /\ Sent(n).sent = n
         /\ Sent(n).hashed = Hashed(current.hashed, current.sent, n)
<1>1. Hashed(current.hashed, current.sent, n) \in Contents
  BY SessionAtWork, HashedIs
<1> QED BY <1>1, SessionAtWork DEF Sent, Currents

(* Saving the plan.                                                           *)
LEMMA PlanStep ==
  ASSUME FetchInv, SessionInv, FetchInv', BudgetTyped', UNCHANGED <<source, fetching>>, EnsureProgressPlan
  PROVE  SessionInv'
<1> USE DEF upload, registry
<1>0. pc = "plan" /\ UNCHANGED <<upload, registry>>
  BY DEF EnsureProgressPlan
<1>1. CASE UNCHANGED <<secret, memory, budget>> /\ pc' \in {"next", "fail"}
  <2>1. UploadTypeOK'
    BY <1>0, <1>1 DEF SessionInv, UploadTypeOK
  <2> QED
    BY <1>0, <1>1, <2>1 DEF SessionInv, AtItsLayer, SecretInv, MemoryInv, OpenedInv, BehindIn,
       AtLayer, AtSync, AtSession, Loaded, AtEnd, Fetching, AtMirror, AtFile
<1> DEFINE s == [memory EXCEPT !.plan = Plan]
<1>2. CASE Save(s, "next", "fail")
  <2>1. /\ IsCheckpoint(memory) /\ ByKey(session, Sessions) /\ BehindIn(secret.current, session)
        /\ BehindIn(memory.current, session) /\ (memory.phase # "Running" => memory.current = Nothing)
    BY <1>0 DEF SessionInv, UploadTypeOK, SecretInv, MemoryInv, AtSync, Loaded, AtLayer
  <2>2. Plan \in [layers : Nat, size : Nat]
    <3>1. source \in Seq(LayersOfSource)
      BY DEF FetchInv
    <3>2. \A l \in LayersOfSource : l.data \in Contents
      BY DEF LayersOfSource
    <3> QED BY <3>1, <3>2, TotalSizeTyped DEF Plan, PlanOf
  <2>3. /\ IsCheckpoint(s) /\ s.current = memory.current /\ s.phase = memory.phase /\ s.completed = memory.completed
    BY <2>1, <2>2 DEF IsCheckpoint
  <2> HIDE DEF s
  <2>4. /\ memory' = s /\ IsCheckpoint(secret') /\ BehindIn(secret'.current, session)
        /\ secret'.phase # "Running" => secret'.current = Nothing
        /\ secret'.completed \in {secret.completed, s.completed}
        /\ pc' \in {"next", "fail"}
        /\ pc' = "next" => secret'.current \in {s.current, Nothing}
    BY <1>2, <2>1, <2>3, Saved DEF ByKey
  <2>5. UploadTypeOK'
    BY <1>0, <2>3, <2>4 DEF SessionInv, UploadTypeOK, BudgetTyped
  <2> QED
    BY <1>0, <2>1, <2>3, <2>4, <2>5 DEF SessionInv, AtItsLayer, SecretInv, MemoryInv, OpenedInv, BehindIn,
       AtLayer, AtSync, AtSession, Loaded, AtEnd, Fetching, AtMirror, AtFile
<1> QED BY <1>0, <1>1, <1>2 DEF EnsureProgressPlan

(* A session is resumed where the store is, if that is not behind the         *)
(* checkpoint.                                                                *)
LEMMA ResumeStep ==
  ASSUME FetchInv, SessionInv, FetchInv', BudgetTyped', UNCHANGED <<source, fetching>>, ResumeSession
  PROVE  SessionInv'
<1> USE DEF upload, registry
<1> DEFINE c == memory.current
           stored == Listed(layer)
<1>0. /\ pc = "open" /\ c.layer = Key(layer) /\ UNCHANGED <<layer, recoveries, registry>> /\ pc \in AtLayer
      /\ pc \in AtLayer \ {"abort"}
  BY DEF ResumeSession, Resumes, AtLayer
<1>1. /\ IsCheckpoint(memory) /\ c \in Currents /\ ByKey(session, Sessions) /\ BehindIn(secret.current, session)
      /\ BehindIn(c, session)
  BY <1>0 DEF SessionInv, UploadTypeOK, SecretInv, MemoryInv, IsCheckpoint
<1>2. CASE /\ c.total = Size(layer) /\ Open(layer) /\ stored >= c.sent
           /\ current' = [c EXCEPT !.sent = stored, !.hashed = Hashed(@, c.sent, stored)]
           /\ Save(Running(current'), "parts", "fail")
  <2>1. /\ Key(layer) \in DOMAIN session /\ session[Key(layer)].state = "open"
        /\ Len(session[Key(layer)].data) <= Size(layer)
    BY <1>0, <1>1, <1>2 DEF Open, BehindIn
  <2>2. stored \in Nat /\ stored <= Len(session[Key(layer)].data) /\ Len(session[Key(layer)].data) \in Nat
    BY <2>1, ListedIs, SessionIs
  <2>3. Size(layer) \in Nat /\ layer \in DOMAIN source /\ c.sent \in Nat /\ c.hashed \in Contents
    BY <1>0, <1>1, AtWork DEF Currents
  <2>4. stored <= Size(layer)
    BY <2>1, <2>2, <2>3
  <2>5. Hashed(c.hashed, c.sent, stored) \in Contents
    <3> HIDE DEF stored
    <3> QED BY <1>2, <2>2, <2>3, <2>4, HashedIs
  <2>6. current' \in Currents /\ current'.layer = Key(layer) /\ current'.total = Size(layer) /\ current'.sent = stored
    BY <1>0, <1>1, <1>2, <2>2, <2>5 DEF Currents
  <2> HIDE DEF stored, c
  <2> QED BY <1>0, <1>1, <1>2, <2>1, <2>2, <2>4, <2>6, RunningSaved
<1>3. CASE UNCHANGED <<secret, memory, current>> /\ pc' \in {pc, "fail"}
  BY <1>0, <1>3, QuietStep DEF Failing
<1> QED BY <1>0, <1>2, <1>3 DEF ResumeSession, Retried

(* A session that starts has nothing stored.                                  *)
LEMMA StartStep ==
  ASSUME FetchInv, SessionInv, FetchInv', BudgetTyped', UNCHANGED <<source, fetching>>, StartSession
  PROVE  SessionInv'
<1> USE DEF upload, registry
<1>0. /\ pc = "open" /\ ~Resumes /\ UNCHANGED <<layer, recoveries, sealed, manifest>> /\ pc \in AtLayer
      /\ pc \in AtLayer \ {"abort"}
  BY DEF StartSession, AtLayer
<1>1. CASE /\ session' = Put(session, Key(layer), [state |-> "open", data |-> <<>>])
           /\ current' = [layer |-> Key(layer), total |-> Size(layer), sent |-> 0, hashed |-> <<>>]
           /\ Save(Running(current'), "parts", "fail")
  <2>1. Key(layer) \in Keys /\ Size(layer) \in Nat
    BY <1>0, AtWork
  <2>2. [state |-> "open", data |-> <<>>] \in Sessions /\ ByKey(session, Sessions)
    BY NothingTyped DEF Sessions, SessionInv, UploadTypeOK
  <2>3. /\ ByKey(session', Sessions) /\ Key(layer) \in DOMAIN session'
        /\ session'[Key(layer)] = [state |-> "open", data |-> <<>>]
        /\ DOMAIN session' = DOMAIN session \cup {Key(layer)}
        /\ \A k \in DOMAIN session : k # Key(layer) => session'[k] = session[k]
    BY <1>1, <2>1, <2>2 DEF Put, ByKey
  <2>4. /\ current' \in Currents /\ current'.layer = Key(layer) /\ current'.total = Size(layer) /\ current'.sent = 0
    BY <1>1, <2>1, NothingTyped DEF Currents
  <2>5. Len(session'[Key(layer)].data) = 0
    BY <2>3
  <2>6. secret.current.layer # Key(layer)
    BY <1>0, <2>1, NothingTyped DEF SessionInv, MemoryInv, AtSync, Loaded, AtLayer, Resumes
  <2>7. BehindIn(secret.current, session')
    BY <2>3, <2>6 DEF SessionInv, SecretInv, BehindIn
  <2> QED BY <1>0, <1>1, <2>1, <2>3, <2>4, <2>5, <2>7, RunningSaved
<1>2. CASE UNCHANGED <<secret, memory, session, current>> /\ pc' \in {pc, "fail"}
  BY <1>0, <1>2, QuietStep DEF Failing
<1> QED BY <1>0, <1>1, <1>2 DEF StartSession, Retried

(* A part is stored before it counts as sent.                                 *)
LEMMA PartStep ==
  ASSUME FetchInv, SessionInv, FetchInv', BudgetTyped', UNCHANGED <<source, fetching>>, UploadPart
  PROVE  SessionInv'
<1> USE DEF upload, registry
<1> DEFINE k == Key(layer)
           n == current.sent + 1
           part == OpenPublishLayerRange(source[layer], current.sent, 1)
           written == SubSeq(session[k].data, 1, current.sent) \o part
           stored == [session EXCEPT ![k].data = SubSeq(@, 1, current.sent) \o part]
<1>0. /\ pc = "parts" /\ current.sent < Size(layer) /\ pc \in AtSession
      /\ UNCHANGED <<secret, memory, layer, sealed, manifest>>
  BY DEF UploadPart, AtSession
<1>1. /\ Key(layer) \in DOMAIN session /\ Size(layer) \in Nat /\ layer \in DOMAIN source
      /\ session[k].data \in Contents /\ current \in Currents /\ current.sent \in Nat
      /\ current.layer = Key(layer) /\ current.total = Size(layer)
      /\ Len(session[k].data) <= Size(layer) /\ recoveries \in 0 .. Attempts
      /\ session[k].state \in {"open", "done"} => current.sent <= Len(session[k].data)
      /\ ByKey(session, Sessions)
  BY <1>0, SessionAtWork DEF SessionInv, UploadTypeOK
<1>2. n \in Nat /\ n <= Size(layer) /\ current.sent <= n
  BY <1>0, <1>1
<1>3. part \in Contents /\ Len(part) = 1
  <2>1. source[layer] \in LayersOfSource /\ WellMade(source[layer]) /\ source[layer].data \in Seq(STRING)
    <3>1. source[layer] \in LayersOfSource /\ WellMade(source[layer])
      BY <1>1 DEF FetchInv
    <3> QED BY <3>1 DEF LayersOfSource, Contents
  <2>2. part = SubSeq(source[layer].data, n, n)
    BY <1>0, <1>1, <2>1, NextPart DEF Size
  <2>3. n \in 1 .. Len(source[layer].data)
    BY <1>1, <1>2 DEF Size
  <2> HIDE DEF part, n
  <2>4. part \in Seq(STRING) /\ Len(part) = 1
    BY <2>1, <2>2, <2>3, SubSeqProperties
  <2> QED BY <2>4 DEF Contents
<1>4. ASSUME Open(layer)
      PROVE  /\ ByKey(stored, Sessions) /\ DOMAIN stored = DOMAIN session /\ stored[k].state = "open"
             /\ Len(stored[k].data) = n
             /\ \A x \in DOMAIN session : x # k => stored[x] = session[x]
  <2>1. session[k].state = "open" /\ current.sent <= Len(session[k].data)
    BY <1>1, <1>4 DEF Open
  <2>2. written \in Contents /\ Len(written) = n
    <3>1. SubSeq(session[k].data, 1, current.sent) \in Contents /\ Len(SubSeq(session[k].data, 1, current.sent)) = current.sent
      BY <1>1, <2>1, SubSeqProperties DEF Contents
    <3>2. part \in Seq(STRING)
      BY <1>3 DEF Contents
    <3> DEFINE head == SubSeq(session[k].data, 1, current.sent)
    <3>3. written = head \o part /\ n = current.sent + 1 /\ current.sent \in Nat
      BY <1>1
    <3> HIDE DEF part, head
    <3>4. head \in Seq(STRING) /\ Len(head) = current.sent
      BY <3>1 DEF head, Contents
    <3>5. head \o part \in Seq(STRING) /\ Len(head \o part) = Len(head) + Len(part)
      BY <3>2, <3>4, ConcatProperties
    <3> QED BY <1>3, <3>3, <3>4, <3>5 DEF Contents
  <2>3. stored = [session EXCEPT ![k].data = written] /\ session[k] \in Sessions
    BY <1>1 DEF ByKey
  <2> HIDE DEF written, stored, n, k
  <2>4. /\ stored[k] = [session[k] EXCEPT !.data = written] /\ DOMAIN stored = DOMAIN session
        /\ \A x \in DOMAIN session : x # k => stored[x] = session[x]
    BY <1>1, <2>3 DEF k
  <2>5. stored[k] \in Sessions /\ stored[k].state = "open" /\ stored[k].data = written
    BY <2>1, <2>2, <2>3, <2>4 DEF Sessions
  <2>6. ByKey(stored, Sessions)
    <3>1. \A x \in DOMAIN session : session[x] \in Sessions
      BY <1>1 DEF ByKey
    <3>2. stored = [x \in DOMAIN session |-> stored[x]]
      BY <2>3
    <3> QED BY <1>1, <2>4, <2>5, <3>1, <3>2 DEF ByKey
  <2> QED BY <2>2, <2>4, <2>5, <2>6
<1>7. /\ BehindIn(memory.current, session)
      /\ memory.current.layer = Key(layer) /\ memory.current.total = Size(layer)
      /\ memory.current.sent \in Nat /\ memory.current.sent <= current.sent
  BY <1>0, MemoryAtWork
<1>8. Open(layer) => BehindIn(memory.current, stored)
  <2> HIDE DEF stored, part
  <2>1. SUFFICES ASSUME Open(layer) PROVE BehindIn(memory.current, stored)
    OBVIOUS
  <2>2. Len(stored[k].data) = n /\ DOMAIN stored = DOMAIN session
    BY <1>4, <2>1
  <2>3. memory.current.sent <= n /\ n <= Size(layer)
    BY <1>1, <1>2, <1>7
  <2> HIDE DEF n
  <2> QED BY <1>7, <2>2, <2>3 DEF BehindIn
<1> HIDE DEF stored, part
<1>5. CASE /\ Open(layer) /\ session' = stored
           /\ current' = Sent(n) /\ recoveries' = 0
           /\ pc' = "savePart"
  <2>1. /\ current' \in Currents /\ current'.layer = Key(layer) /\ current'.total = Size(layer) /\ current'.sent = n
    BY <1>0, <1>1, <1>2, <1>5, SentTyped
  <2>2. recoveries' \in 0 .. Attempts + 1 /\ ~(recoveries' > Attempts)
    BY <1>5, UploadAssumption
  <2>3. pc' \in AtSession
    BY <1>5 DEF AtSession
  <2> QED BY <1>0, <1>1, <1>2, <1>4, <1>5, <1>8, <2>1, <2>2, <2>3, WorkedOn
<1>6. CASE /\ session' = session \/ (Open(layer) /\ session' = stored)
           /\ pc' = "recover" /\ UNCHANGED <<current, recoveries>>
  <2>1. recoveries' \in 0 .. Attempts + 1 /\ ~(recoveries' > Attempts)
    BY <1>1, <1>6, UploadAssumption
  <2>2. pc' \in AtSession
    BY <1>6 DEF AtSession
  <2>3. /\ ByKey(session', Sessions) /\ DOMAIN session' = DOMAIN session /\ Len(session'[k].data) <= Size(layer)
        /\ session'[k].state \in {"open", "done"} => current.sent <= Len(session'[k].data)
        /\ \A x \in DOMAIN session : x # k => session'[x] = session[x]
    BY <1>1, <1>2, <1>4, <1>6
  <2>4. BehindIn(memory.current, session')
    BY <1>6, <1>7, <1>8
  <2> QED BY <1>0, <1>1, <1>6, <1>7, <2>1, <2>2, <2>3, <2>4, WorkedOn
<1> QED BY <1>0, <1>5, <1>6 DEF UploadPart, stored, part

(* After a failed part the worker goes on from what the store lists.          *)
LEMMA RecoverStep ==
  ASSUME FetchInv, SessionInv, FetchInv', BudgetTyped', UNCHANGED <<source, fetching>>,
         RecoverRawDirectBlobPart \/ RecoverDirectBlobUpload \/ RecoveryFails
  PROVE  SessionInv'
<1> USE DEF upload, registry
<1>0. pc = "recover" /\ pc \in AtSession /\ UNCHANGED <<secret, memory, layer, registry>>
  BY DEF RecoverRawDirectBlobPart, RecoverDirectBlobUpload, RecoveryFails, AtSession
<1>1. /\ Key(layer) \in DOMAIN session /\ Size(layer) \in Nat
      /\ current \in Currents /\ current.sent \in Nat
      /\ current.layer = Key(layer) /\ current.total = Size(layer) /\ current.sent <= Size(layer)
      /\ Len(session[Key(layer)].data) <= Size(layer) /\ recoveries \in 0 .. Attempts
      /\ session[Key(layer)].state \in {"open", "done"} => current.sent <= Len(session[Key(layer)].data)
      /\ ByKey(session, Sessions)
  BY <1>0, SessionAtWork DEF SessionInv, UploadTypeOK
<1>2. /\ Listed(layer) \in Nat /\ Listed(layer) <= Len(session[Key(layer)].data)
      /\ Len(session[Key(layer)].data) \in Nat
  BY <1>1, ListedIs, SessionIs
<1>8. BehindIn(memory.current, session') /\ memory.current.sent <= current.sent
  BY <1>0, MemoryAtWork DEF BehindIn
<1>3. CASE /\ current' = Sent(Listed(layer)) /\ (~Raw(layer) \/ Listed(layer) >= current.sent)
           /\ recoveries' \in {0, recoveries + 1} /\ pc' \in {"savePart", "abort"}
           /\ recoveries' > Attempts => pc' = "abort"
  <2>1. /\ current' \in Currents /\ current'.layer = Key(layer) /\ current'.total = Size(layer)
        /\ current'.sent = Listed(layer)
    <3>1. CASE ~Raw(layer)
      BY <1>1, <1>2, <1>3, <3>1 DEF Sent, Hashed, Currents
    <3>2. CASE Listed(layer) >= current.sent
      BY <1>0, <1>1, <1>2, <1>3, <3>2, SentTyped
    <3> QED BY <1>3, <3>1, <3>2
  <2>2. recoveries' \in 0 .. Attempts + 1
    BY <1>1, <1>3, UploadAssumption
  <2>3. pc' \in AtSession \cup {"abort", "fail"}
    BY <1>3 DEF AtSession
  <2> QED BY <1>0, <1>1, <1>2, <1>3, <1>8, <2>1, <2>2, <2>3, WorkedOn
<1>4. CASE /\ UNCHANGED current
           /\ \/ /\ recoveries' = recoveries + 1 /\ pc' \in {"parts", "savePart", "abort"}
                 /\ recoveries' > Attempts => pc' = "abort"
              \/ recoveries' = recoveries /\ pc' = "abort"
  <2>1. recoveries' \in 0 .. Attempts + 1 /\ (recoveries' > Attempts => pc' = "abort")
    BY <1>1, <1>4, UploadAssumption
  <2>2. pc' \in AtSession \cup {"abort", "fail"}
    BY <1>4 DEF AtSession
  <2> QED BY <1>0, <1>1, <1>4, <1>8, <2>1, <2>2, WorkedOn
<1>5. CASE RecoverRawDirectBlobPart
  BY <1>1, <1>2, <1>3, <1>4, <1>5, UploadAssumption DEF RecoverRawDirectBlobPart, Recovered, Retry
<1>6. CASE RecoverDirectBlobUpload
  BY <1>1, <1>2, <1>3, <1>6, UploadAssumption DEF RecoverDirectBlobUpload, Recovered, Retry
<1>7. CASE RecoveryFails
  BY <1>4, <1>7 DEF RecoveryFails
<1> QED BY <1>5, <1>6, <1>7

(* What was sent is saved.                                                    *)
LEMMA SaveSteps ==
  ASSUME FetchInv, SessionInv, FetchInv', BudgetTyped', UNCHANGED <<source, fetching>>,
         SaveRunningLayer \/ MarkSealing
  PROVE  SessionInv'
<1> USE DEF upload, registry
<1>0. /\ pc \in AtSession /\ pc \in AtLayer \ {"abort"} /\ UNCHANGED <<layer, recoveries, current, session, sealed, manifest>>
  BY DEF SaveRunningLayer, MarkSealing, AtSession, AtLayer
<1>1. /\ Key(layer) \in DOMAIN session /\ Size(layer) \in Nat
      /\ current \in Currents /\ current.sent \in Nat
      /\ current.layer = Key(layer) /\ current.total = Size(layer) /\ current.sent <= Size(layer)
      /\ Len(session[Key(layer)].data) <= Size(layer)
      /\ session[Key(layer)].state \in {"open", "done"} => current.sent <= Len(session[Key(layer)].data)
      /\ ByKey(session, Sessions) /\ BehindIn(secret.current, session)
  BY <1>0, SessionAtWork DEF SessionInv, UploadTypeOK, SecretInv
<1>2. \E next \in {"parts", "complete"}, onError \in {"fail", "abort"} : Save(Running(current'), next, onError)
  BY <1>0 DEF SaveRunningLayer, MarkSealing
<1>3. PICK next \in {"parts", "complete"}, onError \in {"fail", "abort"} : Save(Running(current'), next, onError)
  BY <1>2
<1> QED BY <1>0, <1>1, <1>3, RunningSaved

(* A session is sealed whole.                                                 *)
LEMMA SealStep ==
  ASSUME FetchInv, SessionInv, FetchInv', BudgetTyped', UNCHANGED <<source, fetching>>, CompleteDirectUpload
  PROVE  SessionInv'
<1> USE DEF upload, registry
<1> DEFINE k == Key(layer)
           blob == [data |-> session[k].data, digest |-> Declared]
           done == /\ session[k].state \in {"open", "done"}
                   /\ session' = [session EXCEPT ![k].state = "done"]
                   /\ sealed' = Put(sealed, k, blob)
<1>0. /\ pc = "complete" /\ pc \in AtSession /\ UNCHANGED <<secret, memory, layer, current, recoveries, manifest>>
  BY DEF CompleteDirectUpload, AtSession
<1>1. /\ k \in DOMAIN session /\ k \in Keys /\ layer \in DOMAIN source
      /\ session[k].data \in Contents /\ current.hashed \in Contents
      /\ recoveries \in 0 .. Attempts
  BY <1>0, SessionAtWork
<1>2. /\ IsCheckpoint(secret) /\ IsCheckpoint(memory) /\ source \in Seq(LayersOfSource) /\ layer \in 0 .. Len(source)
      /\ current \in Currents /\ ByKey(session, Sessions) /\ ByKey(sealed, Blobs) /\ ByKey(manifest, Blobs)
      /\ layer > 0 /\ SecretInv /\ MemoryInv /\ OpenedInv
  BY <1>0 DEF SessionInv, UploadTypeOK, AtItsLayer, AtSession, AtLayer
<1>3. Declared \in Contents
  <2>1. source[layer].data \in Contents
    BY <1>0, AtWork DEF AtSession, AtLayer
  <2> QED BY <1>1, <2>1 DEF Declared
<1>4. CASE UNCHANGED <<session, sealed>> /\ pc' \in {pc, "fail"}
  BY <1>0, <1>4, QuietStep DEF Failing
<1>5. CASE done /\ pc' \in {"complete", "completed", "fail"}
  <2>1. blob \in Blobs
    BY <1>1, <1>3 DEF Blobs
  <2>2. ByKey(sealed', Blobs) /\ DOMAIN sealed' = DOMAIN sealed \cup {k}
    <3> HIDE DEF blob, k
    <3> QED BY <1>1, <1>2, <1>5, <2>1 DEF Put, ByKey, done
  <2>3. /\ ByKey(session', Sessions) /\ DOMAIN session' = DOMAIN session
        /\ session'[k].state = "done" /\ session[k].state \in {"open", "done"}
        /\ \A x \in DOMAIN session : /\ session'[x].data = session[x].data
                                     /\ session'[x].state = "open" => session[x].state = "open"
    <3>1. \A x \in DOMAIN session : session[x] \in Sessions
      BY <1>2 DEF ByKey
    <3>2. session' = [session EXCEPT ![k].state = "done"] /\ session[k].state \in {"open", "done"}
      BY <1>5
    <3> HIDE DEF k
    <3> QED BY <1>1, <1>2, <3>1, <3>2 DEF ByKey, Sessions
  <2> HIDE DEF blob, done
  <2>4. UploadTypeOK'
    <3>1. recoveries' \in 0 .. Attempts + 1
      BY <1>0, <1>1, UploadAssumption
    <3> QED BY <1>0, <1>2, <2>2, <2>3, <3>1 DEF UploadTypeOK, BudgetTyped
  <2>5. AtItsLayer'
    BY <1>0, <1>1, <1>2, <1>5, UploadAssumption DEF AtItsLayer, AtLayer, Fetching, AtMirror, AtFile
  <2>6. SecretInv' /\ MemoryInv'
    BY <1>0, <1>2, <1>5, <2>2, <2>3 DEF SecretInv, MemoryInv, BehindIn, AtSync, Loaded, AtLayer, AtEnd
  <2>7. OpenedInv'
    BY <1>0, <1>1, <1>2, <1>5, <2>2, <2>3 DEF OpenedInv, Key, Size, AtSession, AtLayer
  <2> QED BY <2>4, <2>5, <2>6, <2>7 DEF SessionInv
<1> QED BY <1>0, <1>4, <1>5 DEF CompleteDirectUpload, Retried

(* A layer is called completed when it is sealed.                             *)
LEMMA CompletedStep ==
  ASSUME FetchInv, SessionInv, FetchInv', BudgetTyped', UNCHANGED <<source, fetching>>, MarkLayerCompleted
  PROVE  SessionInv'
<1> USE DEF upload, registry
<1> DEFINE s == [Running(Nothing) EXCEPT !.completed = Put(@, Key(layer), Declared)]
<1>0. /\ pc = "completed" /\ pc \in AtLayer /\ UNCHANGED <<layer, current, recoveries, session, sealed, manifest>>
      /\ Save(s, "next", "fail")
  BY DEF MarkLayerCompleted, AtLayer
<1>1. /\ IsCheckpoint(secret) /\ IsCheckpoint(memory) /\ source \in Seq(LayersOfSource) /\ layer \in 0 .. Len(source)
      /\ current \in Currents /\ ByKey(session, Sessions) /\ ByKey(sealed, Blobs) /\ ByKey(manifest, Blobs)
      /\ layer > 0 /\ recoveries \in 0 .. Attempts + 1 /\ SecretInv /\ MemoryInv /\ OpenedInv
  BY <1>0 DEF SessionInv, UploadTypeOK, AtItsLayer, AtLayer
<1>2. Declared \in Contents
  BY <1>0, <1>1, AtWork DEF Declared, Currents
<1>3. /\ Key(layer) \in Keys /\ Key(layer) \in DOMAIN sealed
  BY <1>0, <1>1, AtWork DEF OpenedInv
<1>4. /\ IsCheckpoint(Running(Nothing)) /\ Running(Nothing).phase = "Running" /\ Running(Nothing).current = Nothing
      /\ Running(Nothing).completed = memory.completed
  BY <1>1, NothingTyped, RunningTyped
<1>5. /\ ByKey(Put(memory.completed, Key(layer), Declared), Contents)
      /\ DOMAIN Put(memory.completed, Key(layer), Declared) = DOMAIN memory.completed \cup {Key(layer)}
  <2>1. ByKey(memory.completed, Contents)
    BY <1>1 DEF IsCheckpoint
  <2> QED BY <1>2, <1>3, <2>1 DEF Put, ByKey
<1>6. /\ IsCheckpoint(s) /\ s.current = Nothing /\ s.phase = "Running"
      /\ DOMAIN s.completed \subseteq DOMAIN sealed
  <2>1. DOMAIN memory.completed \subseteq DOMAIN sealed
    BY <1>1 DEF MemoryInv
  <2>2. s.completed = Put(memory.completed, Key(layer), Declared)
    BY <1>4 DEF IsCheckpoint
  <2> QED BY <1>3, <1>4, <1>5, <2>1, <2>2 DEF IsCheckpoint
<1>7. BehindIn(Nothing, session) /\ BehindIn(secret.current, session)
  BY <1>1, NothingTyped DEF BehindIn, ByKey, SecretInv
<1> HIDE DEF s
<1>8. /\ memory' = s /\ IsCheckpoint(secret') /\ BehindIn(secret'.current, session)
      /\ secret'.phase # "Running" => secret'.current = Nothing
      /\ secret'.completed \in {secret.completed, s.completed}
      /\ pc' \in {"next", "fail"}
      /\ pc' = "next" => secret'.current \in {s.current, Nothing}
  <2>1. DOMAIN session \subseteq Keys
    BY <1>1 DEF ByKey
  <2> QED BY <1>0, <1>6, <1>7, <2>1, Saved
<1>9. UploadTypeOK'
  BY <1>0, <1>1, <1>6, <1>8 DEF UploadTypeOK, BudgetTyped
<1>10. AtItsLayer'
  BY <1>8 DEF AtItsLayer, AtLayer, Fetching, AtMirror, AtFile
<1>11. SecretInv'
  BY <1>0, <1>1, <1>6, <1>8 DEF SecretInv
<1>12. MemoryInv'
  BY <1>0, <1>6, <1>7, <1>8 DEF MemoryInv, AtSync, Loaded, AtLayer, AtEnd
<1>13. OpenedInv'
  BY <1>8 DEF OpenedInv, AtSession, AtLayer
<1> QED BY <1>9, <1>10, <1>11, <1>12, <1>13 DEF SessionInv

(* The checkpoint stays behind the store with every step.                     *)
LEMMA SessionNext == FetchInv /\ SessionInv /\ FetchInv' /\ [Next]_vars => SessionInv'
<1> SUFFICES ASSUME FetchInv, SessionInv, FetchInv', [Next]_vars PROVE SessionInv'
  OBVIOUS
<1>0. BudgetTyped'
  <2>1. BudgetTyped
    BY DEF SessionInv, UploadTypeOK, BudgetTyped
  <2> QED BY <2>1, BudgetNext
<1>1. CASE UNCHANGED vars
  BY <1>0, <1>1, QuietStep DEF vars, uploadVars, upload, registry
<1>2. CASE UploadStep /\ UNCHANGED <<source, fetching>>
  BY <1>0, <1>2, OtherSteps, PlanStep, ResumeStep, StartStep, PartStep, RecoverStep, SaveSteps, SealStep, CompletedStep
     DEF UploadStep
<1>3. CASE Interruption /\ UNCHANGED <<source, fetching>>
  BY <1>0, <1>3, OtherSteps
<1> QED BY <1>0, <1>1, <1>2, <1>3, FetchSteps, RecreateStep DEF Next, Work

-----------------------------------------------------------------------------
(* The mirror.                                                                *)

(* Of what is selected of a remote source no two files have one path.         *)
LEMMA OnePath ==
  ASSUME NEW s \in Scenarios, Remote(s), NEW r \in DOMAIN s.revisions,
         NEW f \in Range(SelectedFiles(s, r)), NEW g \in Range(SelectedFiles(s, r)), f.path = g.path
  PROVE  f = g
<1>1. CASE s.kind = "huggingface"
  <2>1. f \in Range(s.revisions[r]) /\ g \in Range(s.revisions[r])
    BY SelectedTyped
  <2>2. PICK i \in DOMAIN s.revisions[r], j \in DOMAIN s.revisions[r] : f = s.revisions[r][i] /\ g = s.revisions[r][j]
    BY <2>1 DEF Range
  <2> QED BY <1>1, <2>2, ScenarioAssumption
<1>2. CASE s.kind = "ollama"
  <2> DEFINE t == SelectedFiles(s, r)
  <2>1. t \in Seq(Files) /\ Len(t) <= 1
    BY <1>2, SelectedTyped
  <2>2. PICK i \in DOMAIN t, j \in DOMAIN t : f = t[i] /\ g = t[j]
    BY DEF Range
  <2> HIDE DEF t
  <2> QED BY <2>1, <2>2
<1> QED BY <1>1, <1>2 DEF Remote

(* A copy is made of the revision it is located by.                           *)
LEMMA LocatedBy ==
  ASSUME FetchInv, ~MirrorOfTag, pc \in AtMirror
  PROVE  Locator(scenario, resolved) = resolved
<1>1. scenario \in Scenarios /\ resolved \in DOMAIN scenario.revisions /\ scenario.mirror
  BY DEF FetchInv
<1>2. CASE scenario.kind = "ollama"
  <2> DEFINE T == Seq(Files)
  <2>1. scenario.revisions \in Seq(T) /\ ~(Len(scenario.revisions) > 1)
    BY <1>1, <1>2, ScenarioAssumption DEF MirrorOfTag
  <2> HIDE DEF T
  <2>2. DOMAIN scenario.revisions = 1 .. Len(scenario.revisions) /\ Len(scenario.revisions) \in Nat
    BY <2>1
  <2>3. resolved = 1
    BY <1>1, <2>1, <2>2
  <2> QED BY <1>2, <2>3 DEF Locator
<1> QED BY <1>2 DEF Locator

(* Where a mirror's entry differs after a step is at the file that is copied. *)
LEMMA PathEntry ==
  ASSUME FetchInv, MirrorInv, ~MirrorOfTag, pc \in AtMirror, NEW i \in DOMAIN selected
  PROVE  /\ selected[i] \in Files /\ selected[i].data \in Seq(STRING) /\ selected[i].path \in DOMAIN Snapshot
         /\ Snapshot[selected[i].path] \in Entries
         /\ FromFile(selected[i], Snapshot[selected[i].path])
<1>1. /\ scenario \in Scenarios /\ resolved \in DOMAIN scenario.revisions
      /\ selected \in Seq(Files) /\ Remote(scenario) /\ selected = SelectedFiles(scenario, resolved)
      /\ resolved \in DOMAIN mirror /\ Locator(scenario, resolved) = resolved
      /\ DOMAIN mirror[resolved] = Paths(scenario, resolved) /\ \A p \in DOMAIN mirror[resolved] : mirror[resolved][p] \in Entries
  BY LocatorIn, LocatedBy DEF FetchInv
<1> DEFINE f == selected[i]
           e == Snapshot[f.path]
<1>2. Snapshot = mirror[resolved]
  BY <1>1 DEF Snapshot
<1>3. f \in Range(selected) /\ f \in Files /\ f.data \in Seq(STRING)
  <2>1. f \in Files
    BY <1>1
  <2> QED BY <2>1 DEF Range, Files, Contents
<1>4. f \in Range(scenario.revisions[resolved])
  BY <1>1, <1>3, SelectedTyped
<1>5. f.path \in Paths(scenario, resolved)
  BY <1>1, <1>4 DEF Paths, Located
<1>6. e \in Entries
  BY <1>1, <1>2, <1>5
<1>7. FromFile(f, e)
  <2>1. CASE e.object = <<>> /\ e.parts = <<>>
    <3>1. SubSeq(f.data, 1, Len(e.parts)) = <<>> /\ Len(e.parts) = 0
      BY <1>3, <2>1, SubSeqEmpty
    <3>2. Len(f.data) \in Nat
      BY <1>3
    <3> HIDE DEF e, f
    <3> QED BY <2>1, <3>1, <3>2 DEF FromFile
  <2>2. CASE \E g \in Range(SelectedFiles(scenario, resolved)) : g.path = f.path /\ FromFile(g, e)
    <3>1. PICK g \in Range(SelectedFiles(scenario, resolved)) : g.path = f.path /\ FromFile(g, e)
      BY <2>2
    <3>2. g = f
      BY <1>1, <1>3, <3>1, OnePath
    <3> QED BY <3>1, <3>2
  <2>3. f.path \in DOMAIN mirror[resolved] /\ e = mirror[resolved][f.path]
    BY <1>1, <1>2, <1>5
  <2>4. MirrorFrom(mirror)
    BY DEF MirrorInv
  <2> HIDE DEF e, f
  <2> QED BY <1>1, <2>1, <2>2, <2>3, <2>4 DEF MirrorFrom
<1> QED BY <1>1, <1>2, <1>3, <1>5, <1>6, <1>7

(* An entry is replaced by one of its file.                                   *)
LEMMA UpdatedFrom ==
  ASSUME FetchInv, MirrorInv, ~MirrorOfTag, pc \in AtMirror, file \in DOMAIN selected,
         UNCHANGED <<scenario, resolved, selected>>, NEW e \in Entries, FromFile(selected[file], e), Update(e)
  PROVE  /\ MirrorFrom(mirror)'
         /\ file' = file => Entry' = e
         /\ Snapshot'[selected[file].path] = e
         /\ (Entry.object # <<>> => e.object # <<>>) =>
              \A i \in DOMAIN selected : Snapshot[selected[i].path].object # <<>> => Snapshot'[selected[i].path].object # <<>>
<1>1. /\ Locator(scenario, resolved) = resolved /\ resolved \in DOMAIN mirror
      /\ selected[file].path \in DOMAIN mirror[resolved]
      /\ selected = SelectedFiles(scenario, resolved) /\ Remote(scenario)
  BY LocatorIn, LocatedBy, EntryTyped DEF FetchInv, Snapshot
<1>2. mirror' = [mirror EXCEPT ![resolved][selected[file].path] = e]
  BY <1>1 DEF Update
<1>3. /\ DOMAIN mirror' = DOMAIN mirror
      /\ mirror'[resolved] = [mirror[resolved] EXCEPT ![selected[file].path] = e]
      /\ \A l \in DOMAIN mirror : l # resolved => mirror'[l] = mirror[l]
  BY <1>1, <1>2
<1>4. selected[file] \in Range(selected)
  BY DEF Range
<1>5. MirrorFrom(mirror')
  <2> SUFFICES ASSUME NEW l \in DOMAIN mirror, NEW p \in DOMAIN mirror'[l]
               PROVE  \/ mirror'[l][p].object = <<>> /\ mirror'[l][p].parts = <<>>
                      \/ Remote(scenario) /\ \E f \in Range(SelectedFiles(scenario, l)) : f.path = p /\ FromFile(f, mirror'[l][p])
    BY <1>3 DEF MirrorFrom
  <2>1. MirrorFrom(mirror)
    BY DEF MirrorInv
  <2>2. CASE l = resolved /\ p = selected[file].path
    <3>1. mirror'[l][p] = e
      BY <1>1, <1>3, <2>2
    <3> QED BY <1>1, <1>4, <2>2, <3>1
  <2>3. CASE ~(l = resolved /\ p = selected[file].path)
    <3>1. p \in DOMAIN mirror[l] /\ mirror'[l][p] = mirror[l][p]
      BY <1>1, <1>3, <2>3
    <3> QED BY <2>1, <3>1 DEF MirrorFrom
  <2> QED BY <2>2, <2>3
<1>6. Snapshot' = [Snapshot EXCEPT ![selected[file].path] = e] /\ selected[file].path \in DOMAIN Snapshot
  BY <1>1, <1>3 DEF Snapshot
<1>7. Snapshot'[selected[file].path] = e
  BY <1>6
<1>8. file' = file => Entry' = e
  BY <1>7 DEF Entry
<1>9. MirrorFrom(mirror)'
  BY <1>5 DEF MirrorFrom, Remote
<1>10. \A i \in DOMAIN selected : selected[i].path # selected[file].path =>
         Snapshot'[selected[i].path] = Snapshot[selected[i].path]
  <2>1. \A i \in DOMAIN selected : selected[i].path \in DOMAIN Snapshot
    BY PathEntry
  <2> QED BY <1>6, <2>1
<1>11. ASSUME NEW i \in DOMAIN selected, Snapshot[selected[i].path].object # <<>>, e.object # <<>> \/ Entry.object = <<>>
       PROVE  Snapshot'[selected[i].path].object # <<>>
  BY <1>7, <1>10, <1>11 DEF Entry
<1> QED BY <1>7, <1>8, <1>9, <1>11

(* A copy that starts or goes on is of the file that is selected now.         *)
LEMMA UploadFrom ==
  ASSUME UploadStep \/ Interruption
  PROVE  pc' = pc \/ pc' \in Failing \/ pc \in Loaded \cup {"load"}
<1> USE DEF Loaded, AtLayer, AtEnd, Failing, Ended
<1>1. ASSUME LoadCheckpoint \/ EnsureProgressPlan \/ UploadPublishLayer \/ ResumeSession \/ StartSession \/ UploadPart
      PROVE  pc \in Loaded \cup {"load"}
  BY <1>1 DEF LoadCheckpoint, EnsureProgressPlan, UploadPublishLayer, ResumeSession, StartSession, UploadPart
<1>2. ASSUME RecoverRawDirectBlobPart \/ RecoverDirectBlobUpload \/ RecoveryFails \/ SaveRunningLayer \/ MarkSealing
      PROVE  pc \in Loaded
  BY <1>2 DEF RecoverRawDirectBlobPart, RecoverDirectBlobUpload, RecoveryFails, SaveRunningLayer, MarkSealing
<1>3. ASSUME CompleteDirectUpload \/ MarkLayerCompleted \/ UploadPublishConfig \/ PublishManifest \/ InspectPublishedModelPack
             \/ AbortSession
      PROVE  pc \in Loaded
  BY <1>3 DEF CompleteDirectUpload, MarkLayerCompleted, UploadPublishConfig, PublishManifest, InspectPublishedModelPack,
     AbortSession
<1>4. ASSUME PersistDirectUploadTerminalState PROVE pc' \in Failing
  BY <1>4 DEF PersistDirectUploadTerminalState, Exit
<1>5. ASSUME Interruption PROVE pc' = pc \/ pc' \in Failing
  BY <1>5 DEF Interruption, Terminate, Kill, Exit, SessionExpires
<1> QED BY <1>1, <1>2, <1>3, <1>4, <1>5 DEF UploadStep

(* At first there is nothing in the mirror.                                   *)
LEMMA MirrorInit == Init => MirrorInv
<1> SUFFICES ASSUME Init PROVE MirrorInv
  OBVIOUS
<1>1. /\ mirror = [l \in {Locator(scenario, r) : r \in DOMAIN scenario.revisions} |-> [p \in Paths(scenario, l) |-> NoFile]]
      /\ pc = "fetch"
  BY DEF Init
<1>2. MirrorFrom(mirror)
  BY <1>1 DEF MirrorFrom, NoFile
<1> QED BY <1>1, <1>2 DEF MirrorInv, AtFile, Loaded, AtLayer, AtEnd

(* What is cut into layers is what was selected of the revision.              *)
LEMMA MirroredIsSelected ==
  ASSUME FetchInv, MirrorInv, ~MirrorOfTag, pc = "file", file > Len(selected)
  PROVE  Mirrored = selected
<1> USE DEF AtMirror, AtFile
<1>1. selected \in Seq(Files) /\ file \in 1 .. Len(selected) + 1
  BY DEF FetchInv
<1>2. DOMAIN selected = 1 .. Len(selected) /\ Len(selected) \in Nat /\ file - 1 = Len(selected)
  BY <1>1
<1>3. ASSUME NEW i \in DOMAIN selected
      PROVE  [selected[i] EXCEPT !.data = Snapshot[selected[i].path].object] = selected[i]
  <2>1. Snapshot[selected[i].path].object # <<>>
    BY <1>2 DEF MirrorInv
  <2>2. selected[i] \in Files /\ FromFile(selected[i], Snapshot[selected[i].path])
    BY PathEntry
  <2>3. Snapshot[selected[i].path].object = selected[i].data
    BY <2>1, <2>2 DEF FromFile
  <2> QED BY <2>2, <2>3 DEF Files
<1>4. selected = [i \in DOMAIN selected |-> selected[i]]
  BY <1>1
<1> QED BY <1>3, <1>4 DEF Mirrored

(* What the mirror has stays a beginning of the file selected there.          *)
LEMMA MirrorNext == FetchInv /\ MirrorInv /\ FetchInv' /\ [Next]_vars => MirrorInv'
<1> SUFFICES ASSUME FetchInv, MirrorInv, FetchInv', [Next]_vars, ~MirrorOfTag' PROVE MirrorInv'
  BY DEF MirrorInv
<1>0. ~MirrorOfTag /\ scenario' = scenario /\ MirrorFrom(mirror)
  <2>1. scenario' = scenario
    BY DEF Next, Work, ResolveSource, InspectUpload, ReserveRemoteStorage, PrepareSourceMirror, MirrorFile, StatFile,
       EnsureUpload, DownloadPart, CompleteMultipartUpload, MirrorPublishFiles, MirrorFails, CleanupStagedUploadObject,
       Recreate, vars, fetching, unfetched
  <2> QED BY <2>1 DEF MirrorOfTag, MirrorInv
<1> USE DEF Fetching, AtMirror, AtFile, Loaded, AtLayer, AtEnd, Failing, Ended
<1>k. mirror' = mirror => MirrorFrom(mirror)'
  BY <1>0 DEF MirrorFrom, Remote
<1>1. ASSUME ResolveSource \/ PrepareSourceMirror \/ CleanupStagedUploadObject \/ Recreate PROVE MirrorInv'
  <2>1. mirror' = mirror
    BY <1>1 DEF ResolveSource, PrepareSourceMirror, CleanupStagedUploadObject, Recreate
  <2>2. CASE pc' \in {"fail", "mirrorFail", "reserve", "fetch", "down"}
    BY <1>k, <2>1, <2>2 DEF MirrorInv
  <2>3. CASE pc' = "finish"
    <3>1. pc = "published" /\ UNCHANGED <<source, scenario, resolved>>
      BY <1>1, <2>3 DEF ResolveSource, PrepareSourceMirror, CleanupStagedUploadObject, Recreate
    <3>2. source' = Layered(scenario', resolved')
      BY <1>0, <3>1 DEF MirrorInv
    <3> QED BY <1>k, <2>1, <2>3, <3>2 DEF MirrorInv, Remote
  <2>4. CASE pc' = "file"
    <3>1. pc = "mirror" /\ file' = file
      BY <1>1, <2>4 DEF ResolveSource, PrepareSourceMirror, CleanupStagedUploadObject, Recreate
    <3>2. file = 1
      BY <3>1 DEF FetchInv
    <3> QED BY <1>k, <2>1, <2>4, <3>1, <3>2 DEF MirrorInv
  <2> QED BY <1>1, <2>2, <2>3, <2>4 DEF ResolveSource, PrepareSourceMirror, CleanupStagedUploadObject, Recreate
<1>2. ASSUME InspectUpload \/ ReserveRemoteStorage PROVE MirrorInv'
  <2>1. mirror' = mirror /\ resolved' = resolved /\ pc' \in {"fail", "load", "mirror"}
    BY <1>2 DEF InspectUpload, ReserveRemoteStorage, StartUpload
  <2>2. pc' = "load" => source' = Layered(scenario, resolved)
    <3>1. CASE InspectUpload
      BY <3>1 DEF InspectUpload, StartUpload, Layered
    <3>2. CASE ReserveRemoteStorage
      <4>1. selected = SelectedFiles(scenario, resolved)
        BY <3>2 DEF ReserveRemoteStorage, FetchInv
      <4> QED BY <3>2, <4>1 DEF ReserveRemoteStorage, StartUpload, Layered
    <3> QED BY <1>2, <3>1, <3>2
  <2>3. pc' = "load" => source' = Layered(scenario', resolved')
    BY <1>0, <2>1, <2>2
  <2> QED BY <1>k, <2>1, <2>3 DEF MirrorInv
<1>3. ASSUME MirrorPublishFiles PROVE MirrorInv'
  <2>1. mirror' = mirror /\ resolved' = resolved /\ pc' \in {"fail", "mirrorFail", "load"} /\ pc = "file" /\ file > Len(selected)
    BY <1>3 DEF MirrorPublishFiles, unfetched
  <2>2. pc' = "load" => source' = Layered(scenario, resolved)
    <3>1. Mirrored = selected
      BY <1>0, <2>1, MirroredIsSelected
    <3>2. selected = SelectedFiles(scenario, resolved) /\ scenario.kind # "archive"
      BY <2>1 DEF FetchInv, Remote
    <3> QED BY <1>3, <3>1, <3>2 DEF MirrorPublishFiles, Layered, LayersFor
  <2>3. pc' = "load" => source' = Layered(scenario', resolved')
    BY <1>0, <2>1, <2>2
  <2> QED BY <1>k, <2>1, <2>3 DEF MirrorInv
<1>4. ASSUME MirrorFails PROVE MirrorInv'
  <2>1. pc' = "fail" /\ scenario' = scenario
    BY <1>4, <1>0 DEF MirrorFails
  <2>2. MirrorFrom(mirror')
    <3>1. mirror' = mirror \/ mirror' = [mirror EXCEPT ![Locator(scenario, resolved)] = FailedSnapshot(@)]
      BY <1>4 DEF MirrorFails
    <3>2. ASSUME NEW l \in DOMAIN mirror
          PROVE  /\ DOMAIN FailedSnapshot(mirror[l]) = DOMAIN mirror[l]
                 /\ \A p \in DOMAIN mirror[l] : LET e == FailedSnapshot(mirror[l])[p] IN
                      \/ e.object = <<>> /\ e.parts = <<>>
                      \/ Remote(scenario) /\ \E f \in Range(SelectedFiles(scenario, l)) : f.path = p /\ FromFile(f, e)
      <4> SUFFICES ASSUME NEW p \in DOMAIN mirror[l]
                   PROVE  LET e == FailedSnapshot(mirror[l])[p] IN
                      \/ e.object = <<>> /\ e.parts = <<>>
                      \/ Remote(scenario) /\ \E f \in Range(SelectedFiles(scenario, l)) : f.path = p /\ FromFile(f, e)
        BY DEF FailedSnapshot
      <4> DEFINE e == mirror[l][p]
                 x == FailedSnapshot(mirror[l])[p]
      <4>1. e \in Entries
        BY DEF FetchInv
      <4>2. x.object = e.object /\ x.parts = <<>>
        BY <4>1 DEF FailedSnapshot, Entries
      <4>3. CASE e.object = <<>>
        <5> HIDE DEF x, e
        <5>1. x.object = <<>> /\ x.parts = <<>>
          BY <4>2, <4>3
        <5> QED BY <5>1 DEF x
      <4>4. CASE Remote(scenario) /\ \E f \in Range(SelectedFiles(scenario, l)) : f.path = p /\ FromFile(f, e)
        <5>1. PICK f \in Range(SelectedFiles(scenario, l)) : f.path = p /\ FromFile(f, e)
          BY <4>4
        <5>2. l \in DOMAIN scenario.revisions
          <6>1. scenario \in Scenarios /\ l \in {Locator(scenario, r) : r \in DOMAIN scenario.revisions}
            BY DEF FetchInv
          <6> DEFINE T == Seq(Files)
          <6>2. scenario.revisions \in Seq(T) /\ scenario.revisions # <<>>
            BY <6>1, ScenarioAssumption
          <6> HIDE DEF T
          <6> QED BY <6>1, <6>2 DEF Locator
        <5>3. f.data \in Seq(STRING)
          <6>1. scenario \in Scenarios
            BY DEF FetchInv
          <6>2. SelectedFiles(scenario, l) \in Seq(Files)
            BY <5>2, <6>1, SelectedTyped
          <6>3. f \in Files
            BY <5>1, <6>2, RangeTyped
          <6> QED BY <6>3 DEF Files, Contents
        <5>4. SubSeq(f.data, 1, 0) = <<>> /\ Len(f.data) \in Nat /\ Len(<<>>) = 0
          BY <5>3, SubSeqEmpty
        <5> HIDE DEF x, e
        <5>5. FromFile(f, x)
          BY <4>2, <5>1, <5>4 DEF FromFile
        <5> QED BY <4>4, <5>1, <5>5 DEF x
      <4> QED BY <1>0, <4>3, <4>4 DEF MirrorFrom
    <3>3. Locator(scenario, resolved) \in DOMAIN mirror
      BY LocatorIn
    <3>4. CASE mirror' = [mirror EXCEPT ![Locator(scenario, resolved)] = FailedSnapshot(@)]
      <4>1. DOMAIN mirror' = DOMAIN mirror
        BY <3>4
      <4>2. \A l \in DOMAIN mirror : mirror'[l] \in {mirror[l], FailedSnapshot(mirror[l])}
        BY <3>3, <3>4
      <4> QED BY <1>0, <3>2, <4>1, <4>2 DEF MirrorFrom
    <3> QED BY <1>0, <3>1, <3>4
  <2>3. MirrorFrom(mirror)'
    BY <2>1, <2>2 DEF MirrorFrom, Remote
  <2> QED BY <2>1, <2>3 DEF MirrorInv
<1>5. ASSUME UploadStep \/ Interruption, UNCHANGED <<source, fetching>> PROVE MirrorInv'
  <2>1. UNCHANGED <<source, scenario, resolved, selected, file, mirror>>
    BY <1>5 DEF fetching
  <2>2. pc' = pc \/ pc' \in Failing \/ (pc \in Loaded \cup {"load"} /\ pc' \in Loaded \cup Failing)
    BY <1>5, UploadPcs, UploadFrom
  <2>3. CASE pc' = pc
    BY <1>0, <1>k, <2>1, <2>3 DEF MirrorInv, Entry, Snapshot
  <2>4. CASE pc' \in Failing
    BY <1>k, <2>1, <2>4 DEF MirrorInv
  <2>5. CASE pc \in Loaded \cup {"load"} /\ pc' \in Loaded
    <3>1. source' = Layered(scenario', resolved')
      BY <1>0, <2>1, <2>5 DEF MirrorInv
    <3> QED BY <1>k, <2>1, <2>5, <3>1 DEF MirrorInv
  <2> QED BY <2>2, <2>3, <2>4, <2>5
<1>6. ASSUME UNCHANGED vars PROVE MirrorInv'
  <2>1. UNCHANGED <<source, scenario, resolved, selected, file, mirror, pc>>
    BY <1>6 DEF vars, fetching, uploadVars
  <2> QED BY <1>0, <1>k, <2>1 DEF MirrorInv, Entry, Snapshot
<1>7. ASSUME MirrorFile PROVE MirrorInv'
  <2>1. /\ UNCHANGED <<source, scenario, resolved, selected>> /\ pc \in AtFile \cup {"file"} /\ pc \in AtMirror
        /\ pc' \in AtFile \cup {"file", "mirrorFail"}
    BY <1>7 DEF MirrorFile, StatFile, EnsureUpload, DownloadPart, CompleteMultipartUpload, unfetched
  <2>2. /\ selected \in Seq(Files) /\ file \in 1 .. Len(selected) + 1 /\ file \in DOMAIN selected
        /\ DOMAIN selected = 1 .. Len(selected) /\ Len(selected) \in Nat
    <3>1. selected \in Seq(Files) /\ file \in 1 .. Len(selected) + 1 /\ file <= Len(selected)
      BY <1>7 DEF MirrorFile, StatFile, EnsureUpload, DownloadPart, CompleteMultipartUpload, FetchInv
    <3> QED BY <3>1
  <2>3. \A i \in 1 .. file - 1 : Snapshot[selected[i].path].object # <<>>
    BY <1>0, <2>1 DEF MirrorInv
  <2>4. FromFile(selected[file], Entry) /\ Entry \in Entries /\ selected[file].data \in Seq(STRING)
    BY <1>0, <2>1, <2>2, PathEntry DEF Entry
  <2>5. ASSUME NEW e \in Entries, FromFile(selected[file], e), Update(e), Entry.object # <<>> => e.object # <<>>
        PROVE  /\ MirrorFrom(mirror)' /\ (file' = file => Entry' = e)
               /\ \A i \in DOMAIN selected : Snapshot[selected[i].path].object # <<>> => Snapshot'[selected[i].path].object # <<>>
               /\ Snapshot'[selected[file].path] = e
    BY <1>0, <2>1, <2>2, <2>5, UpdatedFrom
  <2>6. ASSUME mirror' = mirror, file' = file, pc' # "assemble" PROVE MirrorInv'
    BY <1>k, <2>1, <2>3, <2>6 DEF MirrorInv, Snapshot
  <2>7. ASSUME NEW e \in Entries, FromFile(selected[file], e), Update(e), Entry.object # <<>> => e.object # <<>>,
               file' = file \/ (file' = file + 1 /\ e.object # <<>>),
               pc' = "assemble" => file' = file /\ Len(e.parts) = Len(selected[file].data)
        PROVE  MirrorInv'
    <3>1. \A i \in 1 .. file' - 1 : i \in DOMAIN selected
      BY <2>2, <2>7
    <3>2. ASSUME NEW i \in 1 .. file' - 1 PROVE Snapshot'[selected[i].path].object # <<>>
      <4>1. i \in 1 .. file - 1 \/ (i = file /\ e.object # <<>>)
        BY <2>2, <2>7
      <4>2. CASE i \in 1 .. file - 1
        BY <2>3, <2>5, <2>7, <3>1, <4>2
      <4>3. CASE i = file /\ e.object # <<>>
        BY <2>5, <2>7, <4>3
      <4> QED BY <4>1, <4>2, <4>3
    <3>3. pc' = "assemble" => Len(Entry'.parts) = Len(selected[file].data)
      BY <2>5, <2>7
    <3>4. MirrorFrom(mirror)'
      BY <2>5, <2>7
    <3> QED BY <2>1, <2>7, <3>2, <3>3, <3>4 DEF MirrorInv
  <2> DEFINE f == selected[file]
  <2>8. FromFile(f, Copied) /\ Copied \in Entries /\ Copied.object = Entry.object
    <3>1. Copied \in Entries
      BY <2>4, EntryWith, NothingTyped DEF Copied
    <3>2. Copied.object = Entry.object /\ Copied.parts = <<>>
      BY <2>4 DEF Copied, Entries
    <3>3. SubSeq(f.data, 1, 0) = <<>> /\ Len(f.data) \in Nat /\ Len(<<>>) = 0
      BY <2>4, SubSeqEmpty
    <3> HIDE DEF f
    <3> QED BY <2>4, <3>1, <3>2, <3>3 DEF FromFile, f
  <2>9. CASE StatFile
    <3>1. CASE UNCHANGED <<mirror, file>>
      BY <2>6, <2>9, <3>1 DEF StatFile
    <3>2. CASE Entry.object # <<>> /\ Update(Copied) /\ file' \in {file, file + 1}
      <4> HIDE DEF Copied
      <4>1. pc' # "assemble"
        BY <2>9 DEF StatFile
      <4> QED BY <2>7, <2>8, <3>2, <4>1
    <3> QED BY <2>9, <3>1, <3>2 DEF StatFile
  <2>10. CASE EnsureUpload
    <3> DEFINE started == [Entry EXCEPT !.upload = "open", !.parts = <<>>]
    <3>1. FromFile(f, started) /\ started \in Entries /\ started.object = Entry.object
      <4>1. started \in Entries
        BY <2>4, EntryWith, NothingTyped
      <4>2. started.object = Entry.object /\ started.parts = <<>>
        BY <2>4 DEF Entries
      <4>3. SubSeq(f.data, 1, 0) = <<>> /\ Len(f.data) \in Nat /\ Len(<<>>) = 0
        BY <2>4, SubSeqEmpty
      <4> HIDE DEF f, started
      <4> QED BY <2>4, <4>1, <4>2, <4>3 DEF FromFile, f
    <3>2. /\ file' = file /\ pc' # "assemble" /\ (mirror' = mirror \/ Update(started))
      BY <2>10 DEF EnsureUpload
    <3> HIDE DEF started, f
    <3> QED BY <2>6, <2>7, <3>1, <3>2 DEF f
  <2>11. CASE DownloadPart
    <3> DEFINE n == Len(Entry.parts) + 1
               more == [Entry EXCEPT !.parts = Append(@, selected[file].data[n])]
    <3>1. Len(Entry.parts) < Len(f.data) /\ Entry.parts \in Seq(STRING) /\ Entry.parts = SubSeq(f.data, 1, Len(Entry.parts))
      BY <2>4, <2>11 DEF DownloadPart, FetchInv, Entries, Contents, FromFile
    <3>2. n \in 1 .. Len(f.data) /\ f.data[n] \in STRING /\ Len(Entry.parts) \in Nat
      BY <2>4, <3>1
    <3>3. /\ Append(Entry.parts, f.data[n]) = SubSeq(f.data, 1, n) /\ Append(Entry.parts, f.data[n]) \in Seq(STRING)
          /\ Len(Append(Entry.parts, f.data[n])) = n
      <4> DEFINE d == f.data
                 ps == Entry.parts
      <4>0. /\ d \in Seq(STRING) /\ ps \in Seq(STRING) /\ n = Len(ps) + 1 /\ n \in 1 .. Len(d)
            /\ ps = SubSeq(d, 1, Len(ps)) /\ Len(ps) \in Nat
            /\ d[n] \in STRING
        BY <2>4, <3>1, <3>2
      <4> HIDE DEF d, ps, n, f
      <4>1. Append(ps, d[n]) \in Seq(STRING) /\ Len(Append(ps, d[n])) = n
        BY <4>0, AppendProperties
      <4>2. SubSeq(d, 1, n) \in Seq(STRING) /\ Len(SubSeq(d, 1, n)) = n /\ \A i \in 1 .. n : SubSeq(d, 1, n)[i] = d[i]
        BY <4>0, SubSeqProperties
      <4>3. \A i \in 1 .. Len(ps) : ps[i] = d[i]
        BY <4>0
      <4>4. \A i \in 1 .. n : Append(ps, d[n])[i] = d[i]
        BY <4>0, <4>3, AppendProperties
      <4>5. Append(ps, d[n]) = SubSeq(d, 1, n)
        BY <4>1, <4>2, <4>4, SeqEqual
      <4> QED BY <4>1, <4>5 DEF d, ps
    <3>4. more \in Entries /\ more.parts = SubSeq(f.data, 1, n) /\ Len(more.parts) = n /\ more.object = Entry.object
      <4>1. Append(Entry.parts, f.data[n]) \in Contents
        BY <3>3 DEF Contents
      <4>2. more \in Entries
        BY <2>4, <4>1, EntryWith
      <4>3. more.parts = Append(Entry.parts, f.data[n]) /\ more.object = Entry.object
        BY <2>4 DEF Entries
      <4> QED BY <3>3, <4>2, <4>3
    <3>5. FromFile(f, more)
      <4>1. Entry.object \in {<<>>, f.data} /\ n <= Len(f.data)
        BY <2>4, <3>2 DEF FromFile
      <4> HIDE DEF more, f, n
      <4> QED BY <3>4, <4>1 DEF FromFile
    <3>6. /\ file' = file /\ (mirror' = mirror \/ Update(more)) /\ pc' \in {"assemble", "download", "mirrorFail"}
          /\ pc' = "assemble" => Update(more) /\ n = Len(f.data)
      BY <2>11 DEF DownloadPart
    <3>7. Entry.object # <<>> => more.object # <<>>
      BY <3>4
    <3> HIDE DEF more, n
    <3>8. CASE Update(more)
      BY <2>7, <3>4, <3>5, <3>6, <3>7, <3>8
    <3>9. CASE mirror' = mirror /\ pc' # "assemble"
      BY <2>6, <3>6, <3>9
    <3> QED BY <3>6, <3>8, <3>9
  <2>12. CASE CompleteMultipartUpload
    <3> DEFINE assembled == [Copied EXCEPT !.object = Entry.parts]
    <3>1. Entry.parts = f.data /\ Entry.parts \in Contents
      <4>1. Len(Entry.parts) = Len(f.data)
        BY <1>0, <2>12 DEF CompleteMultipartUpload, MirrorInv
      <4>2. Entry.parts = SubSeq(f.data, 1, Len(Entry.parts))
        BY <2>4 DEF FromFile
      <4>3. SubSeq(f.data, 1, Len(f.data)) = f.data
        BY <2>4, SubSeqFull
      <4> QED BY <2>4, <4>1, <4>2, <4>3 DEF Entries
    <3>2. assembled \in Entries /\ assembled.object = f.data /\ assembled.parts = Copied.parts
      <4> HIDE DEF Copied
      <4>1. assembled \in Entries
        BY <2>8, <3>1, EntryWith
      <4> QED BY <2>8, <3>1, <4>1 DEF Entries
    <3>3. FromFile(f, assembled)
      <4> HIDE DEF assembled, Copied, f
      <4> QED BY <2>8, <3>2 DEF FromFile
    <3>4. f.data # <<>>
      BY <2>1, <2>2, EntryTyped
    <3>5. /\ file' \in {file, file + 1} /\ (Update(assembled) \/ (mirror' = mirror /\ file' = file)) /\ pc' # "assemble"
      BY <2>12 DEF CompleteMultipartUpload
    <3> HIDE DEF assembled, f
    <3> QED BY <2>6, <2>7, <3>2, <3>3, <3>4, <3>5 DEF f
  <2> QED BY <1>7, <2>9, <2>10, <2>11, <2>12 DEF MirrorFile
<1> QED BY <1>1, <1>2, <1>3, <1>4, <1>5, <1>6, <1>7 DEF Next, Work

(* An object of a mirror that is of one commit is a whole file of it.          *)
LEMMA MirrorHolds == FetchInv /\ MirrorInv => MirrorIsWhole
<1> SUFFICES ASSUME FetchInv, MirrorInv, ~MirrorOfTag, NEW l \in DOMAIN mirror, NEW p \in DOMAIN mirror[l],
                    mirror[l][p].object # <<>>
             PROVE  \E f \in Range(scenario.revisions[l]) : f.path = p /\ mirror[l][p].object = f.data
  BY DEF MirrorIsWhole
<1>1. PICK f \in Range(SelectedFiles(scenario, l)) : f.path = p /\ FromFile(f, mirror[l][p])
  BY DEF MirrorInv, MirrorFrom
<1>2. Remote(scenario)
  BY DEF MirrorInv, MirrorFrom
<1>3. scenario \in Scenarios /\ l \in DOMAIN scenario.revisions
  <2>1. scenario \in Scenarios /\ l \in {Locator(scenario, r) : r \in DOMAIN scenario.revisions}
    BY DEF FetchInv
  <2> DEFINE T == Seq(Files)
  <2>2. scenario.revisions \in Seq(T) /\ scenario.revisions # <<>>
    BY <2>1, ScenarioAssumption
  <2> HIDE DEF T
  <2> QED BY <2>1, <2>2 DEF Locator
<1>4. f \in Range(scenario.revisions[l])
  BY <1>1, <1>2, <1>3, SelectedTyped
<1> QED BY <1>1, <1>4 DEF FromFile

-----------------------------------------------------------------------------
(* What a checkpoint's layers hold. A scenario is certain if no two of its    *)
(* revisions can be taken for one another.                                    *)

(* The layers of a revision.                                                  *)
LEMMA LayeredTyped ==
  ASSUME NEW s \in Scenarios, NEW r \in DOMAIN s.revisions
  PROVE  /\ Layered(s, r) \in Seq(LayersOfSource)
         /\ \A l \in DOMAIN Layered(s, r) : Layered(s, r)[l] \in LayersOfSource /\ Layered(s, r)[l].data \in Seq(STRING)
<1>1. SelectedFiles(s, r) \in Seq(Files)
  BY SelectedTyped
<1>2. LayersFor(s, r, SelectedFiles(s, r)) \in Seq(WholeLayers)
  BY <1>1, LayersWhole
<1>3. Layered(s, r) \in Seq(LayersOfSource) /\ \A l \in DOMAIN Layered(s, r) : Layered(s, r)[l] \in LayersOfSource
  BY <1>2, WholeAreLayers DEF Layered
<1> QED BY <1>3 DEF LayersOfSource, Contents

(* Beginnings.                                                               *)
LEMMA EmptyIsPrefix ==
  ASSUME NEW S, NEW t \in Seq(S)
  PROVE  IsPrefixOf(<<>>, t)
<1>1. SubSeq(t, 1, 0) = <<>> /\ Len(t) \in Nat /\ Len(<<>>) = 0
  BY SubSeqEmpty
<1> QED BY <1>1 DEF IsPrefixOf

(* A beginning as long as the whole is the whole.                             *)
LEMMA WholePrefix ==
  ASSUME NEW S, NEW t \in Seq(S), NEW s, IsPrefixOf(s, t), Len(s) = Len(t)
  PROVE  s = t
BY SubSeqFull DEF IsPrefixOf

(* The first n of a beginning are the first n of the whole.                   *)
LEMMA PrefixOfPrefix ==
  ASSUME NEW S, NEW t \in Seq(S), NEW s \in Seq(S), IsPrefixOf(s, t), NEW n \in Nat, n <= Len(s)
  PROVE  SubSeq(s, 1, n) = SubSeq(t, 1, n)
<1>1. Len(s) \in Nat /\ Len(t) \in Nat /\ Len(s) <= Len(t) /\ s = SubSeq(t, 1, Len(s))
  BY DEF IsPrefixOf
<1>2. \A i \in 1 .. Len(s) : s[i] \in S /\ s[i] = t[i]
  BY <1>1
<1>3. \A i \in 1 .. n : s[i] = t[i] /\ s[i] \in S
  BY <1>1, <1>2
<1>4. /\ SubSeq(s, 1, n) \in Seq(S) /\ Len(SubSeq(s, 1, n)) = n /\ \A i \in 1 .. n : SubSeq(s, 1, n)[i] = s[i]
  BY <1>3, SubSeqProperties
<1>5. /\ SubSeq(t, 1, n) \in Seq(S) /\ Len(SubSeq(t, 1, n)) = n /\ \A i \in 1 .. n : SubSeq(t, 1, n)[i] = t[i]
  BY <1>3, SubSeqProperties
<1>6. \A i \in 1 .. n : SubSeq(s, 1, n)[i] = SubSeq(t, 1, n)[i]
  BY <1>3, <1>4, <1>5
<1> QED BY <1>4, <1>5, <1>6, SeqEqual

(* A beginning and what follows it make a longer beginning.                    *)
LEMMA PrefixGrows ==
  ASSUME NEW S, NEW t \in Seq(S), NEW m \in Nat, NEW n \in Nat, m <= n, n <= Len(t)
  PROVE  /\ SubSeq(t, 1, m) \o SubSeq(t, m + 1, n) = SubSeq(t, 1, n)
         /\ IsPrefixOf(SubSeq(t, 1, n), t)
<1> DEFINE a == SubSeq(t, 1, m)
           b == SubSeq(t, m + 1, n)
           c == SubSeq(t, 1, n)
<1>1. \A i \in 1 .. n : t[i] \in S
  OBVIOUS
<1>2. a \in Seq(S) /\ Len(a) = m /\ \A i \in 1 .. m : a[i] = t[i]
  BY <1>1, SubSeqProperties
<1>3. b \in Seq(S) /\ Len(b) = n - m /\ \A i \in 1 .. n - m : b[i] = t[m + i]
  <2>1. m + 1 \in Int /\ n \in Int /\ \A i \in m + 1 .. n : t[i] \in S
    BY <1>1
  <2>2. /\ b \in Seq(S) /\ Len(b) = (IF m + 1 <= n THEN n - (m + 1) + 1 ELSE 0)
        /\ \A i \in 1 .. n - (m + 1) + 1 : b[i] = t[m + 1 + i - 1]
    BY <2>1, SubSeqProperties
  <2> HIDE DEF b
  <2> QED BY <2>2
<1>4. c \in Seq(S) /\ Len(c) = n /\ \A i \in 1 .. n : c[i] = t[i]
  BY <1>1, SubSeqProperties
<1> HIDE DEF a, b, c
<1>5. /\ a \o b \in Seq(S) /\ Len(a \o b) = n
      /\ \A i \in 1 .. n : (a \o b)[i] = IF i <= m THEN a[i] ELSE b[i - m]
  <2>1. /\ a \o b \in Seq(S) /\ Len(a \o b) = Len(a) + Len(b)
        /\ \A i \in 1 .. Len(a) + Len(b) : (a \o b)[i] = IF i <= Len(a) THEN a[i] ELSE b[i - Len(a)]
    <3>1. a \in Seq(S) /\ b \in Seq(S)
      BY <1>2, <1>3
    <3> QED BY <3>1, ConcatProperties
  <2>2. Len(a) + Len(b) = n
    BY <1>2, <1>3
  <2> QED BY <1>2, <2>1, <2>2
<1>6. ASSUME NEW i \in 1 .. n PROVE (a \o b)[i] = c[i]
  <2>1. CASE i <= m
    BY <1>2, <1>4, <1>5, <2>1
  <2>2. CASE ~(i <= m)
    <3>1. i - m \in 1 .. n - m /\ m + (i - m) = i
      BY <2>2
    <3> QED BY <1>3, <1>4, <1>5, <2>2, <3>1
  <2> QED BY <2>1, <2>2
<1>7. a \o b = c
  BY <1>4, <1>5, <1>6, SeqEqual
<1>8. IsPrefixOf(c, t)
  BY <1>4 DEF IsPrefixOf, c
<1> QED BY <1>7, <1>8 DEF a, b, c

(* A checkpoint that fits the source of a worker with its plan is of its layer. *)
LEMMA FittingIsHere ==
  ASSUME FetchInv, ~Confusable, source = Layered(scenario, resolved), NEW plan, Fits(resolved, plan),
         layer \in DOMAIN source, NEW store, NEW c, IsFitting(c, plan, store), c.layer = Key(layer), c.total = Size(layer)
  PROVE  Covers(c, source[layer], store)
<1>1. resolved \in DOMAIN scenario.revisions
  BY DEF FetchInv
<1>2. PICK r \in DOMAIN scenario.revisions :
        Fits(r, plan) /\ \E l \in DOMAIN Layered(scenario, r) : Covers(c, Layered(scenario, r)[l], store)
  BY DEF IsFitting
<1> DEFINE a == Layered(scenario, r)
<1>3. PICK l \in DOMAIN a : Covers(c, a[l], store)
  BY <1>2
<1>4. DirectUploadLayerKey(a[l]) = DirectUploadLayerKey(source[layer]) /\ Len(a[l].data) = Len(source[layer].data)
  BY <1>3 DEF Covers, Key, Size
<1>5. a[l].data = source[layer].data
  <2>1. CASE r = resolved
    <3>1. l = layer
      BY <1>4, <2>1 DEF Fits, DistinctKeys
    <3> QED BY <2>1, <3>1
  <2>2. CASE r # resolved
    <3>1. PlanOf(a) = PlanOf(Layered(scenario, resolved))
      BY <1>2 DEF Fits
    <3>2. layer \in DOMAIN Layered(scenario, resolved)
      OBVIOUS
    <3> QED BY <1>1, <1>4, <2>2, <3>1, <3>2 DEF Confusable
  <2> QED BY <2>1, <2>2
<1>6. a[l].kind = source[layer].kind
  BY <1>4 DEF DirectUploadLayerKey
<1> QED BY <1>3, <1>4, <1>5, <1>6 DEF Covers

(* And one that covers a layer of the worker's source fits the revision it    *)
(* found.                                                                     *)
LEMMA HereIsFitting ==
  ASSUME FetchInv, source = Layered(scenario, resolved), NEW plan, Fits(resolved, plan),
         NEW l \in DOMAIN source, NEW store, NEW c, Covers(c, source[l], store)
  PROVE  IsFitting(c, plan, store)
BY DEF FetchInv, IsFitting

(* What is stored of a session never becomes something else, unless it starts  *)
(* from nothing.                                                             *)
LEMMA CoversKept ==
  ASSUME NEW x, NEW S, x.data \in Seq(S), NEW c, NEW store, NEW store2, Covers(c, x, store), DataKept(store, store2)
  PROVE  Covers(c, x, store2)
BY EmptyIsPrefix DEF Covers, DataKept

(* And so a checkpoint that fits some revision keeps to it.                    *)
LEMMA FittingKept ==
  ASSUME FetchInv, NEW plan, NEW c, NEW store, NEW store2, IsFitting(c, plan, store), DataKept(store, store2)
  PROVE  IsFitting(c, plan, store2)
<1>1. PICK r \in DOMAIN scenario.revisions :
        Fits(r, plan) /\ \E l \in DOMAIN Layered(scenario, r) : Covers(c, Layered(scenario, r)[l], store)
  BY DEF IsFitting
<1>2. PICK l \in DOMAIN Layered(scenario, r) : Covers(c, Layered(scenario, r)[l], store)
  BY <1>1
<1>3. scenario \in Scenarios
  BY DEF FetchInv
<1>4. Layered(scenario, r)[l].data \in Seq(STRING)
  BY <1>3, LayeredTyped
<1>5. Covers(c, Layered(scenario, r)[l], store2)
  BY <1>2, <1>4, CoversKept
<1> QED BY <1>1, <1>5 DEF IsFitting

(* The artifact stays what it is while no manifest is published.              *)
LEMMA ArtifactKept ==
  ASSUME ArtifactOfOneRevision, UNCHANGED <<scenario, manifest>>
  PROVE  ArtifactOfOneRevision'
BY DEF ArtifactOfOneRevision

(* Which revisions there are never changes.                                   *)
LEMMA FitsKept ==
  ASSUME scenario' = scenario, NEW c, NEW plan, NEW store, IsFitting(c, plan, store)
  PROVE  \E r \in DOMAIN scenario'.revisions : /\ DistinctKeys(Layered(scenario', r)) /\ PlanOf(Layered(scenario', r)) = plan
           /\ \E l \in DOMAIN Layered(scenario', r) : Covers(c, Layered(scenario', r)[l], store)
BY DEF IsFitting, Fits

(* The checkpoint's session after a step.                                     *)
LEMMA FittingNext ==
  ASSUME scenario' = scenario, secret'.current = Nothing \/ IsFitting(secret'.current, secret'.plan, session'),
         secret'.plan = NoPlan => secret'.current = Nothing
  PROVE  FittingInv'
<1>1. CASE secret'.current = Nothing
  BY <1>1 DEF FittingInv
<1>2. CASE IsFitting(secret'.current, secret'.plan, session')
  <2>1. \E r \in DOMAIN scenario'.revisions :
          /\ DistinctKeys(Layered(scenario', r)) /\ PlanOf(Layered(scenario', r)) = secret'.plan
          /\ \E l \in DOMAIN Layered(scenario', r) : Covers(secret'.current, Layered(scenario', r)[l], session')
    BY <1>2, FitsKept
  <2> QED BY <2>1 DEF FittingInv, IsFitting, Fits
<1> QED BY <1>1, <1>2

(* A step that leaves the layers, or has not come to them.                    *)
LEMMA OffWork ==
  ASSUME Known, CertainInv, scenario' = scenario, pc' \notin Loaded,
         secret'.current \in {secret.current, Nothing}, secret'.plan = secret.plan, secret'.completed = secret.completed,
         UNCHANGED registry
  PROVE  CertainInv'
<1> USE DEF registry
<1>1. FittingInv'
  <2>1. secret'.plan = NoPlan => secret'.current = Nothing
    BY DEF CertainInv, FittingInv
  <2>2. secret'.current = Nothing \/ IsFitting(secret'.current, secret'.plan, session')
    BY DEF CertainInv, FittingInv
  <2> QED BY <2>1, <2>2, FittingNext
<1>2. SealedInv'
  BY DEF CertainInv, SealedInv, DigestCoversLayer
<1>3. ArtifactOfOneRevision'
  BY ArtifactKept DEF CertainInv
<1>4. PlannedInv' /\ CoveredInv' /\ ProcessedInv'
  BY DEF PlannedInv, CoveredInv, ProcessedInv, Loaded, AtLayer, AtSession
<1> QED BY <1>1, <1>2, <1>3, <1>4 DEF CertainInv

(* Where a worker has its layers.                                             *)
LEMMA AtLoaded ==
  ASSUME Known, CertainInv, ~MirrorOfTag, pc \in Loaded
  PROVE  /\ source = Layered(scenario, resolved) /\ DistinctKeys(source) /\ memory.plan = secret.plan
         /\ memory.completed = secret.completed /\ scenario \in Scenarios /\ resolved \in DOMAIN scenario.revisions
         /\ source \in Seq(LayersOfSource) /\ DOMAIN source = 1 .. Len(source) /\ Len(source) \in Nat
         /\ IsCheckpoint(secret) /\ IsCheckpoint(memory)
         /\ pc # "plan" => Plan = secret.plan /\ Fits(resolved, secret.plan)
         /\ layer \in 0 .. Len(source)
<1>1. source = Layered(scenario, resolved) /\ scenario \in Scenarios /\ resolved \in DOMAIN scenario.revisions
      /\ source \in Seq(LayersOfSource)
  BY DEF Known, MirrorInv, FetchInv
<1>2. DistinctKeys(source) /\ memory.plan = secret.plan /\ memory.completed = secret.completed
      /\ (pc # "plan" => Plan = secret.plan)
  BY DEF CertainInv, PlannedInv
<1>3. pc # "plan" => Fits(resolved, secret.plan)
  BY <1>1, <1>2 DEF Fits, Plan
<1>4. IsCheckpoint(secret) /\ IsCheckpoint(memory) /\ layer \in 0 .. Len(source)
  BY DEF Known, SessionInv, UploadTypeOK
<1> QED BY <1>1, <1>2, <1>3, <1>4

(* And of the layer that it works on.                                         *)
LEMMA AtPlanned ==
  ASSUME Known, CertainInv, ~MirrorOfTag, pc \in AtLayer
  PROVE  /\ layer \in DOMAIN source /\ layer \in Nat /\ Plan # NoPlan /\ Size(layer) \in Nat
         /\ source[layer].data \in Seq(STRING) /\ source[layer] \in LayersOfSource
         /\ Key(layer) = DirectUploadLayerKey(source[layer]) /\ Size(layer) = Len(source[layer].data)
         /\ Key(layer).kind = source[layer].kind /\ Key(layer) \in Keys
<1>1. layer \in DOMAIN source /\ source[layer] \in LayersOfSource /\ Size(layer) \in Nat /\ layer \in Nat
      /\ source[layer].data \in Contents /\ Key(layer) \in Keys
  BY AtWork DEF Known
<1>2. Len(source) # 0
  <2>1. source \in Seq(LayersOfSource)
    BY DEF Known, FetchInv
  <2> QED BY <1>1, <2>1
<1>3. Plan # NoPlan
  BY <1>2 DEF Plan, PlanOf, NoPlan
<1> QED BY <1>1, <1>3 DEF Key, Size, DirectUploadLayerKey, Contents

(* A step within a layer that saves nothing and completes nothing.            *)
LEMMA WorkedData ==
  ASSUME Known, CertainInv, ~MirrorOfTag, UNCHANGED <<source, scenario, layer, secret, memory, sealed, manifest>>,
         pc \in AtSession, pc' \in AtSession \cup {"abort", "fail"}, pc' # "complete",
         Covers(current', source[layer], session'), Covers(memory.current, source[layer], session')
  PROVE  CertainInv'
<1>1. /\ source = Layered(scenario, resolved) /\ Fits(resolved, secret.plan) /\ Plan = secret.plan /\ pc \in AtLayer
      /\ pc \in Loaded
  BY AtLoaded DEF AtSession, Loaded, AtLayer
<1>2. layer \in DOMAIN source
  BY <1>1, AtPlanned
<1>3. FittingInv'
  <2>1. secret.current \in {memory.current, Nothing}
    BY DEF Known, SessionInv, MemoryInv, AtSync, AtSession, Loaded, AtLayer
  <2>2. IsFitting(memory.current, secret.plan, session')
    BY <1>1, <1>2, HereIsFitting DEF Known
  <2>3. secret.plan = NoPlan => secret.current = Nothing
    BY DEF CertainInv, FittingInv
  <2> QED BY <2>1, <2>2, <2>3, FittingNext
<1>4. PlannedInv'
  BY <1>1 DEF CertainInv, PlannedInv, Loaded, AtLayer, AtSession, Plan
<1>5. CoveredInv'
  BY DEF CoveredInv, AtSession
<1>6. SealedInv'
  BY DEF CertainInv, SealedInv, DigestCoversLayer
<1>7. ProcessedInv'
  <2>1. CASE pc' = "fail"
    BY <2>1 DEF ProcessedInv, AtLayer
  <2>2. CASE pc' \in AtLayer
    BY <1>1, <2>2 DEF CertainInv, ProcessedInv, AtLayer, Processed, Key, Raw, AtSession
  <2> QED BY <2>1, <2>2 DEF AtSession, AtLayer
<1>8. ArtifactOfOneRevision'
  BY ArtifactKept DEF CertainInv
<1> QED BY <1>3, <1>4, <1>5, <1>6, <1>7, <1>8 DEF CertainInv

(* What is in a checkpoint that was saved.                                    *)
LEMMA SavedHas ==
  ASSUME NEW s, IsCheckpoint(s), IsCheckpoint(secret), NEW next, NEW onError, next # onError, Save(s, next, onError)
  PROVE  /\ memory' = s /\ pc' \in {next, onError}
         /\ \/ secret' = secret
            \/ secret'.plan = s.plan /\ secret'.completed = s.completed /\ secret'.current \in {s.current, Nothing}
         /\ pc' = next =>
              secret'.plan = s.plan /\ secret'.completed = s.completed /\ secret'.current \in {s.current, Nothing}
<1> DEFINE n == NormalizeState(s)
<1>1. /\ memory' = s /\ pc' \in {next, onError} /\ secret' \in {secret, n} /\ (pc' = next => secret' = n)
  BY DEF Save
<1>2. n.plan = s.plan /\ n.completed = s.completed /\ n.current \in {s.current, Nothing}
  BY NormalizesTo
<1> HIDE DEF n
<1> QED BY <1>1, <1>2

(* A running layer is saved.                                                  *)
LEMMA RunningData ==
  ASSUME Known, CertainInv, ~MirrorOfTag, UNCHANGED <<source, scenario, layer, sealed, manifest>>,
         pc \in AtLayer \ {"abort"}, current' \in Currents, Covers(current', source[layer], session'),
         secret.current = Nothing \/ IsFitting(secret.current, secret.plan, session'),
         NEW next \in {"parts", "complete"}, NEW onError \in {"fail", "abort"}, Save(Running(current'), next, onError),
         next = "complete" => current'.sent = Size(layer)
  PROVE  CertainInv'
<1> DEFINE s == Running(current')
<1>0. pc \in Loaded /\ pc \in AtLayer /\ pc # "plan"
  BY DEF Loaded, AtLayer
<1>1. /\ source = Layered(scenario, resolved) /\ Fits(resolved, secret.plan) /\ Plan = secret.plan
      /\ DistinctKeys(source) /\ memory.plan = secret.plan /\ memory.completed = secret.completed
      /\ IsCheckpoint(secret) /\ IsCheckpoint(memory)
  BY <1>0, AtLoaded
<1>2. layer \in DOMAIN source /\ Plan # NoPlan
  BY <1>0, AtPlanned
<1>3. IsCheckpoint(s) /\ s.current = current' /\ s.plan = memory.plan /\ s.completed = memory.completed
  BY <1>1, RunningTyped
<1>4. /\ memory' = s /\ pc' \in {next, onError}
      /\ secret'.plan = secret.plan /\ secret'.completed = secret.completed
      /\ secret'.current \in {secret.current, current', Nothing}
  <2> HIDE DEF s
  <2>1. Save(s, next, onError) /\ next # onError
    BY DEF s
  <2> QED BY <1>1, <1>3, <2>1, SavedHas
<1> HIDE DEF s
<1>5. FittingInv'
  <2>1. IsFitting(current', secret.plan, session')
    BY <1>1, <1>2, HereIsFitting DEF Known
  <2> QED BY <1>1, <1>2, <1>4, <2>1, FittingNext
<1>6. PlannedInv'
  BY <1>0, <1>1, <1>3, <1>4 DEF PlannedInv, Loaded, AtLayer, AtEnd, Plan
<1>7. CoveredInv'
  BY <1>3, <1>4 DEF CoveredInv, AtSession, Size
<1>8. SealedInv'
  BY <1>4 DEF CertainInv, SealedInv, DigestCoversLayer
<1>9. ProcessedInv'
  <2>1. CASE pc' = "fail"
    BY <2>1 DEF ProcessedInv, AtLayer
  <2>2. CASE pc' \in AtLayer
    BY <1>0, <1>3, <1>4, <2>2 DEF CertainInv, ProcessedInv, AtLayer, Processed, Key, Raw
  <2> QED BY <1>4, <2>1, <2>2 DEF AtLayer
<1>10. ArtifactOfOneRevision'
  BY ArtifactKept DEF CertainInv
<1> QED BY <1>5, <1>6, <1>7, <1>8, <1>9, <1>10 DEF CertainInv

(* A worker loads the checkpoint.                                             *)
LEMMA LoadData ==
  ASSUME Known, CertainInv, scenario' = scenario, UNCHANGED source, LoadCheckpoint
  PROVE  CertainInv'
<1> USE DEF registry, upload
<1>0. pc = "load" /\ memory' = secret /\ UNCHANGED <<secret, upload, registry>> /\ pc' \in {"plan", "fail"}
      /\ (pc' = "plan" => PlanPublishLayers)
  BY DEF LoadCheckpoint
<1>1. CASE pc' = "fail"
  <2>1. pc' \notin Loaded
    BY <1>1 DEF Loaded, AtLayer, AtEnd
  <2> QED BY <1>0, <2>1, OffWork
<1>2. CASE pc' = "plan"
  <2>1. FittingInv'
    BY <1>0, FittingNext DEF CertainInv, FittingInv
  <2>2. DistinctKeys(source') /\ layer' = 0
    BY <1>0, <1>2 DEF PlanPublishLayers, DistinctKeys, Key, Planned, Known, SessionInv, AtItsLayer
  <2>3. PlannedInv'
    BY <1>0, <1>2, <2>2 DEF PlannedInv
  <2>4. SealedInv' /\ ArtifactOfOneRevision'
    BY <1>0, ArtifactKept DEF CertainInv, SealedInv, DigestCoversLayer
  <2>5. CoveredInv' /\ ProcessedInv'
    BY <1>2 DEF CoveredInv, ProcessedInv, AtLayer, AtSession
  <2> QED BY <2>1, <2>3, <2>4, <2>5 DEF CertainInv
<1> QED BY <1>0, <1>1, <1>2

(* From the plan on it is the one its source has, or the worker fails.        *)
LEMMA PlanData ==
  ASSUME Known, CertainInv, ~MirrorOfTag, scenario' = scenario, UNCHANGED source, EnsureProgressPlan
  PROVE  CertainInv'
<1> USE DEF registry, upload
<1>0. pc = "plan" /\ UNCHANGED <<upload, registry>> /\ memory = secret /\ layer = 0 /\ pc \in Loaded
      /\ IsCheckpoint(secret) /\ DistinctKeys(source)
  <2>1. pc = "plan" /\ UNCHANGED <<upload, registry>> /\ pc \in Loaded
    BY DEF EnsureProgressPlan, Loaded
  <2> QED BY <2>1, AtLoaded DEF CertainInv, PlannedInv
<1>1. Plan' = Plan
  BY DEF Plan
<1>2. ArtifactOfOneRevision' /\ DigestCoversLayer'
  BY <1>0, ArtifactKept DEF CertainInv, SealedInv, DigestCoversLayer
<1>3. ASSUME pc' = "fail" \/ (pc' = "next" /\ layer' = 0) PROVE CoveredInv' /\ ProcessedInv'
  <2>1. CASE pc' = "fail"
    BY <2>1 DEF CoveredInv, ProcessedInv, AtLayer, AtSession
  <2>2. CASE pc' = "next" /\ layer' = 0
    BY <2>2 DEF CoveredInv, ProcessedInv, AtLayer, AtSession, Processed
  <2> QED BY <1>3, <2>1, <2>2
<1>4. CASE memory.plan # NoPlan
  <2>1. UNCHANGED <<secret, memory>> /\ pc' \in {"next", "fail"} /\ (pc' = "next" => memory.plan = Plan)
    BY <1>4 DEF EnsureProgressPlan
  <2>2. FittingInv'
    BY <1>0, <2>1, FittingNext DEF CertainInv, FittingInv
  <2>3. PlannedInv'
    BY <1>0, <1>1, <2>1 DEF PlannedInv, Loaded, AtLayer, AtEnd
  <2>4. SealedInv'
    BY <1>0, <1>2, <2>1 DEF CertainInv, SealedInv
  <2> QED BY <1>0, <1>2, <1>3, <2>1, <2>2, <2>3, <2>4 DEF CertainInv
<1>5. CASE memory.plan = NoPlan
  <2> DEFINE s == [memory EXCEPT !.plan = Plan]
  <2>1. Save(s, "next", "fail") /\ secret.current = Nothing
    BY <1>0, <1>5 DEF EnsureProgressPlan, CertainInv, FittingInv
  <2>2. IsCheckpoint(s) /\ s.current = Nothing /\ s.plan = Plan /\ s.completed = secret.completed
    <3>1. Plan \in [layers : Nat, size : Nat]
      <4>1. source \in Seq(LayersOfSource)
        BY <1>0, AtLoaded
      <4>2. \A l \in LayersOfSource : l.data \in Contents
        BY DEF LayersOfSource
      <4> QED BY <4>1, <4>2, TotalSizeTyped DEF Plan, PlanOf
    <3> QED BY <1>0, <2>1, <3>1 DEF IsCheckpoint
  <2> HIDE DEF s
  <2>3. /\ memory' = s /\ pc' \in {"next", "fail"} /\ secret'.current = Nothing
        /\ secret'.completed = secret.completed
        /\ pc' = "next" => secret'.plan = Plan
    BY <1>0, <2>1, <2>2, SavedHas
  <2>4. FittingInv'
    BY <2>3, FittingNext
  <2>5. PlannedInv'
    BY <1>0, <1>1, <2>2, <2>3 DEF PlannedInv, Loaded, AtLayer, AtEnd
  <2>6. SealedInv'
    BY <1>0, <1>2, <2>3 DEF CertainInv, SealedInv
  <2> QED BY <1>0, <1>2, <1>3, <2>3, <2>4, <2>5, <2>6 DEF CertainInv
<1> QED BY <1>4, <1>5

(* A described layer that is passed over is in the registry as it reads now.   *)
LEMMA NextLayerData ==
  ASSUME Known, CertainInv, ~MirrorOfTag, scenario' = scenario, UNCHANGED source, UploadPublishLayer
  PROVE  CertainInv'
<1> USE DEF registry
<1>0. /\ pc = "next" /\ pc' \in {"config", "next", "fail", "open"} /\ UNCHANGED <<secret, memory, registry>>
      /\ \/ layer + 1 \notin DOMAIN source /\ pc' = "config" /\ layer' = layer
         \/ /\ layer + 1 \in DOMAIN source /\ layer' = layer + 1
            /\ pc' = CASE Skips(layer') -> "next" [] Conflicts(layer') -> "fail" [] OTHER -> "open"
  BY DEF UploadPublishLayer, Planned
<1>1. /\ pc \in Loaded /\ source \in Seq(LayersOfSource) /\ DOMAIN source = 1 .. Len(source) /\ Len(source) \in Nat
      /\ memory.completed = secret.completed /\ layer \in 0 .. Len(source) /\ DistinctKeys(source)
      /\ IsCheckpoint(secret)
  <2>1. pc \in Loaded
    BY <1>0 DEF Loaded
  <2> QED BY <2>1, AtLoaded
<1>2. /\ \A m \in 1 .. layer : Key(m) \in DOMAIN sealed /\ sealed[Key(m)].data = source[m].data
      /\ \A k \in DOMAIN secret.completed : k.kind # "raw" => sealed[k].digest = secret.completed[k]
      /\ \A k \in DOMAIN sealed : sealed[k].data = sealed[k].digest
      /\ DOMAIN secret.completed \subseteq DOMAIN sealed
  BY <1>0 DEF CertainInv, ProcessedInv, Processed, SealedInv, DigestCoversLayer, AtLayer, Known, SessionInv, SecretInv
<1>3. FittingInv' /\ SealedInv' /\ ArtifactOfOneRevision'
  BY <1>0, FittingNext, ArtifactKept DEF CertainInv, FittingInv, SealedInv, DigestCoversLayer
<1>4. PlannedInv'
  BY <1>0, <1>1 DEF CertainInv, PlannedInv, Loaded, AtLayer, AtEnd, Plan
<1>5. CoveredInv'
  BY <1>0 DEF CoveredInv, AtSession
<1>6. ProcessedInv'
  <2>1. CASE pc' = "config"
    <3>1. layer' = layer /\ layer = Len(source)
      <4>1. layer' = layer /\ layer + 1 \notin DOMAIN source
        BY <1>0, <2>1
      <4>2. DOMAIN source = 1 .. Len(source) /\ Len(source) \in Nat /\ layer \in 0 .. Len(source)
        BY <1>1
      <4>3. layer + 1 \notin 1 .. Len(source)
        BY <4>1, <4>2
      <4>4. \A n \in Nat : \A i \in 0 .. n : i + 1 \notin 1 .. n => i = n
        OBVIOUS
      <4>5. layer = Len(source)
        BY <4>2, <4>3, <4>4
      <4> QED BY <4>1, <4>5
    <3> QED BY <1>0, <1>2, <2>1, <3>1 DEF ProcessedInv, Processed, AtLayer, Key
  <2>2. CASE pc' = "open"
    <3>1. layer' = layer + 1 /\ ~Skips(layer') /\ ~Conflicts(layer')
      BY <1>0, <2>2
    <3>2. ~Completed(layer')
      BY <3>1 DEF Skips, Conflicts
    <3>3. layer' - 1 = layer
      BY <1>1, <3>1
    <3>4. ~Raw(layer)' => Key(layer)' \notin DOMAIN memory'.completed
      BY <1>0, <3>2 DEF Completed, Raw, Key
    <3> QED BY <1>0, <1>2, <2>2, <3>3, <3>4 DEF ProcessedInv, Processed, AtLayer, Key
  <2>3. CASE pc' = "next"
    <3>1. layer' = layer + 1 /\ Skips(layer')
      BY <1>0, <2>3
    <3> DEFINE k == Key(layer')
    <3>2. k \in DOMAIN secret.completed /\ secret.completed[k] = source[layer'].data /\ k.kind # "raw"
      BY <1>1, <3>1 DEF Skips, Completed, Raw, Key, DirectUploadLayerKey
    <3>3. k \in DOMAIN sealed /\ sealed[k].data = source[layer'].data
      BY <1>2, <3>2
    <3>4. ASSUME NEW m \in 1 .. layer' PROVE Key(m) \in DOMAIN sealed /\ sealed[Key(m)].data = source[m].data
      <4>1. m \in 1 .. layer \/ m = layer'
        BY <1>1, <3>1
      <4> QED BY <1>2, <3>3, <4>1
    <3> QED BY <1>0, <2>3, <3>4 DEF ProcessedInv, Processed, AtLayer, Key
  <2>4. CASE pc' = "fail"
    BY <2>4 DEF ProcessedInv, AtLayer
  <2> QED BY <1>0, <2>1, <2>2, <2>3, <2>4
<1> QED BY <1>3, <1>4, <1>5, <1>6 DEF CertainInv

(* A session that is resumed is of the layer that the worker has: the parts   *)
(* behind the checkpoint are hashed as they were sent.                        *)
LEMMA ResumeData ==
  ASSUME Known, CertainInv, ~MirrorOfTag, ~Confusable, scenario' = scenario, UNCHANGED source, ResumeSession
  PROVE  CertainInv'
<1> USE DEF upload, registry
<1> DEFINE c == memory.current
           stored == Listed(layer)
<1>0. /\ pc = "open" /\ c.layer = Key(layer) /\ UNCHANGED <<layer, recoveries, registry>> /\ pc \in AtLayer
      /\ pc \in AtLayer \ {"abort"} /\ pc \in Loaded
  BY DEF ResumeSession, Resumes, AtLayer, Loaded
<1>1. /\ source = Layered(scenario, resolved) /\ Fits(resolved, secret.plan) /\ IsCheckpoint(memory)
      /\ layer \in DOMAIN source /\ Size(layer) \in Nat /\ source[layer].data \in Seq(STRING)
      /\ Size(layer) = Len(source[layer].data) /\ Key(layer) \in Keys
  BY <1>0, AtLoaded, AtPlanned
<1>2. c = secret.current /\ c \in Currents /\ c.sent \in Nat /\ c.hashed \in Contents
  BY <1>0, <1>1 DEF CertainInv, PlannedInv, IsCheckpoint, Currents
<1>3. secret.current = Nothing \/ IsFitting(secret.current, secret.plan, session)
  BY DEF CertainInv, FittingInv
<1>4. IsFitting(c, secret.plan, session)
  BY <1>0, <1>1, <1>2, <1>3, NothingTyped
<1>5. CASE /\ c.total = Size(layer) /\ Open(layer) /\ stored >= c.sent
           /\ current' = [c EXCEPT !.sent = stored, !.hashed = Hashed(@, c.sent, stored)]
           /\ Save(Running(current'), "parts", "fail")
  <2>1. Covers(c, source[layer], session)
    <3> HIDE DEF c
    <3> QED BY <1>0, <1>1, <1>4, <1>5, FittingIsHere DEF Known
  <2>2. Key(layer) \in DOMAIN session
    BY <1>5 DEF Open
  <2>3. stored \in Nat /\ stored <= Len(session[Key(layer)].data) /\ Len(session[Key(layer)].data) \in Nat
    BY <2>2, ListedIs, SessionIs DEF Known
  <2>4. IsPrefixOf(session[Key(layer)].data, source[layer].data)
    BY <1>0, <2>1, <2>2 DEF Covers
  <2>5. stored <= Size(layer)
    BY <1>1, <2>3, <2>4 DEF IsPrefixOf
  <2>6. /\ Hashed(c.hashed, c.sent, stored) \in Contents
        /\ Raw(layer) => Hashed(c.hashed, c.sent, stored) = c.hashed \o SubSeq(source[layer].data, c.sent + 1, stored)
    <3> HIDE DEF c, stored
    <3> QED BY <1>1, <1>2, <1>5, <2>3, <2>5, HashedIs DEF Known
  <2>7. /\ current' \in Currents /\ current'.layer = Key(layer) /\ current'.total = Size(layer) /\ current'.sent = stored
        /\ current'.hashed = Hashed(c.hashed, c.sent, stored)
    BY <1>0, <1>1, <1>2, <1>5, <2>3, <2>6 DEF Currents
  <2>8. source[layer].kind = "raw" => current'.hashed = SubSeq(source[layer].data, 1, stored)
    <3> SUFFICES ASSUME source[layer].kind = "raw" PROVE current'.hashed = SubSeq(source[layer].data, 1, stored)
      OBVIOUS
    <3>1. c.hashed = SubSeq(source[layer].data, 1, c.sent)
      BY <2>1 DEF Covers
    <3>2. SubSeq(source[layer].data, 1, c.sent) \o SubSeq(source[layer].data, c.sent + 1, stored)
            = SubSeq(source[layer].data, 1, stored)
      <4> HIDE DEF c, stored
      <4> QED BY <1>1, <1>2, <1>5, <2>3, <2>5, PrefixGrows, ZenonT(60)
    <3> QED BY <2>6, <2>7, <3>1, <3>2 DEF Raw
  <2>9. Covers(current', source[layer], session')
    <3> HIDE DEF c, stored
    <3> QED BY <1>0, <1>1, <2>1, <2>4, <2>5, <2>7, <2>8 DEF Covers, Key
  <2>10. secret.current = Nothing \/ IsFitting(secret.current, secret.plan, session')
    BY <1>0, <1>3
  <2> HIDE DEF c, stored
  <2> QED BY <1>0, <1>5, <2>7, <2>9, <2>10, RunningData
<1>6. CASE UNCHANGED <<secret, memory, current>> /\ pc' = "fail"
  <2>1. pc' \notin Loaded
    BY <1>6 DEF Loaded, AtLayer, AtEnd
  <2> QED BY <1>0, <1>6, <2>1, OffWork
<1>7. CASE UNCHANGED <<secret, memory, current>> /\ pc' = pc
  <2>1. FittingInv' /\ SealedInv' /\ ArtifactOfOneRevision'
    BY <1>0, <1>7, FittingNext, ArtifactKept DEF CertainInv, FittingInv, SealedInv, DigestCoversLayer
  <2>2. PlannedInv'
    BY <1>0, <1>7 DEF CertainInv, PlannedInv, Plan
  <2>3. CoveredInv' /\ ProcessedInv'
    BY <1>0, <1>7 DEF CertainInv, CoveredInv, ProcessedInv, AtLayer, AtSession, Processed, Raw, Key
  <2> QED BY <2>1, <2>2, <2>3 DEF CertainInv
<1> QED BY <1>0, <1>5, <1>6, <1>7 DEF ResumeSession, Retried

(* A step that changes nothing of all this.                                   *)
LEMMA SameData ==
  ASSUME CertainInv, UNCHANGED <<source, scenario, secret, memory, layer, current, registry, pc>>
  PROVE  CertainInv'
<1> USE DEF registry
<1>1. FittingInv' /\ SealedInv' /\ ArtifactOfOneRevision'
  BY FittingNext, ArtifactKept DEF CertainInv, FittingInv, SealedInv, DigestCoversLayer
<1>2. PlannedInv'
  BY DEF CertainInv, PlannedInv, Plan
<1>3. CoveredInv'
  BY DEF CertainInv, CoveredInv, AtSession, Size, Key, Declared, Raw
<1>4. ProcessedInv'
  BY DEF CertainInv, ProcessedInv, Processed, Raw, Key
<1> QED BY <1>1, <1>2, <1>3, <1>4 DEF CertainInv

(* A session that starts covers nothing.                                      *)
LEMMA StartData ==
  ASSUME Known, CertainInv, ~MirrorOfTag, scenario' = scenario, UNCHANGED source, StartSession
  PROVE  CertainInv'
<1> USE DEF upload, registry
<1>0. /\ pc = "open" /\ UNCHANGED <<layer, recoveries, sealed, manifest>> /\ pc \in AtLayer
      /\ pc \in AtLayer \ {"abort"} /\ pc \in Loaded
  BY DEF StartSession, AtLayer, Loaded
<1>1. /\ layer \in DOMAIN source /\ Size(layer) \in Nat /\ source[layer].data \in Seq(STRING)
      /\ Size(layer) = Len(source[layer].data) /\ Key(layer) \in Keys /\ Key(layer) = DirectUploadLayerKey(source[layer])
  BY <1>0, AtPlanned
<1>2. CASE /\ session' = Put(session, Key(layer), [state |-> "open", data |-> <<>>])
           /\ current' = [layer |-> Key(layer), total |-> Size(layer), sent |-> 0, hashed |-> <<>>]
           /\ Save(Running(current'), "parts", "fail")
  <2>1. current' \in Currents
    BY <1>1, <1>2, NothingTyped DEF Currents
  <2>2. session'[Key(layer)].data = <<>>
    BY <1>2 DEF Put
  <2>3. Covers(current', source[layer], session')
    <3>1. SubSeq(source[layer].data, 1, 0) = <<>>
      BY <1>1, SubSeqEmpty
    <3>2. IsPrefixOf(<<>>, source[layer].data)
      BY <1>1, EmptyIsPrefix
    <3> QED BY <1>1, <1>2, <2>2, <3>1, <3>2 DEF Covers
  <2>4. ASSUME secret.current # Nothing PROVE IsFitting(secret.current, secret.plan, session')
    <3>1. IsFitting(secret.current, secret.plan, session)
      BY <2>4 DEF CertainInv, FittingInv
    <3>2. DataKept(session, session')
      BY <1>2 DEF Put, DataKept
    <3> QED BY <3>1, <3>2, FittingKept DEF Known
  <2> QED BY <1>0, <1>2, <2>1, <2>3, <2>4, RunningData
<1>3. CASE UNCHANGED <<secret, memory, session, current>> /\ pc' = "fail"
  <2>1. pc' \notin Loaded
    BY <1>3 DEF Loaded, AtLayer, AtEnd
  <2> QED BY <1>0, <1>3, <2>1, OffWork
<1>4. CASE UNCHANGED <<secret, memory, session, current>> /\ pc' = pc
  BY <1>0, <1>4, SameData
<1> QED BY <1>0, <1>2, <1>3, <1>4 DEF StartSession, Retried

(* What is known of a layer whose session goes on.                            *)
LEMMA AtCovered ==
  ASSUME Known, CertainInv, ~MirrorOfTag, pc \in AtSession
  PROVE  /\ layer \in DOMAIN source /\ Size(layer) \in Nat /\ source[layer].data \in Seq(STRING)
         /\ Size(layer) = Len(source[layer].data) /\ Key(layer) \in Keys /\ Key(layer) = DirectUploadLayerKey(source[layer])
         /\ source[layer] \in LayersOfSource /\ WellMade(source[layer])
         /\ Key(layer) \in DOMAIN session /\ session[Key(layer)].data \in Seq(STRING)
         /\ Len(session[Key(layer)].data) \in Nat
         /\ current \in Currents /\ current.sent \in Nat /\ current.hashed \in Contents
         /\ current.layer = Key(layer) /\ current.total = Size(layer) /\ current.sent <= Size(layer)
         /\ memory.current.layer = Key(layer)
         /\ session[Key(layer)].state \in {"open", "done"} => current.sent <= Len(session[Key(layer)].data)
         /\ Covers(current, source[layer], session) /\ Covers(memory.current, source[layer], session)
         /\ IsPrefixOf(session[Key(layer)].data, source[layer].data)
<1>1. pc \in AtLayer
  BY DEF AtSession, AtLayer
<1>2. /\ layer \in DOMAIN source /\ Size(layer) \in Nat /\ source[layer].data \in Seq(STRING)
      /\ Size(layer) = Len(source[layer].data) /\ Key(layer) \in Keys /\ Key(layer) = DirectUploadLayerKey(source[layer])
  BY <1>1, AtPlanned
<1>3. source[layer] \in LayersOfSource /\ WellMade(source[layer])
  BY <1>2 DEF Known, FetchInv
<1>4. /\ Key(layer) \in DOMAIN session /\ session[Key(layer)].data \in Contents
      /\ current \in Currents /\ current.sent \in Nat /\ current.hashed \in Contents
      /\ current.layer = Key(layer) /\ current.total = Size(layer) /\ current.sent <= Size(layer)
      /\ session[Key(layer)].state \in {"open", "done"} => current.sent <= Len(session[Key(layer)].data)
  BY SessionAtWork DEF Known
<1>5. Covers(current, source[layer], session) /\ Covers(memory.current, source[layer], session)
  BY DEF CertainInv, CoveredInv
<1>6. memory.current.layer = Key(layer)
  BY DEF Known, SessionInv, OpenedInv
<1>7. IsPrefixOf(session[Key(layer)].data, source[layer].data)
  BY <1>4, <1>5 DEF Covers
<1> QED BY <1>2, <1>3, <1>4, <1>5, <1>6, <1>7 DEF Contents

(* Parts sent one after the other, up to n.                                   *)
LEMMA SentCovers ==
  ASSUME Known, CertainInv, ~MirrorOfTag, pc \in AtSession, NEW n \in Nat, current.sent <= n, n <= Size(layer),
         NEW store, Key(layer) \in DOMAIN store => IsPrefixOf(store[Key(layer)].data, source[layer].data)
  PROVE  Covers(Sent(n), source[layer], store)
<1>1. /\ layer \in DOMAIN source /\ Size(layer) \in Nat /\ source[layer].data \in Seq(STRING)
      /\ Size(layer) = Len(source[layer].data) /\ Key(layer) = DirectUploadLayerKey(source[layer])
      /\ current.sent \in Nat /\ current.hashed \in Contents
      /\ current.layer = Key(layer) /\ current.total = Size(layer)
      /\ Covers(current, source[layer], session)
  BY AtCovered
<1>2. /\ Sent(n).layer = Key(layer) /\ Sent(n).total = Size(layer) /\ Sent(n).sent = n
      /\ Sent(n).hashed = Hashed(current.hashed, current.sent, n)
  BY <1>1, SentTyped DEF Known
<1>3. source[layer].kind = "raw" => Sent(n).hashed = SubSeq(source[layer].data, 1, n)
  <2> SUFFICES ASSUME source[layer].kind = "raw" PROVE Sent(n).hashed = SubSeq(source[layer].data, 1, n)
    OBVIOUS
  <2>1. current.hashed = SubSeq(source[layer].data, 1, current.sent)
    BY <1>1 DEF Covers
  <2>2. Hashed(current.hashed, current.sent, n) = current.hashed \o SubSeq(source[layer].data, current.sent + 1, n)
    BY <1>1, HashedIs DEF Known, Raw
  <2>3. SubSeq(source[layer].data, 1, current.sent) \o SubSeq(source[layer].data, current.sent + 1, n)
          = SubSeq(source[layer].data, 1, n)
    BY <1>1, PrefixGrows
  <2> QED BY <1>2, <2>1, <2>2, <2>3
<1> HIDE DEF Sent
<1> QED BY <1>1, <1>2, <1>3 DEF Covers

(* A part that is stored is the next one of the layer, behind what was sent.  *)
LEMMA PartData ==
  ASSUME Known, CertainInv, ~MirrorOfTag, scenario' = scenario, UNCHANGED source, UploadPart
  PROVE  CertainInv'
<1> USE DEF upload, registry
<1> DEFINE k == Key(layer)
           n == current.sent + 1
           part == OpenPublishLayerRange(source[layer], current.sent, 1)
           stored == [session EXCEPT ![k].data = SubSeq(@, 1, current.sent) \o part]
           data == source[layer].data
<1>0. /\ pc = "parts" /\ current.sent < Size(layer) /\ pc \in AtSession
      /\ UNCHANGED <<secret, memory, layer, sealed, manifest>>
  BY DEF UploadPart, AtSession
<1>1. /\ layer \in DOMAIN source /\ Size(layer) \in Nat /\ data \in Seq(STRING)
      /\ Size(layer) = Len(data) /\ source[layer] \in LayersOfSource /\ WellMade(source[layer])
      /\ k \in DOMAIN session /\ session[k].data \in Seq(STRING) /\ Len(session[k].data) \in Nat
      /\ current.sent \in Nat /\ memory.current.layer = k
      /\ session[k].state \in {"open", "done"} => current.sent <= Len(session[k].data)
      /\ Covers(current, source[layer], session) /\ Covers(memory.current, source[layer], session)
      /\ IsPrefixOf(session[k].data, data) /\ current.layer = k
  BY <1>0, AtCovered
<1>2. n \in Nat /\ n <= Size(layer) /\ current.sent <= n
  BY <1>0, <1>1
<1>3. part = SubSeq(data, n, n)
  <2>1. part = SubSeq(data, current.sent + 1, current.sent + 1)
    BY <1>0, <1>1, NextPart
  <2> QED BY <2>1
<1>4. ASSUME Open(layer) PROVE stored[k].data = SubSeq(data, 1, n) /\ k \in DOMAIN stored
  <2>1. current.sent <= Len(session[k].data)
    BY <1>1, <1>4 DEF Open
  <2>2. SubSeq(session[k].data, 1, current.sent) = SubSeq(data, 1, current.sent)
    BY <1>1, <2>1, PrefixOfPrefix
  <2>3. SubSeq(data, 1, current.sent) \o SubSeq(data, n, n) = SubSeq(data, 1, n)
    BY <1>1, <1>2, PrefixGrows
  <2>4. session[k] \in Sessions
    BY <1>1, SessionIs DEF Known
  <2>5. stored[k].data = SubSeq(session[k].data, 1, current.sent) \o part
    BY <1>1, <2>4 DEF Sessions
  <2> HIDE DEF part, data
  <2> QED BY <1>1, <1>3, <2>2, <2>3, <2>5
<1>5. IsPrefixOf(SubSeq(data, 1, n), data)
  BY <1>1, <1>2, PrefixGrows
<1> HIDE DEF stored, part, data, n, k
<1>6. ASSUME session' = session \/ (Open(layer) /\ session' = stored)
      PROVE  /\ k \in DOMAIN session' => IsPrefixOf(session'[k].data, data)
             /\ Covers(memory.current, source[layer], session')
  <2>1. k \in DOMAIN session' => IsPrefixOf(session'[k].data, data)
    BY <1>1, <1>4, <1>5, <1>6
  <2> QED BY <1>1, <2>1 DEF Covers, data
<1>7. CASE /\ Open(layer) /\ session' = stored /\ current' = Sent(n) /\ pc' = "savePart"
  <2>1. Covers(current', source[layer], session')
    BY <1>0, <1>2, <1>6, <1>7, SentCovers DEF k, data
  <2> QED BY <1>0, <1>6, <1>7, <2>1, WorkedData DEF AtSession
<1>8. CASE /\ session' = session \/ (Open(layer) /\ session' = stored)
           /\ pc' = "recover" /\ UNCHANGED current
  <2>1. Covers(current', source[layer], session')
    BY <1>1, <1>6, <1>8 DEF Covers, data
  <2> QED BY <1>0, <1>6, <1>8, <2>1, WorkedData DEF AtSession
<1> QED BY <1>7, <1>8 DEF UploadPart, stored, part, n, k

(* What the store lists after a failed part was sent of this layer.           *)
LEMMA RecoverData ==
  ASSUME Known, CertainInv, ~MirrorOfTag, scenario' = scenario, UNCHANGED source,
         RecoverRawDirectBlobPart \/ RecoverDirectBlobUpload \/ RecoveryFails
  PROVE  CertainInv'
<1> USE DEF upload, registry
<1>0. /\ pc = "recover" /\ pc \in AtSession /\ UNCHANGED <<secret, memory, layer, registry>>
      /\ pc' \in AtSession \cup {"abort"} /\ pc' # "complete"
  BY DEF RecoverRawDirectBlobPart, RecoverDirectBlobUpload, RecoveryFails, AtSession, Recovered, Retry
<1>1. /\ Key(layer) \in DOMAIN session /\ current.sent \in Nat /\ Len(session[Key(layer)].data) \in Nat
      /\ Size(layer) \in Nat /\ Size(layer) = Len(source[layer].data)
      /\ IsPrefixOf(session[Key(layer)].data, source[layer].data)
      /\ Covers(current, source[layer], session) /\ Covers(memory.current, source[layer], session)
  BY <1>0, AtCovered
<1>2. Listed(layer) \in Nat /\ Listed(layer) <= Len(session[Key(layer)].data)
  BY <1>1, ListedIs DEF Known
<1>3. Listed(layer) <= Size(layer)
  BY <1>1, <1>2 DEF IsPrefixOf
<1>4. CASE UNCHANGED current
  BY <1>0, <1>1, <1>4, WorkedData
<1>5. CASE current' = Sent(Listed(layer)) /\ (~Raw(layer) \/ Listed(layer) >= current.sent)
  <2>1. Covers(current', source[layer], session')
    <3>1. CASE ~Raw(layer)
      <4>1. current \in Currents /\ source[layer].kind # "raw"
        BY <3>1 DEF Known, SessionInv, UploadTypeOK, Raw
      <4>2. /\ current'.layer = current.layer /\ current'.total = current.total
            /\ current'.sent = Listed(layer)
        BY <1>5, <4>1 DEF Sent, Currents
      <4> QED BY <1>0, <1>1, <1>3, <4>1, <4>2 DEF Covers
    <3>2. CASE Listed(layer) >= current.sent
      BY <1>0, <1>1, <1>2, <1>3, <1>5, <3>2, SentCovers
    <3> QED BY <1>5, <3>1, <3>2
  <2> QED BY <1>0, <1>1, <2>1, WorkedData
<1>6. CASE RecoverRawDirectBlobPart
  BY <1>1, <1>2, <1>4, <1>5, <1>6 DEF RecoverRawDirectBlobPart, Retry
<1>7. CASE RecoverDirectBlobUpload
  BY <1>5, <1>7 DEF RecoverDirectBlobUpload
<1>8. CASE RecoveryFails
  BY <1>4, <1>8 DEF RecoveryFails
<1> QED BY <1>6, <1>7, <1>8

(* What was sent is saved.                                                    *)
LEMMA SaveData ==
  ASSUME Known, CertainInv, ~MirrorOfTag, scenario' = scenario, UNCHANGED source, SaveRunningLayer \/ MarkSealing
  PROVE  CertainInv'
<1> USE DEF upload, registry
<1>0. /\ pc \in AtSession /\ pc \in AtLayer \ {"abort"}
      /\ UNCHANGED <<layer, recoveries, current, session, sealed, manifest>>
  BY DEF SaveRunningLayer, MarkSealing, AtSession, AtLayer
<1>1. current \in Currents /\ Covers(current, source[layer], session)
  BY <1>0, AtCovered
<1>2. secret.current = Nothing \/ IsFitting(secret.current, secret.plan, session)
  BY DEF CertainInv, FittingInv
<1>3. \E next \in {"parts", "complete"}, onError \in {"fail", "abort"} :
        Save(Running(current'), next, onError) /\ (next = "complete" => current.sent = Size(layer))
  BY <1>0 DEF SaveRunningLayer, MarkSealing
<1>4. PICK next \in {"parts", "complete"}, onError \in {"fail", "abort"} :
        Save(Running(current'), next, onError) /\ (next = "complete" => current.sent = Size(layer))
  BY <1>3
<1> QED BY <1>0, <1>1, <1>2, <1>4, RunningData

(* A step that leaves the layers for good, or has not come to them, whatever   *)
(* it does to sessions and manifest.                                          *)
LEMMA EndsWork ==
  ASSUME Known, CertainInv, scenario' = scenario, pc' \notin Loaded, UNCHANGED <<secret, sealed>>,
         DataKept(session, session'), ArtifactOfOneRevision'
  PROVE  CertainInv'
<1>1. FittingInv'
  <2>1. secret.current # Nothing => IsFitting(secret.current, secret.plan, session')
    BY FittingKept DEF Known, CertainInv, FittingInv
  <2>2. secret.plan = NoPlan => secret.current = Nothing
    BY DEF CertainInv, FittingInv
  <2> QED BY <2>1, <2>2, FittingNext
<1>2. SealedInv'
  BY DEF CertainInv, SealedInv, DigestCoversLayer
<1>3. PlannedInv' /\ CoveredInv' /\ ProcessedInv'
  BY DEF PlannedInv, CoveredInv, ProcessedInv, Loaded, AtLayer, AtSession
<1> QED BY <1>1, <1>2, <1>3 DEF CertainInv

(* A step behind the layers.                                                  *)
LEMMA BehindLayers ==
  ASSUME CertainInv, UNCHANGED <<source, scenario, secret, memory, layer, session, sealed>>,
         pc \in AtEnd \cup {"config", "manifest"}, pc' \in AtEnd \cup {"manifest"},
         pc' = "manifest" => pc \in {"config", "manifest"}, ArtifactOfOneRevision'
  PROVE  CertainInv'
<1>1. FittingInv' /\ SealedInv'
  BY FittingNext DEF CertainInv, FittingInv, SealedInv, DigestCoversLayer
<1>2. PlannedInv'
  BY DEF CertainInv, PlannedInv, Plan, Loaded, AtEnd, AtLayer
<1>3. CoveredInv'
  BY DEF CoveredInv, AtSession, AtEnd
<1>4. ProcessedInv'
  BY DEF CertainInv, ProcessedInv, Processed, Raw, Key, AtEnd, AtLayer
<1> QED BY <1>1, <1>2, <1>3, <1>4 DEF CertainInv

(* A session that is complete is stored as the layer's data, and declared as   *)
(* them.                                                                     *)
LEMMA StoredWhole ==
  ASSUME Known, CertainInv, ~MirrorOfTag, pc = "complete", session[Key(layer)].state \in {"open", "done"}
  PROVE  session[Key(layer)].data = source[layer].data /\ Declared = source[layer].data
<1> DEFINE data == source[layer].data
           stored == session[Key(layer)].data
<1>1. pc \in AtSession /\ current.sent = Size(layer)
  BY DEF CertainInv, CoveredInv, AtSession
<1>2. /\ Size(layer) = Len(data) /\ Size(layer) \in Nat /\ data \in Seq(STRING)
      /\ stored \in Seq(STRING) /\ Len(stored) \in Nat
      /\ current.sent <= Len(stored) /\ IsPrefixOf(stored, data)
      /\ Covers(current, source[layer], session)
  BY <1>1, AtCovered
<1>3. Len(stored) = Len(data)
  BY <1>1, <1>2 DEF IsPrefixOf
<1>4. stored = data
  BY <1>2, <1>3, WholePrefix
<1>5. SubSeq(data, 1, Len(data)) = data
  BY <1>2, SubSeqFull
<1>6. Raw(layer) => current.hashed = data
  BY <1>1, <1>2, <1>5 DEF Covers, Raw
<1> QED BY <1>4, <1>6 DEF Declared

(* A session is sealed under its layer's digest, and no layer that was        *)
(* completed has its key.                                                     *)
LEMMA SealingData ==
  ASSUME Known, CertainInv, ~MirrorOfTag, pc = "complete", session[Key(layer)].state \in {"open", "done"},
         UNCHANGED <<source, scenario, secret, memory, layer, current, manifest>>,
         session' = [session EXCEPT ![Key(layer)].state = "done"],
         sealed' = Put(sealed, Key(layer), [data |-> session[Key(layer)].data, digest |-> Declared]),
         pc' \in {"complete", "completed", "fail"}
  PROVE  CertainInv'
<1> DEFINE k == Key(layer)
           data == source[layer].data
<1>0. pc \in AtSession /\ pc \in Loaded /\ pc \in AtLayer \ {"abort"} /\ pc # "plan"
  BY DEF AtSession, Loaded, AtLayer
<1>1. /\ layer \in DOMAIN source /\ k \in DOMAIN session /\ Key(layer) = DirectUploadLayerKey(source[layer])
      /\ Covers(current, source[layer], session) /\ Covers(memory.current, source[layer], session)
      /\ data \in Seq(STRING) /\ k.kind = source[layer].kind
  BY <1>0, AtCovered, AtPlanned
<1>2. /\ memory.completed = secret.completed /\ DistinctKeys(source) /\ memory.plan = secret.plan
      /\ source \in Seq(LayersOfSource) /\ layer \in 0 .. Len(source) /\ Len(source) \in Nat
      /\ DOMAIN source = 1 .. Len(source)
  BY <1>0, AtLoaded
<1>3. /\ \A x \in DOMAIN session : session[x] \in Sessions
      /\ session \in [DOMAIN session -> Sessions]
  BY DEF Known, SessionInv, UploadTypeOK, ByKey
<1>4. DOMAIN session' = DOMAIN session /\ \A x \in DOMAIN session : session'[x].data = session[x].data
  <2> HIDE DEF k
  <2> QED BY <1>1, <1>3 DEF Sessions, k
<1>5. DataKept(session, session')
  BY <1>4 DEF DataKept
<1>6. /\ sealed'[k].data = data /\ sealed'[k].digest = data
      /\ DOMAIN sealed' = DOMAIN sealed \cup {k}
      /\ \A x \in DOMAIN sealed : x # k => sealed'[x] = sealed[x]
  BY StoredWhole DEF Put
<1>7. FittingInv'
  <2>1. secret.current # Nothing => IsFitting(secret.current, secret.plan, session)
    BY DEF CertainInv, FittingInv
  <2>2. secret.current # Nothing => IsFitting(secret.current, secret.plan, session')
    BY <1>5, <2>1, FittingKept DEF Known
  <2>3. secret.plan = NoPlan => secret.current = Nothing
    BY DEF CertainInv, FittingInv
  <2> QED BY <2>2, <2>3, FittingNext
<1>8. PlannedInv'
  BY <1>0 DEF CertainInv, PlannedInv, Loaded, AtLayer, AtEnd, Plan
<1>9. CoveredInv'
  <2>1. Covers(current, source[layer], session') /\ Covers(memory.current, source[layer], session')
    BY <1>1, <1>5, CoversKept
  <2>2. Declared' = data /\ sealed'[Key(layer)'].data = data /\ Size(layer)' = Size(layer)
    BY <1>6, StoredWhole DEF Declared, Raw, Key, Size
  <2> QED BY <2>1, <2>2 DEF CertainInv, CoveredInv, AtSession
<1>10. SealedInv'
  <2>1. k.kind # "raw" => k \notin DOMAIN secret.completed
    BY <1>0, <1>1, <1>2 DEF CertainInv, ProcessedInv, Raw
  <2>2. DOMAIN secret.completed \subseteq DOMAIN sealed
    BY DEF Known, SessionInv, SecretInv
  <2> HIDE DEF k, data
  <2>3. \A x \in DOMAIN secret.completed : x.kind # "raw" => sealed'[x].digest = secret.completed[x]
    BY <1>6, <2>1, <2>2 DEF CertainInv, SealedInv
  <2>4. \A x \in DOMAIN sealed' : sealed'[x].data = sealed'[x].digest
    BY <1>6 DEF CertainInv, SealedInv, DigestCoversLayer
  <2> QED BY <2>3, <2>4 DEF SealedInv, DigestCoversLayer
<1>11. ProcessedInv'
  <2>1. ASSUME NEW m \in 1 .. layer - 1 PROVE Key(m) \in DOMAIN sealed' /\ sealed'[Key(m)].data = source[m].data
    <3>1. m \in DOMAIN source /\ m # layer
      BY <1>2
    <3>2. Key(m) # k
      BY <1>1, <1>2, <3>1 DEF DistinctKeys, Key
    <3>3. Key(m) \in DOMAIN sealed /\ sealed[Key(m)].data = source[m].data
      BY <1>0 DEF CertainInv, ProcessedInv, Processed, AtLayer
    <3> HIDE DEF k
    <3> QED BY <1>6, <3>2, <3>3
  <2> HIDE DEF k, data
  <2> QED BY <1>0, <2>1 DEF CertainInv, ProcessedInv, Processed, AtLayer, Key, Raw
<1>12. ArtifactOfOneRevision'
  BY ArtifactKept DEF CertainInv
<1> QED BY <1>7, <1>8, <1>9, <1>10, <1>11, <1>12 DEF CertainInv

(* The completion, its lost answer, or its failure.                           *)
LEMMA SealData ==
  ASSUME Known, CertainInv, ~MirrorOfTag, scenario' = scenario, UNCHANGED source, CompleteDirectUpload
  PROVE  CertainInv'
<1> USE DEF upload, registry
<1>0. pc = "complete" /\ UNCHANGED <<secret, memory, layer, current, recoveries, manifest>>
  BY DEF CompleteDirectUpload
<1>1. CASE UNCHANGED <<session, sealed>> /\ pc' = "fail"
  <2>1. pc' \notin Loaded
    BY <1>1 DEF Loaded, AtLayer, AtEnd
  <2> QED BY <1>0, <1>1, <2>1, OffWork
<1>2. CASE UNCHANGED <<session, sealed>> /\ pc' = pc
  BY <1>0, <1>2, SameData
<1>3. CASE /\ session[Key(layer)].state \in {"open", "done"}
           /\ session' = [session EXCEPT ![Key(layer)].state = "done"]
           /\ sealed' = Put(sealed, Key(layer), [data |-> session[Key(layer)].data, digest |-> Declared])
           /\ pc' \in {"complete", "completed", "fail"}
  BY <1>0, <1>3, SealingData
<1> QED BY <1>0, <1>1, <1>2, <1>3 DEF CompleteDirectUpload, Retried

(* The layer's digest becomes part of the checkpoint.                         *)
LEMMA CompletedData ==
  ASSUME Known, CertainInv, ~MirrorOfTag, scenario' = scenario, UNCHANGED source, MarkLayerCompleted
  PROVE  CertainInv'
<1> USE DEF upload, registry
<1> DEFINE k == Key(layer)
           s == [Running(Nothing) EXCEPT !.completed = Put(@, k, Declared)]
<1>0. /\ pc = "completed" /\ pc \in AtLayer /\ pc \in Loaded /\ pc # "plan"
      /\ UNCHANGED <<layer, current, recoveries, session, sealed, manifest>> /\ Save(s, "next", "fail")
  BY DEF MarkLayerCompleted, AtLayer, Loaded
<1>1. /\ IsCheckpoint(secret) /\ IsCheckpoint(memory) /\ memory.completed = secret.completed /\ memory.plan = secret.plan
      /\ DistinctKeys(source) /\ source \in Seq(LayersOfSource) /\ Len(source) \in Nat /\ layer \in 0 .. Len(source)
      /\ Plan = secret.plan
  BY <1>0, AtLoaded
<1>2. /\ k \in Keys /\ source[layer].data \in Contents /\ Plan # NoPlan /\ layer \in Nat
  BY <1>0, AtPlanned DEF Contents
<1>3. Declared = source[layer].data /\ k \in DOMAIN sealed /\ sealed[k].data = source[layer].data
  BY <1>0 DEF CertainInv, CoveredInv, Known, SessionInv, OpenedInv
<1>4. /\ IsCheckpoint(Running(Nothing)) /\ Running(Nothing).current = Nothing
      /\ Running(Nothing).plan = memory.plan /\ Running(Nothing).completed = memory.completed
  BY <1>1, NothingTyped, RunningTyped
<1> DEFINE completed == Put(memory.completed, k, Declared)
<1>5. ByKey(completed, Contents)
  <2>1. ByKey(memory.completed, Contents)
    BY <1>1 DEF IsCheckpoint
  <2> HIDE DEF k
  <2> QED BY <1>2, <1>3, <2>1 DEF Put, ByKey
<1>6. /\ DOMAIN completed = DOMAIN secret.completed \cup {k} /\ completed[k] = source[layer].data
      /\ \A x \in DOMAIN secret.completed : x # k => completed[x] = secret.completed[x]
  BY <1>1, <1>3 DEF Put
<1>7. IsCheckpoint(s) /\ s.current = Nothing /\ s.plan = secret.plan /\ s.completed = completed
  <2> HIDE DEF completed
  <2>1. s = [Running(Nothing) EXCEPT !.completed = completed]
    BY <1>4 DEF completed, IsCheckpoint
  <2> HIDE DEF s
  <2> QED BY <1>1, <1>4, <1>5, <2>1 DEF IsCheckpoint
<1> HIDE DEF s, completed
<1>8. /\ memory' = s /\ pc' \in {"next", "fail"}
      /\ secret' = secret \/ (secret'.plan = secret.plan /\ secret'.completed = completed /\ secret'.current = Nothing)
      /\ pc' = "next" => secret'.plan = secret.plan /\ secret'.completed = completed /\ secret'.current = Nothing
  BY <1>0, <1>1, <1>7, SavedHas
<1>9. FittingInv'
  BY <1>0, <1>1, <1>2, <1>8, FittingNext DEF CertainInv, FittingInv
<1>10. PlannedInv'
  BY <1>0, <1>1, <1>7, <1>8 DEF CertainInv, PlannedInv, Loaded, AtLayer, AtEnd, Plan
<1>11. CoveredInv'
  BY <1>8 DEF CoveredInv, AtSession
<1>12. SealedInv'
  <2>1. /\ \A x \in DOMAIN secret.completed : x.kind # "raw" => sealed[x].digest = secret.completed[x]
        /\ \A x \in DOMAIN sealed : sealed[x].data = sealed[x].digest
    BY DEF CertainInv, SealedInv, DigestCoversLayer
  <2> HIDE DEF k
  <2>2. \A x \in DOMAIN completed : x.kind # "raw" => sealed[x].digest = completed[x]
    BY <1>3, <1>6, <2>1
  <2> QED BY <1>0, <1>8, <2>1, <2>2 DEF SealedInv, DigestCoversLayer
<1>13. ProcessedInv'
  <2>1. ASSUME NEW m \in 1 .. layer PROVE Key(m) \in DOMAIN sealed /\ sealed[Key(m)].data = source[m].data
    <3>1. m \in 1 .. layer - 1 \/ m = layer
      BY <1>2
    <3> QED BY <1>0, <1>3, <3>1 DEF CertainInv, ProcessedInv, Processed
  <2> HIDE DEF k
  <2> QED BY <1>0, <1>8, <2>1 DEF ProcessedInv, Processed, AtLayer, Key
<1>14. ArtifactOfOneRevision'
  BY <1>0, ArtifactKept DEF CertainInv
<1> QED BY <1>9, <1>10, <1>11, <1>12, <1>13, <1>14 DEF CertainInv

(* The manifest names the layers of the revision this worker found.           *)
LEMMA ManifestData ==
  ASSUME Known, CertainInv, ~MirrorOfTag, scenario' = scenario, UNCHANGED source, PublishManifest
  PROVE  CertainInv'
<1> USE DEF upload, registry
<1> DEFINE named == [k \in KeysOf(source) |-> sealed[k]]
<1>0. /\ pc = "manifest" /\ UNCHANGED <<secret, memory, layer, current, recoveries, session, sealed>>
      /\ manifest' \in {manifest, named} /\ pc' \in {"inspect", "fail"} /\ pc \in Loaded
  BY DEF PublishManifest, Loaded, AtEnd
<1>1. /\ source = Layered(scenario, resolved) /\ resolved \in DOMAIN scenario.revisions
      /\ source \in Seq(LayersOfSource) /\ DOMAIN source = 1 .. Len(source)
  BY <1>0, AtLoaded
<1>2. \A l \in DOMAIN source : sealed[Key(l)].data = source[l].data
  BY <1>0, <1>1 DEF CertainInv, ProcessedInv, Processed, AtLayer
<1>3. DOMAIN named = KeysOf(source) /\ \A l \in DOMAIN source : named[DirectUploadLayerKey(source[l])].data = source[l].data
  BY <1>2 DEF KeysOf, Key
<1>4. ArtifactOfOneRevision'
  <2>1. CASE manifest' = manifest
    BY <2>1, ArtifactKept DEF CertainInv
  <2>2. CASE manifest' = named
    <3> HIDE DEF named
    <3> QED BY <1>1, <1>3, <2>2 DEF ArtifactOfOneRevision
  <2> QED BY <1>0, <2>1, <2>2
<1> HIDE DEF named
<1>5. CASE pc' = "fail"
  <2>1. pc' \notin Loaded
    BY <1>5 DEF Loaded, AtLayer, AtEnd
  <2>2. DataKept(session, session')
    BY <1>0 DEF DataKept
  <2> QED BY <1>0, <1>4, <2>1, <2>2, EndsWork
<1>6. CASE pc' = "inspect"
  BY <1>0, <1>4, <1>6, BehindLayers DEF AtEnd
<1> QED BY <1>0, <1>5, <1>6

(* A step that only goes from one place behind the layers to the next, or     *)
(* fails.                                                                    *)
LEMMA BehindData ==
  ASSUME Known, CertainInv, scenario' = scenario, UNCHANGED source,
         UploadPublishConfig \/ InspectPublishedModelPack
  PROVE  CertainInv'
<1> USE DEF upload, registry
<1>0. /\ UNCHANGED <<secret, memory, layer, current, recoveries, session, sealed, manifest>>
      /\ \/ pc' = "fail"
         \/ pc = "config" /\ pc' = "manifest"
         \/ pc = "inspect" /\ pc' = "published"
  BY DEF UploadPublishConfig, InspectPublishedModelPack
<1>1. ArtifactOfOneRevision'
  BY <1>0, ArtifactKept DEF CertainInv
<1>2. CASE pc' = "fail"
  <2>1. pc' \notin Loaded
    BY <1>2 DEF Loaded, AtLayer, AtEnd
  <2> QED BY <1>0, <2>1, OffWork
<1>3. CASE pc' # "fail"
  BY <1>0, <1>1, <1>3, BehindLayers DEF AtEnd
<1> QED BY <1>2, <1>3

(* A session that is aborted or expires keeps what it has.                    *)
LEMMA StateOnly ==
  ASSUME Known, NEW k \in DOMAIN session, NEW state, session' = [session EXCEPT ![k].state = state]
  PROVE  DataKept(session, session') /\ DOMAIN session' = DOMAIN session
<1>1. \A x \in DOMAIN session : session[x] \in Sessions
  BY SessionIs DEF Known
<1>2. \A x \in DOMAIN session : session'[x].data = session[x].data
  BY <1>1 DEF Sessions
<1> QED BY <1>2 DEF DataKept

(* A session is aborted.                                                      *)
LEMMA AbortData ==
  ASSUME Known, CertainInv, scenario' = scenario, UNCHANGED source, AbortSession
  PROVE  CertainInv'
<1> USE DEF upload
<1>0. pc = "abort" /\ pc' = "fail" /\ UNCHANGED <<secret, memory, layer, sealed, manifest>> /\ pc' \notin Loaded
  BY DEF AbortSession, Loaded, AtLayer, AtEnd
<1>1. Key(layer) \in DOMAIN session
  BY <1>0 DEF Known, SessionInv, OpenedInv, AtLayer
<1>2. DataKept(session, session')
  <2>1. CASE session' = session
    BY <2>1 DEF DataKept
  <2>2. CASE session' # session
    <3>1. session' = [session EXCEPT ![Key(layer)].state =
                        IF session[Key(layer)].state = "open" THEN "aborted" ELSE session[Key(layer)].state]
      BY <2>2 DEF AbortSession
    <3> QED BY <1>1, <3>1, StateOnly
  <2> QED BY <2>1, <2>2
<1>3. ArtifactOfOneRevision'
  BY <1>0, ArtifactKept DEF CertainInv
<1> QED BY <1>0, <1>2, <1>3, EndsWork

(* A session expires.                                                         *)
LEMMA ExpireData ==
  ASSUME Known, CertainInv, ~MirrorOfTag, scenario' = scenario, UNCHANGED source,
         NEW k \in DOMAIN session, SessionExpires(k)
  PROVE  CertainInv'
<1> USE DEF upload
<1>0. /\ UNCHANGED <<secret, memory, pc, layer, current, recoveries, sealed, manifest>>
      /\ session' = [session EXCEPT ![k].state = "expired"]
  BY DEF SessionExpires
<1>1. DataKept(session, session') /\ DOMAIN session' = DOMAIN session
  BY <1>0, StateOnly
<1>2. FittingInv'
  <2>1. secret.current # Nothing => IsFitting(secret.current, secret.plan, session)
    BY DEF CertainInv, FittingInv
  <2>2. secret.current # Nothing => IsFitting(secret.current, secret.plan, session')
    BY <1>1, <2>1, FittingKept DEF Known
  <2>3. secret.plan = NoPlan => secret.current = Nothing
    BY DEF CertainInv, FittingInv
  <2> QED BY <1>0, <2>2, <2>3, FittingNext
<1>3. PlannedInv' /\ SealedInv' /\ ProcessedInv'
  BY <1>0 DEF CertainInv, PlannedInv, Plan, SealedInv, DigestCoversLayer, ProcessedInv, Processed, Raw, Key
<1>4. CoveredInv'
  <2>1. ASSUME pc \in AtSession
        PROVE  Covers(current, source[layer], session') /\ Covers(memory.current, source[layer], session')
    <3>1. /\ source[layer].data \in Seq(STRING)
          /\ Covers(current, source[layer], session) /\ Covers(memory.current, source[layer], session)
      BY <2>1, AtCovered
    <3> QED BY <1>1, <3>1, CoversKept
  <2>2. Declared' = Declared /\ Size(layer)' = Size(layer) /\ Key(layer)' = Key(layer)
    BY <1>0 DEF Declared, Raw, Size, Key
  <2> QED BY <1>0, <2>1, <2>2 DEF CertainInv, CoveredInv
<1>5. ArtifactOfOneRevision'
  BY <1>0, ArtifactKept DEF CertainInv
<1> QED BY <1>2, <1>3, <1>4, <1>5 DEF CertainInv

(* The worker ends, whichever way.                                            *)
LEMMA EndData ==
  ASSUME Known, CertainInv, scenario' = scenario, UNCHANGED source,
         PersistDirectUploadTerminalState \/ Terminate \/ Kill
  PROVE  CertainInv'
<1> USE DEF upload, registry
<1>0. pc' \in Ended /\ UNCHANGED <<memory, layer, current, recoveries, registry>>
  BY DEF PersistDirectUploadTerminalState, Terminate, Kill, Exit, Ended
<1>1. pc' \notin Loaded
  BY <1>0 DEF Ended, Loaded, AtLayer, AtEnd
<1>2. /\ secret'.current \in {secret.current, Nothing} /\ secret'.plan = secret.plan
      /\ secret'.completed = secret.completed
  <2>1. CASE UNCHANGED secret
    BY <2>1
  <2>2. CASE ~UNCHANGED secret
    <3> DEFINE phase == IF pc = "finish" THEN "Completed" ELSE "Failed"
               s == [secret EXCEPT !.phase = phase]
    <3>1. secret' = NormalizeState(s)
      BY <2>2 DEF PersistDirectUploadTerminalState, Terminate, Kill
    <3>2. IsCheckpoint(secret)
      BY DEF Known, SessionInv, UploadTypeOK
    <3>3. IsCheckpoint(s) /\ s.current = secret.current /\ s.plan = secret.plan /\ s.completed = secret.completed
      BY <3>2 DEF IsCheckpoint
    <3> HIDE DEF s
    <3> QED BY <3>1, <3>3, NormalizesTo
  <2> QED BY <2>1, <2>2
<1> QED BY <1>0, <1>1, <1>2, OffWork

(* A source is fetched, or the worker created again.                          *)
LEMMA FetchData ==
  ASSUME Known, CertainInv, \/ ResolveSource \/ InspectUpload \/ ReserveRemoteStorage
                            \/ PrepareSourceMirror \/ MirrorFile \/ MirrorPublishFiles \/ MirrorFails
                            \/ Recreate
  PROVE  CertainInv'
<1> USE DEF upload, registry, unfetched
<1>1. /\ scenario' = scenario /\ UNCHANGED <<secret, registry>>
      /\ pc' \in {"fetch", "fail", "reserve", "load", "mirror", "file", "mirrorFail", "upload", "download", "assemble"}
  <2>1. CASE ResolveSource \/ InspectUpload \/ ReserveRemoteStorage
    BY <2>1 DEF ResolveSource, InspectUpload, ReserveRemoteStorage, StartUpload
  <2>2. CASE PrepareSourceMirror \/ MirrorPublishFiles \/ MirrorFails \/ Recreate
    BY <2>2 DEF PrepareSourceMirror, MirrorPublishFiles, MirrorFails, Recreate
  <2>3. CASE MirrorFile
    BY <2>3 DEF MirrorFile, StatFile, EnsureUpload, DownloadPart, CompleteMultipartUpload
  <2> QED BY <2>1, <2>2, <2>3
<1>2. pc' \notin Loaded
  BY <1>1 DEF Loaded, AtLayer, AtEnd
<1> QED BY <1>1, <1>2, OffWork

(* The staged upload is deleted.                                              *)
LEMMA CleanupData ==
  ASSUME Known, CertainInv, CleanupStagedUploadObject
  PROVE  CertainInv'
<1> USE DEF upload, registry
<1>0. /\ pc = "published" /\ UNCHANGED <<secret, memory, layer, registry, source, scenario>>
      /\ pc' \in {"finish", "fail"}
  BY DEF CleanupStagedUploadObject
<1>1. CASE pc' = "finish"
  <2>1. ArtifactOfOneRevision'
    BY <1>0, ArtifactKept DEF CertainInv
  <2> QED BY <1>0, <1>1, <2>1, BehindLayers DEF AtEnd
<1>2. CASE pc' = "fail"
  <2>1. pc' \notin Loaded
    BY <1>2 DEF Loaded, AtLayer, AtEnd
  <2> QED BY <1>0, <2>1, OffWork
<1> QED BY <1>0, <1>1, <1>2

(* All of this stays with every step.                                         *)
LEMMA CertainNext ==
  ASSUME Known, CertainInv, ~MirrorOfTag, ~Confusable, [Next]_vars
  PROVE  CertainInv'
<1>1. CASE UNCHANGED vars
  BY <1>1, SameData DEF vars, uploadVars, upload, fetching
<1>2. CASE UploadStep /\ UNCHANGED <<source, fetching>>
  <2>1. UNCHANGED <<source, scenario>>
    BY <1>2 DEF fetching
  <2>2. CASE LoadCheckpoint \/ EnsureProgressPlan \/ UploadPublishLayer
    BY <2>1, <2>2, LoadData, PlanData, NextLayerData
  <2>3. CASE ResumeSession \/ StartSession \/ UploadPart
    BY <2>1, <2>3, ResumeData, StartData, PartData
  <2>4. CASE RecoverRawDirectBlobPart \/ RecoverDirectBlobUpload \/ RecoveryFails
    BY <2>1, <2>4, RecoverData
  <2>5. CASE SaveRunningLayer \/ MarkSealing
    BY <2>1, <2>5, SaveData
  <2>6. CASE CompleteDirectUpload \/ MarkLayerCompleted
    BY <2>1, <2>6, SealData, CompletedData
  <2>7. CASE UploadPublishConfig \/ PublishManifest \/ InspectPublishedModelPack
    BY <2>1, <2>7, BehindData, ManifestData
  <2>8. CASE PersistDirectUploadTerminalState \/ AbortSession
    BY <2>1, <2>8, EndData, AbortData
  <2> QED BY <1>2, <2>2, <2>3, <2>4, <2>5, <2>6, <2>7, <2>8 DEF UploadStep
<1>3. CASE Interruption /\ UNCHANGED <<source, fetching>>
  <2>1. UNCHANGED <<source, scenario>>
    BY <1>3 DEF fetching
  <2>2. CASE Terminate \/ Kill
    BY <2>1, <2>2, EndData
  <2>3. CASE \E k \in DOMAIN session : SessionExpires(k)
    BY <2>1, <2>3, ExpireData
  <2> QED BY <1>3, <2>2, <2>3 DEF Interruption
<1>4. CASE \/ ResolveSource \/ InspectUpload \/ ReserveRemoteStorage
           \/ PrepareSourceMirror \/ MirrorFile \/ MirrorPublishFiles \/ MirrorFails
           \/ Recreate
  BY <1>4, FetchData
<1>5. CASE CleanupStagedUploadObject
  BY <1>5, CleanupData
<1> QED BY <1>1, <1>2, <1>3, <1>4, <1>5 DEF Next, Work

(* At first there is nothing to be mistaken for something else.               *)
LEMMA CertainInit == Init => CertainInv
<1> SUFFICES ASSUME Init PROVE CertainInv
  OBVIOUS
<1>1. /\ secret.current = Nothing /\ secret.completed = <<>> /\ sealed = <<>> /\ manifest = <<>> /\ pc = "fetch"
  BY DEF Init, UploadInit
<1>2. FittingInv /\ PlannedInv /\ CoveredInv /\ ProcessedInv
  BY <1>1 DEF FittingInv, PlannedInv, CoveredInv, ProcessedInv, Loaded, AtLayer, AtSession, AtEnd
<1>3. SealedInv /\ ArtifactOfOneRevision
  BY <1>1 DEF SealedInv, DigestCoversLayer, ArtifactOfOneRevision
<1> QED BY <1>2, <1>3 DEF CertainInv

(* What is published never changes.                                           *)
LEMMA ScenarioKept ==
  ASSUME [Next]_vars
  PROVE  scenario' = scenario
<1> USE DEF fetching, unfetched
<1>1. CASE MirrorFile
  BY <1>1 DEF MirrorFile, StatFile, EnsureUpload, DownloadPart, CompleteMultipartUpload
<1>2. CASE ~MirrorFile
  BY <1>2 DEF Next, Work, vars, ResolveSource, InspectUpload, ReserveRemoteStorage, PrepareSourceMirror,
              MirrorPublishFiles, MirrorFails, CleanupStagedUploadObject, Recreate
<1> QED BY <1>1, <1>2

-----------------------------------------------------------------------------
(* A worker that has its layers has some, and past the manifest there is one. *)

LayersInv ==
  /\ pc \in Loaded => Planned # {}
  /\ pc \in AtEnd => DOMAIN manifest # {}
  /\ StagedUntilPublished

(* Nothing is in the domain of the empty sequence.                            *)
LEMMA EmptyHasNoDomain == DOMAIN <<>> = {}
OBVIOUS

(* At first the worker has no layers.                                         *)
LEMMA LayersInit == Init => LayersInv
BY EmptyHasNoDomain DEF Init, UploadInit, LayersInv, StagedUntilPublished, AtLayer, AtEnd, Loaded

(* It loads only some, and names all of them in the manifest.                 *)
LEMMA LayersNext == LayersInv /\ [Next]_vars => LayersInv'
<1> SUFFICES ASSUME LayersInv, [Next]_vars PROVE LayersInv'
  OBVIOUS
<1> USE DEF LayersInv, StagedUntilPublished, AtLayer, AtEnd, Loaded, Planned, uploadVars, fetching, upload,
    registry
<1>1. ASSUME ResolveSource PROVE LayersInv'
  BY <1>1 DEF ResolveSource
<1>2. ASSUME InspectUpload PROVE LayersInv'
  BY <1>2 DEF InspectUpload, StartUpload
<1>3. ASSUME ReserveRemoteStorage PROVE LayersInv'
  BY <1>3 DEF ReserveRemoteStorage, StartUpload
<1>4. ASSUME PrepareSourceMirror PROVE LayersInv'
  BY <1>4 DEF PrepareSourceMirror, unfetched
<1>5. ASSUME StatFile PROVE LayersInv'
  BY <1>5 DEF StatFile, unfetched
<1>6. ASSUME EnsureUpload PROVE LayersInv'
  BY <1>6 DEF EnsureUpload, unfetched
<1>7. ASSUME DownloadPart PROVE LayersInv'
  BY <1>7 DEF DownloadPart, unfetched
<1>8. ASSUME CompleteMultipartUpload PROVE LayersInv'
  BY <1>8 DEF CompleteMultipartUpload, unfetched
<1>9. ASSUME MirrorPublishFiles PROVE LayersInv'
  BY <1>9 DEF MirrorPublishFiles, unfetched
<1>10. ASSUME MirrorFails PROVE LayersInv'
  BY <1>10 DEF MirrorFails, unfetched
<1>11. ASSUME CleanupStagedUploadObject PROVE LayersInv'
  BY <1>11, EmptyHasNoDomain DEF CleanupStagedUploadObject
<1>12. ASSUME Recreate PROVE LayersInv'
  BY <1>12 DEF Recreate
<1>13. ASSUME LoadCheckpoint, UNCHANGED <<source, fetching>> PROVE LayersInv'
  BY <1>13 DEF LoadCheckpoint, PlanPublishLayers
<1>14. ASSUME EnsureProgressPlan, UNCHANGED <<source, fetching>> PROVE LayersInv'
  BY <1>14 DEF EnsureProgressPlan, Save
<1>15. ASSUME UploadPublishLayer, UNCHANGED <<source, fetching>> PROVE LayersInv'
  BY <1>15 DEF UploadPublishLayer
<1>16. ASSUME ResumeSession, UNCHANGED <<source, fetching>> PROVE LayersInv'
  BY <1>16 DEF ResumeSession, Save, Retried
<1>17. ASSUME StartSession, UNCHANGED <<source, fetching>> PROVE LayersInv'
  BY <1>17 DEF StartSession, Save, Retried
<1>18. ASSUME UploadPart, UNCHANGED <<source, fetching>> PROVE LayersInv'
  BY <1>18 DEF UploadPart
<1>19. ASSUME RecoverRawDirectBlobPart, UNCHANGED <<source, fetching>> PROVE LayersInv'
  BY <1>19 DEF RecoverRawDirectBlobPart, Recovered, Retry
<1>20. ASSUME RecoverDirectBlobUpload, UNCHANGED <<source, fetching>> PROVE LayersInv'
  BY <1>20 DEF RecoverDirectBlobUpload, Recovered, Retry
<1>21. ASSUME RecoveryFails, UNCHANGED <<source, fetching>> PROVE LayersInv'
  BY <1>21 DEF RecoveryFails
<1>22. ASSUME SaveRunningLayer, UNCHANGED <<source, fetching>> PROVE LayersInv'
  BY <1>22 DEF SaveRunningLayer, Save
<1>23. ASSUME MarkSealing, UNCHANGED <<source, fetching>> PROVE LayersInv'
  BY <1>23 DEF MarkSealing, Save
<1>24. ASSUME CompleteDirectUpload, UNCHANGED <<source, fetching>> PROVE LayersInv'
  BY <1>24 DEF CompleteDirectUpload, Retried
<1>25. ASSUME MarkLayerCompleted, UNCHANGED <<source, fetching>> PROVE LayersInv'
  BY <1>25 DEF MarkLayerCompleted, Save
<1>26. ASSUME UploadPublishConfig, UNCHANGED <<source, fetching>> PROVE LayersInv'
  BY <1>26 DEF UploadPublishConfig
<1>27. ASSUME PublishManifest, UNCHANGED <<source, fetching>> PROVE LayersInv'
  BY <1>27 DEF PublishManifest, KeysOf
<1>28. ASSUME InspectPublishedModelPack, UNCHANGED <<source, fetching>> PROVE LayersInv'
  BY <1>28 DEF InspectPublishedModelPack
<1>29. ASSUME PersistDirectUploadTerminalState, UNCHANGED <<source, fetching>> PROVE LayersInv'
  BY <1>29 DEF PersistDirectUploadTerminalState, Exit
<1>30. ASSUME AbortSession, UNCHANGED <<source, fetching>> PROVE LayersInv'
  BY <1>30 DEF AbortSession
<1>31. ASSUME Terminate, UNCHANGED <<source, fetching>> PROVE LayersInv'
  BY <1>31 DEF Terminate, Ended
<1>32. ASSUME Kill, UNCHANGED <<source, fetching>> PROVE LayersInv'
  BY <1>32 DEF Kill, Ended, Exit
<1>33. ASSUME NEW k \in DOMAIN session, SessionExpires(k), UNCHANGED <<source, fetching>> PROVE LayersInv'
  BY <1>33 DEF SessionExpires
<1>34. ASSUME UNCHANGED vars PROVE LayersInv'
  BY <1>34 DEF vars
<1> QED
  BY <1>1, <1>2, <1>3, <1>4, <1>5, <1>6, <1>7, <1>8, <1>9, <1>10, <1>11, <1>12, <1>13, <1>14, <1>15, <1>16, <1>17,
      <1>18, <1>19, <1>20, <1>21, <1>22, <1>23, <1>24, <1>25, <1>26, <1>27, <1>28, <1>29, <1>30, <1>31, <1>32, <1>33,
          <1>34 DEF Next, Work, MirrorFile, UploadStep, Interruption

(* It never has none of them.                                                 *)
LEMMA LayersHold == Spec => []LayersInv
BY LayersInit, LayersNext, PTL DEF Spec

-----------------------------------------------------------------------------
(* What holds in every state.                                                 *)

(* The staged upload, the only copy of its model, is deleted only when the    *)
(* artifact is published: no error, termination or kill comes in between.     *)
THEOREM StagedIsKept == Spec => []StagedUntilPublished
<1>1. LayersInv => StagedUntilPublished
  BY DEF LayersInv
<1>2. QED BY <1>1, LayersHold, PTL

(* What is known of a state holds in every one.                               *)
LEMMA ResumedHolds == Spec => []ResumedInv
<1>1. Init => ResumedInv
  BY FetchInit, SessionInit, MirrorInit, CertainInit DEF ResumedInv, Known
<1>2. ResumedInv /\ [Next]_vars => ResumedInv'
  <2> SUFFICES ASSUME ResumedInv, [Next]_vars PROVE ResumedInv'
    OBVIOUS
  <2>1. FetchInv' /\ SessionInv' /\ MirrorInv'
    BY FetchNext, SessionNext, MirrorNext DEF ResumedInv, Known
  <2>2. Certain' => Certain
    BY ScenarioKept DEF Certain, MirrorOfTag, Confusable
  <2>3. Certain => CertainInv'
    BY CertainNext DEF ResumedInv, Certain
  <2> QED BY <2>1, <2>2, <2>3 DEF ResumedInv, Known
<1> QED BY <1>1, <1>2, PTL DEF Spec

(* Every variable of the worker, its checkpoint, the mirror and the registry   *)
(* has its type, for every source and every bound.                            *)
THEOREM WellTyped == Spec => []TypeOK
<1>1. ResumedInv => TypeOK
  BY DEF ResumedInv, Known, FetchInv, SessionInv, TypeOK, Entries, Fetching, AtMirror, AtFile, Loaded, AtLayer, AtEnd, Failing
<1> QED BY <1>1, ResumedHolds, PTL

(* The checkpoint is never ahead of the store: what it says was sent of a      *)
(* session that is open is there, and a layer that it calls completed is       *)
(* sealed, however saves, parts, seals and their lost answers fall between     *)
(* interruptions.                                                            *)
THEOREM BehindTheStore == Spec => []CheckpointBehindStore
<1>1. ResumedInv => CheckpointBehindStore
  BY DEF ResumedInv, Known, SessionInv, SecretInv, BehindIn, CheckpointBehindStore, SentIsStored, CompletedIsSealed
<1> QED BY <1>1, ResumedHolds, PTL

(* A layer the checkpoint calls completed, which no later worker sends again   *)
(* if it was packed, is in the registry.                                      *)
THEOREM CheckpointKeepsItsLayers == Spec => []CompletedIsSealed
<1>1. CheckpointBehindStore => CompletedIsSealed
  BY DEF CheckpointBehindStore
<1> QED BY <1>1, BehindTheStore, PTL

(* An object of the mirror is a whole file of the commit its snapshot is of,   *)
(* whichever copies were started, left and gone on with.                      *)
THEOREM MirrorHasFiles == Spec => []MirrorIsWhole
<1>1. ResumedInv => MirrorIsWhole
  BY MirrorHolds DEF ResumedInv, Known
<1> QED BY <1>1, ResumedHolds, PTL

(* A worker goes on soundly from whatever an earlier one left: checkpoint and  *)
(* mirror are sound, the staged upload is there until the artifact is, and, if *)
(* no two revisions can be taken for one another, every blob is stored under   *)
(* the digest of what it holds and the artifact is of one revision.           *)
THEOREM GoesOnSoundly == Spec => []ResumesSoundly
<1>1. ResumedInv /\ StagedUntilPublished /\ CheckpointBehindStore /\ MirrorIsWhole => ResumesSoundly
  BY DEF ResumedInv, CertainInv, SealedInv, Certain, ResumesSoundly
<1> QED BY <1>1, ResumedHolds, StagedIsKept, BehindTheStore, MirrorHasFiles, PTL

-----------------------------------------------------------------------------
(* The publication of an artifact: the completion of a layer stores it, the    *)
(* manifest publishes them, the terminal state of the checkpoint ends it; all  *)
(* else is the worker's own affair.                                          *)
LEMMA PublicationInit == Init => Publication!Init
BY EmptyHasNoDomain DEF Init, UploadInit, Publication!Init

(* Every step of the worker is one of the publication's, or none.             *)
LEMMA PublicationNext == LayersInv /\ Known /\ [Next]_vars => [Publication!Next]_(Publication!vars)
<1> DEFINE Step == [Publication!Next]_(Publication!vars)
<1> SUFFICES ASSUME LayersInv, Known, [Next]_vars PROVE Step
  OBVIOUS
<1> USE DEF LayersInv, AtLayer, AtEnd, Loaded, Planned, uploadVars, fetching, upload, registry,
            Publication!vars, Publication!Next, Publication!Store, Publication!Publish, Publication!Succeed,
                Publication!Fail
<1>1. ASSUME ResolveSource PROVE Step
  BY <1>1 DEF ResolveSource
<1>2. ASSUME InspectUpload PROVE Step
  BY <1>2 DEF InspectUpload, StartUpload
<1>3. ASSUME ReserveRemoteStorage PROVE Step
  BY <1>3 DEF ReserveRemoteStorage, StartUpload
<1>4. ASSUME PrepareSourceMirror PROVE Step
  BY <1>4 DEF PrepareSourceMirror, unfetched
<1>5. ASSUME StatFile PROVE Step
  BY <1>5 DEF StatFile, unfetched
<1>6. ASSUME EnsureUpload PROVE Step
  BY <1>6 DEF EnsureUpload, unfetched
<1>7. ASSUME DownloadPart PROVE Step
  BY <1>7 DEF DownloadPart, unfetched
<1>8. ASSUME CompleteMultipartUpload PROVE Step
  BY <1>8 DEF CompleteMultipartUpload, unfetched
<1>9. ASSUME MirrorPublishFiles PROVE Step
  BY <1>9 DEF MirrorPublishFiles, unfetched
<1>10. ASSUME MirrorFails PROVE Step
  BY <1>10 DEF MirrorFails, unfetched
<1>11. ASSUME CleanupStagedUploadObject PROVE Step
  BY <1>11 DEF CleanupStagedUploadObject
<1>12. ASSUME Recreate PROVE Step
  BY <1>12 DEF Recreate
<1>13. ASSUME LoadCheckpoint, UNCHANGED <<source, fetching>> PROVE Step
  BY <1>13 DEF LoadCheckpoint
<1>14. ASSUME EnsureProgressPlan, UNCHANGED <<source, fetching>> PROVE Step
  BY <1>14 DEF EnsureProgressPlan, Save
<1>15. ASSUME UploadPublishLayer, UNCHANGED <<source, fetching>> PROVE Step
  BY <1>15 DEF UploadPublishLayer
<1>16. ASSUME ResumeSession, UNCHANGED <<source, fetching>> PROVE Step
  BY <1>16 DEF ResumeSession, Save, Retried
<1>17. ASSUME StartSession, UNCHANGED <<source, fetching>> PROVE Step
  BY <1>17 DEF StartSession, Save, Retried
<1>18. ASSUME UploadPart, UNCHANGED <<source, fetching>> PROVE Step
  BY <1>18 DEF UploadPart
<1>19. ASSUME RecoverRawDirectBlobPart, UNCHANGED <<source, fetching>> PROVE Step
  BY <1>19 DEF RecoverRawDirectBlobPart, Recovered, Retry
<1>20. ASSUME RecoverDirectBlobUpload, UNCHANGED <<source, fetching>> PROVE Step
  BY <1>20 DEF RecoverDirectBlobUpload, Recovered, Retry
<1>21. ASSUME RecoveryFails, UNCHANGED <<source, fetching>> PROVE Step
  BY <1>21 DEF RecoveryFails
<1>22. ASSUME SaveRunningLayer, UNCHANGED <<source, fetching>> PROVE Step
  BY <1>22 DEF SaveRunningLayer, Save
<1>23. ASSUME MarkSealing, UNCHANGED <<source, fetching>> PROVE Step
  BY <1>23 DEF MarkSealing, Save
<1>24. ASSUME CompleteDirectUpload, UNCHANGED <<source, fetching>> PROVE Step
  <2>1. pc = "complete" /\ UNCHANGED manifest /\ pc' \in {"complete", "completed", "fail"}
    BY <1>24 DEF CompleteDirectUpload, Retried
  <2>2. Key(layer) \in Keys
    BY <2>1, AtWork DEF Known
  <2>3. sealed' = sealed \/ DOMAIN sealed' = DOMAIN sealed \cup {Key(layer)}
    BY <1>24 DEF CompleteDirectUpload, Put
  <2> QED BY <2>1, <2>2, <2>3
<1>25. ASSUME MarkLayerCompleted, UNCHANGED <<source, fetching>> PROVE Step
  BY <1>25 DEF MarkLayerCompleted, Save
<1>26. ASSUME UploadPublishConfig, UNCHANGED <<source, fetching>> PROVE Step
  BY <1>26 DEF UploadPublishConfig
<1>27. ASSUME PublishManifest, UNCHANGED <<source, fetching>> PROVE Step
  <2>1. pc = "manifest" /\ UNCHANGED sealed /\ pc' \in {"inspect", "fail"}
    BY <1>27 DEF PublishManifest
  <2>2. KeysOf(source) # {}
    BY <2>1 DEF KeysOf
  <2>3. manifest' = manifest \/ (DOMAIN manifest' = KeysOf(source) /\ KeysOf(source) \subseteq DOMAIN sealed)
    BY <1>27 DEF PublishManifest
  <2> QED BY <2>1, <2>2, <2>3
<1>28. ASSUME InspectPublishedModelPack, UNCHANGED <<source, fetching>> PROVE Step
  BY <1>28 DEF InspectPublishedModelPack
<1>29. ASSUME PersistDirectUploadTerminalState, UNCHANGED <<source, fetching>> PROVE Step
  BY <1>29 DEF PersistDirectUploadTerminalState, Exit
<1>30. ASSUME AbortSession, UNCHANGED <<source, fetching>> PROVE Step
  BY <1>30 DEF AbortSession
<1>31. ASSUME Terminate, UNCHANGED <<source, fetching>> PROVE Step
  BY <1>31 DEF Terminate, Ended
<1>32. ASSUME Kill, UNCHANGED <<source, fetching>> PROVE Step
  BY <1>32 DEF Kill, Ended, Exit
<1>33. ASSUME NEW k \in DOMAIN session, SessionExpires(k), UNCHANGED <<source, fetching>> PROVE Step
  BY <1>33 DEF SessionExpires
<1>34. ASSUME UNCHANGED vars PROVE Step
  BY <1>34 DEF vars
<1> QED
  BY <1>1, <1>2, <1>3, <1>4, <1>5, <1>6, <1>7, <1>8, <1>9, <1>10, <1>11, <1>12, <1>13, <1>14, <1>15, <1>16, <1>17,
      <1>18, <1>19, <1>20, <1>21, <1>22, <1>23, <1>24, <1>25, <1>26, <1>27, <1>28, <1>29, <1>30, <1>31, <1>32, <1>33,
          <1>34 DEF Next, Work, MirrorFile, UploadStep, Interruption

(* Layers stay in the registry, an artifact names only layers that are there, *)
(* the worker says it succeeded only of a published artifact, and what it has  *)
(* said is final, for every source, interruption and failure.                *)
THEOREM ImplementsPublication == Spec => PublishesArtifact
<1>1. ResumedInv => Known
  BY DEF ResumedInv
<1> QED BY <1>1, LayersHold, ResumedHolds, PublicationInit, PublicationNext, PTL DEF Spec, PublishesArtifact, Publication!Spec

-----------------------------------------------------------------------------
(* The profile of a model. What the three profiles have in common is that      *)
(* every fact they find has a confidence and that they offer what the task    *)
(* implies, if it can be trusted; the rest is what the status makes of such a *)
(* profile.                                                                  *)

GradedText(fact) == fact.confidence \in Confidences /\ (fact.value # "" => fact.confidence # "")
GradedNumber(fact) == fact.value \in Nat /\ fact.confidence \in Confidences /\ (fact.value > 0 => fact.confidence # "")

Graded(profile) ==
  /\ GradedText(profile.task) /\ GradedText(profile.family)
  /\ GradedText(profile.architecture) /\ GradedText(profile.quantization)
  /\ GradedNumber(profile.parameters) /\ GradedNumber(profile.context)
  /\ profile.endpoints = CapabilitiesOf(profile.task).endpoints
  /\ profile.features \subseteq CapabilitiesOf(profile.task).features \cup {"ToolCalling"}

-----------------------------------------------------------------------------
(* Facts. *)

LEMMA TextIsGraded ==
  ASSUME NEW value, NEW confidence \in Confidences, confidence # ""
  PROVE  GradedText(Text(value, confidence))
BY DEF GradedText, Text, Confidences

LEMMA PositiveIsNotZero == \A n \in Nat : n > 0 => n # 0
OBVIOUS

LEMMA NumberIsGraded ==
  ASSUME NEW value \in Nat, NEW confidence \in Confidences, confidence # ""
  PROVE  GradedNumber(Number(value, confidence))
<1>1. Number(value, confidence).value = value
  BY DEF Number
<1>2. Number(value, confidence).confidence = IF value = 0 THEN "" ELSE confidence
  BY DEF Number
<1>3. Number(value, confidence).confidence \in Confidences
  BY <1>2 DEF Confidences
<1>4. value > 0 => Number(value, confidence).confidence # ""
  BY <1>2, PositiveIsNotZero
<1> QED BY <1>1, <1>3, <1>4 DEF GradedNumber

LEMMA NothingIsGraded == GradedText(NoText) /\ GradedNumber(NoNumber)
<1>1. GradedText(NoText)
  BY DEF GradedText, NoText, Text, Confidences
<1>2. GradedNumber(NoNumber)
  BY DEF GradedNumber, NoNumber, Number, Confidences
<1> QED BY <1>1, <1>2

LEMMA PreferIsGraded ==
  ASSUME NEW text, NEW other, GradedText(text), GradedText(other)
  PROVE  GradedText(Prefer(text, other))
BY DEF Prefer

LEMMA TaskIsGraded ==
  ASSUME NEW explicit, NEW declared, NEW derived, NEW hint
  PROVE  GradedText(ResolveTask(explicit, declared, derived, hint))
<1>1. /\ GradedText(Text(explicit, "Exact")) /\ GradedText(Text(declared, "Declared"))
      /\ GradedText(Text(derived, "Derived")) /\ GradedText(Text(hint, "Hint"))
  BY TextIsGraded DEF Confidences
<1> QED BY <1>1, PreferIsGraded DEF ResolveTask

LEMMA EstimateIsNat ==
  ASSUME NEW bytes \in Nat, NEW precision, NEW quantization
  PROVE  EstimateParameterCountFromBytes(bytes, precision, quantization) \in Nat
<1>1. HalfBytesPerParameter(precision, quantization) \in {1, 2, 4, 8}
  BY DEF HalfBytesPerParameter
<1> QED BY <1>1 DEF EstimateParameterCountFromBytes

-----------------------------------------------------------------------------
(* The profiles. *)

LEMMA GGUFIsGraded ==
  ASSUME NEW asked \in Asked, NEW name \in GGUFNames, NEW declared \in DeclaredFacts
  PROVE  Graded(GGUFProfile(asked, name, declared))
<1> DEFINE seen == ResolveFromSummary(name, asked.bytes)
           profile == GGUFProfile(asked, name, declared)
<1>1. GradedText(profile.task)
  BY TaskIsGraded DEF GGUFProfile
<1>2. GradedText(seen.family) /\ GradedText(seen.quantization)
  BY TextIsGraded DEF ResolveFromSummary, GradedText, Confidences
<1>3. GradedNumber(seen.parameters)
  BY EstimateIsNat DEF ResolveFromSummary, GradedNumber, Confidences, GGUFNames, Asked
<1>4. GradedText(NoText) /\ GradedNumber(NoNumber)
  BY NothingIsGraded
<1>5. /\ GradedText(profile.family) /\ GradedText(profile.architecture) /\ GradedText(profile.quantization)
      /\ GradedNumber(profile.parameters) /\ GradedNumber(profile.context)
  BY <1>2, <1>3, <1>4 DEF GGUFProfile, DeclaredText, DeclaredNumber, GradedText, GradedNumber, Confidences, DeclaredFacts
<1>6. /\ profile.endpoints = CapabilitiesOf(profile.task).endpoints
      /\ profile.features = CapabilitiesOf(profile.task).features
  BY DEF GGUFProfile
<1> QED BY <1>1, <1>5, <1>6 DEF Graded

LEMMA TransformerIsNat ==
  ASSUME NEW d \in Dimensions
  PROVE  TransformerParameters(d) \in Nat
<1>1. /\ d.hidden \in Nat /\ d.intermediate \in Nat /\ d.layers \in Nat /\ d.vocab \in Nat
      /\ d.heads \in Nat /\ d.kvHeads \in Nat
  BY DEF Dimensions
<1> DEFINE kv == IF d.heads > 0 /\ d.kvHeads > 0 THEN d.kvHeads * (d.hidden \div d.heads) ELSE d.hidden
           perLayer == 2 * d.hidden * d.hidden + 2 * d.hidden * kv + 3 * d.hidden * d.intermediate
<1>2. kv \in Nat
  <2>1. CASE d.heads > 0
    <3>1. d.hidden \div d.heads \in Nat
      BY <1>1, <2>1
    <3>2. d.kvHeads * (d.hidden \div d.heads) \in Nat
      BY <1>1, <3>1
    <3> QED BY <1>1, <3>2
  <2>2. CASE ~(d.heads > 0)
    BY <1>1, <2>2
  <2> QED BY <2>1, <2>2
<1> HIDE DEF kv
<1>3. perLayer \in Nat
  <2>1. d.hidden * d.hidden \in Nat /\ d.hidden * kv \in Nat /\ d.hidden * d.intermediate \in Nat
    BY <1>1, <1>2
  <2>2. 2 * d.hidden * d.hidden \in Nat /\ 2 * d.hidden * kv \in Nat /\ 3 * d.hidden * d.intermediate \in Nat
    BY <1>1, <1>2
  <2> QED BY <2>2
<1> HIDE DEF perLayer
<1>4. d.vocab * d.hidden \in Nat /\ d.layers * perLayer \in Nat
  BY <1>1, <1>3
<1>5. TransformerParameters(d) = d.vocab * d.hidden + d.layers * perLayer
  BY DEF TransformerParameters, perLayer, kv
<1> QED BY <1>4, <1>5

LEMMA ParameterCountIsGraded ==
  ASSUME NEW config \in Configs, NEW bytes \in Nat, NEW precision, NEW quantization
  PROVE  GradedNumber(ResolveParameterCount(config, bytes, precision, quantization))
<1> DEFINE d == config.dimensions
           estimate == EstimateParameterCountFromBytes(bytes, precision, quantization)
<1>1. config.parameters \in Nat /\ d \in Dimensions
  BY DEF Configs
<1>2. estimate \in Nat /\ TransformerParameters(d) \in Nat
  BY <1>1, EstimateIsNat, TransformerIsNat
<1>3. GradedNumber(Number(estimate, "Estimated"))
  BY <1>2, NumberIsGraded DEF Confidences
<1> HIDE DEF estimate
<1>4. CASE config.parameters > 0
  <2>1. ResolveParameterCount(config, bytes, precision, quantization) = [value |-> config.parameters, confidence |->
      "Exact"]
    BY <1>4 DEF ResolveParameterCount
  <2> QED BY <1>1, <2>1 DEF GradedNumber, Confidences
<1>5. CASE ~(config.parameters > 0) /\ 0 \in {d.hidden, d.intermediate, d.layers, d.vocab}
  BY <1>3, <1>5 DEF ResolveParameterCount, estimate
<1>6. CASE ~(config.parameters > 0) /\ 0 \notin {d.hidden, d.intermediate, d.layers, d.vocab}
  <2>1. ResolveParameterCount(config, bytes, precision, quantization)
          = [value |-> TransformerParameters(d), confidence |-> "Estimated"]
    BY <1>6 DEF ResolveParameterCount
  <2> QED BY <1>2, <2>1 DEF GradedNumber, Confidences
<1> QED BY <1>1, <1>4, <1>5, <1>6

LEMMA SafetensorsIsGraded ==
  ASSUME NEW asked \in Asked, NEW config \in Configs, NEW toolTemplate \in BOOLEAN
  PROVE  Graded(SafetensorsProfile(asked, config, toolTemplate))
<1> DEFINE profile == SafetensorsProfile(asked, config, toolTemplate)
           quantization == DetectQuantization(config.quantization)
           precision == DetectPrecision(config.dtype, quantization)
<1>1. GradedText(profile.task)
  BY TaskIsGraded DEF SafetensorsProfile, ResolveCheckpointTask
<1>2. GradedText(profile.family)
  BY TextIsGraded, PreferIsGraded DEF SafetensorsProfile, ResolveFamily, Confidences
<1>3. GradedText(profile.architecture) /\ GradedText(profile.quantization)
  BY TextIsGraded DEF SafetensorsProfile, Confidences
<1>4. GradedNumber(profile.context)
  BY NumberIsGraded DEF SafetensorsProfile, Confidences, Configs
<1>5. profile.parameters = ResolveParameterCount(config, asked.bytes, precision, quantization)
  BY DEF SafetensorsProfile
<1>6. asked.bytes \in Nat
  BY DEF Asked
<1>7. GradedNumber(profile.parameters)
  BY <1>5, <1>6, ParameterCountIsGraded
<1>8. /\ profile.endpoints = CapabilitiesOf(profile.task).endpoints
      /\ profile.features \subseteq CapabilitiesOf(profile.task).features \cup {"ToolCalling"}
  BY DEF SafetensorsProfile
<1> QED
  BY <1>1, <1>2, <1>3, <1>4, <1>7, <1>8 DEF Graded

LEMMA DiffusersIsGraded ==
  ASSUME NEW asked \in Asked, NEW pipeline \in Pipelines
  PROVE  Graded(DiffusersProfile(asked, pipeline))
<1> DEFINE profile == DiffusersProfile(asked, pipeline)
<1>1. GradedText(profile.task)
  BY TaskIsGraded DEF DiffusersProfile
<1>2. GradedText(profile.family) /\ GradedText(profile.architecture)
  BY TextIsGraded DEF DiffusersProfile, Confidences
<1>3. GradedText(profile.quantization) /\ GradedNumber(profile.parameters) /\ GradedNumber(profile.context)
  BY NothingIsGraded DEF DiffusersProfile
<1>4. /\ profile.endpoints = CapabilitiesOf(profile.task).endpoints
      /\ profile.features = CapabilitiesOf(profile.task).features
  BY DEF DiffusersProfile
<1> QED
  BY <1>1, <1>2, <1>3, <1>4 DEF Graded

-----------------------------------------------------------------------------
(* The status. *)

(* Two lists of one vocabulary: what the rules offer the status knows.        *)
LEMMA OfferedIsKnown ==
  ASSUME NEW task
  PROVE  ResolveCapabilities(task).endpoints \subseteq KnownPublicEndpointTypes
<1>1. \A rule \in capabilityRules : rule.endpoints \subseteq KnownPublicEndpointTypes
  BY SMTT(30) DEF capabilityRules, Rule, KnownPublicEndpointTypes
<1> QED BY <1>1 DEF ResolveCapabilities

LEMMA CalculatedShowsAll ==
  ASSUME NEW profile, Graded(profile)
  PROVE  NothingOmittedSilently(profile)
<1> SUFFICES ASSUME ~HasPartialConfidence(profile)
             PROVE  LET status == ReadyStatus(profile) IN
                      /\ status.family = profile.family.value /\ status.architecture = profile.architecture.value
                      /\ status.quantization = profile.quantization.value
                      /\ status.parameters = profile.parameters.value /\ status.context = profile.context.value
                      /\ profile.task.value # "" =>
                           status.endpoints = ResolveCapabilities(profile.task.value).endpoints
  BY DEF NothingOmittedSilently, ReadyStatus, MetadataCondition
<1>1. \A fact \in {profile.task, profile.family, profile.architecture, profile.quantization} :
        GradedText(fact) /\ (fact.value # "" => ReliablePublicFact(fact.confidence))
  BY DEF Graded, GradedText, HasPartialConfidence, LowConfidence, ReliablePublicFact, Confidences
<1>2. \A fact \in {profile.parameters, profile.context} :
        fact.value \in Nat /\ (fact.value > 0 => ReliablePublicFact(fact.confidence))
  BY DEF Graded, GradedNumber, HasPartialConfidence, LowConfidence, ReliablePublicFact, Confidences
<1>3. \A fact \in {profile.family, profile.architecture, profile.quantization} : PublicText(fact) = fact.value
  BY <1>1 DEF PublicText
<1>4. \A fact \in {profile.parameters, profile.context} : PublicNumber(fact) = fact.value
  BY <1>2 DEF PublicNumber
<1>5. ASSUME profile.task.value # ""
      PROVE  ReadyStatus(profile).endpoints = ResolveCapabilities(profile.task.value).endpoints
  <2>1. ReliablePublicFact(profile.task.confidence)
    BY <1>1, <1>5
  <2>2. profile.endpoints = ResolveCapabilities(profile.task.value).endpoints
    BY <2>1 DEF Graded, CapabilitiesOf
  <2>3. profile.endpoints \cap KnownPublicEndpointTypes = profile.endpoints
    BY <2>2, OfferedIsKnown
  <2> QED BY <2>1, <2>2, <2>3 DEF ReadyStatus
<1> QED BY <1>3, <1>4, <1>5 DEF ReadyStatus

LEMMA HintOffersNothing ==
  ASSUME NEW profile, Graded(profile)
  PROVE  NoHintIsOffered(profile)
<1> SUFFICES ASSUME ~ReliablePublicFact(profile.task.confidence)
             PROVE  ReadyStatus(profile).endpoints = {} /\ ReadyStatus(profile).features \subseteq {"ToolCalling"}
  BY DEF NoHintIsOffered
<1>1. CapabilitiesOf(profile.task).features = {}
  BY DEF CapabilitiesOf
<1> QED BY <1>1 DEF ReadyStatus, Graded

(* Whatever its format, the files, the source and the user say of a model,    *)
(* its status calls its metadata calculated only if it shows all that was     *)
(* found, and it offers no endpoint and no modality on a mere hint.           *)
THEOREM StatusIsTrusted ==
  ASSUME NEW asked \in Asked, NEW name \in GGUFNames, NEW declared \in DeclaredFacts,
         NEW config \in Configs, NEW toolTemplate \in BOOLEAN, NEW pipeline \in Pipelines,
         NEW profile \in {GGUFProfile(asked, name, declared), SafetensorsProfile(asked, config, toolTemplate),
                          DiffusersProfile(asked, pipeline)}
  PROVE  NothingOmittedSilently(profile) /\ NoHintIsOffered(profile)
<1>1. Graded(profile)
  BY GGUFIsGraded, SafetensorsIsGraded, DiffusersIsGraded
<1> QED BY <1>1, CalculatedShowsAll, HintOffersNothing

=============================================================================
