----------------------------- MODULE SealedBlobs -----------------------------
(***************************************************************************)
(* What DMCR keeps of a layer that was uploaded directly: the physical      *)
(* object of an upload session, the sealed metadata that resolves a digest  *)
(* to one such object, and the link by which a repository owns the digest. *)
(* Completions of one digest run beside each other and beside the           *)
(* collector, which lists, deletes, runs the registry's own collector and   *)
(* lists again.                                                            *)
(*                                                                         *)
(* dmcr/internal/directupload, sealedblob, registrydriver/sealeds3 and the  *)
(* cleanup of garbagecollection.                                           *)
(***************************************************************************)
EXTENDS Naturals, FiniteSets

CONSTANTS
  Uploads,        \* upload sessions, each with the physical object it writes
  Calls,          \* requests of the helper that may be handled at once
  Repos, Digests,
  RepoOf,         \* the repository a session is started for
  DigestOf,       \* the digest its client declares
  None,
  Rereads,        \* the verification policy is trusted-backend-or-reread
  MaxCorrupt,     \* sessions whose bytes are damaged on the way, at most
  Drained         \* requests admitted before the gate closed end before the cleanup lists

ASSUME MappingAssumption ==
  /\ RepoOf \in [Uploads -> Repos]
  /\ DigestOf \in [Uploads -> Digests]
  /\ None \notin Uploads
ASSUME PolicyAssumption == MaxCorrupt \in Nat /\ Rereads \in BOOLEAN /\ Drained \in BOOLEAN

VARIABLES
  phase,      \* of each repository's publication
  multipart,  \* the multipart upload of a session
  age,        \* of a session: with its token gone its residue is stale
  objects,    \* physical objects in the store
  corrupt,    \* sessions whose bytes are not the ones declared
  acked,      \* sessions whose client has been told that they are complete
  metadata,   \* the sealed metadata of a digest: the object it resolves to
  links,      \* the digests linked in each repository
  manifests,  \* repositories with a manifest
  call,       \* requests being handled
  gc          \* the collector's cycle and what it has listed

store == <<objects, metadata, links, manifests>>
sessions == <<multipart, age, corrupt>>
vars == <<phase, multipart, age, objects, corrupt, acked, metadata, links, manifests, call, gc>>

Idle == [pc |-> "idle", upload |-> None]
IdleGC == [pc |-> "idle", recent |-> {}, targeted |-> {}, repos |-> {}, stored |-> {}, multi |-> {},
           doomed |-> {}, sealed |-> {}, marked |-> {}]

DigestsIn(r) == {DigestOf[u] : u \in {v \in Uploads : RepoOf[v] = r}}

(* The objects some sealed metadata resolves to. *)
Sealed == {u \in Uploads : \E d \in Digests : metadata[d] = u}

(* The driver resolves the digest to an object that is there. *)
Readable(d) == metadata[d] \in objects

GateOpen == gc.pc \in {"idle", "checked"}

(* A worker sends one request after another and waits for each answer.      *)
Waiting(r) == \E c \in Calls : call[c].pc # "idle" /\ RepoOf[call[c].upload] = r
Working(r) == phase[r] = "publishing" /\ ~Waiting(r)

Init ==
  /\ phase = [r \in Repos |-> "none"]
  /\ multipart = [u \in Uploads |-> "none"]
  /\ age = [u \in Uploads |-> "fresh"]
  /\ objects = {} /\ corrupt = {} /\ acked = {}
  /\ metadata = [d \in Digests |-> None]
  /\ links = [r \in Repos |-> {}]
  /\ manifests = {}
  /\ call = [c \in Calls |-> Idle]
  /\ gc = IdleGC

-----------------------------------------------------------------------------
(* The publication of a repository and its end. *)

StartPublication(r) ==
  /\ phase[r] = "none"
  /\ phase' = [phase EXCEPT ![r] = "publishing"]
  /\ UNCHANGED <<store, sessions, acked, call, gc>>

(* The object is deleted: its worker is stopped, with the request it waits   *)
(* for, and its handle is removed.                                          *)
DeleteModel(r) ==
  /\ phase[r] \in {"publishing", "published"}
  /\ phase' = [phase EXCEPT ![r] = "deleted"]
  /\ call' = [c \in Calls |-> IF call[c].pc # "idle" /\ RepoOf[call[c].upload] = r THEN Idle ELSE call[c]]
  /\ UNCHANGED <<store, sessions, acked, gc>>

(* The registry accepts a manifest whose layers are linked and can be read. *)
PutManifest(r) ==
  /\ Working(r) /\ GateOpen
  /\ \A d \in DigestsIn(r) : /\ \E u \in acked : RepoOf[u] = r /\ DigestOf[u] = d
                             /\ d \in links[r] /\ Readable(d)
  /\ manifests' = manifests \cup {r}
  /\ phase' = [phase EXCEPT ![r] = "published"]
  /\ UNCHANGED <<objects, metadata, links, sessions, acked, call, gc>>

-----------------------------------------------------------------------------
(* The helper's handlers. *)

HandleStart(u) ==
  /\ Working(RepoOf[u]) /\ GateOpen
  /\ multipart[u] = "none"
  /\ multipart' = [multipart EXCEPT ![u] = "open"]
  /\ gc' = [gc EXCEPT !.recent = IF gc.pc = "idle" THEN @ ELSE @ \cup {u}]
  /\ UNCHANGED <<phase, store, age, corrupt, acked, call>>

(* All parts are sent to the store with presigned URLs.                     *)
SendParts(u) ==
  /\ Working(RepoOf[u]) /\ GateOpen
  /\ multipart[u] = "open" /\ age[u] = "fresh"
  /\ multipart' = [multipart EXCEPT ![u] = "sent"]
  /\ corrupt' \in {corrupt, corrupt \cup {u}} /\ Cardinality(corrupt') <= MaxCorrupt
  /\ UNCHANGED <<phase, store, age, acked, call, gc>>

HandleAbort(u) ==
  /\ Working(RepoOf[u]) /\ GateOpen
  /\ multipart[u] \in {"open", "sent"} /\ age[u] = "fresh"
  /\ multipart' = [multipart EXCEPT ![u] = "aborted"]
  /\ UNCHANGED <<phase, store, age, corrupt, acked, call, gc>>

(* A completion is admitted: the gate is open and the token has not expired. *)
HandleComplete(c, u) ==
  /\ Working(RepoOf[u]) /\ GateOpen
  /\ multipart[u] \in {"sent", "done"} /\ age[u] = "fresh" /\ u \notin acked
  /\ call[c] = Idle
  /\ call' = [call EXCEPT ![c] = [pc |-> "assemble", upload |-> u]]
  /\ UNCHANGED <<phase, store, sessions, acked, gc>>

GoOn(c, pc) == call' = [call EXCEPT ![c].pc = pc]
End(c) == call' = [call EXCEPT ![c] = Idle]

(* A multipart upload that is no longer there may have been assembled before. *)
CompleteMultipartUploadOrUseCompletedObject(c) == LET u == call[c].upload IN
  /\ call[c].pc = "assemble"
  /\ \/ /\ multipart[u] = "sent"
        /\ multipart' = [multipart EXCEPT ![u] = "done"]
        /\ objects' = objects \cup {u}
        /\ GoOn(c, "verify")
     \/ /\ multipart[u] # "sent"
        /\ UNCHANGED <<multipart, objects>>
        /\ IF u \in objects THEN GoOn(c, "verify") ELSE End(c)
  /\ UNCHANGED <<phase, age, corrupt, acked, metadata, links, manifests, gc>>

(* The backend's checksum decides when it has one; a mismatch deletes the     *)
(* object. Without one the declared digest is believed, unless the policy     *)
(* is to read the object.                                                     *)
VerifyUploadedObject(c) == LET u == call[c].upload IN
  /\ call[c].pc = "verify"
  /\ \E attributes \in {"trusted", "untrusted", "failed"} :
       /\ attributes = "trusted" => u \in objects
       /\ IF attributes # "trusted" /\ ~Rereads
          THEN GoOn(c, "check") /\ UNCHANGED objects
          ELSE IF u \in corrupt
          THEN End(c) /\ objects' = objects \ {u}
          ELSE /\ UNCHANGED objects
               /\ IF u \in objects THEN GoOn(c, "check") ELSE End(c)
  /\ UNCHANGED <<phase, sessions, acked, metadata, links, manifests, gc>>

\* Mutant: a repeated completion takes its own object for a duplicate.
SealedBlobStateComparingNothing(c) == LET physical == metadata[DigestOf[call[c].upload]] IN
  /\ call[c].pc = "check"
  /\ GoOn(c, IF physical = None THEN "seal" ELSE "linkDuplicate")
  /\ UNCHANGED <<phase, store, sessions, acked, gc>>

SealedBlobState(c) == LET u == call[c].upload  physical == metadata[DigestOf[u]] IN
  /\ call[c].pc = "check"
  /\ GoOn(c, CASE physical = None -> "seal"
               [] physical = u -> "link"
               [] OTHER -> "linkDuplicate")
  /\ UNCHANGED <<phase, store, sessions, acked, gc>>

\* Mutant: after the metadata the handler has no next step.
WriteSealedBlobMetadataOnly(c) == LET u == call[c].upload IN
  /\ call[c].pc = "seal"
  /\ metadata' = [metadata EXCEPT ![DigestOf[u]] = u]
  /\ GoOn(c, "sealed")
  /\ UNCHANGED <<phase, objects, links, manifests, sessions, acked, gc>>

WriteSealedBlobMetadata(c) == LET u == call[c].upload IN
  /\ call[c].pc = "seal"
  /\ metadata' = [metadata EXCEPT ![DigestOf[u]] = u]
  /\ GoOn(c, "link")
  /\ UNCHANGED <<phase, objects, links, manifests, sessions, acked, gc>>

(* The answer of a call that has done all it had to do may be lost.           *)
Answer(c) == /\ acked' \in {acked, acked \cup {call[c].upload}}
             /\ End(c)

PutRepositoryLink(c) == LET u == call[c].upload IN
  /\ call[c].pc \in {"link", "linkDuplicate"}
  /\ links' = [links EXCEPT ![RepoOf[u]] = @ \cup {DigestOf[u]}]
  /\ IF call[c].pc = "linkDuplicate" THEN GoOn(c, "dedup") /\ UNCHANGED acked ELSE Answer(c)
  /\ UNCHANGED <<phase, objects, metadata, manifests, sessions, gc>>

DeleteUploadedObject(c) ==
  /\ call[c].pc = "dedup"
  /\ objects' \in {objects, objects \ {call[c].upload}}
  /\ Answer(c)
  /\ UNCHANGED <<phase, metadata, links, manifests, sessions, gc>>

(* A call of the store fails, the helper restarts, or the connection breaks   *)
(* and takes the request's context with it.                                   *)
CallBreaks(c) ==
  /\ call[c].pc # "idle"
  /\ End(c)
  /\ UNCHANGED <<phase, store, sessions, acked, gc>>

(* A token lives as long as the session; what is left of a session is stale   *)
(* an activation delay after it, here at once. A cycle is shorter than that:  *)
(* what was started during a cycle is not stale in it.                        *)
Ages(u) ==
  /\ multipart[u] # "none" /\ age[u] = "fresh" /\ u \notin gc.recent
  /\ age' = [age EXCEPT ![u] = "stale"]
  /\ UNCHANGED <<phase, store, multipart, corrupt, acked, call, gc>>

-----------------------------------------------------------------------------
(* The collector's cycle. *)

GCStep(from, to) == gc.pc = from /\ gc' = [gc EXCEPT !.pc = to]

(* No publication has an active Pod. Requests of deleted objects bring the    *)
(* tokens of the sessions they left open.                                     *)
BeginCycle ==
  /\ gc.pc = "idle" /\ \A r \in Repos : phase[r] # "publishing"
  /\ gc' = [IdleGC EXCEPT !.pc = "checked",
                          !.targeted = {u \in Uploads \ acked : phase[RepoOf[u]] = "deleted" /\ multipart[u] # "none"}]
  /\ UNCHANGED <<phase, store, sessions, acked, call>>

CloseGate == GCStep("checked", "closed") /\ UNCHANGED <<phase, store, sessions, acked, call>>

(* Live handles, stored repositories, and the objects old enough to go.       *)
DiscoverStored ==
  /\ gc.pc = "closed"
  /\ Drained => \A c \in Calls : call[c] = Idle
  /\ gc' = [gc EXCEPT !.pc = "stored",
              !.repos = {r \in Repos : phase[r] # "published" /\ (r \in manifests \/ links[r] # {})},
              !.stored = {u \in objects : age[u] = "stale" \/ u \in gc.targeted}]
  /\ UNCHANGED <<phase, store, sessions, acked, call>>

(* What sealed metadata names is protected.                                   *)
StaleDirectUploadPrefixes ==
  /\ gc.pc \in {"stored", "postStored"}
  /\ gc' = [gc EXCEPT !.pc = IF gc.pc = "stored" THEN "multi" ELSE "postDelete", !.doomed = gc.stored \ Sealed]
  /\ UNCHANGED <<phase, store, sessions, acked, call>>

DiscoverMultipartUploads ==
  /\ gc.pc = "multi"
  /\ gc' = [gc EXCEPT !.pc = "delete", !.sealed = Sealed,
              !.multi = {u \in Uploads : multipart[u] \in {"open", "sent"} /\ (age[u] = "stale" \/ u \in gc.targeted)}]
  /\ UNCHANGED <<phase, store, sessions, acked, call>>

(* One prefix, one object or one multipart upload after another.              *)
DeleteStalePrefixes ==
  /\ \/ /\ gc.pc = "delete"
        /\ \E r \in gc.repos :
             /\ links' = [links EXCEPT ![r] = {}]
             /\ manifests' = manifests \ {r}
             /\ gc' = [gc EXCEPT !.repos = @ \ {r}]
        /\ UNCHANGED <<objects, multipart>>
     \/ /\ gc.pc \in {"delete", "postDelete"} /\ gc.repos = {}
        /\ \E u \in gc.doomed : objects' = objects \ {u} /\ gc' = [gc EXCEPT !.doomed = @ \ {u}]
        /\ UNCHANGED <<links, manifests, multipart>>
     \/ /\ gc.pc = "delete" /\ gc.repos = {} /\ gc.doomed = {}
        /\ \E u \in gc.multi :
             /\ multipart' = [multipart EXCEPT ![u] = IF @ = "done" THEN @ ELSE "aborted"]
             /\ gc' = [gc EXCEPT !.multi = @ \ {u}]
        /\ UNCHANGED <<objects, links, manifests>>
  /\ UNCHANGED <<phase, age, corrupt, acked, metadata, call>>

(* The registry's collector keeps the blobs that manifests name ...           *)
MarkManifests ==
  /\ gc.pc = "delete" /\ gc.repos = {} /\ gc.doomed = {} /\ gc.multi = {}
  /\ gc' = [gc EXCEPT !.pc = "marked", !.marked = UNION {DigestsIn(r) : r \in manifests}]
  /\ UNCHANGED <<phase, store, sessions, acked, call>>

(* ... and deletes the directories of the others, and with them the sealed    *)
(* metadata. The physical objects are elsewhere and stay.                     *)
SweepBlob(d) ==
  /\ gc.pc = "marked" /\ d \notin gc.marked /\ metadata[d] # None
  /\ metadata' = [metadata EXCEPT ![d] = None]
  /\ UNCHANGED <<phase, objects, links, manifests, sessions, acked, call, gc>>

\* Mutant: the second look does not know what was protected at the first.
PostGarbageCollectByAge ==
  /\ gc.pc = "marked" /\ \A d \in Digests \ gc.marked : metadata[d] = None
  /\ gc' = [gc EXCEPT !.pc = IF gc.sealed = {} THEN "done" ELSE "postStored",
              !.stored = {u \in objects : age[u] = "stale" \/ u \in gc.targeted}]
  /\ UNCHANGED <<phase, store, sessions, acked, call>>

(* What was protected before is looked at again, whatever its age.            *)
PostGarbageCollect ==
  /\ gc.pc = "marked" /\ \A d \in Digests \ gc.marked : metadata[d] = None
  /\ gc' = [gc EXCEPT !.pc = IF gc.sealed = {} THEN "done" ELSE "postStored",
              !.stored = {u \in objects : age[u] = "stale" \/ u \in gc.targeted \cup gc.sealed}]
  /\ UNCHANGED <<phase, store, sessions, acked, call>>

EndCycle ==
  /\ gc.pc = "done" \/ (gc.pc = "postDelete" /\ gc.doomed = {})
  /\ gc' = IdleGC
  /\ UNCHANGED <<phase, store, sessions, acked, call>>

(* The cycle fails, runs into its deadline, or its process ends.              *)
StopCycle ==
  /\ gc.pc # "idle"
  /\ gc' = IdleGC
  /\ UNCHANGED <<phase, store, sessions, acked, call>>

-----------------------------------------------------------------------------

Handler(c) ==
  \/ CompleteMultipartUploadOrUseCompletedObject(c)
  \/ VerifyUploadedObject(c)
  \/ SealedBlobState(c)
  \/ WriteSealedBlobMetadata(c)
  \/ PutRepositoryLink(c)
  \/ DeleteUploadedObject(c)

Collect ==
  \/ BeginCycle \/ CloseGate \/ DiscoverStored \/ StaleDirectUploadPrefixes \/ DiscoverMultipartUploads
  \/ DeleteStalePrefixes \/ MarkManifests \/ (\E d \in Digests : SweepBlob(d))
  \/ PostGarbageCollect \/ EndCycle

Next ==
  \/ \E r \in Repos : StartPublication(r) \/ DeleteModel(r) \/ PutManifest(r)
  \/ \E u \in Uploads : HandleStart(u) \/ SendParts(u) \/ HandleAbort(u) \/ Ages(u)
  \/ \E c \in Calls, u \in Uploads : HandleComplete(c, u)
  \/ \E c \in Calls : Handler(c) \/ CallBreaks(c)
  \/ Collect \/ StopCycle

Spec == Init /\ [][Next]_vars

-----------------------------------------------------------------------------
(* Types. *)
Pcs == {"idle", "assemble", "verify", "check", "seal", "link", "linkDuplicate", "dedup"}
GCPcs == {"idle", "checked", "closed", "stored", "multi", "delete", "marked", "postStored", "postDelete", "done"}

TypeOK ==
  /\ phase \in [Repos -> {"none", "publishing", "published", "deleted"}]
  /\ multipart \in [Uploads -> {"none", "open", "sent", "done", "aborted"}]
  /\ age \in [Uploads -> {"fresh", "stale"}]
  /\ objects \subseteq Uploads /\ corrupt \subseteq Uploads /\ acked \subseteq Uploads
  /\ metadata \in [Digests -> Uploads \cup {None}]
  /\ links \in [Repos -> SUBSET Digests]
  /\ manifests \subseteq Repos
  /\ call \in [Calls -> [pc : Pcs, upload : Uploads \cup {None}]]
  /\ gc \in [pc : GCPcs, recent : SUBSET Uploads, targeted : SUBSET Uploads, repos : SUBSET Repos,
             stored : SUBSET Uploads, multi : SUBSET Uploads, doomed : SUBSET Uploads,
             sealed : SUBSET Uploads, marked : SUBSET Digests]

(* What a published repository owns can be read, whoever else uploads,       *)
(* deduplicates, deletes or collects the same digest.                        *)
PublishedReadable ==
  \A r \in manifests : phase[r] = "published" => \A d \in DigestsIn(r) : d \in links[r] /\ Readable(d)

(* A digest resolves to bytes of that digest, or to nothing: the policy that *)
(* rereads never seals other bytes.                                          *)
SealedContent == Rereads => \A d \in Digests : metadata[d] \notin corrupt

(* Both: what is published under a digest can be read, and is that digest's.  *)
BlobsIntact == PublishedReadable /\ SealedContent

(* A cycle that runs to its end leaves nothing of the sessions it was asked   *)
(* to clean, and no object that lost its digest in this very cycle, although  *)
(* it was protected when the stale objects were listed.                       *)
CycleReclaims == [][
  gc.pc \in {"done", "postDelete"} /\ gc.doomed = {} /\ gc'.pc = "idle"
  => \A u \in gc.targeted \cup gc.sealed :
       u \in Sealed \/ (u \notin objects /\ multipart[u] \notin {"open", "sent"})]_vars

=============================================================================
