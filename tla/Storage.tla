------------------------------- MODULE Storage -------------------------------
(***************************************************************************)
(* Where a cached chunk comes from.  Three stores have to agree on it:     *)
(*                                                                         *)
(*  - the exact-token matcher the patched LMCache server keeps in memory   *)
(*    (storage/lmcache_server_v0_4_3.py), which finds chunks in a prompt;  *)
(*  - the server's objects, the keys and values themselves;                *)
(*  - the sidecar (storage/sidecar.py), the SQLite file of records by      *)
(*    which a scheduler verifies what the server reports, and which        *)
(*    survives the server.                                                 *)
(*                                                                         *)
(* A worker stores the complete chunks of a prompt and publishes their     *)
(* records; a scheduler looks a prompt up, verifies the candidates and     *)
(* plans a load (storage/lookup.py), and its worker retrieves them.  Every *)
(* namespace has an engine of its own, and all of them share the server    *)
(* and the sidecar.  Between any two of their steps the server may evict   *)
(* objects or restart, and a client may give up.                           *)
(***************************************************************************)
EXTENDS Naturals, Sequences, FiniteSets, Functions, Selection, SequencesExt

CONSTANTS
  Namespaces,     \* CacheNamespace: one engine each
  Documents,      \* token sequences a worker stores, complete chunks only
  Prompts,        \* token sequences a scheduler looks up
  ChunkSize,      \* LMCACHE_CHUNK_SIZE
  HashBase,       \* more than every token: makes Hash injective
  IndexLimit,     \* _EXACT_INDEX_LIMIT
  BucketLimit,    \* MAX_COLLISION_BUCKET_RECORDS
  Jobs,           \* bound: the store requests the workers send
  MaxLookups,     \* bound: lookups under way at a time
  None, Over

ASSUME StorageAssumption ==
  /\ ChunkSize \in Nat \ {0} /\ HashBase \in Nat /\ IndexLimit \in Nat
  /\ \A s \in Documents \cup Prompts : s \in Seq(Nat)
  /\ \A d \in Documents : d # <<>> /\ Len(d) % ChunkSize = 0
  /\ \A p \in Prompts : Len(p) >= ChunkSize
  /\ \A s \in Documents \cup Prompts : \A i \in DOMAIN s : s[i] \in 1..(HashBase - 1)

VARIABLES
  byHash,     \* matcher: hash -> [chunk, start]
  byFirst,    \* matcher: first token -> hash -> [chunk, start]
  objects,    \* server: <<namespace, hash>> -> [tokens, position]
  sidecar,    \* set of CacheRecord
  jobs,       \* store requests: Jobs -> None (not sent), a Job, or Over
  lookups,    \* each engine's lookup and load: Namespaces -> None or a Lookup
  unfindable  \* history: hashes the server dropped from the matcher although
              \* a store of them was under way, or they were resident for
              \* another namespace, or the matcher was full

vars == <<byHash, byFirst, objects, sidecar, jobs, lookups, unfindable>>

-----------------------------------------------------------------------------
(* Chunks of a document and their hashes.                                   *)

\* TokenHasher: the hash of the k-th chunk is chained over all chunks before it.
Hash(doc, k) ==
  FoldLeft(LAMBDA h, t : h * HashBase + t, 0, SubSeq(doc, 1, k * ChunkSize))

ChunkCount(doc) == Len(doc) \div ChunkSize
Chunk(doc, k) == SubSeq(doc, (k - 1) * ChunkSize + 1, k * ChunkSize)

Start(k) == (k - 1) * ChunkSize

Hashes(doc) == {Hash(doc, k) : k \in 1..ChunkCount(doc)}

\* What is asked of the hash: chunks that differ, in their tokens or in their
\* place, have different hashes.
ASSUME HashAssumption ==
  \A d, e \in Documents : \A k \in 1..ChunkCount(d), l \in 1..ChunkCount(e) :
    /\ Hash(d, k) \in Nat
    /\ Hash(d, k) = Hash(e, l) => Chunk(d, k) = Chunk(e, l) /\ k = l

\* Mutant of Records: positions are relative to the chunk.
RecordsRelative(ns, doc) ==
  {[ns |-> ns, tokens |-> Chunk(doc, k), source |-> 0, key |-> Hash(doc, k)] :
     k \in 1..ChunkCount(doc)}

\* _derive_sidecar_records: the source range of a store begins at zero.
Records(ns, doc) ==
  {[ns |-> ns, tokens |-> Chunk(doc, k), source |-> Start(k), key |-> Hash(doc, k)] :
     k \in 1..ChunkCount(doc)}

\* What the engine of ns computed and staged for each chunk.
Computed(ns, doc) ==
  [o \in {<<ns, h>> : h \in Hashes(doc)} |->
     LET k == CHOOSE i \in 1..ChunkCount(doc) : o[2] = Hash(doc, i)
     IN [tokens |-> Chunk(doc, k), position |-> Start(k)]]

-----------------------------------------------------------------------------
(* The matcher of the patched server.                                       *)

\* dict.update: the entries of new, and those of old under other keys.
Merged(new, old) ==
  [x \in DOMAIN new \cup DOMAIN old |-> IF x \in DOMAIN new THEN new[x] ELSE old[x]]

\* Pairs of a hash and its chunk that on_new_token_hashes adds.
Additions(doc) ==
  {<<Hash(doc, k), [chunk |-> Chunk(doc, k), start |-> Start(k)]>> :
     k \in 1..ChunkCount(doc)}

AsIndex(pairs) ==
  [h \in {p[1] : p \in pairs} |-> (CHOOSE p \in pairs : p[1] = h)[2]]

\* The chunks of an index by their first token; no bucket is empty.
ByFirst(index) ==
  LET firsts == {index[h].chunk[1] : h \in DOMAIN index}
  IN [t \in firsts |-> Restrict(index, {h \in DOMAIN index : index[h].chunk[1] = t})]

\* on_new_token_hashes raises when the index would outgrow its limit, or a
\* hash would change its meaning.
Registrable(doc) ==
  /\ Cardinality(DOMAIN byHash \cup Hashes(doc)) <= IndexLimit
  /\ \A p \in Additions(doc) : p[1] \in DOMAIN byHash => byHash[p[1]] = p[2]

OnNewTokenHashes(doc) ==
  LET new == AsIndex(Additions(doc))
      buckets == ByFirst(new)
      Old(t) == IF t \in DOMAIN byFirst THEN byFirst[t] ELSE <<>>
  IN /\ byHash' = Merged(new, byHash)
     /\ byFirst' = Merged([t \in DOMAIN buckets |-> Merged(buckets[t], Old(t))], byFirst)

\* remove_chunks takes the hashes out of both indexes, and empty buckets too.
RemoveChunks(hashes) ==
  LET Rest(t) == DOMAIN byFirst[t] \ (hashes \cap DOMAIN byHash)
  IN /\ byHash' = Restrict(byHash, DOMAIN byHash \ hashes)
     /\ byFirst' = [t \in {f \in DOMAIN byFirst : Rest(f) # {}} |->
                      Restrict(byFirst[t], Rest(t))]

\* match_sub_sequence: the first exact occurrence of every stored chunk.
MatchSubSequence(prompt) ==
  LET Windows == 0..(Len(prompt) - ChunkSize)
      Window(w) == SubSeq(prompt, w + 1, w + ChunkSize)
      Occurrences(t, h) == {w \in Windows : Window(w) = byFirst[t][h].chunk}
  IN UNION {{[start |-> CHOOSE w \in Occurrences(t, h) : \A v \in Occurrences(t, h) : w <= v,
              source |-> byFirst[t][h].start,
              key |-> h] :
               h \in {i \in DOMAIN byFirst[t] : Occurrences(t, i) # {}}} :
            t \in DOMAIN byFirst}

-----------------------------------------------------------------------------
Init ==
  /\ byHash = <<>> /\ byFirst = <<>> /\ objects = <<>>
  /\ sidecar = {}
  /\ jobs = [j \in Jobs |-> None]
  /\ lookups = [ns \in Namespaces |-> None]
  /\ unfindable = {}

(* A store: one request of the worker, carried out by the server in steps.  *)

JobRecords ==
  [ns : Namespaces, doc : Documents, registered : BOOLEAN, committed : BOOLEAN,
   event : BOOLEAN, client : {"waits", "done", "gone"}]

ASSUME JobsAssumption == None \notin JobRecords /\ Over \notin JobRecords

Active(j) == jobs[j] \notin {None, Over}

\* A request neither side works on any more is over.
Settled(job) ==
  IF job.client # "waits" /\ job.registered /\ job.committed /\ job.event
    THEN Over ELSE job

\* LmcacheBlendTransport.store_precomputed: a worker has one request at a time.
StorePrecomputed(j, ns, doc) ==
  /\ jobs[j] = None
  /\ \A i \in Jobs :
       Active(i) => ~(jobs[i].ns = ns /\ jobs[i].client = "waits")
  /\ jobs' = [jobs EXCEPT ![j] =
       [ns |-> ns, doc |-> doc, registered |-> FALSE, committed |-> FALSE,
        event |-> FALSE, client |-> "waits"]]
  /\ UNCHANGED <<byHash, byFirst, objects, sidecar, lookups, unfindable>>

\* The server registers the chunks with the matcher before or after the copy.
Register(j) ==
  /\ Active(j) /\ ~jobs[j].registered
  /\ Registrable(jobs[j].doc)
  /\ OnNewTokenHashes(jobs[j].doc)
  /\ unfindable' = unfindable \ Hashes(jobs[j].doc)
  /\ jobs' = [jobs EXCEPT ![j] = Settled([@ EXCEPT !.registered = TRUE])]
  /\ UNCHANGED <<objects, sidecar, lookups>>

\* The matcher raises: the request fails, and what was copied stays.
RegisterRaises(j) ==
  /\ Active(j) /\ ~jobs[j].registered
  /\ ~Registrable(jobs[j].doc)
  /\ unfindable' = unfindable \cup (Hashes(jobs[j].doc) \ DOMAIN byHash)
  /\ jobs' = [jobs EXCEPT ![j] = Over]
  /\ UNCHANGED <<byHash, byFirst, objects, sidecar, lookups>>

\* patched_store_gpu_copy up to finish_write: reserve_write("new") leaves the
\* objects that exist alone and may not find room for the others.
FinishWrite(j) ==
  /\ Active(j) /\ ~jobs[j].committed
  /\ LET computed == Computed(jobs[j].ns, jobs[j].doc) IN
     \E reserved \in SUBSET (DOMAIN computed \ DOMAIN objects) :
       objects' = Merged(Restrict(computed, reserved), objects)
  /\ jobs' = [jobs EXCEPT ![j] = Settled([@ EXCEPT !.committed = TRUE])]
  /\ UNCHANGED <<byHash, byFirst, sidecar, lookups, unfindable>>

\* Mutant of Recordable: LMCache 0.4.3 records the event before finish_write.
RecordableEarly(job) == ~job.event

\* The event the client waits for is recorded after finish_write.
Recordable(job) == job.committed /\ ~job.event

RecordEvent(j) ==
  /\ Active(j) /\ Recordable(jobs[j])
  /\ jobs' = [jobs EXCEPT ![j] = Settled([@ EXCEPT !.event = TRUE])]
  /\ UNCHANGED <<byHash, byFirst, objects, sidecar, lookups, unfindable>>

\* Mutant of AddMany: the rows before the failing one stay.
AddManyRowByRow(records) == {sidecar \cup done : done \in SUBSET records}

\* SqliteSidecarIndex.add_many: one transaction, committed or rolled back.
AddMany(records) == {sidecar, sidecar \cup records}

\* The client has its answer and publishes the records, or fails to.
PublishSidecarRecords(j) ==
  /\ Active(j)
  /\ jobs[j].client = "waits" /\ jobs[j].registered /\ jobs[j].event
  /\ sidecar' \in AddMany(Records(jobs[j].ns, jobs[j].doc))
  /\ jobs' = [jobs EXCEPT ![j] = Settled([@ EXCEPT !.client = "done"])]
  /\ UNCHANGED <<byHash, byFirst, objects, lookups, unfindable>>

\* The client times out or crashes; the server goes on with the request.
StoreTimesOut(j) ==
  /\ Active(j) /\ jobs[j].client = "waits"
  /\ jobs' = [jobs EXCEPT ![j] = Settled([@ EXCEPT !.client = "gone"])]
  /\ UNCHANGED <<byHash, byFirst, objects, sidecar, lookups, unfindable>>

-----------------------------------------------------------------------------
(* A lookup and the load it leads to.                                       *)

\* The server takes a snapshot of the matcher and searches the prompt.
Match(ns, prompt) ==
  /\ lookups[ns] = None
  /\ Cardinality({n \in Namespaces : lookups[n] # None}) < MaxLookups
  /\ lookups' = [lookups EXCEPT ![ns] =
       [prompt |-> prompt, stage |-> "matched", found |-> MatchSubSequence(prompt)]]
  /\ UNCHANGED <<byHash, byFirst, objects, sidecar, jobs, unfindable>>

InProgress(h) ==
  \E j \in Jobs : Active(j) /\ jobs[j].client # "done" /\ h \in Hashes(jobs[j].doc)

ResidentElsewhere(ns, h) == \E n \in Namespaces \ {ns} : <<n, h>> \in DOMAIN objects

\* The server then looks for the objects of the caller's namespace: matches
\* without one are dropped from the matcher, the others are the answer.
Probe(ns) ==
  /\ lookups[ns] # None /\ lookups[ns].stage = "matched"
  /\ LET found == lookups[ns].found
         resident == {m \in found : <<ns, m.key>> \in DOMAIN objects}
         stale == {m.key : m \in found \ resident}
     IN /\ RemoveChunks(stale)
        /\ unfindable' = unfindable \cup
             {h \in stale : InProgress(h) \/ ResidentElsewhere(ns, h)}
        /\ lookups' = [lookups EXCEPT ![ns].stage = "answered", ![ns].found = resident]
  /\ UNCHANGED <<objects, sidecar, jobs>>

\* lookup_candidates: the order in which the transport returns them.
Response(found) ==
  LET Before(a, b) == LessKey(<<a.start, a.source, a.key>>, <<b.start, b.source, b.key>>)
  IN Sorted(found, Before)

\* The sidecar's bucket of the tokens a candidate is to replace.
Bucket(ns, prompt, m) ==
  {r \in sidecar : r.ns = ns /\ r.tokens = SubSeq(prompt, m.start + 1, m.start + ChunkSize)}

Bound(ns, prompt, m) == {r \in Bucket(ns, prompt, m) : r.key = m.key}

\* A candidate is verified by records that leave no doubt about the position
\* at which its keys were computed.
Verified(ns, prompt, m) ==
  Cardinality({r.source : r \in Bound(ns, prompt, m)}) = 1

\* The candidates of LmcacheCandidateLookupCoordinator.plan that can be loaded.
Potentials(ns, prompt, found) ==
  LET response == Response({m \in found : Verified(ns, prompt, m)})
  IN [i \in DOMAIN response |->
        LET m == response[i] IN
        [start |-> m.start, end |-> m.start + ChunkSize, key |-> m.key,
         source |-> (CHOOSE r \in Bound(ns, prompt, m) : TRUE).source]]

\* Answers that end the scheduler's runtime: more candidates than windows in
\* the prompt, or a bucket the sidecar takes for corruption.
Drifted(prompt, found) == Cardinality(found) > Len(prompt) - ChunkSize + 1
Overfull(ns, prompt, found) ==
  \E m \in found : Cardinality(Bucket(ns, prompt, m)) > BucketLimit

\* SchedulerLookupRuntime._verify_candidates
VerifyCandidates(ns) ==
  /\ lookups[ns] # None /\ lookups[ns].stage = "answered"
  /\ LET prompt == lookups[ns].prompt
         found == lookups[ns].found
         potentials == Potentials(ns, prompt, found)
     IN lookups' = [lookups EXCEPT ![ns] =
          IF Drifted(prompt, found) \/ Overfull(ns, prompt, found)
            THEN [prompt |-> prompt, stage |-> "fatal"]
            ELSE [prompt |-> prompt, stage |-> "planned",
                  plan |-> {potentials[i] : i \in DOMAIN potentials
                              \cap SelectNonOverlapping(potentials, DOMAIN potentials)}]]
  /\ UNCHANGED <<byHash, byFirst, objects, sidecar, jobs, unfindable>>

\* retrieve_precomputed: the worker copies the objects, all or none of them;
\* the plan's targets are disjoint windows, as it checks (SelectionIsBest).
RetrievePrecomputed(ns) ==
  /\ lookups[ns] # None /\ lookups[ns].stage = "planned"
  /\ lookups[ns].plan # {}
  /\ \A c \in lookups[ns].plan : <<ns, c.key>> \in DOMAIN objects
  /\ lookups' = [lookups EXCEPT ![ns] =
       [prompt |-> lookups[ns].prompt, stage |-> "loaded",
        loaded |-> {[target |-> c, kv |-> objects[<<ns, c.key>>]] : c \in lookups[ns].plan}]]
  /\ UNCHANGED <<byHash, byFirst, objects, sidecar, jobs, unfindable>>

\* The request is over, its retrieve failed, or its engine was restarted.
Forget(ns) ==
  /\ lookups[ns] # None
  /\ lookups' = [lookups EXCEPT ![ns] = None]
  /\ UNCHANGED <<byHash, byFirst, objects, sidecar, jobs, unfindable>>

-----------------------------------------------------------------------------
(* The server's own steps.                                                  *)

\* The server evicts an object; the matcher is not told.
Evict(object) ==
  /\ objects' = Restrict(objects, DOMAIN objects \ {object})
  /\ UNCHANGED <<byHash, byFirst, sidecar, jobs, lookups, unfindable>>

\* Everything the server holds is in memory; the clients' requests fail.
ServerRestart ==
  /\ byHash' = <<>> /\ byFirst' = <<>> /\ objects' = <<>>
  /\ jobs' = [j \in Jobs |-> IF Active(j) THEN Over ELSE jobs[j]]
  /\ lookups' = [ns \in Namespaces |->
       IF lookups[ns] # None /\ lookups[ns].stage = "matched" THEN None ELSE lookups[ns]]
  /\ unfindable' = {}
  /\ UNCHANGED sidecar

Next ==
  \/ \E j \in Jobs :
       \/ \E ns \in Namespaces, doc \in Documents : StorePrecomputed(j, ns, doc)
       \/ Register(j) \/ RegisterRaises(j) \/ FinishWrite(j) \/ RecordEvent(j)
       \/ PublishSidecarRecords(j) \/ StoreTimesOut(j)
  \/ \E ns \in Namespaces :
       \/ \E prompt \in Prompts : Match(ns, prompt)
       \/ Probe(ns) \/ VerifyCandidates(ns) \/ RetrievePrecomputed(ns) \/ Forget(ns)
  \/ \E object \in DOMAIN objects : Evict(object)
  \/ ServerRestart

Spec == Init /\ [][Next]_vars

-----------------------------------------------------------------------------
(* Properties.                                                              *)

\* What a load puts into a request's cache was computed for the very tokens
\* of the target, and at the position the key correction starts from
\* (VerifiedMatch.position_delta), whatever was stored, evicted, published
\* or lost between the lookup and the retrieve.
LoadedIsVerified ==
  \A ns \in Namespaces : lookups[ns] # None /\ lookups[ns].stage = "loaded" =>
    \A l \in lookups[ns].loaded :
      /\ l.kv.tokens = SubSeq(lookups[ns].prompt, l.target.start + 1, l.target.end)
      /\ l.kv.position = l.target.source

AllHashes == UNION {Hashes(d) : d \in Documents}

\* The types of the stores: a record names a chunk within a stored document.
TypeOK ==
  /\ DOMAIN byHash \subseteq AllHashes /\ unfindable \subseteq AllHashes
  /\ DOMAIN objects \subseteq Namespaces \X AllHashes
  /\ jobs \in [Jobs -> JobRecords \cup {None, Over}]
  /\ \A r \in sidecar :
       r.key \in AllHashes /\ \E d \in Documents : r.source + ChunkSize <= Len(d)

\* A record describes the object its key finds, although the sidecar outlives
\* evictions and restarts of the server and a publication can be lost.
RecordsDescribeObjects ==
  /\ TypeOK
  /\ \A r \in sidecar : <<r.ns, r.key>> \in DOMAIN objects =>
       objects[<<r.ns, r.key>>] = [tokens |-> r.tokens, position |-> r.source]

\* The records of a store are published together: every record has the
\* records of all other chunks of its document beside it.
PublicationIsAtomic ==
  \A r \in sidecar : \E doc \in Documents :
    r \in Records(r.ns, doc) /\ Records(r.ns, doc) \subseteq sidecar

\* Once the store of a published chunk has returned to its client, a lookup
\* finds it as long as it is resident.  The exceptions are the ones the
\* history names: a lookup that ran into a store under way or that was made
\* for another namespace, and a full matcher.  The matcher finds a chunk in one
\* index and names it from the other, so the two hold the same chunks.
StoredIsFindable ==
  /\ byFirst = ByFirst(byHash)
  /\ \A r \in sidecar :
       /\ <<r.ns, r.key>> \in DOMAIN objects
       /\ ~InProgress(r.key)
       /\ r.key \notin unfindable
       => r.key \in DOMAIN byHash

\* A response in which every candidate is resident, published and verifiable is
\* one the scheduler accepts: more candidates than the prompt has windows
\* (_verify_candidates), or a bucket beyond its limit, cannot come of
\* ordinary stores.
OrdinaryLookupsSucceed ==
  \A ns \in Namespaces : lookups[ns] # None /\ lookups[ns].stage = "answered" =>
    LET prompt == lookups[ns].prompt
        found == lookups[ns].found
    IN (\A m \in found : Verified(ns, prompt, m)) =>
         ~Drifted(prompt, found) /\ ~Overfull(ns, prompt, found)
=============================================================================
