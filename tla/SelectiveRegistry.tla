-------------------------- MODULE SelectiveRegistry --------------------------
(***************************************************************************)
(* How the selective extension gets into a process                         *)
(* (vllm_compat/v0_19_1/selective_registry.py): artifacts of the GPU runs  *)
(* are hashed into a bundle of evidence, the bundle is verified against    *)
(* the files, and a registrar binds the attention backend and then the     *)
(* model of a specification that carries the evidence.                     *)
(*                                                                         *)
(* A file is its chunks and the identity that stat reports, which every    *)
(* write changes; the digest of a file is the chunks that were read.       *)
(***************************************************************************)
EXTENDS Naturals, Sequences, SequencesExt

CONSTANTS NumArtifacts,  \* artifacts of a bundle
          FirstContent,  \* what the files hold at first, a sequence of chunks
          Contents,      \* what may be written to one
          ClassPaths,    \* class paths a specification may name
          MaxWrites,     \* bound: changes made to the files
          MaxHashes      \* bound: hashing runs

ASSUME RegistryAssumption ==
  /\ NumArtifacts \in Nat \ {0} /\ MaxWrites \in Nat /\ MaxHashes \in Nat
  /\ \A content \in Contents \cup {FirstContent} : content \in Seq(Nat)

VARIABLES
  files,     \* artifact -> [chunks, id]
  history,   \* artifact -> every content its file has had
  hashing,   \* from_artifact_paths: <<>> or [stat, read, digests]
  hashes,    \* hashing runs so far
  evidence,  \* SelectiveGateEvidence: <<>> or a digest per artifact
  verified,  \* verify_artifact_paths found the files as the bundle says
  attempt,   \* register: <<>> or [spec, step]
  registrar, \* SelectiveExtensionRegistrar: [signature, partial]
  vllm       \* vLLM's registries: the spec bound as backend and as model

registryVars == <<files, history, hashing, hashes, evidence, verified, attempt, registrar, vllm>>

Artifacts == 1 .. NumArtifacts

RegistryInit ==
  /\ files = [a \in Artifacts |-> [chunks |-> FirstContent, id |-> 0]]
  /\ history = [a \in Artifacts |-> {FirstContent}]
  /\ hashing = <<>> /\ hashes = 0 /\ evidence = <<>> /\ verified = FALSE
  /\ attempt = <<>> /\ registrar = [signature |-> <<>>, partial |-> FALSE]
  /\ vllm = [backend |-> <<>>, model |-> <<>>]

\* Somebody else writes a file.
WriteArtifact(a, content) ==
  /\ files[a].id < MaxWrites
  /\ files' = [files EXCEPT ![a] = [chunks |-> content, id |-> @.id + 1]]
  /\ history' = [history EXCEPT ![a] = @ \cup {content}]
  /\ UNCHANGED <<hashing, hashes, evidence, verified, attempt, registrar, vllm>>

-----------------------------------------------------------------------------
(* from_artifact_paths, one file after the other.                           *)

Size(file) == Len(file.chunks)
Current == IF hashing = <<>> THEN 1 ELSE Len(hashing.digests) + 1
NoStat == [size |-> 0, id |-> 0]
Stat(a) == [size |-> Size(files[a]), id |-> files[a].id]

\* hash_selective_gate_artifacts.py, and verify_selective_gate_artifacts.py once
\* there is a bundle.
BeginHash ==
  /\ hashing = <<>> /\ attempt = <<>> /\ hashes < MaxHashes
  /\ hashing' = [stat |-> NoStat, read |-> <<>>, digests |-> <<>>]
  /\ hashes' = hashes + 1
  /\ UNCHANGED <<files, history, evidence, verified, attempt, registrar, vllm>>

\* path.stat(): an empty file is refused.
StatFile ==
  /\ hashing # <<>> /\ Current \in Artifacts /\ hashing.stat = NoStat
  /\ hashing' = IF Size(files[Current]) = 0 THEN <<>>
                ELSE [hashing EXCEPT !.stat = Stat(Current)]
  /\ UNCHANGED <<files, history, hashes, evidence, verified, attempt, registrar, vllm>>

\* One read of the handle; a file that ends early is refused.
ReadChunk ==
  /\ hashing # <<>> /\ hashing.stat # NoStat /\ Len(hashing.read) < hashing.stat.size
  /\ LET next == Len(hashing.read) + 1
     IN hashing' = IF next > Size(files[Current]) THEN <<>>
                   ELSE [hashing EXCEPT !.read = Append(@, files[Current].chunks[next])]
  /\ UNCHANGED <<files, history, hashes, evidence, verified, attempt, registrar, vllm>>

\* Mutant of EndFile: only the size is compared.
EndFileBySize ==
  /\ hashing # <<>> /\ hashing.stat # NoStat /\ Len(hashing.read) = hashing.stat.size
  /\ hashing' = IF Size(files[Current]) # hashing.stat.size THEN <<>>
                ELSE [stat |-> NoStat, read |-> <<>>, digests |-> Append(hashing.digests, hashing.read)]
  /\ UNCHANGED <<files, history, hashes, evidence, verified, attempt, registrar, vllm>>

\* The second path.stat(): a file that changed since the first one is refused.
EndFile ==
  /\ hashing # <<>> /\ hashing.stat # NoStat /\ Len(hashing.read) = hashing.stat.size
  /\ hashing' = IF Stat(Current) # hashing.stat THEN <<>>
                ELSE [stat |-> NoStat, read |-> <<>>, digests |-> Append(hashing.digests, hashing.read)]
  /\ UNCHANGED <<files, history, hashes, evidence, verified, attempt, registrar, vllm>>

\* All files are read: the digests become the bundle, or are compared with it.
EndHash ==
  /\ hashing # <<>> /\ Current \notin Artifacts
  /\ IF evidence = <<>> THEN evidence' = hashing.digests /\ UNCHANGED verified
     ELSE verified' = (hashing.digests = evidence) /\ UNCHANGED evidence
  /\ hashing' = <<>>
  /\ UNCHANGED <<files, history, hashes, attempt, registrar, vllm>>

-----------------------------------------------------------------------------
(* SelectiveExtensionRegistrar.register.                                    *)

\* SelectiveRegistrationSpec.signature: the class path and the digests.
Signature(path) == <<path, evidence>>

\* The checks before anything is registered.  A wrong selector, a registrar that
\* is partial or another signature raises and changes nothing; the same
\* signature again is already registered.
BeginRegister(path) ==
  /\ attempt = <<>> /\ hashing = <<>>
  /\ evidence # <<>>   \* SelectivePrerequisites.ready
  /\ ~registrar.partial
  /\ registrar.signature = <<>>
  /\ attempt' = [spec |-> Signature(path), step |-> "load"]
  /\ UNCHANGED <<files, history, hashing, hashes, evidence, verified, registrar, vllm>>

\* Mutant of RegisterStep: the model is registered before the backend.
RegisterStepModelFirst ==
  /\ attempt # <<>>
  /\ attempt' = IF attempt.step = "model" THEN [attempt EXCEPT !.step = "backend"]
                ELSE IF attempt.step = "backend" THEN <<>> ELSE [attempt EXCEPT !.step = "model"]
  /\ vllm' = CASE attempt.step = "load" -> vllm
               [] attempt.step = "backend" -> [vllm EXCEPT !.backend = attempt.spec]
               [] attempt.step = "model" -> [vllm EXCEPT !.model = attempt.spec]
  /\ registrar' = IF attempt.step = "backend" THEN [registrar EXCEPT !.signature = attempt.spec]
                  ELSE registrar
  /\ UNCHANGED <<files, history, hashing, hashes, evidence, verified>>

\* _load_vllm_registries, then the backend, then the model.
RegisterStep ==
  /\ attempt # <<>>
  /\ attempt' = IF attempt.step = "load" THEN [attempt EXCEPT !.step = "backend"]
                ELSE IF attempt.step = "backend" THEN [attempt EXCEPT !.step = "model"] ELSE <<>>
  /\ vllm' = CASE attempt.step = "load" -> vllm
               [] attempt.step = "backend" -> [vllm EXCEPT !.backend = attempt.spec]
               [] attempt.step = "model" -> [vllm EXCEPT !.model = attempt.spec]
  /\ registrar' = IF attempt.step = "model" THEN [registrar EXCEPT !.signature = attempt.spec]
                  ELSE registrar
  /\ UNCHANGED <<files, history, hashing, hashes, evidence, verified>>

\* An exception at any of the three steps, the import included, is taken for a
\* partial registration.
RegisterFails ==
  /\ attempt # <<>>
  /\ attempt' = <<>> /\ registrar' = [registrar EXCEPT !.partial = TRUE]
  /\ UNCHANGED <<files, history, hashing, hashes, evidence, verified, vllm>>

RegistryNext ==
  \/ \E a \in Artifacts, content \in Contents : WriteArtifact(a, content)
  \/ BeginHash \/ StatFile \/ ReadChunk \/ EndFile \/ EndHash
  \/ \E path \in ClassPaths : BeginRegister(path)
  \/ RegisterStep \/ RegisterFails

-----------------------------------------------------------------------------
(* Properties.                                                              *)

\* EVIDENCE IS OF ONE FILE.  Every digest of a bundle is the digest of a content
\* its file really had, however writers interleave with the reads: never of a
\* file half of which was read before a write and half after it
\* (SelectiveGateEvidence.from_artifact_paths, the second stat).
EvidenceIsOfOneFile ==
  evidence # <<>> => \A a \in Artifacts : evidence[a] \in history[a]

\* A MODEL HAS ITS BACKEND.  Whatever step a registration failed at and whatever
\* was tried afterwards, vLLM never resolves a selective model whose attention
\* backend is not bound, or is bound for other evidence; and a registrar that
\* answers that it is registered has both.
ModelHasItsBackend ==
  /\ vllm.model # <<>> => vllm.backend = vllm.model
  /\ registrar.signature # <<>> => vllm.model = registrar.signature
=============================================================================
