--------------------------- MODULE SelectiveProofs ---------------------------
(***************************************************************************)
(* Proofs about the selective extension: its registration                  *)
(* (SelectiveRegistry), the policy that selects the rows to compute again  *)
(* (SelectionPolicy) and the forward that writes them (SelectiveForward),  *)
(* each as a part of the whole of Selective.                               *)
(*                                                                         *)
(* None of the properties is inductive.  The evidence is of one file       *)
(* because the chunks read so far are the beginning of the file the first  *)
(* stat saw, as long as the file's identity is still the one of that stat; *)
(* the model has its backend because a registration goes through its steps *)
(* in order and the registrar starts a second one only when the first left *)
(* nothing (HashingInv, RegistrarInv).                                     *)
(*                                                                         *)
(* A sweep is of points that select made for this prompt, in rising ratios *)
(* (PolicyInv).  That select's ranges are canonical and hold the rows they *)
(* should is a fact about the operators alone: ranking a finite set under  *)
(* a strict order is a bijection, a merge of ranges in order keeps their   *)
(* rows, and the gaps of canonical ranges are canonical.                   *)
(*                                                                         *)
(* Memory is what the runner prepared, but for rows of the model in their  *)
(* own slots (MemOk); the layers before the session's next one are written *)
(* and counted (ForwardInv).  The step is that a copy writes rows of one   *)
(* part of one span, that the parts of a plan are the rows recomputed in   *)
(* it and that no two rows of a prompt share a slot (LayoutProofs), so     *)
(* that however the copies of a layer break off, and in whatever order     *)
(* they are done, they cannot disagree.                                    *)
(*                                                                         *)
(* The recursive functions of the policy are taken apart by induction over *)
(* the order of the natural numbers (WellFoundedInduction): a set that     *)
(* holds 0 and, with each number, the next, holds all of them.             *)
(***************************************************************************)
EXTENDS Selective, LayoutProofs, SequenceTheorems, FiniteSetTheorems, WellFoundedInduction, TLAPS

-----------------------------------------------------------------------------
(* The registration.                                                        *)

\* What a run of from_artifact_paths holds: the digests of the files it is done
\* with, each of a content its file has had; and of the file it reads, a prefix
\* of what the first stat saw, unless the file has been written since.
HashingOk(h, current) ==
  /\ h \in [stat : [size : Nat, id : Nat], read : Seq(Nat), digests : Seq(Seq(Nat))]
  /\ Len(h.digests) <= NumArtifacts
  /\ current = Len(h.digests) + 1
  /\ \A a \in 1 .. Len(h.digests) : h.digests[a] \in history[a]
  /\ h.stat # NoStat =>
       /\ current \in Artifacts
       /\ Len(h.read) <= h.stat.size
       /\ h.stat.id <= files[current].id
       /\ h.stat.id = files[current].id =>
            /\ h.stat.size = Len(files[current].chunks)
            /\ \A i \in 1 .. Len(h.read) : h.read[i] = files[current].chunks[i]
  /\ h.stat = NoStat => h.read = <<>>

FilesOk ==
  /\ files \in [Artifacts -> [chunks : Seq(Nat), id : Nat]]
  /\ DOMAIN history = Artifacts
  /\ \A a \in Artifacts : files[a].chunks \in history[a]

EvidenceOk ==
  evidence # <<>> => \A a \in Artifacts : evidence[a] \in history[a]

\* The inductive invariant of the hashing.
HashingInv ==
  /\ FilesOk
  /\ hashing # <<>> => HashingOk(hashing, Current)
  /\ EvidenceOk

\* The inductive invariant of the registration: the registrar's signature is the
\* model that vLLM knows, no registration runs beside a finished or a broken
\* one, and one that is about to bind the model has bound the backend.
RegistrarInv ==
  /\ registrar.signature = vllm.model
  /\ vllm.model # <<>> => vllm.backend = vllm.model /\ attempt = <<>>
  /\ attempt # <<>> =>
       /\ attempt.step \in {"load", "backend", "model"}
       /\ attempt.step = "model" => vllm.backend = attempt.spec
  /\ DOMAIN vllm = {"backend", "model"} /\ DOMAIN registrar = {"signature", "partial"}
  /\ attempt # <<>> => DOMAIN attempt = {"spec", "step"}

-----------------------------------------------------------------------------
(* from_artifact_paths and the writers of the files.                        *)

\* A write gives a file a new identity: what was read of it is not claimed to be
\* of the new content.
LEMMA WriteKeepsHashing ==
  ASSUME HashingInv, NEW a \in Artifacts, NEW content \in Contents, WriteArtifact(a, content)
  PROVE  HashingInv'
<1> USE RegistryAssumption DEF HashingInv, FilesOk, WriteArtifact
<1>1. content \in Seq(Nat)
  OBVIOUS
<1>2. FilesOk'
  <2>1. [chunks |-> content, id |-> files[a].id + 1] \in [chunks : Seq(Nat), id : Nat]
    BY <1>1
  <2>2. files' \in [Artifacts -> [chunks : Seq(Nat), id : Nat]]
    BY <2>1
  <2>3. \A b \in Artifacts : files'[b].chunks \in history'[b]
    OBVIOUS
  <2> QED
    BY <2>2, <2>3
<1>3. \A b \in Artifacts : history[b] \subseteq history'[b]
  OBVIOUS
<1>4. EvidenceOk'
  BY <1>3 DEF EvidenceOk
<1>5. \A b \in Artifacts : \/ files'[b] = files[b]
                           \/ files'[b].id > files[b].id
  OBVIOUS
<1>6. ASSUME hashing' # <<>> PROVE HashingOk(hashing, Current)'
  <2>1. HashingOk(hashing, Current) /\ hashing' = hashing /\ Current' = Current
    BY <1>6 DEF Current
  <2>2. \A b \in 1 .. Len(hashing.digests) : b \in Artifacts
    BY <2>1 DEF HashingOk, Artifacts
  <2>3. \A b \in 1 .. Len(hashing.digests) : hashing.digests[b] \in history'[b]
    BY <1>3, <2>1, <2>2 DEF HashingOk
  <2>4. CASE hashing.stat = NoStat
    BY <2>1, <2>3, <2>4 DEF HashingOk, NoStat
  <2>5. CASE hashing.stat # NoStat
    <3>1. Current \in Artifacts /\ hashing.stat.id \in Nat /\ files[Current].id \in Nat
          /\ files'[Current].id \in Nat /\ hashing.stat.id <= files[Current].id
      BY <2>1, <2>5, <1>2 DEF HashingOk
    <3>2. CASE files'[Current] = files[Current]
      BY <2>1, <2>3, <2>5, <3>1, <3>2 DEF HashingOk, NoStat
    <3>3. CASE files'[Current].id > files[Current].id
      <4>1. hashing.stat.id <= files'[Current].id /\ hashing.stat.id # files'[Current].id
        BY <3>1, <3>3
      <4> QED
        BY <2>1, <2>3, <2>5, <3>1, <4>1 DEF HashingOk, NoStat
    <3> QED
      BY <1>5, <3>1, <3>2, <3>3
  <2> QED
    BY <2>4, <2>5
<1> QED
  BY <1>2, <1>4, <1>6 DEF HashingInv

\* StatFile, ReadChunk and EndFile: the second stat finds the identity of the
\* first, so that what was read is the file.
LEMMA HashingSteps ==
  ASSUME HashingInv, BeginHash \/ StatFile \/ ReadChunk \/ EndFile
  PROVE  HashingInv'
<1> USE RegistryAssumption
<1>1. UNCHANGED <<files, history, evidence>>
  BY DEF BeginHash, StatFile, ReadChunk, EndFile
<1>2. FilesOk' /\ EvidenceOk'
  BY <1>1 DEF HashingInv, FilesOk, EvidenceOk
<1>3. FilesOk
  BY DEF HashingInv
<1>4. ASSUME hashing' # <<>>, hashing # <<>>, hashing'.digests = hashing.digests
      PROVE  Current' = Current /\ HashingOk(hashing, Current)
  BY <1>4 DEF Current, HashingInv
<1>5. ASSUME hashing' # <<>> PROVE HashingOk(hashing, Current)'
  <2>1. CASE BeginHash
    <3>1. hashing' = [stat |-> NoStat, read |-> <<>>, digests |-> <<>>]
      BY <2>1 DEF BeginHash
    <3>2. Current' = 1
      BY <1>5, <3>1 DEF Current
    <3>3. NoStat \in [size : Nat, id : Nat]
      BY DEF NoStat
    <3> QED
      BY <3>1, <3>2, <3>3 DEF HashingOk
  <2>2. CASE StatFile
    <3>1. /\ hashing # <<>> /\ Current \in Artifacts
          /\ hashing' = [hashing EXCEPT !.stat = Stat(Current)]
          /\ hashing.stat = NoStat
      BY <1>5, <2>2 DEF StatFile
    <3>2. HashingOk(hashing, Current)
      BY <3>1 DEF HashingInv
    <3>3. hashing.read = <<>>
      BY <3>1, <3>2 DEF HashingOk
    <3>4. /\ files[Current].chunks \in Seq(Nat) /\ files[Current].id \in Nat
          /\ Stat(Current) \in [size : Nat, id : Nat]
          /\ Stat(Current).size = Len(files[Current].chunks) /\ Stat(Current).id = files[Current].id
      BY <1>3, <3>1 DEF FilesOk, Stat, Size
    <3>5. /\ hashing'.stat = Stat(Current) /\ hashing'.read = <<>>
          /\ hashing'.digests = hashing.digests
          /\ hashing' \in [stat : [size : Nat, id : Nat], read : Seq(Nat), digests : Seq(Seq(Nat))]
      BY <3>1, <3>2, <3>3, <3>4 DEF HashingOk
    <3>6. Current' = Current
      BY <1>4, <1>5, <3>1, <3>5
    <3> QED
      BY <1>1, <3>1, <3>2, <3>4, <3>5, <3>6 DEF HashingOk, NoStat
  <2>3. CASE ReadChunk
    <3> DEFINE chunk == files[Current].chunks[Len(hashing.read) + 1]
    <3>1. /\ hashing # <<>> /\ hashing.stat # NoStat /\ Len(hashing.read) < hashing.stat.size
          /\ ~(Len(hashing.read) + 1 > Len(files[Current].chunks))
          /\ hashing' = [hashing EXCEPT !.read = Append(@, chunk)]
      BY <1>5, <2>3 DEF ReadChunk, Size
    <3>2. HashingOk(hashing, Current)
      BY <3>1 DEF HashingInv
    <3>3. /\ Current \in Artifacts /\ files[Current].chunks \in Seq(Nat)
          /\ hashing.read \in Seq(Nat)
      BY <1>3, <3>1, <3>2 DEF FilesOk, HashingOk
    <3>4. chunk \in Nat
      <4>1. Len(hashing.read) + 1 \in 1 .. Len(files[Current].chunks)
        BY <3>1, <3>3
      <4> DEFINE chunks == files[Current].chunks
      <4>2. chunks \in Seq(Nat) /\ Len(hashing.read) + 1 \in 1 .. Len(chunks)
        BY <3>3, <4>1
      <4> HIDE DEF chunks
      <4>3. chunks[Len(hashing.read) + 1] \in Nat
        BY <4>2
      <4> QED
        BY <4>3 DEF chunks
    <3> DEFINE read == Append(hashing.read, chunk)
    <3>5. /\ read \in Seq(Nat) /\ Len(read) = Len(hashing.read) + 1
          /\ \A i \in 1 .. Len(hashing.read) : read[i] = hashing.read[i]
          /\ read[Len(hashing.read) + 1] = chunk
      BY <3>3, <3>4
    <3>6. /\ hashing'.stat = hashing.stat /\ hashing'.read = read
          /\ hashing'.digests = hashing.digests
          /\ hashing' \in [stat : [size : Nat, id : Nat], read : Seq(Nat), digests : Seq(Seq(Nat))]
      BY <3>1, <3>2, <3>5 DEF HashingOk
    <3>7. Current' = Current
      BY <1>4, <1>5, <3>1, <3>6
    <3>8. hashing.stat.id = files[Current].id =>
            \A i \in 1 .. Len(read) : read[i] = files[Current].chunks[i]
      <4> SUFFICES ASSUME hashing.stat.id = files[Current].id, NEW i \in 1 .. Len(read)
                   PROVE  read[i] = files[Current].chunks[i]
        OBVIOUS
      <4> HIDE DEF read
      <4>1. i \in 1 .. Len(hashing.read) \/ i = Len(hashing.read) + 1
        BY <3>3, <3>5
      <4>2. CASE i \in 1 .. Len(hashing.read)
        BY <3>1, <3>2, <3>5, <4>2 DEF HashingOk
      <4>3. CASE i = Len(hashing.read) + 1
        BY <3>5, <4>3
      <4> QED
        BY <4>1, <4>2, <4>3
    <3>9. Len(hashing.read) \in Nat /\ hashing.stat.size \in Nat
      BY <3>2, <3>3 DEF HashingOk
    <3>10. Len(read) <= hashing.stat.size
      BY <3>1, <3>5, <3>9
    <3> HIDE DEF read, chunk
    <3> QED
      BY <1>1, <3>10, <3>1, <3>2, <3>5, <3>6, <3>7, <3>8, <3>9 DEF HashingOk
  <2>4. CASE EndFile
    <3>1. /\ hashing # <<>> /\ hashing.stat # NoStat /\ Len(hashing.read) = hashing.stat.size
          /\ Stat(Current) = hashing.stat
          /\ hashing' = [stat |-> NoStat, read |-> <<>>,
                         digests |-> Append(hashing.digests, hashing.read)]
      BY <1>5, <2>4 DEF EndFile
    <3>2. HashingOk(hashing, Current) /\ Current \in Artifacts
      BY <3>1 DEF HashingInv, HashingOk
    <3>3. /\ hashing.read \in Seq(Nat) /\ hashing.digests \in Seq(Seq(Nat))
          /\ files[Current].chunks \in Seq(Nat)
      BY <1>3, <3>2 DEF FilesOk, HashingOk
    <3>4. hashing.stat.id = files[Current].id /\ hashing.stat.size = Len(files[Current].chunks)
      BY <3>1 DEF Stat, Size
    <3>5. hashing.read = files[Current].chunks
      <4>1. \A i \in 1 .. Len(hashing.read) : hashing.read[i] = files[Current].chunks[i]
        BY <3>1, <3>2, <3>4 DEF HashingOk
      <4>2. Len(hashing.read) = Len(files[Current].chunks)
        BY <3>1, <3>4
      <4> DEFINE s == hashing.read
                 t == files[Current].chunks
      <4>3. s \in Seq(Nat) /\ t \in Seq(Nat) /\ Len(s) = Len(t)
            /\ \A i \in 1 .. Len(s) : s[i] = t[i]
        BY <3>3, <4>1, <4>2
      <4> HIDE DEF s, t
      <4>4. s = t
        BY <4>3, SeqEqual
      <4> QED
        BY <4>4 DEF s, t
    <3>6. hashing.read \in history[Current]
      BY <1>3, <3>2, <3>5 DEF FilesOk
    <3> DEFINE digests == Append(hashing.digests, hashing.read)
    <3>7. /\ digests \in Seq(Seq(Nat)) /\ Len(digests) = Len(hashing.digests) + 1
          /\ \A a \in 1 .. Len(hashing.digests) : digests[a] = hashing.digests[a]
          /\ digests[Len(hashing.digests) + 1] = hashing.read
      BY <3>3
    <3>8. Current = Len(hashing.digests) + 1
      BY <3>2 DEF HashingOk
    <3>9. \A a \in 1 .. Len(digests) : digests[a] \in history[a]
      BY <3>2, <3>6, <3>7, <3>8, <3>3 DEF HashingOk
    <3>10. /\ hashing'.stat = NoStat /\ hashing'.read = <<>> /\ hashing'.digests = digests
           /\ hashing' \in [stat : [size : Nat, id : Nat], read : Seq(Nat), digests : Seq(Seq(Nat))]
      BY <3>1, <3>7 DEF NoStat
    <3>11. Current' = Len(digests) + 1
      BY <1>5, <3>10 DEF Current
    <3>12. Len(digests) <= NumArtifacts
      BY <3>2, <3>7, <3>8 DEF Artifacts
    <3> HIDE DEF digests
    <3> QED
      BY <1>1, <3>9, <3>10, <3>11, <3>12 DEF HashingOk, NoStat
  <2> QED
    BY <2>1, <2>2, <2>3, <2>4
<1> QED
  BY <1>2, <1>5 DEF HashingInv

\* All files are done: the bundle has a digest of every artifact.
LEMMA EndHashKeepsHashing ==
  ASSUME HashingInv, EndHash
  PROVE  HashingInv'
<1> USE RegistryAssumption
<1>1. UNCHANGED <<files, history>> /\ hashing # <<>> /\ hashing' = <<>>
  BY DEF EndHash
<1>2. HashingOk(hashing, Current) /\ Current \notin Artifacts
  BY <1>1 DEF HashingInv, EndHash
<1>3. Len(hashing.digests) = NumArtifacts
  <2>1. Len(hashing.digests) \in Nat /\ Len(hashing.digests) <= NumArtifacts
    BY <1>2 DEF HashingOk
  <2> QED
    BY <1>2, <2>1 DEF HashingOk, Artifacts
<1>4. \A a \in Artifacts : hashing.digests[a] \in history[a]
  BY <1>2, <1>3 DEF HashingOk, Artifacts
<1>5. evidence' = hashing.digests \/ evidence' = evidence
  BY DEF EndHash
<1>6. EvidenceOk'
  BY <1>1, <1>4, <1>5 DEF EvidenceOk, HashingInv
<1> QED
  BY <1>1, <1>6 DEF HashingInv, FilesOk

-----------------------------------------------------------------------------
(* The registrar.                                                           *)

\* A registration binds the backend before the model and never starts twice.
LEMMA RegistrationSteps ==
  ASSUME RegistrarInv, RegistryNext
  PROVE  RegistrarInv'
<1>1. CASE \E path \in ClassPaths : BeginRegister(path)
  <2> PICK path \in ClassPaths : BeginRegister(path)
    BY <1>1
  <2>1. attempt' = [spec |-> Signature(path), step |-> "load"]
        /\ registrar.signature = <<>> /\ UNCHANGED <<registrar, vllm>>
    BY DEF BeginRegister
  <2> QED
    BY <2>1 DEF RegistrarInv
<1>2. CASE RegisterStep
  <2> USE DEF RegistrarInv
  <2>1. attempt # <<>> /\ vllm.model = <<>> /\ registrar.signature = <<>>
    BY <1>2 DEF RegisterStep
  <2>3. CASE attempt.step = "load"
    BY <1>2, <2>1, <2>3 DEF RegisterStep
  <2>4. CASE attempt.step = "backend"
    BY <1>2, <2>1, <2>4 DEF RegisterStep
  <2>5. CASE attempt.step = "model"
    BY <1>2, <2>1, <2>5 DEF RegisterStep
  <2> QED
    BY <2>1, <2>3, <2>4, <2>5
<1>3. CASE RegisterFails
  BY <1>3 DEF RegisterFails, RegistrarInv
<1>4. CASE \/ \E a \in Artifacts, content \in Contents : WriteArtifact(a, content)
           \/ BeginHash \/ StatFile \/ ReadChunk \/ EndFile \/ EndHash
  <2>1. UNCHANGED <<attempt, registrar, vllm>>
    BY <1>4 DEF WriteArtifact, BeginHash, StatFile, ReadChunk, EndFile, EndHash
  <2> QED
    BY <2>1 DEF RegistrarInv
<1> QED
  BY <1>1, <1>2, <1>3, <1>4 DEF RegistryNext

-----------------------------------------------------------------------------
(* The whole specification.                                                 *)

\* The registration's invariants hold in every behaviour of the selective parts.
THEOREM RegistryInvariant == Spec => [](HashingInv /\ RegistrarInv)
<1>1. Init => HashingInv /\ RegistrarInv
  <2> SUFFICES ASSUME Init PROVE HashingInv /\ RegistrarInv
    OBVIOUS
  <2>1. RegistryInit
    BY DEF Init
  <2>2. FilesOk
    BY <2>1, RegistryAssumption DEF RegistryInit, FilesOk
  <2>3. RegistrarInv
    BY <2>1 DEF RegistryInit, RegistrarInv
  <2> QED
    BY <2>1, <2>2, <2>3 DEF RegistryInit, HashingInv, EvidenceOk
<1>2. HashingInv /\ RegistrarInv /\ [Next]_vars => (HashingInv /\ RegistrarInv)'
  <2> SUFFICES ASSUME HashingInv, RegistrarInv, [Next]_vars
               PROVE  HashingInv' /\ RegistrarInv'
    OBVIOUS
  <2>1. CASE RegistryNext
    <3>1. ASSUME \E a \in Artifacts, content \in Contents : WriteArtifact(a, content)
          PROVE  HashingInv'
      BY <3>1, WriteKeepsHashing
    <3>2. ASSUME BeginHash \/ StatFile \/ ReadChunk \/ EndFile PROVE HashingInv'
      BY <3>2, HashingSteps
    <3>3. ASSUME EndHash PROVE HashingInv'
      BY <3>3, EndHashKeepsHashing
    <3>4. ASSUME (\E path \in ClassPaths : BeginRegister(path)) \/ RegisterStep \/ RegisterFails
          PROVE  HashingInv'
      <4>1. UNCHANGED <<files, history, hashing, evidence>>
        BY <3>4 DEF BeginRegister, RegisterStep, RegisterFails
      <4> QED
        BY <4>1 DEF HashingInv, FilesOk, EvidenceOk, HashingOk, Current
    <3>5. RegistrarInv'
      BY <2>1, RegistrationSteps
    <3> QED
      BY <2>1, <3>1, <3>2, <3>3, <3>4, <3>5 DEF RegistryNext
  <2>2. CASE UNCHANGED registryVars
    BY <2>2 DEF registryVars, HashingInv, FilesOk, EvidenceOk, HashingOk, Current, RegistrarInv
  <2> QED
    BY <2>1, <2>2 DEF Next, vars
<1> QED
  BY <1>1, <1>2, PTL DEF Spec

\* Every digest of a bundle of evidence is of a content its file really had, for
\* any number of artifacts, of writes and of hashing runs
\* (SelectiveGateEvidence.from_artifact_paths).
THEOREM EvidenceIsAlwaysOfOneFile == Spec => []EvidenceIsOfOneFile
<1>1. HashingInv /\ RegistrarInv => EvidenceIsOfOneFile
  BY DEF HashingInv, EvidenceOk, EvidenceIsOfOneFile
<1> QED
  BY <1>1, RegistryInvariant, PTL

\* Wherever a registration breaks off, and whatever is registered afterwards, a
\* model that vLLM knows has the backend of the same evidence
\* (SelectiveExtensionRegistrar.register).
THEOREM ModelAlwaysHasItsBackend == Spec => []ModelHasItsBackend
<1>1. HashingInv /\ RegistrarInv => ModelHasItsBackend
  BY DEF RegistrarInv, ModelHasItsBackend
<1> QED
  BY <1>1, RegistryInvariant, PTL

-----------------------------------------------------------------------------
(* Induction, recursion and orders.                                         *)

\* A set of numbers that is not empty has a least one.
LEMMA Least ==
  ASSUME NEW T \in SUBSET Nat, T # {}
  PROVE  \E m \in T : \A n \in T : m <= n
<1> DEFINE R == OpToRel(<, Nat)
<1>1. \A x, y \in Nat : x < y => <<x, y>> \in R
  BY DEF OpToRel
<1>2. IsWellFoundedOn(R, Nat)
  BY NatLessThanWellFounded
<1> HIDE DEF R
<1>3. PICK m \in T : \A y \in T : ~(<<y, m>> \in R)
  BY <1>2, WFMin
<1>4. ASSUME NEW n \in T PROVE m <= n
  <2>1. n \in Nat /\ m \in Nat /\ ~(n < m)
    BY <1>1, <1>3
  <2> QED BY <2>1
<1> QED BY <1>4

\* What holds at the start and from one step to the next holds up to the end.
LEMMA SetInduction ==
  ASSUME NEW n \in Nat, NEW T, 0 \in T, \A i \in 0 .. n - 1 : i \in T => i + 1 \in T
  PROVE  \A i \in 0 .. n : i \in T
<1> DEFINE B == {i \in 0 .. n : i \notin T}
<1>1. SUFFICES ASSUME B # {} PROVE FALSE
  OBVIOUS
<1>2. PICK m \in B : \A k \in B : m <= k
  <2>1. B \in SUBSET Nat
    OBVIOUS
  <2> HIDE DEF B
  <2> QED BY <1>1, <2>1, Least
<1>3. m \in 1 .. n /\ m - 1 \in 0 .. n - 1 /\ m \notin T
  <2>1. m \in 0 .. n /\ m # 0 /\ m \notin T
    OBVIOUS
  <2> QED BY <2>1
<1>4. m - 1 \in T
  <2>1. m - 1 \notin B
    BY <1>2, <1>3
  <2>2. m - 1 \in 0 .. n
    BY <1>3
  <2> QED BY <2>1, <2>2
<1>5. (m - 1) + 1 \in T /\ (m - 1) + 1 = m
  BY <1>3, <1>4
<1> QED BY <1>3, <1>5

\* The steps of a recursion over numbers, and a function that takes them.
Steps(n, V) == [1 .. n -> [V -> V]]
Takes(f, n, V, base, g) ==
  f \in [0 .. n -> V] /\ f[0] = base /\ \A i \in 1 .. n : f[i] = g[i][f[i - 1]]

\* Whatever its steps, a recursion over numbers has a solution.
LEMMA Recursion ==
  ASSUME NEW n \in Nat, NEW V, NEW base \in V, NEW g \in Steps(n, V)
  PROVE  \E f : Takes(f, n, V, base, g)
<1> DEFINE Solves(f, m) == f[0] = base /\ \A i \in 1 .. m : f[i] = g[i][f[i - 1]]
           T == {m \in 0 .. n : \E f \in [0 .. m -> V] : Solves(f, m)}
<1> USE DEF Steps
<1>1. 0 \in T
  <2> DEFINE f == [i \in 0 .. 0 |-> base]
  <2>1. f \in [0 .. 0 -> V] /\ f[0] = base
    OBVIOUS
  <2>2. \A i \in 1 .. 0 : FALSE
    OBVIOUS
  <2> HIDE DEF f
  <2>3. Solves(f, 0)
    BY <2>1, <2>2
  <2>4. 0 \in 0 .. n
    OBVIOUS
  <2> HIDE DEF Solves
  <2> QED BY <2>1, <2>3, <2>4
<1>2. ASSUME NEW m \in 0 .. n - 1, m \in T PROVE m + 1 \in T
  <2>1. PICK f \in [0 .. m -> V] : Solves(f, m)
    BY <1>2
  <2> DEFINE h == [i \in 0 .. m + 1 |-> IF i = m + 1 THEN g[m + 1][f[m]] ELSE f[i]]
  <2>2. f[m] \in V /\ m + 1 \in 1 .. n /\ g[m + 1][f[m]] \in V
    OBVIOUS
  <2>3. h \in [0 .. m + 1 -> V]
    BY <2>2
  <2>4. Solves(h, m + 1)
    <3>1. h[0] = base
      BY <2>1
    <3>2. ASSUME NEW i \in 1 .. m + 1 PROVE h[i] = g[i][h[i - 1]]
      <4>1. h[i - 1] = f[i - 1]
        OBVIOUS
      <4>2. CASE i = m + 1
        <5>1. h[i] = g[m + 1][f[m]] /\ i - 1 = m
          BY <4>2
        <5> QED BY <4>1, <4>2, <5>1
      <4>3. CASE i # m + 1
        <5>1. h[i] = f[i] /\ i \in 1 .. m
          BY <4>3
        <5> QED BY <2>1, <4>1, <5>1
      <4> QED BY <4>2, <4>3
    <3> HIDE DEF h
    <3> QED BY <3>1, <3>2
  <2>5. m + 1 \in 0 .. n
    OBVIOUS
  <2> HIDE DEF h, Solves
  <2> QED BY <2>3, <2>4, <2>5
<1>3. n \in T
  <2> HIDE DEF T
  <2>1. \A m \in 0 .. n : m \in T
    BY <1>1, <1>2, SetInduction
  <2> QED BY <2>1
<1> QED BY <1>3 DEF Takes

\* A strict total order of a set, as a set of pairs, and an element's rank in it.
IsStrictOrder(R, S) ==
  /\ \A x \in S : <<x, x>> \notin R
  /\ \A x, y \in S : x = y \/ <<x, y>> \in R \/ <<y, x>> \in R
  /\ \A x, y, z \in S : <<x, y>> \in R /\ <<y, z>> \in R => <<x, z>> \in R
Rank(R, S, x) == Cardinality({y \in S : <<y, x>> \in R})

\* Ranks are numbers below the size of the set, in the order of the elements.
LEMMA RankOrder ==
  ASSUME NEW S, IsFiniteSet(S), NEW R, IsStrictOrder(R, S)
  PROVE  /\ \A x \in S : Rank(R, S, x) \in 0 .. Cardinality(S) - 1
         /\ \A x, y \in S : <<x, y>> \in R <=> Rank(R, S, x) < Rank(R, S, y)
<1> DEFINE Below(x) == {y \in S : <<y, x>> \in R}
<1>1. ASSUME NEW x \in S
      PROVE  /\ IsFiniteSet(Below(x)) /\ Cardinality(Below(x)) \in Nat
             /\ Cardinality(Below(x)) < Cardinality(S)
             /\ Cardinality(S) \in Nat
  <2>1. Below(x) \in SUBSET S /\ Below(x) # S
    BY DEF IsStrictOrder
  <2>2. /\ IsFiniteSet(Below(x)) /\ Cardinality(Below(x)) <= Cardinality(S)
        /\ Cardinality(S) = Cardinality(Below(x)) => S = Below(x)
    <3> HIDE DEF Below
    <3> QED BY <2>1, FS_Subset
  <2>3. Cardinality(S) \in Nat /\ Cardinality(Below(x)) \in Nat
    BY <2>2, FS_CardinalityType
  <2> HIDE DEF Below
  <2> QED BY <2>1, <2>2, <2>3
<1>2. ASSUME NEW x \in S, NEW y \in S, <<x, y>> \in R
      PROVE  Cardinality(Below(x)) < Cardinality(Below(y))
  <2>1. Below(x) \in SUBSET Below(y) /\ x \in Below(y) /\ x \notin Below(x)
    BY <1>2 DEF IsStrictOrder
  <2>2. /\ Cardinality(Below(x)) <= Cardinality(Below(y))
        /\ Cardinality(Below(x)) \in Nat /\ Cardinality(Below(y)) \in Nat
        /\ Cardinality(Below(y)) = Cardinality(Below(x)) => Below(y) = Below(x)
    <3>1. /\ IsFiniteSet(Below(y))
          /\ Cardinality(Below(x)) \in Nat /\ Cardinality(Below(y)) \in Nat
      BY <1>1
    <3> HIDE DEF Below
    <3> QED BY <2>1, <3>1, FS_Subset
  <2> HIDE DEF Below
  <2> QED BY <2>1, <2>2
<1>3. ASSUME NEW x \in S, NEW y \in S, ~(<<x, y>> \in R)
      PROVE  ~(Cardinality(Below(x)) < Cardinality(Below(y)))
  <2>1. x = y \/ <<y, x>> \in R
    BY <1>3 DEF IsStrictOrder
  <2>2. Cardinality(Below(x)) \in Nat /\ Cardinality(Below(y)) \in Nat
    BY <1>1
  <2>3. x = y \/ Cardinality(Below(y)) < Cardinality(Below(x))
    BY <1>2, <2>1
  <2> HIDE DEF Below
  <2> QED BY <2>2, <2>3
<1>4. \A x \in S : Rank(R, S, x) = Cardinality(Below(x))
  BY DEF Rank
<1> HIDE DEF Below
<1> QED BY <1>1, <1>2, <1>3, <1>4

\* Every rank is the rank of exactly one element.
LEMMA RankBijection ==
  ASSUME NEW S, IsFiniteSet(S), NEW R, IsStrictOrder(R, S)
  PROVE  /\ Cardinality(S) \in Nat
         /\ \A k \in 0 .. Cardinality(S) - 1 : \E x \in S : Rank(R, S, x) = k
         /\ \A x, y \in S : Rank(R, S, x) = Rank(R, S, y) => x = y
<1> DEFINE m == Cardinality(S)
           r == [x \in S |-> Rank(R, S, x)]
<1>1. m \in Nat
  BY FS_CardinalityType
<1>2. \A x, y \in S : Rank(R, S, x) = Rank(R, S, y) => x = y
  <2> SUFFICES ASSUME NEW x \in S, NEW y \in S, Rank(R, S, x) = Rank(R, S, y), x # y
               PROVE  FALSE
    OBVIOUS
  <2>1. <<x, y>> \in R \/ <<y, x>> \in R
    BY DEF IsStrictOrder
  <2>2. /\ Rank(R, S, x) < Rank(R, S, y) \/ Rank(R, S, y) < Rank(R, S, x)
        /\ Rank(R, S, x) \in Nat /\ Rank(R, S, y) \in Nat
    BY <2>1, RankOrder
  <2> QED BY <2>2
<1>3. r \in [S -> 0 .. m - 1]
  BY RankOrder
<1>4. r \in Injection(S, 0 .. m - 1)
  <2>1. \A x, y \in S : r[x] = r[y] => x = y
    BY <1>2
  <2> HIDE DEF r, m
  <2> QED BY <1>3, <2>1 DEF Injection, IsInjective
<1>5. IsFiniteSet(0 .. m - 1) /\ Cardinality(0 .. m - 1) = m
  <2> HIDE DEF m
  <2>1. /\ IsFiniteSet(0 .. m - 1)
        /\ Cardinality(0 .. m - 1) = IF 0 > m - 1 THEN 0 ELSE (m - 1) - 0 + 1
    BY <1>1, FS_Interval
  <2> QED BY <1>1, <2>1
<1>6. r \in Surjection(S, 0 .. m - 1)
  <2>1. Cardinality(S) = Cardinality(0 .. m - 1)
    BY <1>5
  <2> HIDE DEF r, m
  <2> QED BY <1>4, <1>5, <2>1, FS_Injection
<1>7. \A k \in 0 .. m - 1 : \E x \in S : r[x] = k
  <2> HIDE DEF r, m
  <2> QED BY <1>6 DEF Surjection
<1> QED BY <1>1, <1>2, <1>7

\* As many elements have a rank below a number as it says.
LEMMA RanksBelow ==
  ASSUME NEW S, IsFiniteSet(S), NEW R, IsStrictOrder(R, S), NEW k \in 0 .. Cardinality(S)
  PROVE  Cardinality({x \in S : Rank(R, S, x) < k}) = k
<1> DEFINE T == {x \in S : Rank(R, S, x) < k}
           r == [x \in T |-> Rank(R, S, x)]
<1>1. /\ Cardinality(S) \in Nat
      /\ \A x \in S : Rank(R, S, x) \in 0 .. Cardinality(S) - 1
      /\ \A i \in 0 .. Cardinality(S) - 1 : \E x \in S : Rank(R, S, x) = i
      /\ \A x, y \in S : Rank(R, S, x) = Rank(R, S, y) => x = y
  BY RankOrder, RankBijection
<1>2. k \in Nat /\ k <= Cardinality(S)
  BY <1>1
<1>3. IsFiniteSet(T)
  BY FS_Subset
<1>4. r \in [T -> 0 .. k - 1]
  BY <1>1, <1>2
<1>5. \A x, y \in T : r[x] = r[y] => x = y
  BY <1>1
<1>6. \A i \in 0 .. k - 1 : \E x \in T : r[x] = i
  <2> SUFFICES ASSUME NEW i \in 0 .. k - 1 PROVE \E x \in T : r[x] = i
    OBVIOUS
  <2>1. i \in 0 .. Cardinality(S) - 1 /\ i < k
    BY <1>1, <1>2
  <2>2. PICK x \in S : Rank(R, S, x) = i
    BY <1>1, <2>1
  <2> QED BY <2>1, <2>2
<1>7. ExistsBijection(T, 0 .. k - 1)
  <2> HIDE DEF T, r
  <2>1. r \in Injection(T, 0 .. k - 1)
    BY <1>4, <1>5 DEF Injection, IsInjective
  <2>2. r \in Surjection(T, 0 .. k - 1)
    BY <1>4, <1>6 DEF Surjection
  <2> QED BY <2>1, <2>2 DEF ExistsBijection, Bijection
<1>8. Cardinality(0 .. k - 1) = Cardinality(T)
  <2> HIDE DEF T
  <2> QED BY <1>3, <1>7, FS_Bijection
<1>9. Cardinality(0 .. k - 1) = k
  <2>1. Cardinality(0 .. k - 1) = IF 0 > k - 1 THEN 0 ELSE (k - 1) - 0 + 1
    BY <1>2, FS_Interval
  <2> QED BY <1>2, <2>1
<1> QED BY <1>8, <1>9

-----------------------------------------------------------------------------
(* Ranges of a prompt's rows.                                               *)

RowRanges == [start : Nat, end : Nat]
InRange(r, p) == r.start <= p /\ p < r.end
RowsIn(S) == UNION {r.start .. r.end - 1 : r \in S}

\* A row of some ranges is a row of one of them.
LEMMA RowsInMember ==
  ASSUME NEW S \in SUBSET RowRanges
  PROVE  /\ RowsIn(S) \subseteq Nat
         /\ \A p \in Nat : p \in RowsIn(S) <=> \E r \in S : InRange(r, p)
<1>1. \A r \in S : r.start \in Nat /\ r.end \in Nat
  BY DEF RowRanges
<1>2. ASSUME NEW p \in RowsIn(S) PROVE p \in Nat /\ \E r \in S : InRange(r, p)
  <2>1. PICK r \in S : p \in r.start .. r.end - 1
    BY DEF RowsIn
  <2> QED BY <1>1, <2>1 DEF InRange
<1>3. ASSUME NEW p \in Nat, NEW r \in S, InRange(r, p) PROVE p \in RowsIn(S)
  <2>1. p \in r.start .. r.end - 1
    BY <1>1, <1>3 DEF InRange
  <2> QED BY <2>1 DEF RowsIn
<1> QED BY <1>2, <1>3

\* The elements of a sequence.
LEMMA SeqElements ==
  ASSUME NEW V, NEW s \in Seq(V)
  PROVE  /\ Len(s) \in Nat /\ DOMAIN s = 1 .. Len(s)
         /\ \A i \in 1 .. Len(s) : s[i] \in V
         /\ ToSet(s) = {s[i] : i \in 1 .. Len(s)}
         /\ ToSet(s) \in SUBSET V
         /\ s = <<>> <=> Len(s) = 0
<1>1. Len(s) \in Nat /\ DOMAIN s = 1 .. Len(s) /\ \A i \in 1 .. Len(s) : s[i] \in V
  BY ElementOfSeq, LenProperties
<1>2. s = <<>> <=> Len(s) = 0
  BY EmptySeq
<1> QED BY <1>1, <1>2 DEF ToSet

\* The rows of a sequence of ranges are those of the ranges it holds.
LEMMA RowsOfRanges ==
  ASSUME NEW s \in Seq(RowRanges)
  PROVE  /\ RowsOf(s) = RowsIn(ToSet(s)) /\ RowsOf(s) \subseteq Nat
         /\ \A p \in Nat : p \in RowsOf(s) <=> \E i \in 1 .. Len(s) : InRange(s[i], p)
<1>1. RowsOf(s) = RowsIn(ToSet(s))
  BY DEF RowsOf, RowsIn
<1>2. ToSet(s) \in SUBSET RowRanges /\ ToSet(s) = {s[i] : i \in 1 .. Len(s)}
  BY SeqElements
<1>3. /\ RowsIn(ToSet(s)) \subseteq Nat
      /\ \A p \in Nat : p \in RowsIn(ToSet(s)) <=> \E r \in ToSet(s) : InRange(r, p)
  BY <1>2, RowsInMember
<1> QED BY <1>1, <1>2, <1>3

\* The elements of a sequence with one more.
LEMMA AppendElements ==
  ASSUME NEW V, NEW s \in Seq(V), NEW e \in V
  PROVE  /\ Append(s, e) \in Seq(V) /\ Len(Append(s, e)) = Len(s) + 1
         /\ \A i \in 1 .. Len(s) : Append(s, e)[i] = s[i]
         /\ Append(s, e)[Len(s) + 1] = e
         /\ ToSet(Append(s, e)) = ToSet(s) \cup {e}
<1> DEFINE t == Append(s, e)
<1>1. /\ t \in Seq(V) /\ Len(t) = Len(s) + 1 /\ Len(s) \in Nat
      /\ \A i \in 1 .. Len(s) : t[i] = s[i]
      /\ t[Len(s) + 1] = e
  BY AppendProperties, LenProperties
<1>2. /\ ToSet(s) = {s[i] : i \in 1 .. Len(s)}
      /\ ToSet(t) = {t[i] : i \in 1 .. Len(t)}
  <2> HIDE DEF t
  <2> QED BY <1>1, SeqElements
<1> HIDE DEF t
<1>3. ToSet(t) = ToSet(s) \cup {e}
  <2>1. ASSUME NEW x \in ToSet(t) PROVE x \in ToSet(s) \cup {e}
    <3>1. PICK i \in 1 .. Len(t) : x = t[i]
      BY <1>2
    <3>2. i \in 1 .. Len(s) \/ i = Len(s) + 1
      BY <1>1
    <3> QED BY <1>1, <1>2, <3>1, <3>2
  <2>2. ASSUME NEW x \in ToSet(s) \cup {e} PROVE x \in ToSet(t)
    <3>1. \E i \in 1 .. Len(t) : x = t[i]
      <4>1. CASE x = e
        <5>1. Len(s) + 1 \in 1 .. Len(t)
          BY <1>1
        <5> QED BY <1>1, <4>1, <5>1
      <4>2. CASE x \in ToSet(s)
        <5>1. PICK i \in 1 .. Len(s) : x = s[i]
          BY <1>2, <4>2
        <5>2. i \in 1 .. Len(t)
          BY <1>1
        <5> QED BY <1>1, <5>1, <5>2
      <4> QED BY <4>1, <4>2
    <3> QED BY <1>2, <3>1
  <2> QED BY <2>1, <2>2
<1> QED BY <1>1, <1>3 DEF t

\* What is left without the empty ranges.
LEMMA NonEmptyRanges ==
  ASSUME NEW s \in Seq(RowRanges)
  PROVE  /\ NonEmpty(s) \in Seq(RowRanges)
         /\ ToSet(NonEmpty(s)) = {r \in ToSet(s) : r.start < r.end}
<1> DEFINE N == Len(s)
           V == Seq(RowRanges)
           Step(f, i) == IF s[i].start < s[i].end THEN Append(f, s[i]) ELSE f
           Body(f) == [i \in 0 .. N |-> IF i = 0 THEN <<>>
                                       ELSE IF s[i].start < s[i].end THEN Append(f[i - 1], s[i])
                                       ELSE f[i - 1]]
           F == CHOOSE f : f = Body(f)
           g == [i \in 1 .. N |-> [f \in V |-> Step(f, i)]]
           Seen(i) == {s[j] : j \in {k \in 1 .. i : s[k].start < s[k].end}}
<1>1. N \in Nat /\ \A i \in 1 .. N : s[i] \in RowRanges
  BY SeqElements
<1>2. NonEmpty(s) = F[N]
  BY DEF NonEmpty
<1>3. <<>> \in V /\ ToSet(<<>>) = {}
  BY DEF ToSet
<1>4. \A f \in V, i \in 1 .. N :
        /\ Step(f, i) \in V
        /\ ToSet(Step(f, i)) = IF s[i].start < s[i].end THEN ToSet(f) \cup {s[i]} ELSE ToSet(f)
  <2> SUFFICES ASSUME NEW f \in V, NEW i \in 1 .. N
               PROVE  /\ Step(f, i) \in V
                      /\ ToSet(Step(f, i)) = IF s[i].start < s[i].end
                                              THEN ToSet(f) \cup {s[i]} ELSE ToSet(f)
    OBVIOUS
  <2>1. s[i] \in RowRanges
    BY <1>1
  <2>2. Append(f, s[i]) \in V /\ ToSet(Append(f, s[i])) = ToSet(f) \cup {s[i]}
    BY <2>1, AppendElements
  <2> HIDE DEF V, N
  <2> QED BY <2>2
<1>5. /\ Seen(0) = {}
      /\ \A i \in 1 .. N :
           Seen(i) = IF s[i].start < s[i].end THEN Seen(i - 1) \cup {s[i]} ELSE Seen(i - 1)
  <2>1. \A i \in 1 .. N : 1 .. i = (1 .. i - 1) \cup {i}
    BY <1>1
  <2>2. 1 .. 0 = {}
    OBVIOUS
  <2> QED BY <2>1, <2>2
<1>6. Seen(N) = {r \in ToSet(s) : r.start < r.end}
  BY SeqElements
<1> DEFINE E == <<>>
<1>7. \A f : Body(f) = [i \in 0 .. N |-> IF i = 0 THEN E ELSE Step(f[i - 1], i)]
  OBVIOUS
<1>e. E \in V /\ ToSet(E) = {}
  BY <1>3
<1> HIDE DEF N, V, Step, Body, F, g, Seen, E
<1>8. g \in Steps(N, V) /\ \A f \in V, i \in 1 .. N : g[i][f] = Step(f, i)
  BY <1>4 DEF g, Steps
<1>9. PICK f : Takes(f, N, V, E, g)
  BY <1>1, <1>e, <1>8, Recursion
<1>10. f = Body(f)
  <2>1. \A i \in 1 .. N : i - 1 \in 0 .. N
    BY <1>1
  <2>2. f \in [0 .. N -> V] /\ f[0] = E /\ \A i \in 1 .. N : f[i] = g[i][f[i - 1]]
    BY <1>9 DEF Takes
  <2>3. \A i \in 1 .. N : f[i] = Step(f[i - 1], i)
    BY <1>8, <2>1, <2>2
  <2>4. \A i \in 0 .. N : i # 0 => i \in 1 .. N
    BY <1>1
  <2> QED BY <1>7, <2>2, <2>3, <2>4
<1>11. F = Body(F)
  BY <1>10 DEF F
<1>12. F[0] = E /\ \A i \in 1 .. N : F[i] = Step(F[i - 1], i)
  <2>1. 0 \in 0 .. N /\ \A i \in 1 .. N : i \in 0 .. N /\ i # 0
    BY <1>1
  <2> QED BY <1>7, <1>11, <2>1
<1> DEFINE T == {i \in 0 .. N : F[i] \in V /\ ToSet(F[i]) = Seen(i)}
<1>13. 0 \in T
  <2>1. 0 \in 0 .. N
    BY <1>1
  <2>2. F[0] \in V /\ ToSet(F[0]) = Seen(0)
    BY <1>e, <1>5, <1>12, Zenon
  <2> QED BY <2>1, <2>2
<1>14. ASSUME NEW i \in 0 .. N - 1, i \in T PROVE i + 1 \in T
  <2> DEFINE k == i + 1
  <2>1. k \in 1 .. N /\ k \in 0 .. N /\ k - 1 = i
    BY <1>1
  <2> HIDE DEF k
  <2>2. F[k] = Step(F[i], k) /\ F[i] \in V /\ ToSet(F[i]) = Seen(i)
    BY <1>12, <1>14, <2>1, Zenon
  <2>3. F[k] \in V /\ ToSet(F[k]) = Seen(k)
    BY <1>4, <1>5, <2>1, <2>2, Zenon
  <2> QED BY <2>1, <2>3 DEF k
<1>15. N \in T
  <2> HIDE DEF T
  <2>1. \A i \in 0 .. N : i \in T
    BY <1>1, <1>13, <1>14, SetInduction
  <2> QED BY <1>1, <2>1
<1> QED BY <1>2, <1>6, <1>15 DEF V

\* Ranges that are beside each other, in order, with the rows of a set of ranges.
IsMerged(ms, S) ==
  /\ ms \in Seq(RowRanges)
  /\ \A i \in 1 .. Len(ms) : ms[i].start < ms[i].end
  /\ \A i \in 1 .. Len(ms) - 1 : ms[i].end <= ms[i + 1].start
  /\ \A i \in 1 .. Len(ms) : \E q \in S : ms[i].start = q.start
  /\ \A i \in 1 .. Len(ms) : \E q \in S : ms[i].end = q.end
  /\ RowsOf(ms) = RowsIn(S)

\* _merge_ranges with one more range, the last in order.
LEMMA MergeOne ==
  ASSUME NEW S \in SUBSET RowRanges, NEW ms, IsMerged(ms, S),
         NEW r \in RowRanges, r.start < r.end, \A q \in S : q.start <= r.start
  PROVE  IsMerged(Merge(ms, r), S \cup {r})
<1> DEFINE N == Len(ms)
           last == ms[N]
           new == Merge(ms, r)
<1>1. /\ ms \in Seq(RowRanges) /\ N \in Nat /\ \A i \in 1 .. N : ms[i] \in RowRanges
      /\ ms = <<>> <=> N = 0
  BY SeqElements DEF IsMerged
<1>2. r.start \in Nat /\ r.end \in Nat
      /\ \A i \in 1 .. N : ms[i].start \in Nat /\ ms[i].end \in Nat
  BY <1>1 DEF RowRanges
<1>3. RowsIn(S \cup {r}) = RowsIn(S) \cup (r.start .. r.end - 1)
  BY DEF RowsIn
<1>4. RowsOf(ms) = RowsIn(S)
  BY DEF IsMerged
<1>5. CASE ms = <<>> \/ r.start > last.end
  <2>1. new = Append(ms, r)
    BY <1>5 DEF Merge
  <2>2. /\ new \in Seq(RowRanges) /\ Len(new) = N + 1
        /\ \A i \in 1 .. N : new[i] = ms[i]
        /\ new[N + 1] = r /\ ToSet(new) = ToSet(ms) \cup {r}
    BY <1>1, <2>1, AppendElements
  <2>3. RowsOf(new) = RowsOf(ms) \cup (r.start .. r.end - 1)
    BY <2>2 DEF RowsOf
  <2>4. \A i \in 1 .. N + 1 : i \in 1 .. N \/ i = N + 1
    BY <1>1
  <2> HIDE DEF new
  <2>5. \A i \in 1 .. Len(new) : new[i].start < new[i].end
    BY <2>2, <2>4 DEF IsMerged
  <2>6. ASSUME NEW i \in 1 .. Len(new) - 1 PROVE new[i].end <= new[i + 1].start
    <3>1. i \in 1 .. N
      BY <1>1, <2>2
    <3>2. CASE i = N
      <4>1. ms # <<>> /\ new[i] = last /\ new[i + 1] = r
        BY <1>1, <2>2, <3>1, <3>2
      <4> HIDE DEF N
      <4>2. r.start > last.end /\ last.end \in Nat
        BY <1>2, <1>5, <3>1, <3>2, <4>1
      <4> QED BY <1>2, <4>1, <4>2
    <3>3. CASE i # N
      <4>1. i \in 1 .. N - 1 /\ i + 1 \in 1 .. N
        BY <1>1, <3>1, <3>3
      <4>2. new[i] = ms[i] /\ new[i + 1] = ms[i + 1]
        BY <2>2, <3>1, <4>1
      <4> QED BY <4>1, <4>2 DEF IsMerged
    <3> QED BY <3>2, <3>3
  <2>7. /\ \A i \in 1 .. Len(new) : \E q \in S \cup {r} : new[i].start = q.start
        /\ \A i \in 1 .. Len(new) : \E q \in S \cup {r} : new[i].end = q.end
    BY <2>2, <2>4 DEF IsMerged
  <2> QED BY <1>3, <1>4, <2>2, <2>3, <2>5, <2>6, <2>7 DEF IsMerged, new
<1>6. CASE ~(ms = <<>> \/ r.start > last.end)
  <2>1. N \in 1 .. N /\ last \in RowRanges /\ last.start \in Nat /\ last.end \in Nat
    BY <1>1, <1>2, <1>6
  <2>2. last.start <= r.start /\ r.start <= last.end /\ last.start < last.end
    <3>1. PICK q \in S : last.start = q.start
      BY <2>1 DEF IsMerged
    <3>2. last.start < last.end
      BY <2>1 DEF IsMerged
    <3> HIDE DEF last
    <3> QED BY <1>2, <1>6, <2>1, <3>1, <3>2
  <2>3. \A p \in Nat : p \in RowsOf(ms) <=> \E i \in 1 .. N : InRange(ms[i], p)
    BY <1>1, RowsOfRanges
  <2>4. CASE r.end > last.end
    <3> DEFINE wide == TokenRange(last.start, r.end)
    <3>1. new = [ms EXCEPT ![N] = wide]
      BY <1>6, <2>4 DEF Merge
    <3>2. wide \in RowRanges /\ wide.start = last.start /\ wide.end = r.end
      BY <1>2, <2>1 DEF TokenRange, RowRanges
    <3>3. /\ new \in Seq(RowRanges) /\ Len(new) = N
          /\ \A i \in 1 .. N : i # N => new[i] = ms[i]
          /\ new[N] = wide
      <4> HIDE DEF wide, N, new
      <4> QED BY <1>1, <2>1, <3>1, <3>2, ExceptSeq DEF N
    <3> HIDE DEF new, wide
    <3>4. \A i \in 1 .. Len(new) : new[i].start < new[i].end
      <4> SUFFICES ASSUME NEW i \in 1 .. N PROVE new[i].start < new[i].end
        BY <3>3
      <4>1. CASE i = N
        <5> HIDE DEF N, last
        <5> QED BY <1>2, <2>1, <2>2, <2>4, <3>2, <3>3, <4>1
      <4>2. CASE i # N
        BY <3>3, <4>2 DEF IsMerged
      <4> QED BY <4>1, <4>2
    <3>5. ASSUME NEW i \in 1 .. Len(new) - 1 PROVE new[i].end <= new[i + 1].start
      <4>1. i \in 1 .. N - 1 /\ i # N /\ i \in 1 .. N /\ i + 1 \in 1 .. N
        BY <1>1, <3>3
      <4>2. ms[i].end <= ms[i + 1].start
        BY <4>1 DEF IsMerged
      <4>3. new[i] = ms[i] /\ new[i + 1].start = ms[i + 1].start
        BY <3>2, <3>3, <4>1
      <4> QED BY <4>2, <4>3
    <3>6. /\ \A i \in 1 .. Len(new) : \E q \in S \cup {r} : new[i].start = q.start
          /\ \A i \in 1 .. Len(new) : \E q \in S \cup {r} : new[i].end = q.end
      BY <2>1, <3>2, <3>3 DEF IsMerged
    <3>7. \A p \in Nat : p \in RowsOf(new) <=> \E i \in 1 .. N : InRange(new[i], p)
      BY <3>3, RowsOfRanges
    <3>8. \A p \in Nat : p \in RowsOf(new) <=> p \in RowsOf(ms) \cup (r.start .. r.end - 1)
      <4> SUFFICES ASSUME NEW p \in Nat
                   PROVE  p \in RowsOf(new) <=> p \in RowsOf(ms) \cup (r.start .. r.end - 1)
        OBVIOUS
      <4>1. InRange(wide, p) <=> InRange(last, p) \/ p \in r.start .. r.end - 1
        <5> HIDE DEF last
        <5> QED BY <1>2, <2>1, <2>2, <2>4, <3>2 DEF InRange
      <4>2. InRange(last, p) => p \in RowsOf(ms)
        BY <2>1, <2>3
      <4>3. ASSUME p \in RowsOf(new) PROVE p \in RowsOf(ms) \cup (r.start .. r.end - 1)
        <5>1. PICK i \in 1 .. N : InRange(new[i], p)
          BY <3>7, <4>3
        <5>2. CASE i = N
          <6> HIDE DEF last
          <6> QED BY <3>3, <4>1, <4>2, <5>1, <5>2
        <5>3. CASE i # N
          BY <2>3, <3>3, <5>1, <5>3
        <5> QED BY <5>2, <5>3
      <4>4. ASSUME p \in RowsOf(ms) \cup (r.start .. r.end - 1) PROVE p \in RowsOf(new)
        <5>1. CASE p \in r.start .. r.end - 1
          <6>1. InRange(new[N], p)
            BY <3>3, <4>1, <5>1
          <6> HIDE DEF N
          <6> QED BY <2>1, <3>7, <6>1
        <5>2. CASE p \in RowsOf(ms)
          <6>1. PICK i \in 1 .. N : InRange(ms[i], p)
            BY <2>3, <5>2
          <6>2. InRange(new[i], p)
            BY <3>3, <4>1, <6>1
          <6> HIDE DEF N
          <6> QED BY <3>7, <6>2
        <5> QED BY <4>4, <5>1, <5>2
      <4> QED BY <4>3, <4>4
    <3>9. RowsOf(new) = RowsOf(ms) \cup (r.start .. r.end - 1)
      <4>1. RowsOf(new) \subseteq Nat /\ RowsOf(ms) \subseteq Nat
        BY <1>1, <3>3, RowsOfRanges
      <4>2. r.start .. r.end - 1 \subseteq Nat
        BY <1>2
      <4> QED BY <3>8, <4>1, <4>2
    <3> QED BY <1>3, <1>4, <3>3, <3>4, <3>5, <3>6, <3>9 DEF IsMerged, new
  <2>5. CASE ~(r.end > last.end)
    <3>1. new = ms
      BY <1>6, <2>5 DEF Merge
    <3>2. r.start .. r.end - 1 \subseteq RowsOf(ms)
      <4> SUFFICES ASSUME NEW p \in r.start .. r.end - 1 PROVE p \in RowsOf(ms)
        OBVIOUS
      <4>1. p \in Nat /\ InRange(last, p)
        <5> HIDE DEF last
        <5> QED BY <1>2, <2>1, <2>2, <2>5 DEF InRange
      <4> QED BY <2>1, <2>3, <4>1
    <3>3. RowsOf(ms) = RowsIn(S \cup {r})
      BY <1>3, <1>4, <3>2
    <3> QED BY <3>1, <3>3 DEF IsMerged
  <2> QED BY <2>4, <2>5
<1> QED BY <1>5, <1>6

\* The order of ranges, as a set of pairs.
RangeOrder(S) == {x \in S \X S : InOrder(x[1], x[2])}

\* Ranges as _merge_ranges sorts them: a strict order, of which the rank counts the
\* ranges before one.
LEMMA RangeOrderIsStrict ==
  ASSUME NEW S \in SUBSET RowRanges
  PROVE  /\ IsStrictOrder(RangeOrder(S), S)
         /\ \A q, r \in S : <<q, r>> \in RangeOrder(S) <=> InOrder(q, r)
         /\ \A r \in S : Rank(RangeOrder(S), S, r) = Cardinality({q \in S : InOrder(q, r)})
<1>1. \A q, r \in S : <<q, r>> \in RangeOrder(S) <=> InOrder(q, r)
  BY DEF RangeOrder
<1>2. \A r \in S : r.start \in Nat /\ r.end \in Nat /\ r = [start |-> r.start, end |-> r.end]
  BY DEF RowRanges
<1>3. ASSUME NEW x \in S, NEW y \in S
      PROVE  ~InOrder(x, x) /\ (x = y \/ InOrder(x, y) \/ InOrder(y, x))
  <2>1. x.start = y.start /\ x.end = y.end => x = y
    BY <1>2
  <2> QED BY <1>2, <2>1 DEF InOrder
<1>4. ASSUME NEW x \in S, NEW y \in S, NEW z \in S, InOrder(x, y), InOrder(y, z)
      PROVE  InOrder(x, z)
  BY <1>2, <1>4 DEF InOrder
<1>5. \A r \in S : Rank(RangeOrder(S), S, r) = Cardinality({q \in S : InOrder(q, r)})
  <2> SUFFICES ASSUME NEW r \in S
               PROVE  Rank(RangeOrder(S), S, r) = Cardinality({q \in S : InOrder(q, r)})
    OBVIOUS
  <2>1. {q \in S : <<q, r>> \in RangeOrder(S)} = {q \in S : InOrder(q, r)}
    BY <1>1
  <2> QED BY <2>1 DEF Rank
<1>6. IsStrictOrder(RangeOrder(S), S)
  BY <1>1, <1>3, <1>4 DEF IsStrictOrder
<1> QED BY <1>1, <1>5, <1>6

\* The ranges one after the other.
LEMMA OrderedRanges ==
  ASSUME NEW S \in SUBSET RowRanges, IsFiniteSet(S)
  PROVE  /\ Cardinality(S) \in Nat /\ Ordered(S) \in Seq(RowRanges)
         /\ Len(Ordered(S)) = Cardinality(S)
         /\ \A i \in 1 .. Cardinality(S) : Ordered(S)[i] \in S
         /\ \A r \in S : \E i \in 1 .. Cardinality(S) : Ordered(S)[i] = r
         /\ \A i, j \in 1 .. Cardinality(S) : i < j => Ordered(S)[i].start <= Ordered(S)[j].start
<1> DEFINE m == Cardinality(S)
           R == RangeOrder(S)
           o == Ordered(S)
<1>1. /\ IsStrictOrder(R, S)
      /\ \A q, r \in S : <<q, r>> \in R <=> InOrder(q, r)
      /\ \A r \in S : Rank(R, S, r) = Cardinality({q \in S : InOrder(q, r)})
  BY RangeOrderIsStrict
<1>2. /\ m \in Nat
      /\ \A k \in 0 .. m - 1 : \E x \in S : Rank(R, S, x) = k
      /\ \A x, y \in S : Rank(R, S, x) = Rank(R, S, y) => x = y
      /\ \A x \in S : Rank(R, S, x) \in 0 .. m - 1
      /\ \A x, y \in S : <<x, y>> \in R <=> Rank(R, S, x) < Rank(R, S, y)
  <2> HIDE DEF R
  <2> QED BY <1>1, RankOrder, RankBijection
<1>3. /\ DOMAIN o = 1 .. m
      /\ \A k \in 1 .. m : o[k] \in S /\ Rank(R, S, o[k]) = k - 1
  <2>1. o = [k \in 1 .. m |-> CHOOSE r \in S : Cardinality({q \in S : InOrder(q, r)}) = k - 1]
    BY DEF Ordered
  <2> HIDE DEF o, R
  <2>2. ASSUME NEW k \in 1 .. m PROVE o[k] \in S /\ Rank(R, S, o[k]) = k - 1
    <3>1. k - 1 \in 0 .. m - 1
      BY <1>2
    <3>2. PICK x \in S : Rank(R, S, x) = k - 1
      BY <1>2, <3>1
    <3>3. \E r \in S : Cardinality({q \in S : InOrder(q, r)}) = k - 1
      BY <1>1, <3>2
    <3>4. o[k] \in S /\ Cardinality({q \in S : InOrder(q, o[k])}) = k - 1
      BY <2>1, <3>3
    <3> QED BY <1>1, <3>4
  <2>3. DOMAIN o = 1 .. m
    BY <2>1
  <2> HIDE DEF m
  <2> QED BY <2>2, <2>3
<1>4. o \in Seq(RowRanges) /\ Len(o) = m
  <2>1. o = [k \in 1 .. m |-> CHOOSE r \in S : Cardinality({q \in S : InOrder(q, r)}) = k - 1]
    BY DEF Ordered
  <2> HIDE DEF o, m
  <2>2. o \in [1 .. m -> RowRanges]
    BY <1>3, <2>1
  <2> QED BY <1>2, <2>2, SeqDef, LenProperties
<1>5. \A r \in S : \E i \in 1 .. m : o[i] = r
  <2> SUFFICES ASSUME NEW r \in S PROVE \E i \in 1 .. m : o[i] = r
    OBVIOUS
  <2> DEFINE i == Rank(R, S, r) + 1
  <2>1. i \in 1 .. m /\ i - 1 = Rank(R, S, r)
    BY <1>2
  <2> HIDE DEF i, R, m, o
  <2>2. o[i] = r
    BY <1>2, <1>3, <2>1
  <2> QED BY <2>1, <2>2
<1>6. ASSUME NEW i \in 1 .. m, NEW j \in 1 .. m, i < j PROVE o[i].start <= o[j].start
  <2> HIDE DEF R, m, o
  <2>1. Rank(R, S, o[i]) < Rank(R, S, o[j]) /\ o[i] \in S /\ o[j] \in S
    BY <1>2, <1>3, <1>6
  <2>2. InOrder(o[i], o[j])
    BY <1>1, <1>2, <2>1
  <2>3. o[i].start \in Nat /\ o[j].start \in Nat
    BY <2>1 DEF RowRanges
  <2> QED BY <2>2, <2>3 DEF InOrder
<1> QED BY <1>2, <1>3, <1>4, <1>5, <1>6

\* _merge_ranges keeps the rows of its ranges and gives ranges beside each other.
LEMMA MergedRanges ==
  ASSUME NEW S \in SUBSET RowRanges, IsFiniteSet(S), \A r \in S : r.start < r.end
  PROVE  IsMerged(MergeRanges(S), S)
<1> DEFINE o == Ordered(S)
           N == Len(o)
           V == Seq(RowRanges)
           Body(f) == [i \in 0 .. N |-> IF i = 0 THEN <<>> ELSE Merge(f[i - 1], o[i])]
           F == CHOOSE f : f = Body(f)
           g == [i \in 1 .. N |-> [f \in V |-> Merge(f, o[i])]]
           Seen(i) == {o[j] : j \in 1 .. i}
           E == <<>>
<1>1. /\ N \in Nat
      /\ \A i \in 1 .. N : o[i] \in RowRanges /\ o[i] \in S /\ o[i].start < o[i].end
      /\ \A i, j \in 1 .. N : i < j => o[i].start <= o[j].start
  BY OrderedRanges
<1>2. MergeRanges(S) = F[N]
  BY DEF MergeRanges
<1>3. E \in V /\ IsMerged(E, {})
  <2>1. RowsOf(E) = {} /\ RowsIn({}) = {}
    BY DEF RowsOf, RowsIn, ToSet
  <2>2. E \in Seq(RowRanges) /\ Len(E) = 0
    OBVIOUS
  <2> HIDE DEF E
  <2>3. 1 .. Len(E) = {} /\ 1 .. Len(E) - 1 = {}
    BY <2>2
  <2> QED BY <2>1, <2>2, <2>3 DEF IsMerged
<1>4. \A f \in V, i \in 1 .. N : Merge(f, o[i]) \in V
  <2> SUFFICES ASSUME NEW f \in V, NEW i \in 1 .. N PROVE Merge(f, o[i]) \in V
    OBVIOUS
  <2>1. o[i] \in RowRanges
    BY <1>1
  <2>2. Append(f, o[i]) \in V
    BY <2>1, AppendElements
  <2>3. ASSUME f # <<>>
        PROVE  [f EXCEPT ![Len(f)] = TokenRange(f[Len(f)].start, o[i].end)] \in V
    <3>1. Len(f) \in 1 .. Len(f) /\ f[Len(f)] \in RowRanges
      BY <2>3, SeqElements
    <3>2. TokenRange(f[Len(f)].start, o[i].end) \in RowRanges
      BY <2>1, <3>1 DEF TokenRange, RowRanges
    <3> QED BY <3>1, <3>2, ExceptSeq
  <2> HIDE DEF V, o
  <2> QED BY <2>2, <2>3 DEF Merge
<1>5. /\ Seen(0) = {} /\ Seen(N) = S
      /\ \A i \in 1 .. N : /\ Seen(i) = Seen(i - 1) \cup {o[i]}
                           /\ Seen(i - 1) \in SUBSET RowRanges
                           /\ \A q \in Seen(i - 1) : q.start <= o[i].start
  <2>1. \A i \in 1 .. N : 1 .. i = (1 .. i - 1) \cup {i}
    BY <1>1
  <2>2. 1 .. 0 = {}
    OBVIOUS
  <2>3. Seen(N) = S
    BY <1>1, OrderedRanges
  <2>4. \A i \in 1 .. N : \A j \in 1 .. i - 1 : j \in 1 .. N /\ j < i
    BY <1>1
  <2> HIDE DEF o, N
  <2> QED BY <1>1, <2>1, <2>2, <2>3, <2>4
<1>6. \A f : Body(f) = [i \in 0 .. N |-> IF i = 0 THEN E ELSE Merge(f[i - 1], o[i])]
  OBVIOUS
<1> HIDE DEF o, N, V, Body, F, g, Seen, E
<1>7. g \in Steps(N, V) /\ \A f \in V, i \in 1 .. N : g[i][f] = Merge(f, o[i])
  BY <1>4 DEF g, Steps
<1>8. PICK f : Takes(f, N, V, E, g)
  BY <1>1, <1>3, <1>7, Recursion
<1>9. f = Body(f)
  <2>1. \A i \in 1 .. N : i - 1 \in 0 .. N
    BY <1>1
  <2>2. f \in [0 .. N -> V] /\ f[0] = E /\ \A i \in 1 .. N : f[i] = g[i][f[i - 1]]
    BY <1>8 DEF Takes
  <2>3. \A i \in 1 .. N : f[i] = Merge(f[i - 1], o[i])
    BY <1>7, <2>1, <2>2
  <2>4. \A i \in 0 .. N : i # 0 => i \in 1 .. N
    BY <1>1
  <2> QED BY <1>6, <2>2, <2>3, <2>4
<1>10. F = Body(F)
  BY <1>9 DEF F
<1>11. F[0] = E /\ \A i \in 1 .. N : F[i] = Merge(F[i - 1], o[i])
  <2>1. 0 \in 0 .. N /\ \A i \in 1 .. N : i \in 0 .. N /\ i # 0
    BY <1>1
  <2> QED BY <1>6, <1>10, <2>1
<1> DEFINE T == {i \in 0 .. N : IsMerged(F[i], Seen(i))}
<1>12. 0 \in T
  <2>1. 0 \in 0 .. N
    BY <1>1
  <2>2. IsMerged(F[0], Seen(0))
    BY <1>3, <1>5, <1>11, Zenon
  <2> QED BY <2>1, <2>2
<1>13. ASSUME NEW i \in 0 .. N - 1, i \in T PROVE i + 1 \in T
  <2> DEFINE k == i + 1
  <2>1. k \in 1 .. N /\ k \in 0 .. N /\ k - 1 = i
    BY <1>1
  <2> HIDE DEF k
  <2>2. F[k] = Merge(F[i], o[k]) /\ IsMerged(F[i], Seen(i))
    BY <1>11, <1>13, <2>1, Zenon
  <2>3. /\ o[k] \in RowRanges /\ o[k].start < o[k].end
        /\ Seen(k) = Seen(i) \cup {o[k]} /\ Seen(i) \in SUBSET RowRanges
        /\ \A q \in Seen(i) : q.start <= o[k].start
    BY <1>1, <1>5, <2>1, Zenon
  <2>4. IsMerged(Merge(F[i], o[k]), Seen(i) \cup {o[k]})
    BY <2>2, <2>3, MergeOne
  <2> QED BY <2>1, <2>2, <2>3, <2>4 DEF k
<1>14. N \in T
  <2> HIDE DEF T
  <2>1. \A i \in 0 .. N : i \in T
    BY <1>1, <1>12, <1>13, SetInduction
  <2> QED BY <1>1, <2>1
<1> QED BY <1>2, <1>5, <1>14

\* Canonical ranges follow one another, not only the next one.
LEMMA CanonicalOrder ==
  ASSUME NEW n \in Nat, NEW s \in Seq(RowRanges), CanonicalRanges(n, s)
  PROVE  /\ \A i \in 1 .. Len(s) : s[i].start < s[i].end /\ s[i].end <= n
         /\ \A i, j \in 1 .. Len(s) : i < j => s[i].end <= s[j].start
<1> DEFINE N == Len(s)
<1>1. /\ N \in Nat
      /\ \A i \in 1 .. N : s[i].start \in Nat /\ s[i].end \in Nat
      /\ ToSet(s) = {s[i] : i \in 1 .. N}
  <2>1. N \in Nat /\ ToSet(s) = {s[i] : i \in 1 .. N} /\ \A i \in 1 .. N : s[i] \in RowRanges
    BY SeqElements
  <2> HIDE DEF N
  <2> QED BY <2>1 DEF RowRanges
<1>2. \A i \in 1 .. N : s[i].start < s[i].end /\ s[i].end <= n
  BY <1>1 DEF CanonicalRanges
<1>3. \A i \in 1 .. N - 1 : s[i].end <= s[i + 1].start
  BY DEF CanonicalRanges
<1> HIDE DEF N
<1>4. ASSUME NEW i \in 1 .. N PROVE \A j \in 1 .. N : i < j => s[i].end <= s[j].start
  <2> DEFINE T == {j \in 0 .. N : i < j => s[i].end <= s[j].start}
  <2>1. 0 \in T
    BY <1>1
  <2>2. ASSUME NEW j \in 0 .. N - 1, j \in T PROVE j + 1 \in T
    <3>1. j + 1 \in 0 .. N /\ j + 1 \in 1 .. N
      BY <1>1
    <3>2. ASSUME i < j + 1 PROVE s[i].end <= s[j + 1].start
      <4>1. j \in 1 .. N - 1 /\ j \in 1 .. N /\ (j = i \/ i < j)
        BY <1>1, <3>2
      <4>2. s[j].end <= s[j + 1].start /\ s[j].start < s[j].end
        BY <1>2, <1>3, <4>1
      <4>3. i < j => s[i].end <= s[j].start
        BY <2>2
      <4>4. s[i].end \in Nat /\ s[j].start \in Nat /\ s[j].end \in Nat /\ s[j + 1].start \in Nat
        BY <1>1, <3>1, <4>1
      <4> QED BY <4>1, <4>2, <4>3, <4>4
    <3> QED BY <3>1, <3>2
  <2> HIDE DEF T
  <2>3. \A j \in 0 .. N : j \in T
    BY <1>1, <2>1, <2>2, SetInduction
  <2>4. \A j \in 1 .. N : j \in 0 .. N
    BY <1>1
  <2> QED BY <2>3, <2>4 DEF T
<1> QED BY <1>2, <1>4 DEF N

\* A sequence has finitely many elements.
LEMMA FiniteElements ==
  ASSUME NEW V, NEW s \in Seq(V)
  PROVE  IsFiniteSet(ToSet(s))
<1>1. /\ Len(s) \in Nat /\ DOMAIN s = 1 .. Len(s)
      /\ \A i \in 1 .. Len(s) : s[i] \in ToSet(s)
      /\ \A x \in ToSet(s) : \E i \in 1 .. Len(s) : s[i] = x
      /\ s = [i \in 1 .. Len(s) |-> s[i]]
  BY SeqElements
<1>2. s \in [1 .. Len(s) -> ToSet(s)]
  BY <1>1
<1>3. s \in Surjection(1 .. Len(s), ToSet(s))
  BY <1>1, <1>2 DEF Surjection
<1>4. IsFiniteSet(1 .. Len(s))
  <2>1. 1 \in Int /\ Len(s) \in Int
    BY <1>1
  <2> QED BY <2>1, FS_Interval
<1> QED BY <1>3, <1>4, FS_Surjection

\* _complement: the rows of a prompt that are in none of the ranges.
LEMMA ComplementRows ==
  ASSUME NEW n \in Nat, NEW s \in Seq(RowRanges), CanonicalRanges(n, s)
  PROVE  /\ ToSet(Complement(n, s)) \in SUBSET RowRanges
         /\ IsFiniteSet(ToSet(Complement(n, s)))
         /\ \A r \in ToSet(Complement(n, s)) : r.start < r.end /\ r.end <= n
         /\ RowsIn(ToSet(Complement(n, s))) = (0 .. n - 1) \ RowsOf(s)
<1> DEFINE N == Len(s)
           Low(i) == IF i = 1 THEN 0 ELSE s[i - 1].end
           High(i) == IF i = N + 1 THEN n ELSE s[i].start
           gaps == [i \in 1 .. N + 1 |-> TokenRange(Low(i), High(i))]
           C == ToSet(Complement(n, s))
<1>1. /\ N \in Nat
      /\ \A i \in 1 .. N : s[i].start \in Nat /\ s[i].end \in Nat
      /\ \A i \in 1 .. N : s[i].start < s[i].end /\ s[i].end <= n
      /\ \A i, j \in 1 .. N : i < j => s[i].end <= s[j].start
  <2>1. N \in Nat /\ \A i \in 1 .. N : s[i] \in RowRanges
    BY SeqElements
  <2>2. /\ \A i \in 1 .. N : s[i].start < s[i].end /\ s[i].end <= n
        /\ \A i, j \in 1 .. N : i < j => s[i].end <= s[j].start
    BY CanonicalOrder
  <2> HIDE DEF N
  <2> QED BY <2>1, <2>2 DEF RowRanges
<1>2. \A p \in Nat : p \in RowsOf(s) <=> \E i \in 1 .. N : InRange(s[i], p)
  BY RowsOfRanges
<1>3. \A i \in 1 .. N + 1 : Low(i) \in Nat /\ High(i) \in Nat /\ High(i) <= n
  <2> SUFFICES ASSUME NEW i \in 1 .. N + 1
               PROVE  Low(i) \in Nat /\ High(i) \in Nat /\ High(i) <= n
    OBVIOUS
  <2>1. i # 1 => i - 1 \in 1 .. N
    BY <1>1
  <2>2. i # N + 1 => i \in 1 .. N
    BY <1>1
  <2>3. Low(i) \in Nat
    <3>1. CASE i = 1
      BY <3>1
    <3>2. CASE i # 1
      <4> HIDE DEF N
      <4> QED BY <1>1, <2>1, <3>2
    <3> QED BY <3>1, <3>2
  <2>4. High(i) \in Nat /\ High(i) <= n
    <3>1. CASE i = N + 1
      BY <3>1
    <3>2. CASE i # N + 1
      <4>1. High(i) = s[i].start /\ i \in 1 .. N
        BY <2>2, <3>2
      <4>2. s[i].start \in Nat /\ s[i].end \in Nat /\ s[i].start < s[i].end /\ s[i].end <= n
        BY <1>1, <4>1
      <4> HIDE DEF N, High
      <4> QED BY <4>1, <4>2
    <3> QED BY <3>1, <3>2
  <2> QED BY <2>3, <2>4
<1>4. gaps \in Seq(RowRanges) /\ Len(gaps) = N + 1
      /\ \A i \in 1 .. N + 1 : gaps[i].start = Low(i) /\ gaps[i].end = High(i)
  <2>1. \A i \in 1 .. N + 1 : TokenRange(Low(i), High(i)) \in RowRanges
    BY <1>3 DEF TokenRange, RowRanges
  <2> HIDE DEF N, Low, High
  <2>2. gaps \in [1 .. N + 1 -> RowRanges] /\ N + 1 \in Nat
    BY <1>1, <2>1
  <2>3. gaps \in Seq(RowRanges) /\ Len(gaps) = N + 1
    BY <2>2, SeqDef, LenProperties
  <2> QED BY <2>3 DEF TokenRange
<1>5. Complement(n, s) = NonEmpty(gaps)
  BY DEF Complement
<1>6. /\ Complement(n, s) \in Seq(RowRanges)
      /\ C = {r \in ToSet(gaps) : r.start < r.end}
  <2> HIDE DEF gaps
  <2> QED BY <1>4, <1>5, NonEmptyRanges
<1>7. ToSet(gaps) = {gaps[i] : i \in 1 .. N + 1}
  <2> HIDE DEF gaps, N
  <2> QED BY <1>4, SeqElements
<1>8. C \in SUBSET RowRanges /\ IsFiniteSet(C)
  BY <1>6, SeqElements, FiniteElements
<1>9. \A r \in C : r.start < r.end /\ r.end <= n
  <2> HIDE DEF gaps, C, N, Low, High
  <2> QED BY <1>3, <1>4, <1>6, <1>7
<1>10. /\ RowsIn(C) \subseteq Nat
       /\ \A p \in Nat : p \in RowsIn(C) <=> \E i \in 1 .. N + 1 : Low(i) <= p /\ p < High(i)
  <2>1. /\ RowsIn(C) \subseteq Nat
        /\ \A p \in Nat : p \in RowsIn(C) <=> \E r \in C : InRange(r, p)
    BY <1>8, RowsInMember
  <2>2. ASSUME NEW p \in Nat
        PROVE  (\E r \in C : InRange(r, p)) <=> \E i \in 1 .. N + 1 : Low(i) <= p /\ p < High(i)
    <3> HIDE DEF gaps, C, N, Low, High
    <3>1. ASSUME NEW r \in C, InRange(r, p) PROVE \E i \in 1 .. N + 1 : Low(i) <= p /\ p < High(i)
      BY <1>4, <1>6, <1>7, <3>1 DEF InRange
    <3>2. ASSUME NEW i \in 1 .. N + 1, Low(i) <= p, p < High(i) PROVE \E r \in C : InRange(r, p)
      <4>1. gaps[i] \in ToSet(gaps) /\ InRange(gaps[i], p) /\ gaps[i].start < gaps[i].end
        BY <1>3, <1>4, <1>7, <3>2 DEF InRange
      <4> QED BY <1>6, <4>1
    <3> QED BY <3>1, <3>2
  <2> HIDE DEF C, Low, High, N
  <2> QED BY <2>1, <2>2
<1>11. ASSUME NEW p \in Nat, NEW i \in 1 .. N + 1, Low(i) <= p, p < High(i)
       PROVE  p \in 0 .. n - 1 /\ p \notin RowsOf(s)
  <2>1. p < n
    <3>1. Low(i) \in Nat /\ High(i) \in Nat /\ High(i) <= n
      BY <1>3
    <3> HIDE DEF Low, High, N
    <3> QED BY <1>11, <3>1
  <2>2. ASSUME NEW j \in 1 .. N PROVE ~InRange(s[j], p)
    <3>1. CASE j < i
      <4>1. i # 1 /\ i - 1 \in 1 .. N /\ (j = i - 1 \/ j < i - 1)
        BY <1>1, <3>1
      <4>2. s[i - 1].end <= p /\ s[i - 1].start < s[i - 1].end
        BY <1>1, <1>11, <4>1
      <4>3. j < i - 1 => s[j].end <= s[i - 1].start
        BY <1>1, <4>1
      <4> HIDE DEF N
      <4>4. s[j].end <= p
        BY <1>1, <4>1, <4>2, <4>3
      <4> QED BY <1>1, <4>4 DEF InRange
    <3>2. CASE ~(j < i)
      <4>1. i \in 1 .. N /\ i # N + 1 /\ (j = i \/ i < j)
        BY <1>1, <3>2
      <4>2. p < s[i].start /\ s[i].start < s[i].end
        BY <1>1, <1>11, <4>1
      <4>3. i < j => s[i].end <= s[j].start
        BY <1>1, <4>1
      <4> HIDE DEF N
      <4>4. p < s[j].start
        BY <1>1, <4>1, <4>2, <4>3
      <4> QED BY <1>1, <4>4 DEF InRange
    <3> QED BY <3>1, <3>2
  <2> HIDE DEF N
  <2> QED BY <1>2, <2>1, <2>2
<1>12. ASSUME NEW p \in 0 .. n - 1, p \notin RowsOf(s)
       PROVE  \E i \in 1 .. N + 1 : Low(i) <= p /\ p < High(i)
  <2> DEFINE K == {k \in 1 .. N + 1 : p < High(k)}
  <2>1. N + 1 \in K
    BY <1>1
  <2>2. PICK k \in K : \A j \in K : k <= j
    <3>1. K \in SUBSET Nat /\ K # {}
      BY <2>1
    <3> HIDE DEF K
    <3> QED BY <3>1, Least
  <2>3. k \in 1 .. N + 1 /\ p < High(k) /\ \A j \in 1 .. N + 1 : p < High(j) => k <= j
    <3> HIDE DEF N, High
    <3> QED BY <2>2
  <2>4. Low(k) <= p
    <3>1. CASE k = 1
      BY <3>1
    <3>2. CASE k # 1
      <4>1. k - 1 \in 1 .. N /\ k - 1 \in 1 .. N + 1 /\ k - 1 # N + 1 /\ ~(k <= k - 1)
        BY <1>1, <2>3, <3>2
      <4>2. ~(p < s[k - 1].start)
        BY <2>3, <4>1
      <4>3. ~InRange(s[k - 1], p)
        BY <1>2, <1>12, <4>1
      <4>4. s[k - 1].end <= p
        BY <1>1, <4>1, <4>2, <4>3 DEF InRange
      <4> QED BY <3>2, <4>4
    <3> QED BY <3>1, <3>2
  <2> HIDE DEF Low, High, N
  <2> QED BY <2>3, <2>4
<1>13. RowsIn(C) = (0 .. n - 1) \ RowsOf(s)
  <2> HIDE DEF Low, High, N, C
  <2>1. ASSUME NEW p \in RowsIn(C) PROVE p \in (0 .. n - 1) \ RowsOf(s)
    BY <1>10, <1>11
  <2>2. ASSUME NEW p \in (0 .. n - 1) \ RowsOf(s) PROVE p \in RowsIn(C)
    BY <1>10, <1>12
  <2> QED BY <2>1, <2>2
<1> QED BY <1>8, <1>9, <1>13

-----------------------------------------------------------------------------
(* The selection of rows.                                                   *)

\* A prompt to select for, and what select accepts of it.
PromptOk(in) ==
  /\ in.n \in Nat /\ in.suffix \in Nat
  /\ in.cached \in Seq(RowRanges)
  /\ in.scores \in [0 .. in.n - 1 -> Nat]
Selectable(in) ==
  PromptOk(in) /\ CanonicalRanges(in.n, in.cached) /\ in.suffix <= in.n
Fractions == [num : Nat, den : Nat \ {0}]

\* The candidates are verified rows of the prompt.
LEMMA EligibleRows ==
  ASSUME NEW in, Selectable(in)
  PROVE  /\ RowsOf(in.cached) \subseteq 0 .. in.n - 1
         /\ ToSet(ForcedSuffix(in.n, in.suffix)) \in SUBSET RowRanges
         /\ IsFiniteSet(ToSet(ForcedSuffix(in.n, in.suffix)))
         /\ \A r \in ToSet(ForcedSuffix(in.n, in.suffix)) : r.start < r.end /\ r.end <= in.n
         /\ RowsIn(ToSet(ForcedSuffix(in.n, in.suffix))) \subseteq 0 .. in.n - 1
         /\ Eligible(in) = RowsOf(in.cached) \ RowsIn(ToSet(ForcedSuffix(in.n, in.suffix)))
         /\ Eligible(in) \subseteq 0 .. in.n - 1
         /\ IsFiniteSet(Eligible(in)) /\ Cardinality(Eligible(in)) \in Nat
<1> DEFINE F == ForcedSuffix(in.n, in.suffix)
<1>1. in.n \in Nat /\ in.suffix \in Nat /\ in.suffix <= in.n /\ in.cached \in Seq(RowRanges)
  BY DEF Selectable, PromptOk
<1>2. RowsOf(in.cached) \subseteq 0 .. in.n - 1
  <2>1. CanonicalRanges(in.n, in.cached)
    BY DEF Selectable
  <2>2. \A i \in 1 .. Len(in.cached) : in.cached[i].start < in.cached[i].end /\ in.cached[i].end <= in.n
    BY <1>1, <2>1, CanonicalOrder
  <2>3. \A i \in 1 .. Len(in.cached) : in.cached[i] \in RowRanges
    BY <1>1, SeqElements
  <2>4. /\ RowsOf(in.cached) \subseteq Nat
        /\ \A p \in Nat : p \in RowsOf(in.cached) <=> \E i \in 1 .. Len(in.cached) : InRange(in.cached[i], p)
    BY <1>1, RowsOfRanges
  <2> SUFFICES ASSUME NEW p \in RowsOf(in.cached) PROVE p \in 0 .. in.n - 1
    OBVIOUS
  <2>5. p \in Nat
    BY <2>4
  <2>6. PICK i \in 1 .. Len(in.cached) : InRange(in.cached[i], p)
    BY <2>4, <2>5
  <2>7. in.cached[i].end \in Nat /\ in.cached[i].end <= in.n
    BY <2>2, <2>3 DEF RowRanges
  <2> QED BY <1>1, <2>5, <2>6, <2>7 DEF InRange
<1>3. /\ ToSet(F) = IF in.suffix = 0 THEN {} ELSE {TokenRange(in.n - in.suffix, in.n)}
      /\ F \in Seq(RowRanges)
  <2>1. in.suffix # 0 => TokenRange(in.n - in.suffix, in.n) \in RowRanges
    BY <1>1 DEF TokenRange, RowRanges
  <2>2. CASE in.suffix = 0
    BY <2>2 DEF ForcedSuffix, ToSet
  <2>3. CASE in.suffix # 0
    <3>1. F = <<TokenRange(in.n - in.suffix, in.n)>>
      BY <2>3 DEF ForcedSuffix
    <3> DEFINE e == TokenRange(in.n - in.suffix, in.n)
    <3> HIDE DEF e, F
    <3>2. F = <<e>> /\ e \in RowRanges
      BY <2>1, <2>3, <3>1 DEF e
    <3>3. F \in Seq(RowRanges) /\ Len(F) = 1 /\ F[1] = e
      BY <3>2
    <3>4. ToSet(F) = {F[i] : i \in 1 .. 1}
      BY <3>3, SeqElements
    <3> QED BY <2>3, <3>3, <3>4 DEF e
  <2> QED BY <2>2, <2>3
<1>4. /\ ToSet(F) \in SUBSET RowRanges
      /\ \A r \in ToSet(F) : r.start < r.end /\ r.end <= in.n
      /\ RowsIn(ToSet(F)) \subseteq 0 .. in.n - 1
  <2>1. ToSet(F) \in SUBSET RowRanges
    BY <1>3, SeqElements
  <2>2. \A r \in ToSet(F) : r.start < r.end /\ r.end <= in.n /\ r.start .. r.end - 1 \subseteq 0 .. in.n - 1
    <3> HIDE DEF F
    <3> QED BY <1>1, <1>3 DEF TokenRange
  <2> HIDE DEF F
  <2> QED BY <2>1, <2>2 DEF RowsIn
<1>5. IsFiniteSet(ToSet(F))
  BY <1>3, FiniteElements
<1>6. Eligible(in) = RowsOf(in.cached) \ RowsIn(ToSet(F))
  BY DEF Eligible, RowsOf, RowsIn
<1>7. Eligible(in) \subseteq 0 .. in.n - 1
  <2> HIDE DEF F
  <2> QED BY <1>2, <1>6
<1>8. IsFiniteSet(Eligible(in)) /\ Cardinality(Eligible(in)) \in Nat
  <2>1. IsFiniteSet(0 .. in.n - 1)
    <3>1. 0 \in Int /\ in.n - 1 \in Int
      BY <1>1
    <3> QED BY <3>1, FS_Interval
  <2>2. IsFiniteSet(Eligible(in))
    BY <1>7, <2>1, FS_Subset
  <2> QED BY <2>2, FS_CardinalityType
<1> QED BY <1>2, <1>4, <1>5, <1>6, <1>7, <1>8

\* The budget is no more than the candidates.
LEMMA BudgetBound ==
  ASSUME NEW in, Selectable(in), NEW ratio \in Fractions, ratio.num <= ratio.den
  PROVE  Budget(in, ratio) \in 0 .. Cardinality(Eligible(in))
<1> DEFINE e == Cardinality(Eligible(in))
           a == ratio.num
           d == ratio.den
<1>1. e \in Nat /\ a \in Nat /\ d \in Nat \ {0} /\ a <= d /\ Budget(in, ratio) = (e * a) \div d
  BY EligibleRows DEF Fractions, Budget
<1> HIDE DEF e, a, d
<1>2. e * a \in Nat /\ e * d \in Nat /\ e * a <= e * d
  BY <1>1, Z3
<1> DEFINE c == e * a
<1> HIDE DEF c
<1>3. c \in Nat /\ c \div d \in Nat /\ (c \div d) * d <= c
  <2>1. c \in Nat
    BY <1>2 DEF c
  <2>2. c \div d \in Nat /\ c % d \in 0 .. d - 1 /\ c = (c \div d) * d + (c % d)
    BY <1>1, <2>1, Division
  <2>3. (c \div d) * d \in Nat
    BY <1>1, <2>2, Z3
  <2> QED BY <1>1, <2>1, <2>2, <2>3
<1> DEFINE q == c \div d
<1> HIDE DEF q
<1>4. q \in Nat /\ q * d <= c /\ c <= e * d
  BY <1>2, <1>3 DEF q, c
<1>5. q <= e
  <2>1. SUFFICES ASSUME e + 1 <= q PROVE FALSE
    BY <1>1, <1>4
  <2>2. (e + 1) * d <= q * d /\ (e + 1) * d = e * d + d /\ q * d \in Nat
    BY <1>1, <1>4, <2>1, Z3
  <2> QED BY <1>1, <1>2, <1>3, <1>4, <2>2
<1>6. Budget(in, ratio) = q
  BY <1>1 DEF q, c
<1> QED BY <1>1, <1>4, <1>5, <1>6 DEF e

\* A smaller ratio has no larger budget.
LEMMA BudgetFalls ==
  ASSUME NEW in, Selectable(in), NEW r \in Fractions, NEW s \in Fractions, Smaller(r, s)
  PROVE  Budget(in, r) <= Budget(in, s)
<1> DEFINE e == Cardinality(Eligible(in))
           a == r.num
           b == r.den
           c == s.num
           d == s.den
<1>1. /\ e \in Nat /\ a \in Nat /\ b \in Nat \ {0} /\ c \in Nat /\ d \in Nat \ {0}
      /\ a * d < c * b
      /\ Budget(in, r) = (e * a) \div b /\ Budget(in, s) = (e * c) \div d
  BY EligibleRows DEF Fractions, Budget, Smaller
<1> HIDE DEF e, a, b, c, d
<1> DEFINE x == e * a
           y == e * c
<1>2. x \in Nat /\ y \in Nat
  BY <1>1, Z3
<1>3. x * d <= y * b
  <2>1. e * (a * d) <= e * (c * b)
    <3>1. a * d \in Nat /\ c * b \in Nat
      BY <1>1, Z3
    <3> DEFINE u == a * d
               v == c * b
    <3>2. u \in Nat /\ v \in Nat /\ u < v
      BY <1>1, <3>1
    <3> HIDE DEF u, v
    <3>3. e * u <= e * v
      BY <1>1, <3>2, Z3
    <3> QED BY <3>3 DEF u, v
  <2>2. e * (a * d) = (e * a) * d /\ e * (c * b) = (e * c) * b
    BY <1>1, Z3
  <2> QED BY <2>1, <2>2
<1> HIDE DEF x, y
<1> DEFINE q == x \div b
           p == y \div d
<1>4. q \in Nat /\ p \in Nat /\ q * b <= x /\ y < (p + 1) * d
  <2>1. /\ q \in Nat /\ x % b \in 0 .. b - 1 /\ x = q * b + (x % b)
        /\ p \in Nat /\ y % d \in 0 .. d - 1 /\ y = p * d + (y % d)
    BY <1>1, <1>2, Division
  <2> HIDE DEF q, p
  <2>2. q * b \in Nat /\ p * d \in Nat /\ (p + 1) * d = p * d + d
    BY <1>1, <2>1, Z3
  <2> QED BY <1>1, <2>1, <2>2
<1> HIDE DEF q, p
<1>5. q <= p
  <2>1. SUFFICES ASSUME p + 1 <= q PROVE FALSE
    BY <1>4
  <2>2. y * b < ((p + 1) * d) * b
    <3> DEFINE z == (p + 1) * d
    <3>1. z \in Nat /\ y < z
      BY <1>1, <1>4, Z3
    <3> HIDE DEF z
    <3>2. y * b < z * b
      BY <1>1, <1>2, <3>1, Z3
    <3> QED BY <3>2 DEF z
  <2>3. (q * b) * d <= x * d
    <3> DEFINE z == q * b
    <3>1. z \in Nat /\ z <= x
      BY <1>1, <1>4, Z3
    <3> HIDE DEF z
    <3>2. z * d <= x * d
      BY <1>1, <1>2, <3>1, Z3
    <3> QED BY <3>2 DEF z
  <2>4. ((p + 1) * d) * b <= (q * b) * d
    <3> DEFINE z == d * b
    <3>1. z \in Nat
      BY <1>1, Z3
    <3>2. ((p + 1) * d) * b = (p + 1) * z /\ (q * b) * d = q * z
      BY <1>1, <1>4, Z3
    <3> HIDE DEF z
    <3>3. (p + 1) * z <= q * z
      BY <1>4, <2>1, <3>1, Z3
    <3> QED BY <3>2, <3>3
  <2>5. y * b \in Nat /\ x * d \in Nat /\ ((p + 1) * d) * b \in Nat /\ (q * b) * d \in Nat
    BY <1>1, <1>2, <1>4, Z3
  <2> QED BY <1>3, <2>2, <2>3, <2>4, <2>5
<1> QED BY <1>1, <1>5 DEF q, p, x, y

\* The order of the candidates, as a set of pairs.
ScoreOrder(in, S) == {x \in S \X S : Ahead(in, x[1], x[2])}

\* Candidates as CacheBlendSelectionPolicy.select sorts them: a strict order, of
\* which the rank counts the candidates ahead of one.
LEMMA ScoreOrderIsStrict ==
  ASSUME NEW in, PromptOk(in), NEW S \in SUBSET (0 .. in.n - 1)
  PROVE  /\ IsStrictOrder(ScoreOrder(in, S), S)
         /\ \A p, q \in S : <<p, q>> \in ScoreOrder(in, S) <=> Ahead(in, p, q)
         /\ \A p \in S : Rank(ScoreOrder(in, S), S, p) = Cardinality({q \in S : Ahead(in, q, p)})
<1>1. \A p, q \in S : <<p, q>> \in ScoreOrder(in, S) <=> Ahead(in, p, q)
  BY DEF ScoreOrder
<1>2. \A p \in S : p \in Nat /\ in.scores[p] \in Nat
  BY DEF PromptOk
<1>3. ASSUME NEW p \in S, NEW q \in S
      PROVE  ~Ahead(in, p, p) /\ (p = q \/ Ahead(in, p, q) \/ Ahead(in, q, p))
  BY <1>2 DEF Ahead
<1>4. ASSUME NEW p \in S, NEW q \in S, NEW r \in S, Ahead(in, p, q), Ahead(in, q, r)
      PROVE  Ahead(in, p, r)
  BY <1>2, <1>4 DEF Ahead
<1>5. ASSUME NEW p \in S
      PROVE  Rank(ScoreOrder(in, S), S, p) = Cardinality({q \in S : Ahead(in, q, p)})
  <2>1. {q \in S : <<q, p>> \in ScoreOrder(in, S)} = {q \in S : Ahead(in, q, p)}
    BY <1>1
  <2> QED BY <2>1 DEF Rank
<1>6. IsStrictOrder(ScoreOrder(in, S), S)
  BY <1>1, <1>3, <1>4 DEF IsStrictOrder
<1> QED BY <1>1, <1>5, <1>6

\* The first rows of the candidates are those with the lowest ranks.
LEMMA RankedRows ==
  ASSUME NEW in, Selectable(in), NEW count \in 0 .. Cardinality(Eligible(in))
  PROVE  /\ Ranked(in, count) = {p \in Eligible(in) :
                                   Cardinality({q \in Eligible(in) : Ahead(in, q, p)}) < count}
         /\ Cardinality(Ranked(in, count)) = count
<1> DEFINE S == Eligible(in)
           R == ScoreOrder(in, S)
           m == Cardinality(S)
           V == SUBSET (S \cup {Best(in, left) : left \in SUBSET S})
           Body(f) == [i \in 0 .. count |-> IF i = 0 THEN {} ELSE f[i - 1] \cup {Best(in, S \ f[i - 1])}]
           F == CHOOSE f : f = Body(f)
           Step(f) == f \cup {Best(in, S \ f)}
           g == [i \in 1 .. count |-> [f \in V |-> Step(f)]]
           Top(i) == {p \in S : Rank(R, S, p) < i}
<1>1. S \in SUBSET (0 .. in.n - 1) /\ IsFiniteSet(S) /\ m \in Nat /\ PromptOk(in)
  BY EligibleRows DEF Selectable
<1>2. count \in Nat /\ count <= m
  BY <1>1
<1>3. /\ IsStrictOrder(R, S)
      /\ \A p, q \in S : <<p, q>> \in R <=> Ahead(in, p, q)
      /\ \A p \in S : Rank(R, S, p) = Cardinality({q \in S : Ahead(in, q, p)})
  BY <1>1, ScoreOrderIsStrict
<1>4. Ranked(in, count) = F[count]
  BY DEF Ranked
<1>5. \A f \in V : Step(f) \in V
  OBVIOUS
<1>6. {} \in V
  OBVIOUS
<1>7. \A f : Body(f) = [i \in 0 .. count |-> IF i = 0 THEN {} ELSE Step(f[i - 1])]
  OBVIOUS
<1> HIDE DEF S, R, m, V, Body, F, Step, g
<1>8. /\ \A k \in 0 .. m - 1 : \E x \in S : Rank(R, S, x) = k
      /\ \A x, y \in S : Rank(R, S, x) = Rank(R, S, y) => x = y
      /\ \A x \in S : Rank(R, S, x) \in 0 .. m - 1
      /\ \A x, y \in S : <<x, y>> \in R <=> Rank(R, S, x) < Rank(R, S, y)
  <2>0. IsFiniteSet(S) /\ IsStrictOrder(R, S)
    BY <1>1, <1>3
  <2>1. /\ \A k \in 0 .. Cardinality(S) - 1 : \E x \in S : Rank(R, S, x) = k
        /\ \A x, y \in S : Rank(R, S, x) = Rank(R, S, y) => x = y
    BY <2>0, RankBijection
  <2>2. /\ \A x \in S : Rank(R, S, x) \in 0 .. Cardinality(S) - 1
        /\ \A x, y \in S : <<x, y>> \in R <=> Rank(R, S, x) < Rank(R, S, y)
    BY <2>0, RankOrder
  <2> QED BY <2>1, <2>2 DEF m
<1>9. ASSUME NEW i \in 1 .. count PROVE Step(Top(i - 1)) = Top(i)
  <2>1. i - 1 \in 0 .. m - 1
    BY <1>1, <1>2
  <2>2. PICK x \in S : Rank(R, S, x) = i - 1
    BY <1>8, <2>1
  <2> DEFINE left == S \ Top(i - 1)
  <2>3. \A p \in S : p \in left <=> Rank(R, S, p) >= i - 1
    BY <1>8, <2>1
  <2>4. x \in left /\ \A q \in left \ {x} : Ahead(in, x, q)
    <3>1. x \in left
      BY <2>1, <2>2, <2>3
    <3>2. ASSUME NEW q \in left \ {x} PROVE Ahead(in, x, q)
      <4>1. q \in S /\ q # x /\ Rank(R, S, q) >= i - 1 /\ Rank(R, S, q) \in Nat
        BY <1>1, <1>8, <2>3
      <4>2. Rank(R, S, q) # i - 1
        BY <1>8, <2>2, <4>1
      <4>3. Rank(R, S, x) < Rank(R, S, q)
        BY <2>1, <2>2, <4>1, <4>2
      <4> QED BY <1>3, <1>8, <4>1, <4>3
    <3> QED BY <3>1, <3>2
  <2>5. ASSUME NEW y \in left, \A q \in left \ {y} : Ahead(in, y, q) PROVE y = x
    <3>1. SUFFICES ASSUME y # x PROVE FALSE
      OBVIOUS
    <3>2. Ahead(in, x, y) /\ Ahead(in, y, x) /\ x \in S /\ y \in S
      BY <2>4, <2>5, <3>1
    <3>3. <<x, x>> \in R /\ <<x, x>> \notin R
      BY <1>3, <3>2 DEF IsStrictOrder
    <3> QED BY <3>3
  <2>6. Best(in, left) = x
    <3> HIDE DEF left
    <3> QED BY <2>4, <2>5 DEF Best
  <2>7. Top(i) = Top(i - 1) \cup {x}
    <3>1. \A p \in S : Rank(R, S, p) < i <=> Rank(R, S, p) < i - 1 \/ p = x
      <4> SUFFICES ASSUME NEW p \in S
                   PROVE  Rank(R, S, p) < i <=> Rank(R, S, p) < i - 1 \/ p = x
        OBVIOUS
      <4>1. Rank(R, S, p) \in Int /\ (Rank(R, S, p) = i - 1 <=> p = x)
        BY <1>8, <2>2
      <4> QED BY <2>1, <4>1
    <3> QED BY <3>1
  <2> QED BY <2>6, <2>7 DEF Step
<1>10. Top(0) = {}
  <2>1. \A p \in S : ~(Rank(R, S, p) < 0)
    BY <1>8
  <2> QED BY <2>1
<1> HIDE DEF Top
<1>11. g \in Steps(count, V) /\ \A f \in V, i \in 1 .. count : g[i][f] = Step(f)
  BY <1>5 DEF g, Steps
<1>12. PICK f : Takes(f, count, V, {}, g)
  BY <1>2, <1>6, <1>11, Recursion
<1>13. f = Body(f)
  <2>1. \A i \in 1 .. count : i - 1 \in 0 .. count
    BY <1>2
  <2>2. f \in [0 .. count -> V] /\ f[0] = {} /\ \A i \in 1 .. count : f[i] = g[i][f[i - 1]]
    BY <1>12 DEF Takes
  <2>3. \A i \in 1 .. count : f[i] = Step(f[i - 1])
    BY <1>11, <2>1, <2>2
  <2>4. \A i \in 0 .. count : i # 0 => i \in 1 .. count
    BY <1>2
  <2> QED BY <1>7, <2>2, <2>3, <2>4
<1>14. F = Body(F)
  BY <1>13 DEF F
<1>15. F[0] = {} /\ \A i \in 1 .. count : F[i] = Step(F[i - 1])
  <2>1. 0 \in 0 .. count /\ \A i \in 1 .. count : i \in 0 .. count /\ i # 0
    BY <1>2
  <2> QED BY <1>7, <1>14, <2>1
<1> DEFINE T == {i \in 0 .. count : F[i] = Top(i)}
<1>16. 0 \in T
  <2>1. 0 \in 0 .. count
    BY <1>2
  <2> QED BY <1>10, <1>15, <2>1
<1>17. ASSUME NEW i \in 0 .. count - 1, i \in T PROVE i + 1 \in T
  <2> DEFINE k == i + 1
  <2>1. k \in 1 .. count /\ k \in 0 .. count /\ k - 1 = i
    BY <1>2
  <2> HIDE DEF k
  <2>2. F[k] = Step(F[i]) /\ F[i] = Top(i) /\ Step(Top(i)) = Top(k)
    BY <1>9, <1>15, <1>17, <2>1, Zenon
  <2> QED BY <2>1, <2>2 DEF k
<1>18. count \in T
  <2> HIDE DEF T
  <2>1. \A i \in 0 .. count : i \in T
    BY <1>2, <1>16, <1>17, SetInduction
  <2> QED BY <1>2, <2>1
<1>19. Cardinality(Top(count)) = count
  BY <1>1, <1>3, RanksBelow DEF Top, m, S
<1>20. Top(count) = {p \in S : Cardinality({q \in S : Ahead(in, q, p)}) < count}
  BY <1>3 DEF Top
<1> QED BY <1>4, <1>18, <1>19, <1>20 DEF S

\* What a point computes again, before it is merged.
Recomputing(in, selected) ==
  ToSet(Complement(in.n, in.cached)) \cup ToSet(ForcedSuffix(in.n, in.suffix)) \cup Singles(selected)

\* One range for each selected row.
LEMMA SingleRows ==
  ASSUME NEW n \in Nat, NEW rows \in SUBSET (0 .. n - 1), IsFiniteSet(rows)
  PROVE  /\ Singles(rows) \in SUBSET RowRanges /\ IsFiniteSet(Singles(rows))
         /\ \A r \in Singles(rows) : r.start < r.end /\ r.end <= n
         /\ RowsIn(Singles(rows)) = rows
<1>1. \A p \in rows : p \in Nat /\ p + 1 <= n /\ p .. (p + 1) - 1 = {p}
  OBVIOUS
<1>2. Singles(rows) \in SUBSET RowRanges
  BY <1>1 DEF Singles, TokenRange, RowRanges
<1>3. \A r \in Singles(rows) : r.start < r.end /\ r.end <= n
  BY <1>1 DEF Singles, TokenRange
<1>4. IsFiniteSet(Singles(rows))
  <2> DEFINE f == [p \in rows |-> TokenRange(p, p + 1)]
  <2>1. f \in [rows -> Singles(rows)] /\ \A r \in Singles(rows) : \E p \in rows : f[p] = r
    BY DEF Singles
  <2>2. f \in Surjection(rows, Singles(rows))
    <3> HIDE DEF f
    <3> QED BY <2>1 DEF Surjection
  <2> HIDE DEF f
  <2> QED BY <2>2, FS_Surjection
<1>5. RowsIn(Singles(rows)) = rows
  <2>1. ASSUME NEW x \in RowsIn(Singles(rows)) PROVE x \in rows
    <3>1. PICK r \in Singles(rows) : x \in r.start .. r.end - 1
      BY DEF RowsIn
    <3>2. PICK p \in rows : r = TokenRange(p, p + 1)
      BY DEF Singles
    <3>3. r.start = p /\ r.end = p + 1
      BY <3>2 DEF TokenRange
    <3> QED BY <1>1, <3>1, <3>3
  <2>2. ASSUME NEW p \in rows PROVE p \in RowsIn(Singles(rows))
    <3>1. TokenRange(p, p + 1) \in Singles(rows)
      BY DEF Singles
    <3>2. p \in TokenRange(p, p + 1).start .. TokenRange(p, p + 1).end - 1
      BY <1>1 DEF TokenRange
    <3> QED BY <3>1, <3>2 DEF RowsIn
  <2> QED BY <2>1, <2>2
<1> QED BY <1>2, <1>3, <1>4, <1>5

\* A point computes again what it cannot keep, and what is selected beside.
LEMMA SelectedRows ==
  ASSUME NEW in, Selectable(in), NEW selected \in SUBSET Eligible(in)
  PROVE  /\ MergeRanges(Recomputing(in, selected)) \in Seq(RowRanges)
         /\ CanonicalRanges(in.n, MergeRanges(Recomputing(in, selected)))
         /\ RowsOf(MergeRanges(Recomputing(in, selected)))
              = ((0 .. in.n - 1) \ Eligible(in)) \cup selected
<1> DEFINE A == ToSet(Complement(in.n, in.cached))
           B == ToSet(ForcedSuffix(in.n, in.suffix))
           C == Singles(selected)
           S == Recomputing(in, selected)
           ms == MergeRanges(S)
<1>1. /\ in.n \in Nat /\ in.cached \in Seq(RowRanges) /\ CanonicalRanges(in.n, in.cached)
      /\ in.n <= MaxContextTokens
  BY DEF Selectable, PromptOk, CanonicalRanges
<1>2. /\ A \in SUBSET RowRanges /\ IsFiniteSet(A)
      /\ \A r \in A : r.start < r.end /\ r.end <= in.n
      /\ RowsIn(A) = (0 .. in.n - 1) \ RowsOf(in.cached)
  BY <1>1, ComplementRows
<1>3. /\ B \in SUBSET RowRanges /\ IsFiniteSet(B)
      /\ \A r \in B : r.start < r.end /\ r.end <= in.n
      /\ RowsIn(B) \subseteq 0 .. in.n - 1
      /\ Eligible(in) = RowsOf(in.cached) \ RowsIn(B)
      /\ Eligible(in) \subseteq 0 .. in.n - 1 /\ IsFiniteSet(Eligible(in))
  BY EligibleRows
<1>4. /\ C \in SUBSET RowRanges /\ IsFiniteSet(C)
      /\ \A r \in C : r.start < r.end /\ r.end <= in.n
      /\ RowsIn(C) = selected
  <2>1. selected \in SUBSET (0 .. in.n - 1) /\ IsFiniteSet(selected)
    BY <1>3, FS_Subset
  <2> QED BY <1>1, <2>1, SingleRows
<1>5. S = A \cup B \cup C
  BY DEF Recomputing
<1>6. RowsIn(S) = RowsIn(A) \cup RowsIn(B) \cup RowsIn(C)
  <2> HIDE DEF A, B, C, S
  <2> QED BY <1>5 DEF RowsIn
<1> HIDE DEF A, B, C, S
<1>7. IsFiniteSet(S) /\ S \in SUBSET RowRanges /\ \A r \in S : r.start < r.end /\ r.end <= in.n
  <2>1. IsFiniteSet(S)
    BY <1>2, <1>3, <1>4, <1>5, FS_Union
  <2> QED BY <1>2, <1>3, <1>4, <1>5, <2>1
<1>8. IsMerged(ms, S)
  BY <1>7, MergedRanges
<1> HIDE DEF ms
<1>9. /\ ms \in Seq(RowRanges)
      /\ \A i \in 1 .. Len(ms) : ms[i].start < ms[i].end /\ ms[i].end <= in.n
      /\ \A i \in 1 .. Len(ms) - 1 : ms[i].end <= ms[i + 1].start
      /\ RowsOf(ms) = RowsIn(S)
  BY <1>7, <1>8 DEF IsMerged
<1>10. CanonicalRanges(in.n, ms)
  <2>1. ToSet(ms) = {ms[i] : i \in 1 .. Len(ms)}
    BY <1>9, SeqElements
  <2> QED BY <1>1, <1>9, <2>1 DEF CanonicalRanges
<1>11. RowsIn(S) = ((0 .. in.n - 1) \ Eligible(in)) \cup selected
  BY <1>2, <1>3, <1>4, <1>6
<1> QED BY <1>9, <1>10, <1>11 DEF ms, S

\* The candidates that are left to the cache at a ratio.
Kept(in, ratio) ==
  {p \in Eligible(in) :
     Cardinality({q \in Eligible(in) : Ahead(in, q, p)}) >= Budget(in, ratio)}

\* CacheBlendSelectionPolicy.select keeps the candidates that the budget has no
\* room for.
LEMMA SelectKeeps ==
  ASSUME NEW in, PromptOk(in), NEW ratio \in Fractions, ValidSelection(in, ratio)
  PROVE  /\ Selectable(in)
         /\ Select(in, ratio).recompute \in Seq(RowRanges)
         /\ CanonicalRanges(in.n, Select(in, ratio).recompute)
         /\ RowsOf(Select(in, ratio).recompute) = (0 .. in.n - 1) \ Kept(in, ratio)
         /\ Select(in, ratio).selected \subseteq Eligible(in)
         /\ Cardinality(Select(in, ratio).selected) = Budget(in, ratio)
<1> DEFINE b == Budget(in, ratio)
           E == Eligible(in)
           selected == Ranked(in, b)
           point == Select(in, ratio)
<1>1. Selectable(in) /\ ratio.num <= ratio.den
  BY DEF ValidSelection, Selectable
<1>2. b \in 0 .. Cardinality(E)
  BY <1>1, BudgetBound
<1>3. /\ selected = {p \in E : Cardinality({q \in E : Ahead(in, q, p)}) < b}
      /\ Cardinality(selected) = b
  <2> HIDE DEF b
  <2> QED BY <1>1, <1>2, RankedRows
<1>4. point.selected = selected /\ point.recompute = MergeRanges(Recomputing(in, selected))
  BY DEF Select, SelectionPoint, Recomputing
<1>5. /\ MergeRanges(Recomputing(in, selected)) \in Seq(RowRanges)
      /\ CanonicalRanges(in.n, MergeRanges(Recomputing(in, selected)))
      /\ RowsOf(MergeRanges(Recomputing(in, selected))) = ((0 .. in.n - 1) \ E) \cup selected
  <2>1. selected \in SUBSET E
    BY <1>3
  <2> HIDE DEF selected
  <2> QED BY <1>1, <2>1, SelectedRows
<1>6. ((0 .. in.n - 1) \ E) \cup selected = (0 .. in.n - 1) \ Kept(in, ratio)
  <2>1. E \subseteq 0 .. in.n - 1 /\ Kept(in, ratio) \subseteq E
    BY <1>1, EligibleRows DEF Kept
  <2>2. ASSUME NEW p \in E PROVE p \in selected <=> p \notin Kept(in, ratio)
    <3> DEFINE c == Cardinality({q \in E : Ahead(in, q, p)})
    <3>1. c \in Nat /\ b \in Nat
      <4>1. IsFiniteSet(E) /\ Cardinality(E) \in Nat
        BY <1>1, EligibleRows
      <4>2. IsFiniteSet({q \in E : Ahead(in, q, p)})
        BY <4>1, FS_Subset
      <4> QED BY <1>2, <4>1, <4>2, FS_CardinalityType
    <3>2. p \in selected <=> c < b
      BY <1>3
    <3>3. p \in Kept(in, ratio) <=> c >= b
      BY DEF Kept
    <3> HIDE DEF c, b, selected
    <3> QED BY <3>1, <3>2, <3>3
  <2>3. selected \subseteq E
    BY <1>3
  <2> HIDE DEF E, selected
  <2> QED BY <2>1, <2>2, <2>3
<1>7. selected \subseteq E
  BY <1>3
<1> HIDE DEF point, selected
<1> QED BY <1>1, <1>3, <1>4, <1>5, <1>6, <1>7 DEF point

\* A lower ratio keeps more.
LEMMA KeptGrows ==
  ASSUME NEW in, Selectable(in), NEW r \in Fractions, NEW s \in Fractions, Smaller(r, s),
         r.num <= r.den, s.num <= s.den
  PROVE  Kept(in, s) \subseteq Kept(in, r)
<1>1. Budget(in, r) <= Budget(in, s)
  BY BudgetFalls
<1>2. Budget(in, r) \in Nat /\ Budget(in, s) \in Nat /\ IsFiniteSet(Eligible(in))
  BY BudgetBound, EligibleRows
<1> SUFFICES ASSUME NEW p \in Kept(in, s) PROVE p \in Kept(in, r)
  OBVIOUS
<1> DEFINE c == Cardinality({q \in Eligible(in) : Ahead(in, q, p)})
<1>3. c \in Nat
  <2>1. IsFiniteSet({q \in Eligible(in) : Ahead(in, q, p)})
    BY <1>2, FS_Subset
  <2> QED BY <2>1, FS_CardinalityType
<1>4. p \in Eligible(in) /\ c >= Budget(in, s)
  BY DEF Kept
<1>5. c >= Budget(in, r)
  <2> HIDE DEF c
  <2> QED BY <1>1, <1>2, <1>3, <1>4
<1> QED BY <1>4, <1>5 DEF Kept

-----------------------------------------------------------------------------
(* The sweep and its artifact.                                              *)

\* The points that select makes, measured or not.
PointOf(in, ratio, m) ==
  [n |-> in.n, suffix |-> in.suffix, cached |-> in.cached, ratio |-> ratio,
   selected |-> Select(in, ratio).selected, recompute |-> Select(in, ratio).recompute,
   plan |-> Select(in, ratio).plan, measured |-> m]
Accepted(in) == {r \in Fractions : ValidSelection(in, r)}
Points(in) ==
  {PointOf(in, r, TRUE) : r \in Accepted(in)} \cup {PointOf(in, r, FALSE) : r \in Accepted(in)}

SweepOk(s, in) ==
  /\ s \in Seq(Points(in))
  /\ \A i \in 1 .. Len(s) - 1 : Smaller(s[i + 1].ratio, s[i].ratio)

\* The inductive invariant of the policy.
PolicyInv ==
  /\ input \in Inputs
  /\ SweepOk(sweep, input)
  /\ written # <<>> =>
       /\ artifact.exists /\ artifact.whole /\ artifact.points = written
       /\ AcceptsSweep(written)

\* What vLLM prepares is a prompt to select for.
LEMMA InputsOk ==
  ASSUME NEW in \in Inputs
  PROVE  PromptOk(in)
  BY SelectiveAssumption DEF PromptOk, RowRanges

\* A measurement changes a point's mark alone.
LEMMA PointMarked ==
  ASSUME NEW in, NEW ratio, NEW m, NEW k
  PROVE  [PointOf(in, ratio, m) EXCEPT !.measured = k] = PointOf(in, ratio, k)
  BY DEF PointOf

\* A point that is measured is a point of the same ratio.
LEMMA PointMeasured ==
  ASSUME NEW in, NEW ratio \in Accepted(in)
  PROVE  /\ [PointOf(in, ratio, TRUE) EXCEPT !.measured = TRUE] = PointOf(in, ratio, TRUE)
         /\ [PointOf(in, ratio, FALSE) EXCEPT !.measured = TRUE] = PointOf(in, ratio, TRUE)
         /\ PointOf(in, ratio, TRUE) \in Points(in) /\ PointOf(in, ratio, FALSE) \in Points(in)
         /\ PointOf(in, ratio, TRUE).ratio = ratio /\ PointOf(in, ratio, TRUE).measured = TRUE
<1>1. /\ [PointOf(in, ratio, TRUE) EXCEPT !.measured = TRUE] = PointOf(in, ratio, TRUE)
      /\ [PointOf(in, ratio, FALSE) EXCEPT !.measured = TRUE] = PointOf(in, ratio, TRUE)
  <2> DEFINE t == TRUE
             f == FALSE
  <2> HIDE DEF t, f
  <2>1. [PointOf(in, ratio, t) EXCEPT !.measured = t] = PointOf(in, ratio, t)
    BY PointMarked
  <2>2. [PointOf(in, ratio, f) EXCEPT !.measured = t] = PointOf(in, ratio, t)
    BY PointMarked
  <2> QED BY <2>1, <2>2 DEF t, f
<1>2. PointOf(in, ratio, TRUE) \in Points(in) /\ PointOf(in, ratio, FALSE) \in Points(in)
  BY DEF Points
<1>3. PointOf(in, ratio, TRUE).ratio = ratio /\ PointOf(in, ratio, TRUE).measured = TRUE
  BY DEF PointOf
<1> QED BY <1>1, <1>2, <1>3

\* A point of the policy is one that its reader works out again.
LEMMA PointFacts ==
  ASSUME NEW in, PromptOk(in), NEW p \in Points(in)
  PROVE  /\ p.n = in.n /\ p.suffix = in.suffix /\ p.cached = in.cached
         /\ p.ratio \in Accepted(in)
         /\ p.recompute = Select(in, p.ratio).recompute
         /\ p.plan = RowPlan(in.n, p.recompute)
         /\ ValidPoint(p)
         /\ [p EXCEPT !.measured = TRUE] \in Points(in)
         /\ [p EXCEPT !.measured = TRUE].ratio = p.ratio
         /\ [p EXCEPT !.measured = TRUE].measured = TRUE
<1>1. PICK r \in Accepted(in) : p = PointOf(in, r, TRUE) \/ p = PointOf(in, r, FALSE)
  BY DEF Points
<1> DEFINE q == Select(in, r)
<1>2. /\ p.n = in.n /\ p.suffix = in.suffix /\ p.cached = in.cached /\ p.ratio = r
      /\ p.recompute = q.recompute /\ p.plan = q.plan
      /\ p.selected = q.selected
  BY <1>1 DEF PointOf
<1>3. r \in Fractions /\ ValidSelection(in, r)
  BY DEF Accepted
<1>4. q.plan = RowPlan(in.n, q.recompute)
  BY DEF Select, SelectionPoint
<1>5. /\ in.suffix <= in.n
      /\ CanonicalRanges(in.n, in.cached) /\ CanonicalRanges(in.n, q.recompute)
      /\ q.selected \subseteq Eligible(in)
      /\ Cardinality(q.selected) = Budget(in, r)
  BY <1>3, SelectKeeps DEF ValidSelection
<1>6. q.recompute = MergeRanges(Recomputing(in, q.selected))
  BY DEF Select, SelectionPoint, Recomputing
<1>7. \A l \in Layers : RowPlan(in.n, q.recompute).layers[l] = q.recompute
  BY DEF RowPlan
<1> HIDE DEF q
<1>8. /\ Eligible(p) = Eligible(in) /\ Budget(p, r) = Budget(in, r)
      /\ SelectionPoint(p, r, p.selected).recompute = MergeRanges(Recomputing(in, q.selected))
  <2>1. Eligible(p) = Eligible(in)
    BY <1>2 DEF Eligible
  <2>2. Budget(p, r) = Budget(in, r)
    BY <2>1 DEF Budget
  <2>3. SelectionPoint(p, r, p.selected).recompute = MergeRanges(Recomputing(in, q.selected))
    BY <1>2 DEF SelectionPoint, Recomputing
  <2> QED BY <2>1, <2>2, <2>3
<1>9. ValidPoint(p)
  BY <1>2, <1>4, <1>5, <1>6, <1>7, <1>8 DEF ValidPoint
<1>10. /\ [p EXCEPT !.measured = TRUE] \in Points(in)
       /\ [p EXCEPT !.measured = TRUE].ratio = r
       /\ [p EXCEPT !.measured = TRUE].measured = TRUE
  <2>1. [p EXCEPT !.measured = TRUE] = PointOf(in, r, TRUE)
    <3>1. CASE p = PointOf(in, r, TRUE)
      BY <3>1, PointMeasured
    <3>2. CASE p = PointOf(in, r, FALSE)
      BY <3>2, PointMeasured
    <3> QED BY <1>1, <3>1, <3>2
  <2> DEFINE e == [p EXCEPT !.measured = TRUE]
  <2> HIDE DEF e
  <2>2. e = PointOf(in, r, TRUE)
    BY <2>1 DEF e
  <2>3. e \in Points(in) /\ e.ratio = r /\ e.measured = TRUE
    BY <2>2, PointMeasured, Zenon
  <2> QED BY <2>3 DEF e
<1> QED BY <1>2, <1>4, <1>9, <1>10 DEF q

\* The reader accepts a sweep that is measured throughout, or not at all.
LEMMA SweepAccepted ==
  ASSUME NEW in, PromptOk(in), NEW s, SweepOk(s, in), s # <<>>,
         \A i, j \in DOMAIN s : s[i].measured = s[j].measured
  PROVE  AcceptsSweep(s)
<1>1. /\ Len(s) \in Nat /\ Len(s) # 0 /\ DOMAIN s = 1 .. Len(s)
      /\ \A i \in 1 .. Len(s) : s[i] \in Points(in)
      /\ \A i \in 1 .. Len(s) - 1 : Smaller(s[i + 1].ratio, s[i].ratio)
  BY SeqElements DEF SweepOk
<1>2. \A i \in DOMAIN s : /\ s[i].n = in.n /\ s[i].suffix = in.suffix /\ s[i].cached = in.cached
                          /\ ValidPoint(s[i])
  BY <1>1, PointFacts
<1>3. 1 \in DOMAIN s
  BY <1>1
<1>4. ValidSweep(s)
  BY <1>1, <1>2, <1>3 DEF ValidSweep
<1> QED BY <1>2, <1>4 DEF AcceptsSweep

\* Measurements change nothing else.
LEMMA MeasuredSweep ==
  ASSUME NEW in, PromptOk(in), NEW s, SweepOk(s, in)
  PROVE  /\ SweepOk(WithMeasurements(s), in)
         /\ s # <<>> => WithMeasurements(s) # <<>>
         /\ \A i \in DOMAIN WithMeasurements(s) : WithMeasurements(s)[i].measured = TRUE
         /\ s # <<>> => SweepOk([s EXCEPT ![1].measured = TRUE], in)
<1> DEFINE N == Len(s)
           V == Points(in)
           w == WithMeasurements(s)
           x == [s EXCEPT ![1].measured = TRUE]
<1>1. /\ N \in Nat /\ DOMAIN s = 1 .. N
      /\ \A i \in 1 .. N : s[i] \in V
      /\ s = <<>> <=> N = 0
      /\ \A i \in 1 .. N - 1 : Smaller(s[i + 1].ratio, s[i].ratio)
  BY SeqElements DEF SweepOk
<1>2. \A i \in 1 .. N : /\ [s[i] EXCEPT !.measured = TRUE] \in V
                        /\ [s[i] EXCEPT !.measured = TRUE].ratio = s[i].ratio
                        /\ [s[i] EXCEPT !.measured = TRUE].measured = TRUE
  BY <1>1, PointFacts
<1>3. \A i \in 1 .. N - 1 : i \in 1 .. N /\ i + 1 \in 1 .. N
  BY <1>1
<1>4. /\ w = [i \in 1 .. N |-> [s[i] EXCEPT !.measured = TRUE]]
      /\ N # 0 => x = [i \in 1 .. N |-> IF i = 1 THEN [s[i] EXCEPT !.measured = TRUE] ELSE s[i]]
  <2>1. w = [i \in 1 .. N |-> [s[i] EXCEPT !.measured = TRUE]]
    BY <1>1 DEF WithMeasurements
  <2>2. ASSUME N # 0
        PROVE  x = [i \in 1 .. N |-> IF i = 1 THEN [s[i] EXCEPT !.measured = TRUE] ELSE s[i]]
    <3>1. 1 \in DOMAIN s
      BY <1>1, <2>2
    <3> HIDE DEF N
    <3> QED BY <1>1, <3>1
  <2> QED BY <2>1, <2>2
<1> HIDE DEF w, x, N, V
<1>5. w \in [1 .. N -> V] /\ \A i \in 1 .. N : w[i].ratio = s[i].ratio /\ w[i].measured = TRUE
  BY <1>2, <1>4
<1>6. w \in Seq(V) /\ Len(w) = N /\ DOMAIN w = 1 .. N
  BY <1>1, <1>5, SeqDef, LenProperties
<1>7. SweepOk(w, in) /\ \A i \in DOMAIN w : w[i].measured = TRUE
  BY <1>1, <1>3, <1>5, <1>6 DEF SweepOk, V
<1>8. s # <<>> => w # <<>>
  BY <1>1, <1>6, SeqElements
<1>9. ASSUME s # <<>> PROVE SweepOk(x, in)
  <2>1. N # 0
    BY <1>1, <1>9
  <2>2. x \in [1 .. N -> V] /\ \A i \in 1 .. N : x[i].ratio = s[i].ratio
    <3>1. x = [i \in 1 .. N |-> IF i = 1 THEN [s[i] EXCEPT !.measured = TRUE] ELSE s[i]]
      BY <1>4, <2>1
    <3>2. ASSUME NEW i \in 1 .. N PROVE x[i] \in V /\ x[i].ratio = s[i].ratio
      <4>1. CASE i = 1
        <5>1. x[i] = [s[i] EXCEPT !.measured = TRUE]
          BY <3>1, <4>1
        <5> QED BY <1>2, <5>1
      <4>2. CASE i # 1
        BY <1>1, <3>1, <4>2
      <4> QED BY <4>1, <4>2
    <3> QED BY <3>1, <3>2
  <2>3. x \in Seq(V) /\ Len(x) = N
    BY <1>1, <2>2, SeqDef, LenProperties
  <2> QED BY <1>1, <1>3, <2>2, <2>3 DEF SweepOk, V
<1> QED BY <1>7, <1>8, <1>9 DEF w, x

\* A point with another mark is a point of the same ratio.
LEMMA PointRemarked ==
  ASSUME NEW in, NEW p \in Points(in), NEW m \in BOOLEAN
  PROVE  /\ [p EXCEPT !.measured = m] \in Points(in)
         /\ [p EXCEPT !.measured = m].ratio = p.ratio
         /\ [p EXCEPT !.measured = m].measured = m
<1> DEFINE t == TRUE
           f == FALSE
           e == [p EXCEPT !.measured = m]
<1>1. PICK r \in Accepted(in) : p = PointOf(in, r, t) \/ p = PointOf(in, r, f)
  BY DEF Points
<1>2. PointOf(in, r, t) \in Points(in) /\ PointOf(in, r, f) \in Points(in)
  BY PointMeasured
<1>3. m = t \/ m = f
  BY Zenon
<1> HIDE DEF t, f, e
<1>4. e = PointOf(in, r, m)
  BY <1>1, PointMarked DEF e
<1>5. e \in Points(in)
  BY <1>2, <1>3, <1>4, Zenon
<1>6. p.ratio = r /\ e.ratio = r /\ e.measured = m
  <2> DEFINE q == PointOf(in, r, m)
  <2>1. q.ratio = r /\ PointOf(in, r, t).ratio = r /\ PointOf(in, r, f).ratio = r
    BY DEF PointOf
  <2>2. q.measured = m
    BY DEF PointOf
  <2> HIDE DEF q
  <2>3. p.ratio = r
    BY <1>1, <2>1
  <2> QED BY <1>4, <2>1, <2>2, <2>3, Zenon DEF q
<1> QED BY <1>5, <1>6 DEF e

\* The reader accepts a sweep with all of its points marked, or with none.
LEMMA MarkedAccepted ==
  ASSUME NEW in, PromptOk(in), NEW s, SweepOk(s, in), s # <<>>, NEW m \in BOOLEAN
  PROVE  AcceptsSweep([i \in DOMAIN s |-> [s[i] EXCEPT !.measured = m]])
<1> DEFINE N == Len(s)
           V == Points(in)
           w == [i \in DOMAIN s |-> [s[i] EXCEPT !.measured = m]]
<1>1. /\ N \in Nat /\ N # 0 /\ DOMAIN s = 1 .. N
      /\ \A i \in 1 .. N : s[i] \in V
      /\ \A i \in 1 .. N - 1 : Smaller(s[i + 1].ratio, s[i].ratio)
  BY SeqElements DEF SweepOk
<1>2. ASSUME NEW i \in 1 .. N
      PROVE  w[i] \in V /\ w[i].ratio = s[i].ratio /\ w[i].measured = m
  <2> DEFINE p == s[i]
  <2>1. p \in Points(in)
    BY <1>1
  <2> HIDE DEF p
  <2>2. /\ [p EXCEPT !.measured = m] \in Points(in)
        /\ [p EXCEPT !.measured = m].ratio = p.ratio
        /\ [p EXCEPT !.measured = m].measured = m
    BY <2>1, PointRemarked
  <2> DEFINE e == [p EXCEPT !.measured = m]
  <2>3. w[i] = e
    BY <1>1 DEF p
  <2>4. e \in V /\ e.ratio = p.ratio /\ e.measured = m
    BY <2>2
  <2> HIDE DEF e, w, V
  <2> QED BY <2>3, <2>4, Zenon DEF p
<1>3. DOMAIN w = 1 .. N /\ w = [i \in 1 .. N |-> w[i]]
  BY <1>1
<1> HIDE DEF w, N, V
<1>4. w \in Seq(V) /\ Len(w) = N
  BY <1>1, <1>2, <1>3, SeqDef, LenProperties
<1>5. \A i \in 1 .. N - 1 : Smaller(w[i + 1].ratio, w[i].ratio)
  BY <1>1, <1>2
<1>6. SweepOk(w, in)
  BY <1>4, <1>5 DEF SweepOk, V
<1>7. w # <<>>
  BY <1>1, <1>4, SeqElements
<1>8. \A i, j \in DOMAIN w : w[i].measured = w[j].measured
  BY <1>2, <1>3, Zenon
<1>9. AcceptsSweep(w)
  BY <1>6, <1>7, <1>8, SweepAccepted
<1> QED BY <1>9 DEF w

\* CacheBlendSelectionPolicy.sweep makes one.
LEMMA SweepMade ==
  ASSUME NEW in, PromptOk(in), NEW ratios \in Seq(Fractions),
         \A i \in DOMAIN ratios : ValidSelection(in, ratios[i]),
         ValidSweep(Sweep(in, ratios))
  PROVE  SweepOk(Sweep(in, ratios), in)
<1> DEFINE N == Len(ratios)
           V == Points(in)
           s == Sweep(in, ratios)
<1>1. N \in Nat /\ DOMAIN ratios = 1 .. N /\ \A i \in 1 .. N : ratios[i] \in Fractions
  BY SeqElements
<1>2. ASSUME NEW i \in 1 .. N PROVE Select(in, ratios[i]) \in V
  <2>1. ratios[i] \in Accepted(in)
    BY <1>1 DEF Accepted
  <2>2. Select(in, ratios[i]) = PointOf(in, ratios[i], FALSE)
    BY DEF Select, SelectionPoint, PointOf
  <2>3. PointOf(in, ratios[i], FALSE) \in Points(in)
    BY <2>1, PointMeasured
  <2> QED BY <2>2, <2>3
<1>3. s = [i \in 1 .. N |-> Select(in, ratios[i])]
  BY <1>1 DEF Sweep
<1> HIDE DEF s, N, V
<1>4. s \in [1 .. N -> V]
  BY <1>2, <1>3
<1>5. s \in Seq(V)
  BY <1>1, <1>4, SeqDef
<1>6. \A i \in 1 .. Len(s) - 1 : Smaller(s[i + 1].ratio, s[i].ratio)
  BY DEF ValidSweep, s
<1> QED BY <1>5, <1>6 DEF SweepOk, s, V

\* No step of the policy, of its artifact or of a forward breaks it.
LEMMA PolicySteps ==
  ASSUME PolicyInv, [Next]_vars
  PROVE  PolicyInv'
<1>1. CASE UNCHANGED policyVars
  BY <1>1 DEF PolicyInv, policyVars
<1>2. PromptOk(input)
  BY InputsOk DEF PolicyInv
<1>3. ASSUME NEW ratios \in Ratios, MakeSweep(ratios) PROVE PolicyInv'
  <2>1. ratios \in Seq(Fractions)
    BY SelectiveAssumption DEF Fractions
  <2>2. SweepOk(Sweep(input, ratios), input)
    BY <1>2, <1>3, <2>1, SweepMade DEF MakeSweep
  <2> QED BY <1>3, <2>2 DEF MakeSweep, PolicyInv
<1>4. CASE Measure
  <2>1. SweepOk(WithMeasurements(sweep), input) /\ SweepOk([sweep EXCEPT ![1].measured = TRUE], input)
    BY <1>2, <1>4, MeasuredSweep DEF PolicyInv, Measure
  <2>2. sweep' \in {WithMeasurements(sweep), [sweep EXCEPT ![1].measured = TRUE]}
        /\ UNCHANGED <<input, artifact, written>>
    BY <1>4 DEF Measure
  <2> QED BY <2>1, <2>2 DEF PolicyInv
<1>5. CASE WriteSweep
  <2>1. PICK whole \in BOOLEAN, returns \in BOOLEAN :
          /\ whole => AcceptsSweep(sweep)
          /\ returns => whole
          /\ artifact' = [exists |-> TRUE, points |-> sweep, whole |-> whole]
          /\ written' = IF returns THEN sweep ELSE written
    BY <1>5 DEF WriteSweep
  <2>2. UNCHANGED <<input, sweep>> /\ ~artifact.exists
    BY <1>5 DEF WriteSweep
  <2>3. written = <<>>
    BY <2>2 DEF PolicyInv
  <2>4. artifact'.exists = TRUE /\ artifact'.points = sweep /\ artifact'.whole = whole
    BY <2>1
  <2>5. CASE returns
    BY <2>1, <2>2, <2>4, <2>5 DEF PolicyInv
  <2>6. CASE ~returns
    BY <2>1, <2>2, <2>3, <2>6 DEF PolicyInv
  <2> QED BY <2>5, <2>6
<1>6. ASSUME ~UNCHANGED policyVars
      PROVE  (\E ratios \in Ratios : MakeSweep(ratios)) \/ Measure \/ WriteSweep
  BY <1>6 DEF Next, vars, forwardVars, policyVars, ForwardNext, RefuseInputs, RefuseLayer, Finish,
     StartForward, UpdateAll, UpdateFails, RunLayer, EndForward
<1> QED BY <1>1, <1>3, <1>4, <1>5, <1>6

\* The policy and its artifact keep to this.
THEOREM PolicyInvariant == Spec => []PolicyInv
<1>1. Init => PolicyInv
  <2> SUFFICES ASSUME Init PROVE PolicyInv
    OBVIOUS
  <2>1. input \in Inputs /\ sweep = <<>> /\ written = <<>>
    BY DEF Init, ForwardInit
  <2>2. SweepOk(<<>>, input)
    BY DEF SweepOk
  <2> QED BY <2>1, <2>2 DEF PolicyInv
<1>2. PolicyInv /\ [Next]_vars => PolicyInv'
  BY PolicySteps
<1> QED BY <1>1, <1>2, PTL DEF Spec

\* SELECTION IS BY RANK, at every point of every sweep: what
\* CacheBlendSelectionPolicy.select recomputes, after its merges, is every row but
\* the eligible ones that the budget has no place for, and a lower ratio of the
\* sweep recomputes no row that a higher one does not.
THEOREM SelectionIsAlwaysByRank == Spec => []SelectionIsByRank
<1>1. PolicyInv => SelectionIsByRank
  <2> SUFFICES ASSUME PolicyInv, NEW i \in DOMAIN sweep
               PROVE  /\ RowsOf(sweep[i].recompute) = (0 .. input.n - 1) \ Kept(input, sweep[i].ratio)
                      /\ i > 1 => RowsOf(sweep[i].recompute) \subseteq RowsOf(sweep[i - 1].recompute)
    BY DEF SelectionIsByRank, Kept
  <2>1. PromptOk(input) /\ SweepOk(sweep, input)
    BY InputsOk DEF PolicyInv
  <2>2. /\ Len(sweep) \in Nat /\ DOMAIN sweep = 1 .. Len(sweep)
        /\ \A j \in 1 .. Len(sweep) : sweep[j] \in Points(input)
        /\ \A j \in 1 .. Len(sweep) - 1 : Smaller(sweep[j + 1].ratio, sweep[j].ratio)
    BY <2>1, SeqElements DEF SweepOk
  <2>3. ASSUME NEW j \in DOMAIN sweep
        PROVE  /\ sweep[j].ratio \in Fractions /\ sweep[j].ratio.num <= sweep[j].ratio.den
               /\ Selectable(input)
               /\ RowsOf(sweep[j].recompute) = (0 .. input.n - 1) \ Kept(input, sweep[j].ratio)
    <3>1. /\ sweep[j].ratio \in Accepted(input)
          /\ sweep[j].recompute = Select(input, sweep[j].ratio).recompute
      <4> DEFINE p == sweep[j]
      <4>1. PromptOk(input) /\ p \in Points(input)
        BY <2>1, <2>2
      <4> HIDE DEF p
      <4>2. p.ratio \in Accepted(input) /\ p.recompute = Select(input, p.ratio).recompute
        BY <4>1, PointFacts
      <4> QED BY <4>2 DEF p
    <3>2. sweep[j].ratio \in Fractions /\ ValidSelection(input, sweep[j].ratio)
      BY <3>1 DEF Accepted
    <3> QED BY <2>1, <3>1, <3>2, SelectKeeps DEF ValidSelection
  <2>4. ASSUME i > 1 PROVE RowsOf(sweep[i].recompute) \subseteq RowsOf(sweep[i - 1].recompute)
    <3> DEFINE k == i - 1
    <3>1. k \in 1 .. Len(sweep) - 1 /\ k \in DOMAIN sweep /\ k + 1 = i
      BY <2>2, <2>4
    <3> HIDE DEF k
    <3>2. Smaller(sweep[i].ratio, sweep[k].ratio)
      BY <2>2, <3>1
    <3>3. Kept(input, sweep[k].ratio) \subseteq Kept(input, sweep[i].ratio)
      BY <2>3, <3>1, <3>2, KeptGrows
    <3>4. RowsOf(sweep[i].recompute) \subseteq RowsOf(sweep[k].recompute)
      BY <2>3, <3>1, <3>3
    <3> QED BY <3>4 DEF k
  <2> QED BY <2>3, <2>4
<1> QED BY <1>1, PolicyInvariant, PTL

\* SWEEPS CAN BE READ: what CacheBlendSelectionPolicy.sweep makes and
\* with_measurements completes is accepted by selection_sweep_from_dict, which works
\* the points out again by functions of its own; and what write_selection_sweep has
\* written when it returns is in the file for good.
THEOREM SweepsCanAlwaysBeRead == Spec => []SweepsCanBeRead
<1>1. PolicyInv => SweepsCanBeRead
  <2> SUFFICES ASSUME PolicyInv PROVE SweepsCanBeRead
    OBVIOUS
  <2>1. PromptOk(input) /\ SweepOk(sweep, input)
    BY InputsOk DEF PolicyInv
  <2>2. ASSUME sweep # <<>>, NEW m \in BOOLEAN
        PROVE  AcceptsSweep([i \in DOMAIN sweep |-> [sweep[i] EXCEPT !.measured = m]])
    BY <2>1, <2>2, MarkedAccepted
  <2>3. written # <<>> => ReadSelectionSweep = written
    BY DEF PolicyInv, ReadSelectionSweep
  <2> QED BY <2>2, <2>3 DEF SweepsCanBeRead
<1> QED BY <1>1, PolicyInvariant, PTL

-----------------------------------------------------------------------------
(* The parts of a prompt's spans that a plan writes.                        *)

\* The tables of a prompt whose writes can be planned reach to its last row.
LEMMA CoveredTables ==
  ASSUME NEW in \in Inputs, in.n > 0, TablesCover(in.tables, Whole(in))
  PROVE  in.n \in Nat \ {0} /\ TablesReach(in.tables, in.n) /\ ConfigOk(KvConfig)
<1> DEFINE n == in.n
           tables == in.tables
           q == (n - 1) \div BlockSize
<1>1. /\ n \in Nat \ {0} /\ tables \in Seq(Seq(Nat)) /\ ValidKvCacheBlocks(tables)
      /\ ToSet(tables[1]) \cap ToSet(tables[2]) = {}
  <2>1. /\ in.n \in Nat /\ in.tables \in Seq(Seq(Nat)) /\ ValidKvCacheBlocks(in.tables)
        /\ ToSet(in.tables[1]) \cap ToSet(in.tables[2]) = {}
    BY SelectiveAssumption
  <2> QED BY <2>1
<1>2. LastBlock(Whole(in)) = q
  BY <1>1 DEF LastBlock, Whole, TokenTransfer
<1>3. Len(tables) = 2
  BY <1>1 DEF ValidKvCacheBlocks
<1>4. ASSUME NEW g \in {1, 2} PROVE n <= Len(tables[g]) * BlockSize
  <2>1. g \in DOMAIN tables /\ tables[g] \in Seq(Nat)
    <3> DEFINE V == Seq(Nat)
    <3> HIDE DEF V
    <3>1. tables \in Seq(V)
      BY <1>1 DEF V
    <3>2. g \in DOMAIN tables /\ tables[g] \in V
      BY <1>3, <3>1
    <3> QED BY <3>2 DEF V
  <2> DEFINE k == Len(tables[g])
  <2>2. k \in Nat /\ q < k
    BY <1>2, <2>1 DEF TablesCover
  <2>3. BlockSize \in Nat \ {0} /\ n - 1 \in Nat
    BY <1>1, LayoutAssumption
  <2>4. q \in Nat /\ (n - 1) % BlockSize \in 0 .. BlockSize - 1
        /\ n - 1 = q * BlockSize + ((n - 1) % BlockSize)
    BY <2>3, Division
  <2> HIDE DEF k, q
  <2>5. (q + 1) * BlockSize <= k * BlockSize /\ (q + 1) * BlockSize = q * BlockSize + BlockSize
        /\ q * BlockSize \in Nat /\ k * BlockSize \in Nat
    BY <2>2, <2>3, <2>4, Z3
  <2> DEFINE x == q * BlockSize
             y == k * BlockSize
             r == (n - 1) % BlockSize
  <2>6. /\ x \in Nat /\ y \in Nat /\ x + BlockSize <= y
        /\ r \in 0 .. BlockSize - 1 /\ n - 1 = x + r
    BY <2>4, <2>5
  <2> HIDE DEF x, y, r
  <2>7. n <= y
    BY <1>1, <2>3, <2>6
  <2> QED BY <2>7 DEF k, y
<1>5. ConfigOk(KvConfig)
  BY SelectiveAssumption DEF ConfigOk
<1> QED BY <1>1, <1>4, <1>5 DEF TablesReach

\* A plan that the policy, or nothing at all, makes for a prompt; a row that it
\* does not compute is a verified one.
RowsOk(rows, in) ==
  /\ rows.n = in.n
  /\ \A l \in Layers : /\ rows.layers[l] \in Seq(RowRanges)
                       /\ CanonicalRanges(in.n, rows.layers[l])
                       /\ RowsOf(rows.layers[l]) \subseteq 0 .. in.n - 1
  /\ \A l \in Layers : \A p \in 0 .. in.n - 1 : p \notin RowsOf(rows.layers[l]) =>
       p \in RowsOf(in.cached) /\ RowsOf(in.cached) \subseteq 0 .. in.n - 1

\* A part: its rows are recomputed rows of its layer, at their slots.
PartOk(s, in, rows) ==
  /\ s.layer \in Layers
  /\ s.span.target.start \in Nat /\ s.span.target.end \in Nat
  /\ s.span.slot \in Nat
  /\ \A p \in s.span.target.start .. s.span.target.end - 1 :
       /\ p \in 0 .. in.n - 1 /\ p \in RowsOf(rows.layers[s.layer])
       /\ s.span.slot + (p - s.span.target.start) = SlotOf(in, s.layer, p)

\* The parts hold each recomputed row of every layer once.
PartsOk(spans, in, rows) ==
  /\ \A s \in spans : PartOk(s, in, rows)
  /\ \A l \in Layers : \A p \in RowsOf(rows.layers[l]) : \E s \in spans : RowIn(s, l, p)
  /\ \A l \in Layers : \A p \in RowsOf(rows.layers[l]) : \A s1, s2 \in spans :
       RowIn(s1, l, p) /\ RowIn(s2, l, p) => s1 = s2

\* The spans of the whole prompt.
LEMMA WholeSpans ==
  ASSUME NEW in, in.n \in Nat \ {0}, TablesReach(in.tables, in.n), ConfigOk(KvConfig)
  PROVE  /\ \A s \in ToSet(FullSpans(in)) :
              /\ SpanOk(s, KvConfig, in.tables, 0, 0, in.n)
              /\ s = [layer |-> s.layer, span |-> s.span]
         /\ \A l \in Layers, p \in 0 .. in.n - 1 : \E s \in ToSet(FullSpans(in)) : RowIn(s, l, p)
         /\ \A l \in Layers, p \in 0 .. in.n - 1 : \A s1, s2 \in ToSet(FullSpans(in)) :
              RowIn(s1, l, p) /\ RowIn(s2, l, p) => s1 = s2
<1> DEFINE n == in.n
           transfer == TokenTransfer(0, 0, n)
           spans == PlanTokenScatter(KvConfig, in.tables, transfer)
<1>1. FullSpans(in) = spans
  BY DEF FullSpans, Whole
<1>2. SpansCover(spans, KvConfig, in.tables, 0, 0, n)
  <2>1. n \in Nat \ {0} /\ n \in Nat /\ 0 \in Nat /\ 0 + n <= n
    OBVIOUS
  <2> HIDE DEF n
  <2>2. TablesReach(in.tables, n)
    BY DEF n
  <2> QED BY <2>1, <2>2, PlanCovers
<1>3. \A i \in DOMAIN spans : spans[i] = [layer |-> spans[i].layer, span |-> spans[i].span]
  <2>1. BlocksTouched(transfer) \in Nat \ {0}
    <3>1. n \in Nat \ {0} /\ 0 \in Nat
      OBVIOUS
    <3> HIDE DEF n
    <3> QED BY <3>1, TouchesBlocks
  <2> HIDE DEF transfer
  <2>2. \A i \in DOMAIN spans :
          spans[i] = LayerSpan(KvConfig, in.tables, transfer, (i - 1) \div BlocksTouched(transfer),
                               ((i - 1) % BlocksTouched(transfer)) + 1)
    BY <2>1, PlanSpan
  <2> HIDE DEF spans
  <2> QED BY <2>2 DEF LayerSpan
<1> HIDE DEF spans
<1>4. /\ DOMAIN spans = 1 .. Len(spans)
      /\ \A i \in DOMAIN spans : SpanOk(spans[i], KvConfig, in.tables, 0, 0, n)
      /\ \A l \in Layers, p \in 0 .. 0 + n - 1 : \E i \in DOMAIN spans : RowIn(spans[i], l, p)
      /\ \A l \in Layers, p \in 0 .. 0 + n - 1 : \A i, j \in DOMAIN spans :
           RowIn(spans[i], l, p) /\ RowIn(spans[j], l, p) => i = j
  BY <1>2 DEF SpansCover
<1>5. ToSet(spans) = {spans[i] : i \in DOMAIN spans}
  BY DEF ToSet
<1>6. 0 + n - 1 = n - 1
  OBVIOUS
<1> HIDE DEF n
<1> QED BY <1>1, <1>3, <1>4, <1>5, <1>6 DEF n

\* The part of a span in a range has the rows they share, and its own slot.
LEMMA CutRows ==
  ASSUME NEW s, s = [layer |-> s.layer, span |-> s.span],
         s.span.target.start \in Nat, s.span.target.end \in Nat, s.span.slot \in Nat,
         NEW r \in RowRanges
  PROVE  /\ Part(s, Cut(s, r)).layer = s.layer
         /\ Part(s, Cut(s, r)).span.target.start \in Nat
         /\ Part(s, Cut(s, r)).span.target.end \in Nat
         /\ s.span.target.start <= Part(s, Cut(s, r)).span.target.start
         /\ \A p \in Nat :
              (/\ Part(s, Cut(s, r)).span.target.start <= p
               /\ p < Part(s, Cut(s, r)).span.target.end)
              <=> s.span.target.start <= p /\ p < s.span.target.end /\ InRange(r, p)
         /\ Part(s, Cut(s, r)).span.slot
              = s.span.slot + (Part(s, Cut(s, r)).span.target.start - s.span.target.start)
         /\ Cut(s, r).start = Part(s, Cut(s, r)).span.target.start
         /\ Cut(s, r).end = Part(s, Cut(s, r)).span.target.end
<1> DEFINE a == s.span.target.start
           b == s.span.target.end
           cut == Cut(s, r)
           piece == Part(s, cut)
<1>1. r.start \in Nat /\ r.end \in Nat /\ a \in Nat /\ b \in Nat
  BY DEF RowRanges
<1>2. /\ cut.start = Max({a, r.start}) /\ cut.end = Min({b, r.end})
  BY DEF Cut, TokenRange
<1>3. /\ cut.start = IF a >= r.start THEN a ELSE r.start
      /\ cut.end = IF b <= r.end THEN b ELSE r.end
  <2>1. a \in Int /\ b \in Int /\ r.start \in Int /\ r.end \in Int
    BY <1>1
  <2> HIDE DEF a, b, cut
  <2>2. Max({a, r.start}) = IF a >= r.start THEN a ELSE r.start
    BY <2>1, MaxMin, Zenon
  <2>3. Min({b, r.end}) = IF b <= r.end THEN b ELSE r.end
    BY <2>1, MaxMin, Zenon
  <2> QED BY <1>2, <2>2, <2>3
<1>4. piece.layer = s.layer /\ piece.span.target = cut
      /\ piece.span.slot = s.span.slot + (cut.start - a)
  <2> HIDE DEF cut
  <2> QED BY DEF Part
<1> HIDE DEF piece, cut, a, b
<1>5. cut.start \in Nat /\ cut.end \in Nat /\ a <= cut.start
  BY <1>1, <1>3
<1>6. \A p \in Nat : cut.start <= p /\ p < cut.end <=> a <= p /\ p < b /\ InRange(r, p)
  BY <1>1, <1>3 DEF InRange
<1> QED BY <1>4, <1>5, <1>6 DEF piece, cut, a, b

\* plan_selective_kv_writes writes the rows that are computed again, each once.
LEMMA PlannedParts ==
  ASSUME NEW in, in.n \in Nat \ {0}, TablesReach(in.tables, in.n), ConfigOk(KvConfig),
         NEW rows, RowsOk(rows, in)
  PROVE  PartsOk(PlanSelectiveKvWrites(in, rows).spans, in, rows)
<1> DEFINE full == ToSet(FullSpans(in))
           spans == PlanSelectiveKvWrites(in, rows).spans
           R(l) == ToSet(rows.layers[l])
<1>1. /\ \A s \in full : /\ SpanOk(s, KvConfig, in.tables, 0, 0, in.n)
                         /\ s = [layer |-> s.layer, span |-> s.span]
      /\ \A l \in Layers, p \in 0 .. in.n - 1 : \E s \in full : RowIn(s, l, p)
      /\ \A l \in Layers, p \in 0 .. in.n - 1 : \A s1, s2 \in full :
           RowIn(s1, l, p) /\ RowIn(s2, l, p) => s1 = s2
  BY WholeSpans
<1>2. spans = UNION {SplitSpan(s, rows.layers[s.layer]) : s \in full}
  BY DEF PlanSelectiveKvWrites
<1> HIDE DEF full, spans
<1>3. \A s \in full : /\ s.layer \in Layers
                      /\ s.span.target.start \in Nat /\ s.span.target.end \in Nat
                      /\ s.span.slot \in Nat
                      /\ \A p \in s.span.target.start .. s.span.target.end - 1 :
                           /\ p \in 0 .. in.n - 1
                           /\ s.span.slot + (p - s.span.target.start) = SlotOf(in, s.layer, p)
  <2> SUFFICES ASSUME NEW s \in full
               PROVE  /\ s.layer \in Layers
                      /\ s.span.target.start \in Nat /\ s.span.target.end \in Nat
                      /\ s.span.slot \in Nat
                      /\ \A p \in s.span.target.start .. s.span.target.end - 1 :
                           /\ p \in 0 .. in.n - 1
                           /\ s.span.slot + (p - s.span.target.start) = SlotOf(in, s.layer, p)
    OBVIOUS
  <2>1. SpanOk(s, KvConfig, in.tables, 0, 0, in.n)
    BY <1>1
  <2>2. \A p : SlotIn(KvConfig, in.tables, s.layer, p) = SlotOf(in, s.layer, p)
    BY DEF SlotIn, SlotOf
  <2>3. 0 + in.n - 1 = in.n - 1
    OBVIOUS
  <2> QED BY <2>1, <2>2, <2>3 DEF SpanOk
<1>4. ASSUME NEW l \in Layers
      PROVE  /\ R(l) \in SUBSET RowRanges
             /\ \A p \in Nat : p \in RowsOf(rows.layers[l]) <=> \E r \in R(l) : InRange(r, p)
             /\ \A r1, r2 \in R(l), p \in Nat : InRange(r1, p) /\ InRange(r2, p) => r1 = r2
  <2> DEFINE c == rows.layers[l]
  <2>1. c \in Seq(RowRanges) /\ CanonicalRanges(in.n, c) /\ in.n \in Nat
    BY DEF RowsOk
  <2> HIDE DEF c
  <2>2. /\ Len(c) \in Nat /\ \A i \in 1 .. Len(c) : c[i] \in RowRanges
        /\ ToSet(c) = {c[i] : i \in 1 .. Len(c)} /\ ToSet(c) \in SUBSET RowRanges
    BY <2>1, SeqElements
  <2>3. \A p \in Nat : p \in RowsOf(c) <=> \E i \in 1 .. Len(c) : InRange(c[i], p)
    BY <2>1, RowsOfRanges
  <2>4. \A i, j \in 1 .. Len(c) : i < j => c[i].end <= c[j].start
    BY <2>1, CanonicalOrder
  <2>5. ASSUME NEW i \in 1 .. Len(c), NEW j \in 1 .. Len(c), NEW p \in Nat,
               InRange(c[i], p), InRange(c[j], p)
        PROVE  i = j
    <3>1. /\ c[i].start \in Nat /\ c[i].end \in Nat /\ c[j].start \in Nat /\ c[j].end \in Nat
      BY <2>2 DEF RowRanges
    <3>2. (i < j => c[i].end <= c[j].start) /\ (j < i => c[j].end <= c[i].start)
      BY <2>4
    <3>3. c[i].start <= p /\ p < c[i].end /\ c[j].start <= p /\ p < c[j].end
      BY <2>5 DEF InRange
    <3>4. ~(i < j) /\ ~(j < i)
      BY <3>1, <3>2, <3>3
    <3> QED BY <2>2, <3>4
  <2>6. \A r1, r2 \in ToSet(c), p \in Nat : InRange(r1, p) /\ InRange(r2, p) => r1 = r2
    BY <2>2, <2>5
  <2>7. \A p \in Nat : p \in RowsOf(c) <=> \E r \in ToSet(c) : InRange(r, p)
    BY <2>2, <2>3
  <2> QED BY <2>2, <2>6, <2>7 DEF c
<1> HIDE DEF R
<1>5. \A x : x \in spans <=> \E s \in full : \E r \in R(s.layer) :
                               Cut(s, r).start < Cut(s, r).end /\ x = Part(s, Cut(s, r))
  BY <1>2 DEF SplitSpan, R
<1>6. ASSUME NEW s \in full, NEW r \in R(s.layer)
      PROVE  /\ Part(s, Cut(s, r)).layer = s.layer
             /\ Part(s, Cut(s, r)).span.target.start \in Nat
             /\ Part(s, Cut(s, r)).span.target.end \in Nat
             /\ s.span.target.start <= Part(s, Cut(s, r)).span.target.start
             /\ \A p \in Nat :
                  (/\ Part(s, Cut(s, r)).span.target.start <= p
                   /\ p < Part(s, Cut(s, r)).span.target.end)
                  <=> s.span.target.start <= p /\ p < s.span.target.end /\ InRange(r, p)
             /\ Part(s, Cut(s, r)).span.slot
                  = s.span.slot + (Part(s, Cut(s, r)).span.target.start - s.span.target.start)
             /\ Cut(s, r).start = Part(s, Cut(s, r)).span.target.start
             /\ Cut(s, r).end = Part(s, Cut(s, r)).span.target.end
  <2>1. /\ s = [layer |-> s.layer, span |-> s.span] /\ r \in RowRanges
        /\ s.span.target.start \in Nat /\ s.span.target.end \in Nat /\ s.span.slot \in Nat
    BY <1>1, <1>3, <1>4
  <2> QED BY <2>1, CutRows
<1>7. ASSUME NEW x \in spans PROVE PartOk(x, in, rows)
  <2>1. PICK s \in full : \E r \in R(s.layer) : x = Part(s, Cut(s, r))
    BY <1>5
  <2>1a. PICK r \in R(s.layer) : x = Part(s, Cut(s, r))
    BY <2>1
  <2> DEFINE a == x.span.target.start
             b == x.span.target.end
             sa == s.span.target.start
             sb == s.span.target.end
  <2>2. /\ x.layer = s.layer /\ a \in Nat /\ b \in Nat /\ sa <= a
        /\ \A p \in Nat : a <= p /\ p < b <=> sa <= p /\ p < sb /\ InRange(r, p)
        /\ x.span.slot = s.span.slot + (a - sa)
    BY <1>6, <2>1a
  <2>3. /\ s.layer \in Layers /\ sa \in Nat /\ sb \in Nat /\ s.span.slot \in Nat
        /\ \A p \in sa .. sb - 1 : /\ p \in 0 .. in.n - 1
                                   /\ s.span.slot + (p - sa) = SlotOf(in, s.layer, p)
    BY <1>3
  <2> HIDE DEF a, b, sa, sb
  <2>4. ASSUME NEW p \in a .. b - 1
        PROVE  /\ p \in 0 .. in.n - 1 /\ p \in RowsOf(rows.layers[x.layer])
               /\ x.span.slot + (p - a) = SlotOf(in, x.layer, p)
    <3>1. p \in Nat /\ p \in sa .. sb - 1 /\ InRange(r, p)
      BY <2>2, <2>3
    <3>2. p \in RowsOf(rows.layers[s.layer])
      BY <1>4, <2>3, <3>1
    <3>3. x.span.slot + (p - a) = s.span.slot + (p - sa)
      BY <2>2, <2>3, <3>1
    <3> QED BY <2>2, <2>3, <3>1, <3>2, <3>3
  <2>5. x.span.slot \in Nat
    BY <2>2, <2>3
  <2> QED BY <2>2, <2>3, <2>4, <2>5 DEF PartOk, a, b
<1>8. ASSUME NEW l \in Layers, NEW p \in RowsOf(rows.layers[l])
      PROVE  \E x \in spans : RowIn(x, l, p)
  <2>1. p \in 0 .. in.n - 1 /\ p \in Nat
    BY DEF RowsOk
  <2>2. PICK s \in full : RowIn(s, l, p)
    BY <1>1, <2>1
  <2>3. PICK r \in R(l) : InRange(r, p)
    BY <1>4, <2>1
  <2>4. s.layer = l /\ s.span.target.start \in Nat /\ s.span.target.end \in Nat
        /\ s.span.target.start <= p /\ p < s.span.target.end
    BY <1>3, <2>1, <2>2 DEF RowIn
  <2> DEFINE x == Part(s, Cut(s, r))
  <2>5. /\ x.layer = l /\ x.span.target.start \in Nat /\ x.span.target.end \in Nat
        /\ x.span.target.start <= p /\ p < x.span.target.end
        /\ Cut(s, r).start = x.span.target.start /\ Cut(s, r).end = x.span.target.end
    BY <1>6, <2>1, <2>3, <2>4
  <2>6. x \in spans
    <3>1. Cut(s, r).start < Cut(s, r).end
      <4> HIDE DEF x
      <4> QED BY <2>1, <2>5
    <3> QED BY <1>5, <2>3, <2>4, <3>1
  <2> HIDE DEF x
  <2>7. RowIn(x, l, p)
    BY <2>1, <2>5 DEF RowIn
  <2> QED BY <2>6, <2>7
<1>9. ASSUME NEW l \in Layers, NEW p \in RowsOf(rows.layers[l]), NEW x1 \in spans, NEW x2 \in spans,
             RowIn(x1, l, p), RowIn(x2, l, p)
      PROVE  x1 = x2
  <2>1. p \in 0 .. in.n - 1 /\ p \in Nat
    BY DEF RowsOk
  <2>2. PICK s1 \in full : \E r \in R(s1.layer) : x1 = Part(s1, Cut(s1, r))
    BY <1>5
  <2>2a. PICK r1 \in R(s1.layer) : x1 = Part(s1, Cut(s1, r1))
    BY <2>2
  <2>3. PICK s2 \in full : \E r \in R(s2.layer) : x2 = Part(s2, Cut(s2, r))
    BY <1>5
  <2>3a. PICK r2 \in R(s2.layer) : x2 = Part(s2, Cut(s2, r2))
    BY <2>3
  <2>4. s1.layer = l /\ RowIn(s1, l, p) /\ InRange(r1, p)
    <3>1. /\ x1.layer = s1.layer
          /\ x1.span.target.start \in Nat /\ x1.span.target.end \in Nat
          /\ (x1.span.target.start <= p /\ p < x1.span.target.end)
             <=> s1.span.target.start <= p /\ p < s1.span.target.end /\ InRange(r1, p)
      BY <1>6, <2>1, <2>2a
    <3>2. s1.span.target.start \in Nat /\ s1.span.target.end \in Nat
      BY <1>3
    <3>3. x1.layer = l /\ p \in x1.span.target.start .. x1.span.target.end - 1
      BY <1>9 DEF RowIn
    <3>4. /\ s1.layer = l /\ s1.span.target.start <= p /\ p < s1.span.target.end
          /\ InRange(r1, p)
      BY <2>1, <3>1, <3>3
    <3> QED BY <2>1, <3>2, <3>4 DEF RowIn
  <2>5. s2.layer = l /\ RowIn(s2, l, p) /\ InRange(r2, p)
    <3>1. /\ x2.layer = s2.layer
          /\ x2.span.target.start \in Nat /\ x2.span.target.end \in Nat
          /\ (x2.span.target.start <= p /\ p < x2.span.target.end)
             <=> s2.span.target.start <= p /\ p < s2.span.target.end /\ InRange(r2, p)
      BY <1>6, <2>1, <2>3a
    <3>2. s2.span.target.start \in Nat /\ s2.span.target.end \in Nat
      BY <1>3
    <3>3. x2.layer = l /\ p \in x2.span.target.start .. x2.span.target.end - 1
      BY <1>9 DEF RowIn
    <3>4. /\ s2.layer = l /\ s2.span.target.start <= p /\ p < s2.span.target.end
          /\ InRange(r2, p)
      BY <2>1, <3>1, <3>3
    <3> QED BY <2>1, <3>2, <3>4 DEF RowIn
  <2>6. s1 = s2
    BY <1>1, <2>1, <2>4, <2>5
  <2>7. r1 = r2
    <3>1. r1 \in R(l) /\ r2 \in R(l)
      BY <2>4, <2>5
    <3> QED BY <1>4, <2>1, <2>4, <2>5, <3>1
  <2> QED BY <2>2a, <2>3a, <2>6, <2>7
<1> QED BY <1>7, <1>8, <1>9 DEF PartsOk, spans

-----------------------------------------------------------------------------
(* Memory under the copies of a plan.                                       *)

\* What holds of a plan from plan_selective_kv_writes on.
PlanReady(w, in) ==
  /\ in.n \in Nat \ {0} /\ TablesReach(in.tables, in.n) /\ ConfigOk(KvConfig)
  /\ RowsOk(w.rows, in) /\ PartsOk(w.spans, in, w.rows)
Copies(w) == [comp : {"k", "v"}, s : w.spans]
Tensors == {Tensor(l) : l \in Layers}

\* Every row of a prompt has a slot of its own.
LEMMA OwnSlot ==
  ASSUME NEW in, in.n \in Nat \ {0}, TablesReach(in.tables, in.n), ConfigOk(KvConfig),
         NEW l \in Layers, NEW p \in 0 .. in.n - 1
  PROVE  /\ Tensor(l) \in Tensors /\ SlotOf(in, l, p) \in Slots
         /\ \A h \in Layers, q \in 0 .. in.n - 1 :
              Tensor(h) = Tensor(l) /\ SlotOf(in, h, q) = SlotOf(in, l, p) => h = l /\ q = p
<1>1. \A h \in Layers, q \in 0 .. in.n - 1 :
        SlotOf(in, h, q) = SlotIn(KvConfig, in.tables, h, q)
  BY DEF SlotOf, SlotIn
<1>2. SlotOf(in, l, p) \in Slots
  <2>1. in.n \in Nat
    OBVIOUS
  <2>2. SlotIn(KvConfig, in.tables, l, p) \in 0 .. NumBlocks * BlockSize - 1
    BY <2>1, SlotOfPosition
  <2> QED BY <1>1, <2>2 DEF Slots
<1>3. ASSUME NEW h \in Layers, NEW q \in 0 .. in.n - 1,
             Tensor(h) = Tensor(l), SlotOf(in, h, q) = SlotOf(in, l, p)
      PROVE  h = l /\ q = p
  <2>1. h \div 2 = l \div 2 /\ in.n \in Nat
    BY <1>3 DEF Tensor
  <2>2. SlotIn(KvConfig, in.tables, h, q) = SlotIn(KvConfig, in.tables, l, p)
    BY <1>1, <1>3
  <2> QED BY <2>1, <2>2, SlotsAreDistinct
<1> QED BY <1>2, <1>3 DEF Tensors

\* A copy writes recomputed rows of its layer, each at its slot.
LEMMA CopiedRow ==
  ASSUME NEW in, NEW w, PlanReady(w, in), NEW c \in Copies(w),
         NEW t, NEW slot \in Nat, NEW comp, Writes(c, t, slot, comp)
  PROVE  \E l \in Layers : \E p \in RowsOf(w.rows.layers[l]) :
           /\ p \in 0 .. in.n - 1
           /\ RowIn(c.s, l, p) /\ Tensor(l) = t /\ SlotOf(in, l, p) = slot
           /\ Written(c, slot) = Row("model", l, p)
<1> DEFINE s == c.s
           a == s.span.target.start
           b == s.span.target.end
           l == s.layer
           p == a + slot - s.span.slot
<1>1. s \in w.spans
  BY DEF Copies
<1>2. PartOk(s, in, w.rows)
  BY <1>1 DEF PlanReady, PartsOk
<1>3. /\ l \in Layers /\ a \in Nat /\ b \in Nat /\ s.span.slot \in Nat
      /\ \A q \in a .. b - 1 : /\ q \in 0 .. in.n - 1 /\ q \in RowsOf(w.rows.layers[l])
                               /\ s.span.slot + (q - a) = SlotOf(in, l, q)
  BY <1>2 DEF PartOk
<1>4. Tensor(l) = t /\ slot \in s.span.slot .. s.span.slot + (b - a) - 1
  BY DEF Writes, SlotsOf, TokenCount
<1>5. Written(c, slot) = Row("model", l, p)
  BY DEF Written
<1> HIDE DEF s, a, b, l
<1>6. p \in a .. b - 1 /\ s.span.slot + (p - a) = slot
  BY <1>3, <1>4
<1>7. RowIn(c.s, l, p)
  BY <1>6 DEF RowIn, a, b, l, s
<1> HIDE DEF p
<1>8. p \in 0 .. in.n - 1 /\ p \in RowsOf(w.rows.layers[l]) /\ SlotOf(in, l, p) = slot
  BY <1>3, <1>6
<1> QED BY <1>3, <1>4, <1>5, <1>7, <1>8

\* No slot is written twice.
LEMMA OneWriter ==
  ASSUME NEW in, NEW w, PlanReady(w, in), NEW c \in Copies(w), NEW d \in Copies(w),
         NEW t, NEW slot \in Nat, NEW comp, Writes(c, t, slot, comp), Writes(d, t, slot, comp)
  PROVE  c = d
<1>1. PICK l \in Layers : \E p \in RowsOf(w.rows.layers[l]) :
        /\ p \in 0 .. in.n - 1
        /\ RowIn(c.s, l, p) /\ Tensor(l) = t /\ SlotOf(in, l, p) = slot
  BY CopiedRow
<1>2. PICK p \in RowsOf(w.rows.layers[l]) :
        /\ p \in 0 .. in.n - 1
        /\ RowIn(c.s, l, p) /\ Tensor(l) = t /\ SlotOf(in, l, p) = slot
  BY <1>1
<1>3. PICK h \in Layers : \E q \in RowsOf(w.rows.layers[h]) :
        /\ q \in 0 .. in.n - 1
        /\ RowIn(d.s, h, q) /\ Tensor(h) = t /\ SlotOf(in, h, q) = slot
  BY CopiedRow
<1>4. PICK q \in RowsOf(w.rows.layers[h]) :
        /\ q \in 0 .. in.n - 1
        /\ RowIn(d.s, h, q) /\ Tensor(h) = t /\ SlotOf(in, h, q) = slot
  BY <1>3
<1>5. h = l /\ q = p
  <2>1. in.n \in Nat \ {0} /\ TablesReach(in.tables, in.n) /\ ConfigOk(KvConfig)
    BY DEF PlanReady
  <2> QED BY <1>2, <1>4, <2>1, OwnSlot
<1>6. c.s = d.s
  <2>1. c.s \in w.spans /\ d.s \in w.spans
    BY DEF Copies
  <2> QED BY <1>2, <1>4, <1>5, <2>1 DEF PlanReady, PartsOk
<1>7. c.comp = comp /\ d.comp = comp
  BY DEF Writes
<1>8. c = [comp |-> c.comp, s |-> c.s] /\ d = [comp |-> d.comp, s |-> d.s]
  BY DEF Copies
<1> QED BY <1>6, <1>7, <1>8

\* Some copies of a plan, done to memory.
Doing(in, w, m, done) ==
  PlanReady(w, in) /\ done \in SUBSET Copies(w) /\ DOMAIN m = Tensors

\* Copies, however many of them are done, change what they write and no more.
LEMMA ApplyEffect ==
  ASSUME NEW in, NEW w, NEW m, NEW done, Doing(in, w, m, done),
         NEW t \in Tensors, NEW slot \in Slots, NEW comp \in {"k", "v"}
  PROVE  /\ (\A c \in done : ~Writes(c, t, slot, comp)) =>
              Apply(m, done)[t][slot][comp] = m[t][slot][comp]
         /\ \A c \in done : Writes(c, t, slot, comp) =>
              Apply(m, done)[t][slot][comp] = Written(c, slot)
<1>0. PlanReady(w, in) /\ done \in SUBSET Copies(w) /\ t \in DOMAIN m
  BY DEF Doing
<1> DEFINE here == {c \in done : Writes(c, t, slot, comp)}
           first == CHOOSE c \in here : \A d \in here \ {c} : Earlier(d, c)
<1>1. Apply(m, done)[t][slot][comp]
        = IF here = {} THEN m[t][slot][comp] ELSE Written(first, slot)
  BY <1>0 DEF Apply
<1>2. slot \in Nat
  BY LayoutAssumption DEF Slots
<1>3. ASSUME NEW c \in done, Writes(c, t, slot, comp) PROVE here = {c}
  <2>1. \A d \in done : Writes(d, t, slot, comp) => d = c
    <3> SUFFICES ASSUME NEW d \in done, Writes(d, t, slot, comp) PROVE d = c
      OBVIOUS
    <3>1. c \in Copies(w) /\ d \in Copies(w)
      BY <1>0
    <3> QED BY <1>0, <1>2, <1>3, <3>1, OneWriter
  <2> QED BY <1>3, <2>1
<1>4. ASSUME NEW c \in done, Writes(c, t, slot, comp) PROVE first = c
  <2>1. here = {c}
    BY <1>3, <1>4
  <2> HIDE DEF here
  <2>2. \E x \in here : \A d \in here \ {x} : Earlier(d, x)
    BY <2>1
  <2>3. first \in here
    BY <2>2
  <2> QED BY <2>1, <2>3
<1>5. \A c \in done : Writes(c, t, slot, comp) => here # {}
  OBVIOUS
<1>6. (\A c \in done : ~Writes(c, t, slot, comp)) => here = {}
  OBVIOUS
<1> HIDE DEF here, first
<1> QED BY <1>1, <1>4, <1>5, <1>6

\* A row in memory that one of some copies writes.
WrittenBy(c, done, t, slot, comp) ==
  /\ c \in done /\ Writes(c, t, slot, comp)
  /\ t \in Tensors /\ slot \in Slots /\ comp \in {"k", "v"}
\* A copy that is done leaves its row in memory, whatever else is done with it: all
\* the copies of a plan that write a place write the same row there.
LEMMA ApplyWrites ==
  ASSUME NEW in, NEW w, NEW m, NEW done, Doing(in, w, m, done),
         NEW c, NEW t, NEW slot, NEW comp, WrittenBy(c, done, t, slot, comp)
  PROVE  Apply(m, done)[t][slot][comp] = Written(c, slot)
<1>1. \A d \in done : Writes(d, t, slot, comp) =>
        Apply(m, done)[t][slot][comp] = Written(d, slot)
  <2>1. t \in Tensors /\ slot \in Slots /\ comp \in {"k", "v"}
    BY DEF WrittenBy
  <2> QED BY <2>1, ApplyEffect
<1> QED BY <1>1 DEF WrittenBy

\* Only recomputed rows were written since the forward began.
MemOk(m, rows, in) ==
  /\ DOMAIN m = Tensors
  /\ \A t \in Tensors, s \in Slots, c \in {"k", "v"} :
       m[t][s][c] # Prepared(in)[t][s][c] =>
         \E l \in Layers : \E p \in RowsOf(rows.layers[l]) :
           Tensor(l) = t /\ SlotOf(in, l, p) = s /\ m[t][s][c] = Row("model", l, p)

\* A layer, and the layers before one, have all their recomputed rows.
LayerWritten(m, rows, in, l) ==
  \A p \in RowsOf(rows.layers[l]) : \A c \in {"k", "v"} :
    m[Tensor(l)][SlotOf(in, l, p)][c] = Row("model", l, p)
WrittenBelow(m, rows, in, k) == \A l \in Layers : l < k => LayerWritten(m, rows, in, l)

\* Whatever copies are done, rows stay where they belong.
LEMMA ApplyKeepsMemory ==
  ASSUME NEW in, NEW w, PlanReady(w, in), NEW done \in SUBSET Copies(w),
         NEW m, MemOk(m, w.rows, in)
  PROVE  MemOk(Apply(m, done), w.rows, in)
<1> DEFINE x == Apply(m, done)
<1>1. DOMAIN x = Tensors /\ Doing(in, w, m, done)
  BY DEF Apply, MemOk, Doing
<1>2. ASSUME NEW t \in Tensors, NEW s \in Slots, NEW c \in {"k", "v"},
             x[t][s][c] # Prepared(in)[t][s][c]
      PROVE  \E l \in Layers : \E p \in RowsOf(w.rows.layers[l]) :
               Tensor(l) = t /\ SlotOf(in, l, p) = s /\ x[t][s][c] = Row("model", l, p)
  <2>1. CASE \A d \in done : ~Writes(d, t, s, c)
    <3>1. x[t][s][c] = m[t][s][c]
      BY <1>1, <2>1, ApplyEffect
    <3> HIDE DEF x
    <3> QED BY <1>2, <3>1 DEF MemOk
  <2>2. ASSUME NEW d \in done, Writes(d, t, s, c)
        PROVE  \E l \in Layers : \E p \in RowsOf(w.rows.layers[l]) :
                 Tensor(l) = t /\ SlotOf(in, l, p) = s /\ x[t][s][c] = Row("model", l, p)
    <3>1. x[t][s][c] = Written(d, s)
      <4>1. WrittenBy(d, done, t, s, c)
        BY <2>2 DEF WrittenBy
      <4> QED BY <1>1, <4>1, ApplyWrites
    <3>2. s \in Nat /\ d \in Copies(w)
      BY LayoutAssumption DEF Slots
    <3> HIDE DEF x
    <3>3. \E l \in Layers : \E p \in RowsOf(w.rows.layers[l]) :
            /\ p \in 0 .. in.n - 1
            /\ RowIn(d.s, l, p) /\ Tensor(l) = t /\ SlotOf(in, l, p) = s
            /\ Written(d, s) = Row("model", l, p)
      BY <2>2, <3>2, CopiedRow
    <3> QED BY <3>1, <3>3
  <2> QED BY <2>1, <2>2
<1> HIDE DEF x
<1>3. MemOk(x, w.rows, in)
  BY <1>1, <1>2 DEF MemOk
<1> QED BY <1>3 DEF x

\* A row that is written stays what it is.
LEMMA ApplyKeepsRow ==
  ASSUME NEW in, NEW w, PlanReady(w, in), NEW done \in SUBSET Copies(w),
         NEW m, DOMAIN m = Tensors,
         NEW l \in Layers, NEW p \in RowsOf(w.rows.layers[l]), NEW comp \in {"k", "v"},
         \/ m[Tensor(l)][SlotOf(in, l, p)][comp] = Row("model", l, p)
         \/ PrepareLayer(w, l) \subseteq done
  PROVE  Apply(m, done)[Tensor(l)][SlotOf(in, l, p)][comp] = Row("model", l, p)
<1> DEFINE t == Tensor(l)
           slot == SlotOf(in, l, p)
<1>1. in.n \in Nat \ {0} /\ TablesReach(in.tables, in.n) /\ ConfigOk(KvConfig)
  BY DEF PlanReady
<1>2. p \in 0 .. in.n - 1 /\ Doing(in, w, m, done)
  BY DEF PlanReady, RowsOk, Doing
<1>3. /\ t \in Tensors /\ slot \in Slots
      /\ \A h \in Layers, q \in 0 .. in.n - 1 :
           Tensor(h) = t /\ SlotOf(in, h, q) = slot => h = l /\ q = p
  BY <1>1, <1>2, OwnSlot
<1>4. slot \in Nat
  BY <1>3, LayoutAssumption DEF Slots
<1>5. ASSUME NEW d \in done, Writes(d, t, slot, comp)
      PROVE  Apply(m, done)[t][slot][comp] = Row("model", l, p)
  <2>1. d \in Copies(w)
    OBVIOUS
  <2> HIDE DEF t, slot
  <2>2. \E h \in Layers : \E q \in RowsOf(w.rows.layers[h]) :
          /\ q \in 0 .. in.n - 1
          /\ RowIn(d.s, h, q) /\ Tensor(h) = t /\ SlotOf(in, h, q) = slot
          /\ Written(d, slot) = Row("model", h, q)
    BY <1>4, <1>5, <2>1, CopiedRow
  <2>3. Written(d, slot) = Row("model", l, p)
    BY <1>3, <2>2
  <2>4. Apply(m, done)[t][slot][comp] = Written(d, slot)
    <3>1. WrittenBy(d, done, t, slot, comp)
      BY <1>3, <1>5 DEF WrittenBy
    <3> QED BY <1>2, <3>1, ApplyWrites
  <2> QED BY <2>3, <2>4
<1>6. CASE PrepareLayer(w, l) \subseteq done
  <2>1. PICK s \in w.spans : RowIn(s, l, p)
    BY DEF PlanReady, PartsOk
  <2> DEFINE d == [comp |-> comp, s |-> s]
  <2>2. d \in PrepareLayer(w, l)
    BY <2>1 DEF PrepareLayer, SpansForLayer, RowIn
  <2>3. Writes(d, t, slot, comp)
    <3> DEFINE a == s.span.target.start
               b == s.span.target.end
               k == s.span.slot
    <3>1. PartOk(s, in, w.rows)
      BY <2>1 DEF PlanReady, PartsOk
    <3>2. s.layer = l /\ p \in a .. b - 1 /\ a \in Nat /\ b \in Nat /\ k \in Nat
      BY <2>1, <3>1 DEF RowIn, PartOk
    <3>3. k + (p - a) = slot
      BY <3>1, <3>2 DEF PartOk
    <3> HIDE DEF a, b, k, slot
    <3>4. slot \in k .. k + (b - a) - 1
      BY <3>2, <3>3
    <3> QED BY <3>2, <3>4 DEF Writes, SlotsOf, TokenCount, a, b, k
  <2> HIDE DEF d
  <2> QED BY <1>5, <1>6, <2>2, <2>3
<1>7. CASE \A d \in done : ~Writes(d, t, slot, comp)
  <2>1. CASE m[t][slot][comp] = Row("model", l, p)
    <3> HIDE DEF t, slot
    <3>1. Apply(m, done)[t][slot][comp] = m[t][slot][comp]
      BY <1>2, <1>3, <1>7, ApplyEffect
    <3> QED BY <2>1, <3>1 DEF t, slot
  <2> QED BY <1>6, <2>1
<1> HIDE DEF t, slot
<1>8. Apply(m, done)[t][slot][comp] = Row("model", l, p)
  <2>1. (\A d \in done : ~Writes(d, t, slot, comp)) \/ \E d \in done : Writes(d, t, slot, comp)
    OBVIOUS
  <2>2. CASE \A d \in done : ~Writes(d, t, slot, comp)
    BY <1>7, <2>2 DEF t, slot
  <2> QED BY <1>5, <2>1, <2>2
<1> QED BY <1>8 DEF t, slot

\* Verified rows of the cache are at their slots when a forward starts.
LEMMA PreparedRow ==
  ASSUME NEW in, NEW w, PlanReady(w, in), NEW l \in Layers, NEW p \in 0 .. in.n - 1,
         p \notin RowsOf(w.rows.layers[l]), NEW comp \in {"k", "v"}
  PROVE  Prepared(in)[Tensor(l)][SlotOf(in, l, p)][comp] = Row("cache", l, p)
<1> DEFINE t == Tensor(l)
           slot == SlotOf(in, l, p)
           here == {h \in Layers \X RowsOf(in.cached) : Tensor(h[1]) = t /\ SlotOf(in, h[1], h[2]) = slot}
           at == CHOOSE h \in here : TRUE
<1>1. in.n \in Nat \ {0} /\ TablesReach(in.tables, in.n) /\ ConfigOk(KvConfig)
  BY DEF PlanReady
<1>2. p \in RowsOf(in.cached) /\ RowsOf(in.cached) \subseteq 0 .. in.n - 1
  BY DEF PlanReady, RowsOk
<1>3. /\ t \in Tensors /\ slot \in Slots
      /\ \A h \in Layers, q \in 0 .. in.n - 1 :
           Tensor(h) = t /\ SlotOf(in, h, q) = slot => h = l /\ q = p
  BY <1>1, OwnSlot
<1>4. here = {<<l, p>>}
  <2>1. <<l, p>> \in here
    BY <1>2
  <2>2. ASSUME NEW h \in here PROVE h = <<l, p>>
    <3>1. h[1] \in Layers /\ h[2] \in 0 .. in.n - 1 /\ h = <<h[1], h[2]>>
      BY <1>2
    <3>2. h[1] = l /\ h[2] = p
      BY <1>3, <3>1
    <3> QED BY <3>1, <3>2
  <2> HIDE DEF here
  <2> QED BY <2>1, <2>2
<1>5. Prepared(in)[t][slot] = IF here = {} THEN Blank
        ELSE [k |-> Row("cache", at[1], at[2]), v |-> Row("cache", at[1], at[2])]
  BY <1>3 DEF Prepared, Tensors
<1>6. at = <<l, p>>
  <2> HIDE DEF here
  <2> QED BY <1>4
<1> HIDE DEF here, at, t, slot
<1>7. Prepared(in)[t][slot] = [k |-> Row("cache", l, p), v |-> Row("cache", l, p)]
  BY <1>4, <1>5, <1>6
<1> QED BY <1>7 DEF t, slot

\* A layer with all its recomputed rows has every row of the prompt.
LEMMA BlendedLayer ==
  ASSUME NEW in, NEW w, PlanReady(w, in), NEW m, MemOk(m, w.rows, in),
         NEW l \in Layers, LayerWritten(m, w.rows, in, l), NEW p \in 0 .. in.n - 1,
         NEW comp \in {"k", "v"}
  PROVE  m[Tensor(l)][SlotOf(in, l, p)][comp]
           = Row(IF p \in RowsOf(w.rows.layers[l]) THEN "model" ELSE "cache", l, p)
<1>1. CASE p \in RowsOf(w.rows.layers[l])
  BY <1>1 DEF LayerWritten
<1>2. CASE p \notin RowsOf(w.rows.layers[l])
  <2>1. in.n \in Nat \ {0} /\ TablesReach(in.tables, in.n) /\ ConfigOk(KvConfig)
    BY DEF PlanReady
  <2> DEFINE t == Tensor(l)
             slot == SlotOf(in, l, p)
  <2>2. /\ t \in Tensors /\ slot \in Slots
        /\ \A h \in Layers, q \in 0 .. in.n - 1 :
             Tensor(h) = t /\ SlotOf(in, h, q) = slot => h = l /\ q = p
    BY <2>1, OwnSlot
  <2>3. \A h \in Layers : \A q \in RowsOf(w.rows.layers[h]) : q \in 0 .. in.n - 1
    BY DEF PlanReady, RowsOk
  <2>4. Prepared(in)[t][slot][comp] = Row("cache", l, p)
    BY <1>2, PreparedRow
  <2> HIDE DEF t, slot
  <2>5. m[t][slot][comp] = Prepared(in)[t][slot][comp]
    <3>1. SUFFICES ASSUME m[t][slot][comp] # Prepared(in)[t][slot][comp] PROVE FALSE
      OBVIOUS
    <3>2. \E h \in Layers : \E q \in RowsOf(w.rows.layers[h]) :
            Tensor(h) = t /\ SlotOf(in, h, q) = slot
      BY <2>2, <3>1 DEF MemOk
    <3> QED BY <1>2, <2>2, <2>3, <3>2
  <2> QED BY <1>2, <2>4, <2>5 DEF t, slot
<1> QED BY <1>1, <1>2

-----------------------------------------------------------------------------
(* How many rows are computed again.                                        *)

\* The rows that are computed again in the layers before one.
Below(rows, n, k) ==
  {h \in Layers \X (0 .. n - 1) : h[1] < k /\ h[2] \in RowsOf(rows.layers[h[1]])}
Count(rows, n, k) == Cardinality(Below(rows, n, k))

\* A layer adds its own.
LEMMA CountStep ==
  ASSUME NEW in, in.n \in Nat, NEW rows, RowsOk(rows, in)
  PROVE  /\ Count(rows, in.n, 0) = 0
         /\ \A l \in Layers :
              /\ Count(rows, in.n, l) \in Nat
              /\ Cardinality(RowsOf(rows.layers[l])) \in Nat
              /\ Count(rows, in.n, l + 1)
                   = Count(rows, in.n, l) + Cardinality(RowsOf(rows.layers[l]))
<1>1. NumLayers \in Nat \ {0} /\ \A l \in Layers : l \in Nat /\ l <= NumLayers - 1
  BY LayoutAssumption DEF Layers
<1>2. Count(rows, in.n, 0) = 0
  <2>1. \A h \in Layers \X (0 .. in.n - 1) : ~(h[1] < 0)
    BY <1>1
  <2>2. Below(rows, in.n, 0) = {}
    BY <2>1 DEF Below
  <2> QED BY <2>2, FS_EmptySet DEF Count
<1>3. ASSUME NEW l \in Layers
      PROVE  /\ Count(rows, in.n, l) \in Nat
             /\ Cardinality(RowsOf(rows.layers[l])) \in Nat
             /\ Count(rows, in.n, l + 1)
                  = Count(rows, in.n, l) + Cardinality(RowsOf(rows.layers[l]))
  <2> DEFINE R == RowsOf(rows.layers[l])
             A == Below(rows, in.n, l)
             B == {l} \X R
  <2>1. R \subseteq 0 .. in.n - 1
    BY DEF RowsOk
  <2>2. IsFiniteSet(0 .. in.n - 1) /\ IsFiniteSet(Layers)
    <3>1. 0 \in Int /\ in.n - 1 \in Int /\ NumLayers - 1 \in Int
      BY <1>1
    <3> QED BY <3>1, FS_Interval DEF Layers
  <2>3. IsFiniteSet(A) /\ Cardinality(A) \in Nat
    <3>1. IsFiniteSet(Layers \X (0 .. in.n - 1))
      BY <2>2, FS_Product
    <3>2. A \subseteq Layers \X (0 .. in.n - 1)
      BY DEF Below
    <3> QED BY <3>1, <3>2, FS_Subset, FS_CardinalityType
  <2>4. IsFiniteSet(R) /\ Cardinality(R) \in Nat
    BY <2>1, <2>2, FS_Subset, FS_CardinalityType
  <2>5. IsFiniteSet(B) /\ Cardinality(B) = Cardinality(R)
    <3>1. IsFiniteSet({l}) /\ Cardinality({l}) = 1
      BY FS_Singleton
    <3> DEFINE c == Cardinality(R)
    <3>2. IsFiniteSet(B) /\ Cardinality(B) = 1 * c
      <4> HIDE DEF R
      <4> QED BY <2>4, <3>1, FS_Product
    <3>3. c \in Nat
      BY <2>4
    <3> HIDE DEF c
    <3>4. 1 * c = c
      BY <3>3, Z3
    <3> QED BY <3>2, <3>4 DEF c
  <2>6. Below(rows, in.n, l + 1) = A \cup B
    <3>1. \A h \in Layers : h < l + 1 <=> h < l \/ h = l
      BY <1>1
    <3>2. ASSUME NEW h \in Below(rows, in.n, l + 1) PROVE h \in A \cup B
      <4>1. /\ h \in Layers \X (0 .. in.n - 1) /\ h[1] < l + 1
            /\ h[2] \in RowsOf(rows.layers[h[1]])
        BY DEF Below
      <4>2. h[1] \in Layers /\ h = <<h[1], h[2]>>
        BY <4>1
      <4>3. CASE h[1] = l
        BY <4>1, <4>2, <4>3
      <4>4. CASE h[1] < l
        BY <4>1, <4>4 DEF Below
      <4> QED BY <3>1, <4>1, <4>2, <4>3, <4>4
    <3>3. ASSUME NEW h \in A PROVE h \in Below(rows, in.n, l + 1)
      <4>1. /\ h \in Layers \X (0 .. in.n - 1) /\ h[1] < l
            /\ h[2] \in RowsOf(rows.layers[h[1]])
        BY DEF Below
      <4>2. h[1] < l + 1
        BY <3>1, <4>1
      <4> QED BY <4>1, <4>2 DEF Below
    <3>4. ASSUME NEW h \in B PROVE h \in Below(rows, in.n, l + 1)
      <4>1. h[1] = l /\ h[2] \in R /\ h \in Layers \X (0 .. in.n - 1) /\ l < l + 1
        BY <1>1, <2>1
      <4> QED BY <4>1 DEF Below
    <3> HIDE DEF A, B
    <3> QED BY <3>2, <3>3, <3>4
  <2>7. A \cap B = {}
    <3>1. \A h \in A : h[1] < l /\ h[1] \in Layers
      BY DEF Below
    <3>2. \A h \in B : h[1] = l
      OBVIOUS
    <3>3. ~(l < l)
      BY <1>1
    <3> HIDE DEF A, B
    <3> QED BY <3>1, <3>2, <3>3
  <2>8. Cardinality(A \cup B) = Cardinality(A) + Cardinality(B)
    <3>1. Cardinality(A \cap B) = 0
      BY <2>7, FS_EmptySet
    <3> HIDE DEF A, B, R
    <3>2. Cardinality(A \cup B) = Cardinality(A) + Cardinality(B) - Cardinality(A \cap B)
      BY <2>3, <2>5, FS_Union
    <3> QED BY <2>3, <2>4, <2>5, <3>1, <3>2
  <2> HIDE DEF A, B, R
  <2> QED BY <2>3, <2>4, <2>5, <2>6, <2>8 DEF Count, A, R
<1> QED BY <1>2, <1>3

\* ForwardRowPlan.recompute_tokens counts the rows of all layers.
LEMMA TokensCounted ==
  ASSUME NEW in, in.n \in Nat, NEW rows, RowsOk(rows, in)
  PROVE  /\ RecomputeTokens(rows) = Count(rows, in.n, NumLayers)
         /\ Count(rows, in.n, NumLayers) \in Nat
<1> DEFINE C(l) == Cardinality(RowsOf(rows.layers[l]))
           N == NumLayers
           V == Nat
           Step(f, i) == f + C(i - 1)
           Body(f) == [i \in 0 .. N |-> IF i = 0 THEN 0 ELSE f[i - 1] + Cardinality(RowsOf(rows.layers[i - 1]))]
           F == CHOOSE f : f = Body(f)
           g == [i \in 1 .. N |-> [f \in V |-> Step(f, i)]]
           K(i) == Count(rows, in.n, i)
<1>1. N \in Nat /\ \A i \in 1 .. N : i - 1 \in Layers /\ (i - 1) + 1 = i
  BY LayoutAssumption DEF Layers
<1>2. RecomputeTokens(rows) = F[N]
  BY DEF RecomputeTokens
<1>3. K(0) = 0 /\ \A l \in Layers : K(l) \in Nat /\ C(l) \in Nat /\ K(l + 1) = K(l) + C(l)
  BY CountStep
<1>4. \A i \in 1 .. N : \A f \in V : Step(f, i) \in V
  BY <1>1, <1>3
<1>5. 0 \in V
  OBVIOUS
<1>6. \A f : Body(f) = [i \in 0 .. N |-> IF i = 0 THEN 0 ELSE Step(f[i - 1], i)]
  OBVIOUS
<1>7. ASSUME NEW i \in 1 .. N PROVE K(i) = Step(K(i - 1), i) /\ K(i) \in Nat
  BY <1>1, <1>3
<1> HIDE DEF N, V, Body, F, Step, g, K
<1>8. g \in Steps(N, V) /\ \A f \in V, i \in 1 .. N : g[i][f] = Step(f, i)
  BY <1>4 DEF g, Steps
<1>9. PICK f : Takes(f, N, V, 0, g)
  BY <1>1, <1>5, <1>8, Recursion
<1>10. f = Body(f)
  <2>1. \A i \in 1 .. N : i - 1 \in 0 .. N
    BY <1>1
  <2>2. f \in [0 .. N -> V] /\ f[0] = 0 /\ \A i \in 1 .. N : f[i] = g[i][f[i - 1]]
    BY <1>9 DEF Takes
  <2>3. \A i \in 1 .. N : f[i] = Step(f[i - 1], i)
    BY <1>8, <2>1, <2>2
  <2>4. \A i \in 0 .. N : i # 0 => i \in 1 .. N
    BY <1>1
  <2> QED BY <1>6, <2>2, <2>3, <2>4
<1>11. F = Body(F)
  BY <1>10 DEF F
<1>12. F[0] = 0 /\ \A i \in 1 .. N : F[i] = Step(F[i - 1], i)
  <2>1. 0 \in 0 .. N /\ \A i \in 1 .. N : i \in 0 .. N /\ i # 0
    BY <1>1
  <2> QED BY <1>6, <1>11, <2>1
<1> DEFINE T == {i \in 0 .. N : F[i] = K(i)}
<1>13. 0 \in T
  <2>1. 0 \in 0 .. N
    BY <1>1
  <2> QED BY <1>3, <1>12, <2>1 DEF K
<1>14. ASSUME NEW i \in 0 .. N - 1, i \in T PROVE i + 1 \in T
  <2> DEFINE k == i + 1
  <2>1. k \in 1 .. N /\ k \in 0 .. N /\ k - 1 = i
    BY <1>1
  <2> HIDE DEF k
  <2>2. F[k] = Step(F[i], k) /\ F[i] = K(i) /\ K(k) = Step(K(i), k)
    BY <1>7, <1>12, <1>14, <2>1, Zenon
  <2> QED BY <2>1, <2>2 DEF k
<1>15. N \in T
  <2> HIDE DEF T
  <2>1. \A i \in 0 .. N : i \in T
    BY <1>1, <1>13, <1>14, SetInduction
  <2> QED BY <1>1, <2>1
<1>16. K(N) \in Nat
  <2>1. N \in 1 .. N
    BY LayoutAssumption DEF N
  <2> QED BY <1>7, <2>1
<1> QED BY <1>2, <1>15, <1>16 DEF K, N

-----------------------------------------------------------------------------
(* The forward.                                                             *)

\* What attention read in a layer.
ReadOk(read, rows, l) ==
  \A p \in DOMAIN read :
    /\ read[p].k = Row(IF p \in RowsOf(rows.layers[l]) THEN "model" ELSE "cache", l, p)
    /\ read[p].v = Row(IF p \in RowsOf(rows.layers[l]) THEN "model" ELSE "cache", l, p)

\* Before the first plan.
Unplanned(w, m, s, b, att, rec, at, in) ==
  /\ w = NoPlan /\ m = Prepared(in) /\ rec = <<>> /\ at = "idle"
  /\ \A l \in Layers : att[l] = <<>>

\* From the first plan on: the layers before the session's next one have all their
\* recomputed rows, and are counted; a receipt ends its forward.
Planned(w, m, s, b, att, rec, at, in) ==
  /\ PlanReady(w, in) /\ MemOk(m, w.rows, in)
  /\ s.next \in 0 .. NumLayers
  /\ WrittenBelow(m, w.rows, in, s.next)
  /\ s.rows = Count(w.rows, in.n, s.next)
  /\ \A l \in Layers : att[l] # <<>> => ReadOk(att[l], w.rows, l)
  /\ rec # <<>> =>
       /\ rec = Receipt(w, Count(w.rows, in.n, NumLayers))
       /\ WrittenBelow(m, w.rows, in, NumLayers)
       /\ ~s.failed /\ ~b.failed /\ (b.finished \/ at = "idle")

\* The inductive invariant of the forward.
ForwardInv ==
  /\ active = IF pc = "forward" THEN plan.rows ELSE <<>>
  /\ DOMAIN attended = Layers
  /\ DOMAIN session = {"next", "failed", "finished", "rows"}
  /\ DOMAIN bridge = {"next", "failed", "finished"}
  /\ \/ Unplanned(plan, mem, session, bridge, attended, receipt, pc, input)
     \/ Planned(plan, mem, session, bridge, attended, receipt, pc, input)

\* A layer that is written stays so, and one whose copies are all done is.
LEMMA ApplyKeepsLayer ==
  ASSUME NEW in, NEW w, PlanReady(w, in), NEW done \in SUBSET Copies(w),
         NEW m, MemOk(m, w.rows, in), NEW l \in Layers,
         LayerWritten(m, w.rows, in, l) \/ PrepareLayer(w, l) \subseteq done
  PROVE  LayerWritten(Apply(m, done), w.rows, in, l)
<1>1. DOMAIN m = Tensors
  BY DEF MemOk
<1> SUFFICES ASSUME NEW p \in RowsOf(w.rows.layers[l]), NEW c \in {"k", "v"}
             PROVE  Apply(m, done)[Tensor(l)][SlotOf(in, l, p)][c] = Row("model", l, p)
  BY DEF LayerWritten
<1>2. \/ m[Tensor(l)][SlotOf(in, l, p)][c] = Row("model", l, p)
      \/ PrepareLayer(w, l) \subseteq done
  BY DEF LayerWritten
<1> QED BY <1>1, <1>2, ApplyKeepsRow

\* _prepare_layer makes copies of the plan.
LEMMA PreparedCopies ==
  ASSUME NEW w, NEW l
  PROVE  PrepareLayer(w, l) \in SUBSET Copies(w)
  BY DEF PrepareLayer, SpansForLayer, Copies

\* The plans of a sweep, and the one that recomputes everything, can be written.
LEMMA PlanMade ==
  ASSUME PolicyInv, NEW rows \in RowPlans, CanPlanWrites(input, rows)
  PROVE  PlanReady(PlanSelectiveKvWrites(input, rows), input)
<1> DEFINE w == PlanSelectiveKvWrites(input, rows)
<1>1. PromptOk(input) /\ input \in Inputs /\ SweepOk(sweep, input)
  BY InputsOk DEF PolicyInv
<1>2. input.n \in Nat \ {0} /\ TablesReach(input.tables, input.n) /\ ConfigOk(KvConfig)
  BY <1>1, CoveredTables DEF CanPlanWrites
<1>3. rows.n = input.n /\ \A l \in Layers : CanonicalRanges(input.n, rows.layers[l])
  BY DEF CanPlanWrites, ValidRowPlan
<1>4. CASE rows = FullRecompute(input.n)
  <2> DEFINE all == TokenRange(0, input.n)
  <2>1. all \in RowRanges
    BY <1>2 DEF TokenRange, RowRanges
  <2>2. \A l \in Layers : rows.layers[l] = <<all>>
    BY <1>2, <1>4 DEF FullRecompute, RowPlan
  <2>3. all.start .. all.end - 1 = 0 .. input.n - 1
    BY DEF TokenRange
  <2> HIDE DEF all
  <2>4. <<all>> \in Seq(RowRanges) /\ RowsOf(<<all>>) = 0 .. input.n - 1
    <3>1. <<all>> \in Seq(RowRanges) /\ Len(<<all>>) = 1 /\ <<all>>[1] = all
      BY <2>1
    <3>2. ToSet(<<all>>) = {all}
      BY <3>1 DEF ToSet
    <3>3. RowsOf(<<all>>) = all.start .. all.end - 1
      BY <3>2 DEF RowsOf
    <3> QED BY <2>3, <3>1, <3>3
  <2>5. RowsOk(rows, input)
    BY <1>3, <2>2, <2>4 DEF RowsOk
  <2>6. w.rows = rows
    BY DEF PlanSelectiveKvWrites
  <2>7. PartsOk(w.spans, input, rows)
    BY <1>2, <2>5, PlannedParts
  <2> HIDE DEF w
  <2> QED BY <1>2, <2>5, <2>6, <2>7 DEF PlanReady, w
<1>5. ASSUME NEW i \in DOMAIN sweep, rows = sweep[i].plan PROVE PlanReady(w, input)
  <2> DEFINE x == sweep[i]
             r == x.ratio
  <2>1. x \in Points(input)
    BY <1>1, SeqElements DEF SweepOk
  <2> HIDE DEF x
  <2>2. r \in Accepted(input) /\ x.recompute = Select(input, r).recompute
        /\ x.plan = RowPlan(input.n, x.recompute)
    BY <1>1, <2>1, PointFacts
  <2> HIDE DEF r
  <2>3. r \in Fractions /\ ValidSelection(input, r)
    BY <2>2 DEF Accepted
  <2>4. /\ Selectable(input)
        /\ x.recompute \in Seq(RowRanges) /\ CanonicalRanges(input.n, x.recompute)
        /\ RowsOf(x.recompute) = (0 .. input.n - 1) \ Kept(input, r)
    BY <1>1, <2>2, <2>3, SelectKeeps
  <2>5. /\ RowsOf(input.cached) \subseteq 0 .. input.n - 1
        /\ Kept(input, r) \subseteq RowsOf(input.cached)
    <3>1. RowsOf(input.cached) \subseteq 0 .. input.n - 1 /\ Eligible(input) \subseteq RowsOf(input.cached)
      BY <2>4, EligibleRows
    <3> QED BY <3>1 DEF Kept
  <2>6. \A l \in Layers : rows.layers[l] = x.recompute
    BY <1>5, <2>2 DEF RowPlan, x
  <2>7. RowsOk(rows, input)
    BY <1>3, <2>4, <2>5, <2>6 DEF RowsOk
  <2>8. w.rows = rows
    BY DEF PlanSelectiveKvWrites
  <2>9. PartsOk(w.spans, input, rows)
    BY <1>2, <2>7, PlannedParts
  <2> HIDE DEF w
  <2> QED BY <1>2, <2>7, <2>8, <2>9 DEF PlanReady
<1> QED BY <1>4, <1>5 DEF RowPlans

\* A plan starts from what RowTransfer has loaded.
LEMMA PlanStarts ==
  ASSUME NEW in, NEW w, PlanReady(w, in)
  PROVE  /\ MemOk(Prepared(in), w.rows, in)
         /\ \A m : WrittenBelow(m, w.rows, in, 0)
         /\ Count(w.rows, in.n, 0) = 0
         /\ RecomputeTokens(w.rows) = Count(w.rows, in.n, NumLayers)
         /\ \A l \in Layers : Count(w.rows, in.n, l + 1)
                                = Count(w.rows, in.n, l) + Cardinality(RowsOf(w.rows.layers[l]))
<1>1. in.n \in Nat /\ RowsOk(w.rows, in)
  BY DEF PlanReady
<1>2. DOMAIN Prepared(in) = Tensors
  BY DEF Prepared, Tensors
<1>3. \A l \in Layers : ~(l < 0)
  BY LayoutAssumption DEF Layers
<1> QED BY <1>1, <1>2, <1>3, CountStep, TokensCounted DEF MemOk, WrittenBelow

\* SelectiveForwardBridge.run binds a plan.
LEMMA StartForwardKeeps ==
  ASSUME ForwardInv, PolicyInv, NEW rows \in RowPlans, StartForward(rows)
  PROVE  ForwardInv'
<1> DEFINE w == PlanSelectiveKvWrites(input, rows)
<1>1. /\ plan' = w /\ active' = rows /\ pc' = "forward" /\ mem' = Prepared(input)
      /\ session' = NewSession /\ bridge' = NewBridge
      /\ attended' = [l \in Layers |-> <<>>] /\ receipt' = <<>> /\ input' = input
      /\ CanPlanWrites(input, rows)
  BY DEF StartForward, policyVars
<1>2. w.rows = rows
  BY DEF PlanSelectiveKvWrites
<1>3. PlanReady(w, input)
  BY <1>1, PlanMade
<1> HIDE DEF w
<1>4. /\ MemOk(Prepared(input), w.rows, input) /\ \A m : WrittenBelow(m, w.rows, input, 0)
      /\ Count(w.rows, input.n, 0) = 0
  BY <1>3, PlanStarts
<1>5. /\ DOMAIN session' = {"next", "failed", "finished", "rows"} /\ session'.next = 0 /\ session'.rows = 0
      /\ DOMAIN bridge' = {"next", "failed", "finished"}
  BY <1>1 DEF NewSession, NewBridge
<1>6. DOMAIN attended' = Layers /\ \A l \in Layers : attended'[l] = <<>>
  BY <1>1
<1>7. 0 \in 0 .. NumLayers
  BY LayoutAssumption
<1>8. Planned(plan', mem', session', bridge', attended', receipt', pc', input')
  BY <1>1, <1>3, <1>4, <1>5, <1>6, <1>7 DEF Planned
<1> QED BY <1>1, <1>2, <1>5, <1>6, <1>8 DEF ForwardInv

\* GptOssSelectiveKvUpdater.update writes all layers, or breaks off.
LEMMA UpdateAllKeeps ==
  ASSUME ForwardInv, PolicyInv, NEW rows \in RowPlans, UpdateAll(rows)
  PROVE  ForwardInv'
<1> DEFINE w == PlanSelectiveKvWrites(input, rows)
           copies == UNION {PrepareLayer(w, l) : l \in Layers}
<1>1. /\ plan' = w /\ pc # "forward" /\ pc' = "idle" /\ session' = NewSession /\ bridge' = NewBridge
      /\ attended' = [l \in Layers |-> <<>>] /\ input' = input /\ active' = active
      /\ CanPlanWrites(input, rows)
  BY DEF UpdateAll, policyVars
<1> DEFINE planned == UNION {PrepareLayer(plan', l) : l \in Layers}
<1>a. planned = copies
  BY <1>1
<1>b. \E done \in Broken(planned) \cup {{}} :
        /\ mem' = Apply(Prepared(input), done)
        /\ receipt' \in {<<>>, Receipt(plan', RecomputeTokens(rows))}
        /\ receipt' # <<>> => done = planned
  BY Zenon DEF UpdateAll
<1> HIDE DEF planned, copies, w
<1>2. PICK done \in Broken(copies) \cup {{}} :
        /\ mem' = Apply(Prepared(input), done)
        /\ receipt' \in {<<>>, Receipt(w, RecomputeTokens(rows))}
        /\ receipt' # <<>> => done = copies
  BY <1>1, <1>a, <1>b
<1> USE DEF copies, w
<1>3. w.rows = rows
  BY DEF PlanSelectiveKvWrites
<1>4. PlanReady(w, input)
  BY <1>1, PlanMade
<1> HIDE DEF w
<1>5. /\ MemOk(Prepared(input), w.rows, input) /\ \A m : WrittenBelow(m, w.rows, input, 0)
      /\ Count(w.rows, input.n, 0) = 0
      /\ RecomputeTokens(w.rows) = Count(w.rows, input.n, NumLayers)
  BY <1>4, PlanStarts
<1>6. copies \in SUBSET Copies(w) /\ \A l \in Layers : PrepareLayer(w, l) \subseteq copies
  BY PreparedCopies
<1> HIDE DEF copies
<1>7. done \in SUBSET Copies(w)
  BY <1>6 DEF Broken
<1>8. MemOk(mem', w.rows, input)
  BY <1>2, <1>4, <1>5, <1>7, ApplyKeepsMemory
<1>9. ASSUME receipt' # <<>> PROVE WrittenBelow(mem', w.rows, input, NumLayers)
  <2>1. \A l \in Layers : PrepareLayer(w, l) \subseteq done
    BY <1>2, <1>6, <1>9
  <2>2. \A l \in Layers : LayerWritten(Apply(Prepared(input), done), w.rows, input, l)
    BY <1>4, <1>5, <1>7, <2>1, ApplyKeepsLayer
  <2> QED BY <1>2, <2>2 DEF WrittenBelow
<1>10. /\ DOMAIN session' = {"next", "failed", "finished", "rows"} /\ session'.next = 0 /\ session'.rows = 0
       /\ DOMAIN bridge' = {"next", "failed", "finished"} /\ ~session'.failed /\ ~bridge'.failed
  BY <1>1 DEF NewSession, NewBridge
<1>11. DOMAIN attended' = Layers /\ \A l \in Layers : attended'[l] = <<>>
  BY <1>1
<1>12. 0 \in 0 .. NumLayers
  BY LayoutAssumption
<1>13. receipt' # <<>> => receipt' = Receipt(w, Count(w.rows, input.n, NumLayers))
  BY <1>2, <1>3, <1>5
<1>14. Planned(plan', mem', session', bridge', attended', receipt', pc', input')
  BY <1>1, <1>4, <1>5, <1>8, <1>9, <1>10, <1>11, <1>12, <1>13 DEF Planned
<1>15. active' = <<>>
  BY <1>1 DEF ForwardInv
<1> QED BY <1>1, <1>10, <1>11, <1>14, <1>15 DEF ForwardInv

\* While a forward runs with a bridge that is alive there is a plan, and no receipt.
LEMMA Running ==
  ASSUME ForwardInv, pc # "idle", Live(bridge)
  PROVE  /\ Planned(plan, mem, session, bridge, attended, receipt, pc, input)
         /\ receipt = <<>>
<1>1. Planned(plan, mem, session, bridge, attended, receipt, pc, input)
  BY DEF ForwardInv, Unplanned
<1> QED BY <1>1 DEF Planned, Live

\* A bridge may fail at any time.
LEMMA RefuseLayerKeeps ==
  ASSUME ForwardInv, RefuseLayer
  PROVE  ForwardInv'
<1>1. /\ pc = "forward" /\ Live(bridge) /\ bridge' = [bridge EXCEPT !.failed = TRUE]
      /\ UNCHANGED <<pc, input, plan, active, mem, session, attended, receipt>>
  BY DEF RefuseLayer, policyVars
<1>2. Planned(plan, mem, session, bridge, attended, receipt, pc, input) /\ receipt = <<>>
  BY <1>1, Running
<1>3. Planned(plan, mem, session, bridge', attended, receipt, pc, input)
  BY <1>2 DEF Planned
<1>4. DOMAIN bridge' = DOMAIN bridge
  BY <1>1
<1> QED BY <1>1, <1>3, <1>4 DEF ForwardInv

\* update_layer leaves whatever was copied.
LEMMA UpdateFailsKeeps ==
  ASSUME ForwardInv, NEW l \in Layers, UpdateFails(l)
  PROVE  ForwardInv'
<1>1. /\ pc = "forward" /\ Live(bridge)
      /\ session' = [session EXCEPT !.failed = session.failed \/ Live(session)]
      /\ bridge' = [bridge EXCEPT !.failed = TRUE]
      /\ UNCHANGED <<pc, input, plan, active, attended, receipt>>
  BY DEF UpdateFails, policyVars
<1>2. PICK done \in Broken(PrepareLayer(plan, l)) \cup {{}} : mem' = Apply(mem, done)
  BY DEF UpdateFails
<1>3. Planned(plan, mem, session, bridge, attended, receipt, pc, input) /\ receipt = <<>>
  BY <1>1, Running
<1>4. PlanReady(plan, input) /\ MemOk(mem, plan.rows, input)
  BY <1>3 DEF Planned
<1>5. done \in SUBSET Copies(plan)
  BY PreparedCopies DEF Broken
<1>6. MemOk(mem', plan.rows, input)
  BY <1>2, <1>4, <1>5, ApplyKeepsMemory
<1>7. WrittenBelow(mem', plan.rows, input, session.next)
  <2>1. \A h \in Layers : h < session.next => LayerWritten(mem, plan.rows, input, h)
    BY <1>3 DEF Planned, WrittenBelow
  <2>2. \A h \in Layers : h < session.next => LayerWritten(mem', plan.rows, input, h)
    BY <1>2, <1>4, <1>5, <2>1, ApplyKeepsLayer
  <2> QED BY <2>2 DEF WrittenBelow
<1>8. /\ DOMAIN session' = DOMAIN session /\ session'.next = session.next /\ session'.rows = session.rows
      /\ DOMAIN bridge' = DOMAIN bridge
  BY <1>1 DEF ForwardInv
<1>9. Planned(plan', mem', session', bridge', attended', receipt', pc', input')
  BY <1>1, <1>3, <1>6, <1>7, <1>8 DEF Planned
<1> QED BY <1>1, <1>8, <1>9 DEF ForwardInv

\* run_layer writes a layer, and its attention reads it.
LEMMA RunLayerKeeps ==
  ASSUME ForwardInv, NEW l \in Layers, NEW slots, NEW ok \in BOOLEAN, RunLayer(l, slots, ok)
  PROVE  ForwardInv'
<1> DEFINE done == PrepareLayer(plan, l)
           read == ReadBy(mem', l)
<1>1. /\ pc = "forward" /\ Live(bridge) /\ l = session.next
      /\ mem' = Apply(mem, done)
      /\ session' = [session EXCEPT !.next = session.next + 1,
                       !.rows = session.rows + Cardinality(RowsOf(plan.rows.layers[l]))]
      /\ attended' = [attended EXCEPT ![l] = read]
      /\ UNCHANGED <<pc, input, plan, active, receipt>>
  BY DEF RunLayer, policyVars
<1>2. DOMAIN bridge' = DOMAIN bridge
  BY DEF RunLayer
<1>3. Planned(plan, mem, session, bridge, attended, receipt, pc, input) /\ receipt = <<>>
  BY <1>1, Running
<1>4. PlanReady(plan, input) /\ MemOk(mem, plan.rows, input)
  BY <1>3 DEF Planned
<1>5. done \in SUBSET Copies(plan)
  BY PreparedCopies
<1> HIDE DEF done
<1>6. MemOk(mem', plan.rows, input)
  BY <1>1, <1>4, <1>5, ApplyKeepsMemory
<1>7. LayerWritten(mem', plan.rows, input, l)
  BY <1>1, <1>4, <1>5, ApplyKeepsLayer DEF done
<1>8. l \in Nat /\ l < NumLayers /\ l + 1 \in 0 .. NumLayers /\ \A h \in Layers : h < l + 1 => h < l \/ h = l
  BY LayoutAssumption DEF Layers
<1>9. WrittenBelow(mem', plan.rows, input, l + 1)
  <2>1. \A h \in Layers : h < l => LayerWritten(mem, plan.rows, input, h)
    BY <1>1, <1>3 DEF Planned, WrittenBelow
  <2>2. \A h \in Layers : h < l => LayerWritten(mem', plan.rows, input, h)
    BY <1>1, <1>4, <1>5, <2>1, ApplyKeepsLayer
  <2> QED BY <1>7, <1>8, <2>2 DEF WrittenBelow
<1>10. ReadOk(read, plan.rows, l)
  <2>1. DOMAIN read = 0 .. input.n - 1
        /\ \A p \in 0 .. input.n - 1 : read[p] = mem'[Tensor(l)][SlotOf(input, l, p)]
    BY DEF ReadBy
  <2> HIDE DEF read
  <2>2. \A p \in 0 .. input.n - 1 : \A c \in {"k", "v"} :
          mem'[Tensor(l)][SlotOf(input, l, p)][c]
            = Row(IF p \in RowsOf(plan.rows.layers[l]) THEN "model" ELSE "cache", l, p)
    BY <1>4, <1>6, <1>7, BlendedLayer
  <2> QED BY <2>1, <2>2 DEF ReadOk
<1>11. /\ DOMAIN session' = {"next", "failed", "finished", "rows"} /\ session'.next = l + 1
       /\ session'.rows = session.rows + Cardinality(RowsOf(plan.rows.layers[l]))
  BY <1>1 DEF ForwardInv
<1>12. session'.rows = Count(plan.rows, input.n, l + 1)
  <2>1. session.rows = Count(plan.rows, input.n, l)
    BY <1>1, <1>3 DEF Planned
  <2> QED BY <1>4, <1>11, <2>1, PlanStarts
<1> HIDE DEF read
<1>13. DOMAIN attended' = Layers /\ \A h \in Layers : attended'[h] # <<>> => ReadOk(attended'[h], plan.rows, h)
  <2>1. DOMAIN attended = Layers /\ \A h \in Layers : attended[h] # <<>> => ReadOk(attended[h], plan.rows, h)
    BY <1>3 DEF ForwardInv, Planned
  <2> QED BY <1>1, <1>10, <2>1
<1>14. Planned(plan', mem', session', bridge', attended', receipt', pc', input')
  BY <1>1, <1>3, <1>4, <1>6, <1>8, <1>9, <1>11, <1>12, <1>13 DEF Planned
<1> QED BY <1>1, <1>2, <1>11, <1>13, <1>14 DEF ForwardInv

\* A session that is asked at the end of all layers gives a receipt, or none.
LEMMA FinishKeeps ==
  ASSUME ForwardInv, Finish
  PROVE  ForwardInv'
<1>1. /\ pc # "idle" /\ Live(bridge)
      /\ UNCHANGED <<pc, input, plan, active, mem, attended>>
  BY DEF Finish, policyVars
<1>2. Planned(plan, mem, session, bridge, attended, receipt, pc, input) /\ receipt = <<>>
  BY <1>1, Running
<1>3. CASE bridge.next # NumLayers
  <2>1. bridge' = [bridge EXCEPT !.failed = TRUE] /\ session' = session /\ receipt' = receipt
    BY <1>3 DEF Finish
  <2>2. DOMAIN bridge' = DOMAIN bridge
    BY <2>1
  <2>3. Planned(plan', mem', session', bridge', attended', receipt', pc', input')
    BY <1>1, <1>2, <2>1 DEF Planned
  <2> QED BY <1>1, <2>1, <2>2, <2>3 DEF ForwardInv
<1>4. CASE bridge.next = NumLayers /\ Live(session) /\ session.next = NumLayers
  <2>1. /\ session' = [session EXCEPT !.finished = TRUE] /\ bridge' = [bridge EXCEPT !.finished = TRUE]
        /\ receipt' = Receipt(plan, session.rows)
    BY <1>4 DEF Finish
  <2>2. /\ DOMAIN bridge' = DOMAIN bridge /\ DOMAIN session' = DOMAIN session
        /\ session'.next = session.next /\ session'.rows = session.rows
        /\ ~session'.failed /\ ~bridge'.failed /\ bridge'.finished
    BY <1>1, <1>4, <2>1 DEF ForwardInv, Live
  <2>3. /\ receipt' = Receipt(plan, Count(plan.rows, input.n, NumLayers))
        /\ WrittenBelow(mem, plan.rows, input, NumLayers)
    BY <1>2, <1>4, <2>1 DEF Planned
  <2>4. Planned(plan', mem', session', bridge', attended', receipt', pc', input')
    BY <1>1, <1>2, <2>2, <2>3 DEF Planned
  <2> QED BY <1>1, <2>2, <2>4 DEF ForwardInv
<1>5. CASE bridge.next = NumLayers /\ ~(Live(session) /\ session.next = NumLayers)
  <2>1. /\ session' = [session EXCEPT !.failed = session.failed \/ Live(session)]
        /\ bridge' = [bridge EXCEPT !.failed = TRUE] /\ receipt' = receipt
    BY <1>5 DEF Finish
  <2>2. /\ DOMAIN bridge' = DOMAIN bridge /\ DOMAIN session' = DOMAIN session
        /\ session'.next = session.next /\ session'.rows = session.rows
    BY <2>1 DEF ForwardInv
  <2>3. Planned(plan', mem', session', bridge', attended', receipt', pc', input')
    BY <1>1, <1>2, <2>1, <2>2 DEF Planned
  <2> QED BY <1>1, <2>2, <2>3 DEF ForwardInv
<1> QED BY <1>3, <1>4, <1>5

\* The context is left in every case.
LEMMA EndForwardKeeps ==
  ASSUME ForwardInv, NEW raises, NEW rows, NEW logits, EndForward(raises, rows, logits)
  PROVE  ForwardInv'
<1>1. /\ pc = "forward" /\ pc' = "returned" /\ active' = <<>>
      /\ UNCHANGED <<input, plan, mem, session, bridge, attended, receipt>>
  BY DEF EndForward, policyVars
<1>2. Planned(plan, mem, session, bridge, attended, receipt, pc, input)
  BY <1>1 DEF ForwardInv, Unplanned
<1>3. Planned(plan', mem', session', bridge', attended', receipt', pc', input')
  BY <1>1, <1>2 DEF Planned
<1> QED BY <1>1, <1>3 DEF ForwardInv

\* No step of the whole breaks the invariant of the forward.
LEMMA ForwardSteps ==
  ASSUME ForwardInv, PolicyInv, [Next]_vars
  PROVE  ForwardInv'
<1>1. CASE UNCHANGED <<pc, input, plan, active, mem, session, bridge, attended, receipt>>
  BY <1>1 DEF ForwardInv
<1>2. CASE UNCHANGED vars
  BY <1>1, <1>2 DEF vars, forwardVars
<1>3. CASE part = "registry" /\ RegistryNext /\ UNCHANGED <<forwardVars, part>>
  BY <1>1, <1>3 DEF forwardVars
<1>4. ASSUME NEW ratios \in Ratios, MakeSweep(ratios) PROVE ForwardInv'
  BY <1>1, <1>4 DEF MakeSweep
<1>5. CASE Measure \/ WriteSweep
  BY <1>1, <1>5 DEF Measure, WriteSweep
<1>6. CASE ForwardNext
  <2>1. CASE RefuseInputs
    BY <1>1, <2>1 DEF RefuseInputs, policyVars
  <2>2. CASE RefuseLayer
    BY <2>2, RefuseLayerKeeps
  <2>3. CASE Finish
    BY <2>3, FinishKeeps
  <2>4. ASSUME NEW rows \in RowPlans, StartForward(rows) PROVE ForwardInv'
    BY <2>4, StartForwardKeeps
  <2>5. ASSUME NEW rows \in RowPlans, UpdateAll(rows) PROVE ForwardInv'
    BY <2>5, UpdateAllKeeps
  <2>6. ASSUME NEW l \in Layers, UpdateFails(l) PROVE ForwardInv'
    BY <2>6, UpdateFailsKeeps
  <2>7. ASSUME NEW l \in Layers, NEW slots \in SlotMappings(l), NEW ok \in BOOLEAN, RunLayer(l, slots, ok)
        PROVE  ForwardInv'
    BY <2>7, RunLayerKeeps
  <2>8. ASSUME NEW raises \in BOOLEAN, NEW rows \in {input.n, input.n - 1},
               NEW logits \in {<<>>, <<0, 1>>, <<input.n>>, <<0, 0>>}, EndForward(raises, rows, logits)
        PROVE  ForwardInv'
    BY <2>8, EndForwardKeeps
  <2> QED BY <1>6, <2>1, <2>2, <2>3, <2>4, <2>5, <2>6, <2>7, <2>8 DEF ForwardNext
<1> QED BY <1>2, <1>3, <1>4, <1>5, <1>6 DEF Next

\* The forward keeps to this.
THEOREM ForwardInvariant == Spec => [](PolicyInv /\ ForwardInv)
<1>1. Init => PolicyInv /\ ForwardInv
  <2> SUFFICES ASSUME Init PROVE PolicyInv /\ ForwardInv
    OBVIOUS
  <2>1. PolicyInv
    <3>1. input \in Inputs /\ sweep = <<>> /\ written = <<>>
      BY DEF Init, ForwardInit
    <3>2. SweepOk(<<>>, input)
      BY DEF SweepOk
    <3> QED BY <3>1, <3>2 DEF PolicyInv
  <2>2. ForwardInv
    <3>1. /\ pc = "idle" /\ plan = NoPlan /\ active = <<>> /\ mem = Prepared(input)
          /\ session = NewSession /\ bridge = NewBridge
          /\ attended = [l \in Layers |-> <<>>] /\ receipt = <<>>
      BY DEF Init, ForwardInit
    <3>2. /\ DOMAIN session = {"next", "failed", "finished", "rows"}
          /\ DOMAIN bridge = {"next", "failed", "finished"}
      BY <3>1 DEF NewSession, NewBridge
    <3>3. DOMAIN attended = Layers /\ \A l \in Layers : attended[l] = <<>>
      BY <3>1
    <3>4. Unplanned(plan, mem, session, bridge, attended, receipt, pc, input)
      BY <3>1, <3>3 DEF Unplanned
    <3> QED BY <3>1, <3>2, <3>3, <3>4 DEF ForwardInv
  <2> QED BY <2>1, <2>2
<1>2. (PolicyInv /\ ForwardInv) /\ [Next]_vars => (PolicyInv /\ ForwardInv)'
  BY PolicySteps, ForwardSteps
<1> QED BY <1>1, <1>2, PTL DEF Spec

\* ONLY PLANNED ROWS ARE WRITTEN: in the middle of a layer whose copies broke off and
\* after it, what differs from the cache the runner prepared is the model's row of a
\* position that the plan of GptOssSelectiveKvUpdater recomputes, in its own slot.
THEOREM OnlyPlannedRowsAreWritten == Spec => []OnlyPlannedRowsWritten
<1>1. ForwardInv => OnlyPlannedRowsWritten
  <2> SUFFICES ASSUME ForwardInv, mem # Prepared(input),
                      NEW t \in DOMAIN mem, NEW s \in Slots, NEW c \in {"k", "v"},
                      mem[t][s][c] # Prepared(input)[t][s][c]
               PROVE  \E l \in Layers : \E p \in Recomputed(l) :
                        Tensor(l) = t /\ SlotOf(input, l, p) = s /\ mem[t][s][c] = Row("model", l, p)
    BY DEF OnlyPlannedRowsWritten
  <2>1. MemOk(mem, plan.rows, input)
    BY DEF ForwardInv, Unplanned, Planned
  <2> QED BY <2>1 DEF MemOk, Recomputed
<1> QED BY <1>1, ForwardInvariant, PTL

\* RECEIPTS ARE TRUE: once finish or update has issued a SelectiveUpdateReceipt,
\* every row of every layer is the blend the plan asks for, and the receipt counts
\* the rows recomputed and those kept.
THEOREM ReceiptIsAlwaysTrue == Spec => []ReceiptIsTrue
<1>1. ForwardInv => ReceiptIsTrue
  <2> SUFFICES ASSUME ForwardInv, receipt # <<>> PROVE ReceiptIsTrue
    BY DEF ReceiptIsTrue
  <2> DEFINE total == Count(plan.rows, input.n, NumLayers)
  <2>1. Planned(plan, mem, session, bridge, attended, receipt, pc, input)
    BY DEF ForwardInv, Unplanned
  <2>2. /\ PlanReady(plan, input) /\ MemOk(mem, plan.rows, input)
        /\ receipt = Receipt(plan, total)
        /\ WrittenBelow(mem, plan.rows, input, NumLayers)
        /\ ~session.failed /\ ~bridge.failed
    BY <2>1 DEF Planned
  <2>3. \A l \in Layers : LayerWritten(mem, plan.rows, input, l)
    BY <2>2, LayoutAssumption DEF WrittenBelow, Layers
  <2>4. \A l \in Layers, p \in 0 .. input.n - 1 : \A c \in {"k", "v"} :
          mem[Tensor(l)][SlotOf(input, l, p)][c] = RowWanted(l, p)
    BY <2>2, <2>3, BlendedLayer DEF RowWanted, Recomputed
  <2>5. input.n \in Nat /\ plan.rows.n = input.n /\ RowsOk(plan.rows, input)
    BY <2>2 DEF PlanReady, RowsOk
  <2>6. RecomputeTokens(plan.rows) = total /\ total \in Nat
    BY <2>5, TokensCounted
  <2>7. total = Cardinality({h \in Layers \X (0 .. input.n - 1) : h[2] \in Recomputed(h[1])})
    <3>1. \A h \in Layers \X (0 .. input.n - 1) : h[1] < NumLayers
      BY LayoutAssumption DEF Layers
    <3>2. Below(plan.rows, input.n, NumLayers)
            = {h \in Layers \X (0 .. input.n - 1) : h[2] \in Recomputed(h[1])}
      BY <3>1 DEF Below, Recomputed
    <3> QED BY <3>2 DEF Count
  <2> HIDE DEF total
  <2>8. receipt.recomputed = total /\ receipt.cached = (input.n * NumLayers) - total
    BY <2>2, <2>5, <2>6 DEF Receipt
  <2>9. receipt.recomputed + receipt.cached = NumLayers * input.n
    <3>1. input.n * NumLayers \in Nat /\ input.n * NumLayers = NumLayers * input.n
      BY <2>5, LayoutAssumption, Z3
    <3> DEFINE x == input.n * NumLayers
    <3> HIDE DEF x
    <3>2. x \in Nat /\ receipt.cached = x - total
      BY <2>8, <3>1 DEF x
    <3>3. receipt.recomputed + receipt.cached = x
      BY <2>6, <2>8, <3>2
    <3> QED BY <3>1, <3>3 DEF x
  <2> QED BY <2>2, <2>4, <2>7, <2>8, <2>9 DEF ReceiptIsTrue
<1> QED BY <1>1, ForwardInvariant, PTL

\* ATTENTION READS BLENDED ROWS: a layer of the forward that attends has updated its
\* own rows first, and no later layer or broken-off copy changes what it read.
THEOREM AttentionAlwaysReadsBlendedRows == Spec => []AttentionReadsBlendedRows
<1>1. ForwardInv => AttentionReadsBlendedRows
  <2> SUFFICES ASSUME ForwardInv PROVE AttentionReadsBlendedRows
    OBVIOUS
  <2>1. \A l \in Layers : attended[l] # <<>> => ReadOk(attended[l], plan.rows, l)
    BY DEF ForwardInv, Unplanned, Planned
  <2>2. \A l \in Layers : attended[l] # <<>> =>
          \A p \in DOMAIN attended[l] :
            attended[l][p].k = RowWanted(l, p) /\ attended[l][p].v = RowWanted(l, p)
    BY <2>1 DEF ReadOk, RowWanted, Recomputed
  <2>3. active = IF pc = "forward" THEN plan.rows ELSE <<>>
    BY DEF ForwardInv
  <2> QED BY <2>2, <2>3 DEF AttentionReadsBlendedRows
<1> QED BY <1>1, ForwardInvariant, PTL
=============================================================================
