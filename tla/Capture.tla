------------------------------ MODULE Capture ------------------------------
(***************************************************************************)
(* The scripts that turn /metrics into evidence about single requests:     *)
(* capture_moved_document.py in its modes (cacheblend, full prefill, full  *)
(* prefill after a warm-up) and check_responses_contract.py.  A script     *)
(* scrapes, posts its requests one after the other, polls until the        *)
(* counters show them or a deadline passes, and then accepts the           *)
(* difference of two scrapes as evidence or refuses it.  The counters lag  *)
(* behind the answers, other clients may use the server, and the server    *)
(* may restart.                                                            *)
(***************************************************************************)
EXTENDS Telemetry

CONSTANTS
    Scripts,    \* mode -> the requests its script posts, in order
    ReusableTokens, \* PromptCaseIdentity.reusable_tokens of the cacheblend target
    Others,     \* requests of other clients
    MaxOthers   \* bound: how many of them are sent

Modes == {"cacheblend", "full", "warm", "responses"}

ASSUME CaptureAssumption ==
    /\ Scripts \in [Modes -> Seq(Requests)]
    /\ Others \subseteq Requests
    /\ MaxOthers \in Nat /\ ReusableTokens \in Nat
    \* Another client's prompt has a length of its own: the scripts tell
    \* requests apart by their tokens only.
    /\ \A o \in Others, m \in Modes : \A i \in DOMAIN Scripts[m] :
          PromptTokens[o] # PromptTokens[Scripts[m][i]]

VARIABLES
    mode,       \* which script runs
    pc,         \* where it is
    posted,     \* requests posted so far
    scrapes,    \* the scrapes it keeps
    evidence    \* the connector counters it accepted

captureVars == <<mode, pc, posted, scrapes, evidence>>
vars == <<connectorOn, phase, stats, outbox, answering, counters, native,
          answered, truth, served, restarts, mode, pc, posted, scrapes, evidence>>

ConnectorKeys == {"requests", "tokens_requested", "found", "loaded",
                  "rejected", "recomputed", "avoided"}
StoreKeys == {"store_eligible", "store_completed", "store_fallbacks"}

Script == Scripts[mode]
NeedsConnector == mode \in {"cacheblend", "responses"}
Tokens(i) == PromptTokens[Script[i]]
TokensUpTo(n) ==
    FoldFunctionOnSet(+, 0, [i \in DOMAIN Script |-> Tokens(i)], 1 .. n)
StoresUpTo(n) ==
    FoldFunctionOnSet(+, 0, [i \in DOMAIN Script |-> Aligned(Tokens(i))], 1 .. n)

\* What the parsers read from one scrape, a family each.
ConnectorSnapshot == [k \in ConnectorKeys |-> counters[k]]
StoreSnapshot == [k \in StoreKeys |-> counters[k]]
PromptSnapshot == [tokens |-> native.prompt]
SourceSnapshot == [local |-> native.local]
PrefillSnapshot == [observations |-> native.finished, tokens |-> native.prefilled]
TimingSnapshot == [ttft |-> native.first, others |-> native.finished]

Scrape == [conn |-> ConnectorSnapshot, store |-> StoreSnapshot,
           prompt |-> PromptSnapshot, source |-> SourceSnapshot,
           prefill |-> PrefillSnapshot, timing |-> TimingSnapshot]

First == scrapes[1]
Latest == scrapes[Len(scrapes)]

CaptureInit ==
    /\ mode \in Modes
    /\ pc = "start"
    /\ posted = 0
    /\ scrapes = <<>>
    /\ evidence = Zero

\* The prompt-source family is absent until the first request was counted;
\* only the first scrape may lack it.
HasSources(allowMissing) == native.sources \/ allowMissing

\* The first scrape, of a server that must or must not have the connector.
Begin ==
    /\ pc = "start"
    /\ scrapes' = <<Scrape>>
    /\ pc' = IF connectorOn = NeedsConnector /\ HasSources(TRUE)
             THEN "ready" ELSE "refused"
    /\ UNCHANGED <<mode, posted, evidence>>
    /\ UNCHANGED engineVars

Post ==
    /\ pc = "ready"
    /\ Send(Script[posted + 1])
    /\ posted' = posted + 1
    /\ pc' = "posted"
    /\ UNCHANGED <<connectorOn, stats, outbox, answering, counters, native,
                   answered, truth, served, restarts, mode, scrapes, evidence>>

\* The answer arrives; the Responses script posts all its turns before it polls.
Answered ==
    /\ pc = "posted"
    /\ Script[posted] \in answered
    /\ pc' = IF mode = "responses" /\ posted < Len(Script) THEN "ready"
                                                          ELSE "polling"
    /\ UNCHANGED <<mode, posted, scrapes, evidence>>
    /\ UNCHANGED engineVars

PostFails ==
    /\ pc = "posted"
    /\ phase[Script[posted]] = "aborted"
    /\ pc' = "failed"
    /\ UNCHANGED <<mode, posted, scrapes, evidence>>
    /\ UNCHANGED engineVars

\* Every timing family is held against the earlier count of first tokens.
TimingReached(n) ==
    /\ \A f \in {"ttft", "others"} : TimingSnapshot[f] >= Latest.timing.ttft + n
    /\ PrefillSnapshot.observations >= Latest.prefill.observations + n

SourcesReached(local) == HasSources(FALSE) /\ SourceSnapshot.local >= local

RequestCounterReached ==
    /\ ConnectorSnapshot["requests"] >= Latest.conn["requests"] + 1
    /\ StoreSnapshot["store_completed"] >=
          First.store["store_completed"] + StoresUpTo(posted)
    /\ PromptSnapshot.tokens >= First.prompt.tokens + TokensUpTo(posted)
    /\ SourcesReached(First.source.local + TokensUpTo(posted))
    /\ TimingReached(1)

PromptCounterReached ==
    /\ PromptSnapshot.tokens >= Latest.prompt.tokens + Tokens(posted)
    /\ SourcesReached(Latest.source.local + Tokens(posted))
    /\ TimingReached(1)

\* Mutant: the Responses script goes on as soon as the requests are counted.
ThreeRequestsReachedEarly ==
    ConnectorSnapshot["requests"] >= First.conn["requests"] + Len(Script)

ThreeRequestsReached ==
    /\ ConnectorSnapshot["requests"] >= First.conn["requests"] + Len(Script)
    /\ PromptSnapshot.tokens >= First.prompt.tokens + 1
    /\ SourcesReached(First.source.local + 1)
    /\ TimingReached(Len(Script))

Reached ==
    CASE mode = "cacheblend" -> RequestCounterReached
      [] mode = "responses" -> ThreeRequestsReached
      [] OTHER -> PromptCounterReached

\* The difference of two snapshots of a family; one that moved backwards is
\* refused.
Delta(a, b) == [k \in DOMAIN a |-> b[k] - a[k]]
Forward(d) == \A k \in DOMAIN d : d[k] >= 0

PromptReconciles(a, b, tokens) == Delta(a.prompt, b.prompt).tokens = tokens

\* All the prompt was computed locally: no cache hit, no external transfer.
SourceReconciles(a, b, tokens) ==
    /\ tokens > 0
    /\ Delta(a.source, b.source).local = tokens

PrefillReconciles(a, b, n, tokens) ==
    LET d == Delta(a.prefill, b.prefill)
    IN  Forward(d) /\ d.observations = n /\ d.tokens = tokens

TimingReconciles(a, b, n) ==
    LET d == Delta(a.timing, b.timing)
    IN  Forward(d) /\ \A f \in DOMAIN d : d[f] = n

NativeReconciles(a, b, n, tokens) ==
    /\ PromptReconciles(a, b, tokens)
    /\ SourceReconciles(a, b, tokens)
    /\ PrefillReconciles(a, b, n, tokens)
    /\ TimingReconciles(a, b, n)

StoresReconcile(a, b, r) ==
    LET d == Delta(a.store, b.store)
    IN  /\ Forward(d)
        /\ d["store_eligible"] = Aligned(PromptTokens[r])
        /\ d["store_completed"] = Aligned(PromptTokens[r])
        /\ d["store_fallbacks"] = 0

ConnectorEvidence(d) ==
    /\ d["found"] = d["loaded"] + d["rejected"]
    /\ d["loaded"] <= d["tokens_requested"]

EvidenceFromSnapshots(a, b) ==
    LET d == Delta(a.conn, b.conn)
    IN  Forward(d) /\ d["requests"] = 1 /\ ConnectorEvidence(d)

\* CorrectnessArtifact: the target loaded just what its case says is reusable,
\* which a load that fell back did not, and recomputed its whole prompt.
ArtifactAccepts(d) ==
    /\ d["loaded"] = ReusableTokens
    /\ d["tokens_requested"] = Tokens(Len(Script))
    /\ d["recomputed"] = Tokens(Len(Script))
    /\ d["avoided"] = 0

\* Both intervals of the cacheblend script are judged at its end; only the
\* target's must hold exactly one request of the connector.
CacheblendReconciles(all) ==
    /\ \A i \in DOMAIN Script :
          /\ NativeReconciles(all[i], all[i + 1], 1, Tokens(i))
          /\ StoresReconcile(all[i], all[i + 1], Script[i])
    /\ EvidenceFromSnapshots(all[2], all[3])
    /\ ArtifactAccepts(Delta(all[2].conn, all[3].conn))

\* Mutant: any number of requests in the interval.
MetricDeltaReconcilesOfAny(d) ==
    /\ d["recomputed"] > 0
    /\ d["avoided"] = 0
    /\ d["found"] = d["loaded"] + d["rejected"]

MetricDeltaReconciles(d) ==
    /\ d["requests"] = Len(Script)
    /\ d["recomputed"] > 0
    /\ d["avoided"] = 0
    /\ d["found"] = d["loaded"] + d["rejected"]

\* The usage of the turns has to add up to vLLM's own count.
ResponsesReconcile(all) ==
    LET d == Delta(all[1].conn, all[2].conn)
    IN  /\ Forward(d)
        /\ MetricDeltaReconciles(d)
        /\ NativeReconciles(all[1], all[2], Len(Script), TokensUpTo(Len(Script)))

\* The warm-up and the target are each judged when they were counted.
FullPrefillReconciles(all) ==
    NativeReconciles(all[Len(all) - 1], all[Len(all)], 1, Tokens(posted))

Reconciles(all) ==
    CASE mode = "cacheblend" -> posted = Len(Script) => CacheblendReconciles(all)
      [] mode = "responses" -> ResponsesReconcile(all)
      [] OTHER -> FullPrefillReconciles(all)

\* A poll that shows the milestone: go on to the next request or conclude.
Poll ==
    /\ pc = "polling"
    /\ Reached
    /\ LET all == Append(scrapes, Scrape)
           done == posted = Len(Script)
       IN  /\ scrapes' = all
           /\ pc' = IF ~Reconciles(all) THEN "refused"
                    ELSE IF done THEN "accepted" ELSE "ready"
           /\ evidence' = IF Reconciles(all) /\ done
                          THEN Delta(all[Len(all) - 1].conn, Scrape.conn)
                          ELSE evidence
    /\ UNCHANGED <<mode, posted>>
    /\ UNCHANGED engineVars

\* A poll before the milestone but after the deadline.
TimeOut ==
    /\ pc = "polling"
    /\ ~Reached
    /\ pc' = "timed_out"
    /\ UNCHANGED <<mode, posted, scrapes, evidence>>
    /\ UNCHANGED engineVars

OtherSends(r) ==
    /\ Cardinality({o \in Others : phase[o] # "unsent"}) < MaxOthers
    /\ Send(r)
    /\ UNCHANGED <<connectorOn, stats, outbox, answering, counters, native,
                   answered, truth, served, restarts>>
    /\ UNCHANGED captureVars

Engine ==
    /\ \/ EngineNext
       \/ \E r \in Requests :
             PrefillStep(r, r \notin Others /\ mode # "responses")
       \/ \E r \in Others : Abort(r)
    /\ UNCHANGED captureVars

Concluded == pc \in {"accepted", "refused", "timed_out", "failed"}

CaptureNext ==
    \/ Begin \/ Post \/ Answered \/ PostFails \/ Poll \/ TimeOut
    \/ \E r \in Others : OtherSends(r)
    \/ Engine

\* The script's life is all that is of interest: nothing follows its end, and
\* it is never stuck before.
Next ==
    \/ ~Concluded /\ CaptureNext
    \/ Concluded /\ UNCHANGED vars

Init == EngineInit /\ CaptureInit

Spec == Init /\ [][Next]_vars

----------------------------------------------------------------------------
Subject == IF mode = "responses" THEN Range(Script) ELSE {Script[Len(Script)]}

(* Evidence a script accepts about the connector is exactly what it did    *)
(* for the requests the evidence is about, whatever other clients of other *)
(* prompt lengths sent, aborted or left running meanwhile and however late *)
(* the counters came (connector_evidence_from_snapshots).                  *)
EvidenceIsOfTarget ==
    pc = "accepted" /\ connectorOn =>
        \A k \in ConnectorKeys :
            evidence[k] = FoldFunctionOnSet(+, 0,
                              [r \in Requests |-> truth[r][k]], Subject)

(* A script refuses only for a cause: the wrong kind of server, another    *)
(* client, a restart, or a target of the cacheblend script that did not    *)
(* load its reusable tokens.  A script alone on its server, cold or warm,  *)
(* is never refused because the counters came late.                        *)
RefusesOnlyForCause ==
    pc = "refused" =>
        \/ connectorOn # NeedsConnector
        \/ \E r \in Others : phase[r] # "unsent"
        \/ restarts > 0
        \/ mode = "cacheblend" /\ truth[Script[Len(Script)]]["loaded"] # ReusableTokens
=============================================================================
