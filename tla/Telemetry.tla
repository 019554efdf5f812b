----------------------------- MODULE Telemetry -----------------------------
(***************************************************************************)
(* The counters of the connector on their way from the worker to a scrape  *)
(* of /metrics.  The worker appends observations while it serves a step,   *)
(* vLLM drains them once per step and ships them with the step's output,   *)
(* and the frontend first answers the clients of that output and then adds *)
(* it to the Prometheus counters, next to vLLM's native ones.  Requests    *)
(* are served one at a time when the connector is loaded (max_num_seqs is  *)
(* 1 in transfer mode) and in any order otherwise.                         *)
(*                                                                         *)
(* Latencies, the segment counters and the gauges are left out.            *)
(***************************************************************************)
EXTENDS Integers, Sequences, FiniteSets, Functions

CONSTANTS
    Requests,       \* requests that may ever be sent
    PromptTokens,   \* Requests -> length of the prompt
    Chunk,          \* LMCACHE_CHUNK_SIZE
    Cached,         \* requests whose tokens an earlier request may have stored
    Capacity,       \* tokens one step may prefill and staging may hold
    MaxRestarts     \* bound: restarts of the server

ASSUME TelemetryAssumption ==
    /\ PromptTokens \in [Requests -> Nat \ {0}]
    /\ Cached \subseteq Requests
    /\ Chunk \in Nat \ {0}
    /\ Capacity \in Nat \ {0}
    /\ MaxRestarts \in Nat

VARIABLES
    connectorOn,    \* whether the server was started with the connector
    phase,          \* Requests -> where the request is in the engine
    stats,          \* the worker's interval: key -> observations
    outbox,         \* outputs of steps the frontend has not handled
    answering,      \* the clients of the first output have their answers
    counters,       \* Prometheus counters of the connector
    native,         \* Prometheus metrics of vLLM itself
    answered,       \* requests whose answer has reached the client
    truth,          \* history: what was recorded for each request
    served,         \* history: requests with observations in this server's life
    restarts        \* history: restarts so far

engineVars == <<connectorOn, phase, stats, outbox, answering, counters, native,
                answered, truth, served, restarts>>

Keys == {"requests", "tokens_requested", "found", "verified", "rejected",
         "loaded", "recomputed", "avoided", "store_eligible",
         "store_completed", "load_fallbacks", "store_fallbacks"}

EmptyData == [k \in Keys |-> <<>>]
Zero == [k \in Keys |-> 0]
NoNative == [prompt |-> 0, sources |-> FALSE, local |-> 0, first |-> 0,
             finished |-> 0, prefilled |-> 0]

Total(data) == [k \in Keys |-> FoldFunction(+, 0, data[k])]
IsEmpty(data) == \A k \in Keys : data[k] = <<>>
Plus(a, b) == [k \in Keys |-> a[k] + b[k]]

Observe(data, entry) ==
    [k \in Keys |-> IF k \in DOMAIN entry THEN Append(data[k], entry[k])
                                          ELSE data[k]]

Aligned(n) == (n \div Chunk) * Chunk

\* What a lookup may find: whole windows, some of them verified.  A prompt
\* below one chunk has no window.
Lookups(r) ==
    IF PromptTokens[r] < Chunk
    THEN {[requested |-> 0, found |-> 0, verified |-> 0]}
    ELSE {l \in [requested : {PromptTokens[r]},
                 found : {0, Chunk}, verified : {0, Chunk}] :
             /\ l.verified <= l.found
             /\ r \notin Cached => l.found = 0}

RecordLookup(l) ==
    [requests |-> 1, tokens_requested |-> l.requested, found |-> l.found,
     verified |-> l.verified, rejected |-> l.found - l.verified]

\* The verified tokens are loaded together or rejected together; the whole
\* prompt is recomputed in any case.
RecordLoad(r, l, loaded, fallback) ==
    [loaded |-> IF loaded THEN l.verified ELSE 0,
     rejected |-> IF loaded THEN 0 ELSE l.verified,
     recomputed |-> PromptTokens[r], avoided |-> 0,
     load_fallbacks |-> IF fallback THEN 1 ELSE 0]

RecordStore(r, fallback) ==
    [store_eligible |-> Aligned(PromptTokens[r]),
     store_completed |-> IF fallback THEN 0 ELSE Aligned(PromptTokens[r]),
     store_fallbacks |-> IF fallback THEN 1 ELSE 0]

EngineInit ==
    /\ connectorOn \in BOOLEAN
    /\ phase = [r \in Requests |-> "unsent"]
    /\ stats = EmptyData
    /\ outbox = <<>>
    /\ answering = FALSE
    /\ counters = Zero
    /\ native = NoNative
    /\ answered = {}
    /\ truth = [r \in Requests |-> Zero]
    /\ served = {}
    /\ restarts = 0

Running == {r \in Requests : phase[r] \in {"prefilling", "decoding"}}

MayRun(r) == connectorOn => Running \subseteq {r}

\* Mutant: the interval is shipped and kept.
CloneAndResetKeeps(data) == [shipped |-> data, kept |-> data]

CloneAndReset(data) == [shipped |-> data, kept |-> EmptyData]

\* get_kv_connector_stats at the end of a step, and the output the step sends.
EndStep(data, prompt, finished) ==
    LET drained == CloneAndReset(data)
    IN  /\ outbox' = Append(outbox, [stats |-> drained.shipped,
                                     prompt |-> prompt,
                                     finished |-> finished])
        /\ stats' = drained.kept

Recorded(r, data) ==
    /\ truth' = [truth EXCEPT ![r] =
                    Plus(@, [k \in Keys |-> Total(data)[k] - Total(stats)[k]])]
    /\ served' = served \cup {r}

\* start_load_kv for a request without transfer metadata.
StartLoadKvWithoutTransfer(r, l) ==
    Observe(Observe(stats, RecordLookup(l)), RecordLoad(r, l, FALSE, TRUE))

\* start_load_kv with a transfer: before_forward loads everything verified or
\* falls back.
StartLoadKv(r, l, loaded) ==
    Observe(Observe(stats, RecordLookup(l)),
            RecordLoad(r, l, loaded, ~loaded /\ l.verified > 0))

\* The step that prefills a whole prompt; the request stops with it, always
\* when it asked for one token, or decodes.
PrefillStep(r, oneToken) ==
    /\ phase[r] = "queued"
    /\ MayRun(r)
    /\ PromptTokens[r] <= Capacity
    /\ \E stops \in BOOLEAN, l \in Lookups(r), loaded \in BOOLEAN,
          fallback \in BOOLEAN :
          LET data == IF connectorOn
                      THEN Observe(StartLoadKv(r, l, loaded),
                                   RecordStore(r, fallback))
                      ELSE stats
          IN  /\ oneToken => stops
              /\ loaded => l.verified > 0
              /\ fallback => Aligned(PromptTokens[r]) > 0
              /\ ~connectorOn => ~loaded /\ ~fallback
              /\ EndStep(data, PromptTokens[r], IF stops THEN {r} ELSE {})
              /\ Recorded(r, data)
              /\ phase' = [phase EXCEPT ![r] =
                              IF stops THEN "stopped" ELSE "decoding"]
    /\ UNCHANGED <<connectorOn, answering, counters, native, answered, restarts>>

\* The first of the steps that prefill a prompt beyond the capacity: it is
\* handed to the worker now, without transfer metadata.
FirstChunkStep(r) ==
    /\ phase[r] = "queued"
    /\ MayRun(r)
    /\ PromptTokens[r] > Capacity
    /\ \E l \in Lookups(r) :
          LET data == IF connectorOn THEN StartLoadKvWithoutTransfer(r, l)
                                     ELSE stats
          IN  /\ EndStep(data, 0, {})
              /\ Recorded(r, data)
    /\ phase' = [phase EXCEPT ![r] = "prefilling"]
    /\ UNCHANGED <<connectorOn, answering, counters, native, answered, restarts>>

\* The last chunk samples the first token, and vLLM counts the prompt with it.
LastChunkStep(r) ==
    /\ phase[r] = "prefilling"
    /\ EndStep(stats, PromptTokens[r], {})
    /\ phase' = [phase EXCEPT ![r] = "decoding"]
    /\ UNCHANGED <<connectorOn, answering, counters, native, answered, truth,
                   served, restarts>>

LastDecodeStep(r) ==
    /\ phase[r] = "decoding"
    /\ EndStep(stats, 0, {r})
    /\ phase' = [phase EXCEPT ![r] = "stopped"]
    /\ UNCHANGED <<connectorOn, answering, counters, native, answered, truth,
                   served, restarts>>

Send(r) ==
    /\ phase[r] = "unsent"
    /\ phase' = [phase EXCEPT ![r] = "queued"]

\* A client disconnects: vLLM counts nothing for the request any more.
Abort(r) ==
    /\ phase[r] \in {"queued", "prefilling", "decoding"}
    /\ phase' = [phase EXCEPT ![r] = "aborted"]
    /\ UNCHANGED <<connectorOn, stats, outbox, answering, counters, native,
                   answered, truth, served, restarts>>

\* The frontend's output handler answers the clients first ...
Answer ==
    /\ outbox # <<>>
    /\ ~answering
    /\ answered' = answered \cup Head(outbox).finished
    /\ answering' = TRUE
    /\ UNCHANGED <<connectorOn, phase, stats, outbox, counters, native, truth,
                   served, restarts>>

ObserveStats(data) == Plus(counters, Total(data))

\* ... and then records the statistics of the step.
Publish ==
    /\ answering
    /\ LET out == Head(outbox)
       IN  /\ counters' = IF IsEmpty(out.stats) THEN counters
                                                ELSE ObserveStats(out.stats)
           /\ native' =
                [prompt |-> native.prompt + out.prompt,
                 sources |-> native.sources \/ out.prompt > 0,
                 local |-> native.local + out.prompt,
                 first |-> native.first + (IF out.prompt > 0 THEN 1 ELSE 0),
                 finished |-> native.finished + Cardinality(out.finished),
                 prefilled |-> native.prefilled +
                     FoldFunctionOnSet(+, 0, PromptTokens, out.finished)]
    /\ outbox' = Tail(outbox)
    /\ answering' = FALSE
    /\ UNCHANGED <<connectorOn, phase, stats, answered, truth, served, restarts>>

\* The server goes down with everything in it and comes up again.
Restart ==
    /\ restarts < MaxRestarts
    /\ restarts' = restarts + 1
    /\ phase' = [r \in Requests |->
                    IF phase[r] \in {"queued", "prefilling", "decoding"} \/
                       (phase[r] = "stopped" /\ r \notin answered)
                    THEN "aborted" ELSE phase[r]]
    /\ stats' = EmptyData
    /\ outbox' = <<>>
    /\ answering' = FALSE
    /\ counters' = Zero
    /\ native' = NoNative
    /\ served' = {}
    /\ UNCHANGED <<connectorOn, answered, truth>>

EngineNext ==
    \/ \E r \in Requests : FirstChunkStep(r) \/ LastChunkStep(r) \/ LastDecodeStep(r)
    \/ Answer
    \/ Publish
    \/ Restart

----------------------------------------------------------------------------
InFlight == IF outbox = <<>> THEN Zero
            ELSE [k \in Keys |-> FoldFunction(+, 0,
                     [i \in DOMAIN outbox |-> Total(outbox[i].stats)[k]])]

(* Every observation of this server's life is in exactly one place: the    *)
(* worker's interval, an output on its way, or the counters; draining an   *)
(* interval neither loses nor repeats one (clone_and_reset, observe).  An  *)
(* interval is never cut between the lookup and the load of a request, so  *)
(* at every scrape each token found was loaded or rejected and each token  *)
(* verified was loaded or fell back.                                       *)
CountersConserve ==
    /\ \A k \in Keys :
         counters[k] + InFlight[k] + Total(stats)[k]
             = FoldFunctionOnSet(+, 0, [r \in Requests |-> truth[r][k]], served)
    /\ counters["found"] = counters["loaded"] + counters["rejected"]
    /\ counters["loaded"] <= counters["verified"]
    /\ counters["verified"] <= counters["found"]
    /\ counters["found"] <= counters["tokens_requested"]
    /\ counters["store_completed"] <= counters["store_eligible"]
=============================================================================
