-------------------------- MODULE MutationCatalogue --------------------------
(***************************************************************************)
(* The mutation catalogue of tools/mutations.py: deliberate defects of the *)
(* reference implementation, each with the channels the contracts say      *)
(* observe it (aims), the files its edits rewrite and whether its cost is  *)
(* quadratic by construction (slow).  The text of an edit is not kept: an  *)
(* anchor applies or it does not (Evaluation.tla).                         *)
(***************************************************************************)
EXTENDS Sequences

Entry(name, aims, files) ==
    [name |-> name, aims |-> aims, files |-> files, slow |-> FALSE]
Slow(entry) == [entry EXCEPT !.slow = TRUE]

\* The frame stack across chunks; attribute frames.
ResumptionAndAttributes == <<
    Entry("parser-resumption-stack-dropped", {"chunking"}, {"parser.py"}),
    Entry("attributes-dropped", {"chunking"}, {"parser.py"}),
    Entry("attributes-parked-at-the-root", {"chunking"}, {"parser.py"}),
    Entry("attributes-do-not-merge", {"chunking"}, {"parser.py"}),
    Entry("attribute-dict-emitted-as-a-value", {"chunking"}, {"parser.py"}) >>

\* Verbatim strings; the three null forms.
VerbatimAndNulls == <<
    Entry("verbatim-format-discarded", {"oracle", "chunking"}, {"parser.py"}),
    Entry("verbatim-prefix-not-stripped",
          {"oracle", "chunking"}, {"parser.py"}),
    Entry("null-resp3-underscore", {"oracle", "chunking"}, {"parser.py"}),
    Entry("null-bulk-string", {"oracle", "chunking"}, {"parser.py"}),
    Entry("null-array", {"oracle", "chunking"}, {"parser.py"}) >>

\* The remaining wire types.
WireTypes == <<
    Entry("blob-error-truncated-at-crlf", {"chunking"}, {"parser.py"}),
    Entry("push-frame-parsed-as-a-list", {"chunking"}, {"parser.py"}),
    Entry("boolean-as-integer", {"oracle", "chunking"}, {"parser.py"}),
    Entry("double-as-bytes", {"oracle"}, {"parser.py"}),
    Entry("big-number-as-bytes", {"oracle", "chunking"}, {"parser.py"}),
    Entry("set-as-list", {"oracle"}, {"parser.py"}),
    Entry("map-as-flat-list", {"oracle"}, {"parser.py"}),
    Entry("bulk-strings-decoded-to-str", {"oracle"}, {"parser.py"}) >>

\* Pushes discarded, HELLO and its fallback.
Negotiation == <<
    Entry("pushes-not-discarded", {"oracle"}, {"connection.py"}),
    Entry("negotiation-does-not-fall-back", {"oracle"}, {"connection.py"}),
    Entry("hello-sent-under-protocol-2", {"oracle"}, {"connection.py"}) >>

\* One entry per trigger of poisoning.
Poisoning == <<
    Entry("poisoning-connection-error", {"pool"}, {"connection.py"}),
    Entry("poisoning-timeout", {"pool"}, {"connection.py"}),
    Entry("poisoning-protocol-error", {"pool"}, {"connection.py"}),
    Entry("poisoned-connection-still-executes",
          {"pool"}, {"connection.py", "pipeline.py"}) >>

\* One entry per mapping of an error code.
ErrorMappings == <<
    Entry("error-mapping-wrongtype", {"oracle"}, {"errors.py"}),
    Entry("error-mapping-moved", {"oracle"}, {"errors.py"}),
    Entry("error-mapping-noscript", {"oracle"}, {"errors.py"}),
    Entry("error-mapping-busygroup", {"oracle"}, {"errors.py"}),
    Entry("moved-slot-and-address-not-parsed", {"oracle"}, {"errors.py"}),
    Entry("timeout-error-outside-connection-error", {"pool"}, {"errors.py"}) >>

\* Capacity, health checks, release, close, waking.
PoolEntries == <<
    Entry("pool-capacity-unbounded", {"pool"}, {"pool.py"}),
    Entry("pool-serialised-to-one-borrower", {"pool"}, {"pool.py"}),
    Entry("pool-health-check-skipped", {"pool"}, {"pool.py"}),
    Entry("pool-release-accepts-anything", {"pool"}, {"pool.py"}),
    Entry("pool-close-leaves-connections-open", {"pool"}, {"pool.py"}),
    Entry("pool-release-does-not-wake-waiters", {"pool"}, {"pool.py"}) >>

\* Order, writes before reads, errors in slots.
PipelineEntries == <<
    Entry("pipeline-results-reversed", {"oracle"}, {"pipeline.py"}),
    Entry("pipeline-writes-and-reads-one-at-a-time",
          {"oracle"}, {"pipeline.py"}),
    Entry("pipeline-slot-keeps-errorreply", {"oracle"}, {"pipeline.py"}),
    Entry("pipeline-converts-nested-errors", {"oracle"}, {"pipeline.py"}) >>

\* Memory and time; one of them is slow by construction.
ResourceEntries == <<
    Entry("reset-keeps-the-buffer", {"resource"}, {"parser.py"}),
    Entry("consumed-input-never-released", {"resource"}, {"parser.py"}),
    Entry("blob-payload-copied-three-times", {"resource"}, {"parser.py"}),
    Slow(Entry("crlf-rescanned-periodically", {"resource"}, {"parser.py"})),
    Entry("aggregate-closing-made-recursive", {"resource"}, {"parser.py"}) >>

\* What a cached read must check, consume and sweep.
CacheReads == <<
    Entry("cache-stores-before-checking-for-invalidation",
          {"caching"}, {"connection.py"}),
    Entry("cache-ignores-the-generation-it-recorded",
          {"caching"}, {"cache.py"}),
    Entry("cache-sweeps-only-idle-connections", {"caching"}, {"pool.py"}),
    Entry("cache-never-sweeps-peers", {"caching"}, {"connection.py"}),
    Entry("cache-serves-hits-without-draining-first",
          {"caching"}, {"connection.py"}) >>

\* What an invalidation, a bound and a clear must do.
CacheUpkeep == <<
    Entry("invalidation-frame-ignored", {"caching"}, {"connection.py"}),
    Entry("flush-invalidation-drops-nothing", {"caching"}, {"cache.py"}),
    Entry("cache-tracking-never-enabled", {"caching"}, {"connection.py"}),
    Entry("cache-ignores-its-bound", {"caching"}, {"cache.py"}),
    Entry("cache-accepts-protocol-2", {"caching"}, {"pool.py"}),
    Entry("cache-serves-pipelined-reads", {"caching"}, {"pipeline.py"}),
    Entry("cache-clear-resets-the-counters", {"caching"}, {"cache.py"}) >>

\* The sans-io gate, and properties a channel names as its own case.
OtherEntries == <<
    Entry("parser-imports-socket",
          {"oracle", "chunking", "pool", "resource"}, {"parser.py"}),
    Entry("attributed-hash-not-delegating", {"chunking"}, {"protocol.py"}),
    Entry("server-info-not-populated", {"oracle"}, {"connection.py"}),
    Entry("pool-never-reuses-an-idle-connection", {"pool"}, {"pool.py"}),
    Entry("pool-health-check-discards-every-connection",
          {"pool"}, {"pool.py"}),
    Entry("replies-post-processed-by-command-name",
          {"oracle"}, {"connection.py"}) >>

MUTATIONS ==
    ResumptionAndAttributes \o VerbatimAndNulls \o WireTypes \o Negotiation
    \o Poisoning \o ErrorMappings \o PoolEntries \o PipelineEntries
    \o ResourceEntries \o CacheReads \o CacheUpkeep \o OtherEntries

\* by_name looks an entry up by its name, and so do saved rows.
ASSUME NamesAssumption ==
    \A i, j \in DOMAIN MUTATIONS : MUTATIONS[i].name = MUTATIONS[j].name => i = j

Catalogued == {MUTATIONS[i].name : i \in DOMAIN MUTATIONS}
by_name(name) ==
    MUTATIONS[CHOOSE i \in DOMAIN MUTATIONS : MUTATIONS[i].name = name]
=============================================================================
