# TLA+ models of the Rancher load-balancer controller

This directory holds TLA+ models of the load-balancer controller in
`src/` (`src/unnamed/part_000` is the current controller;
`src/controller/rancher/rancher.go` holds two earlier revisions of the same
file). Each model comes with TLC configurations that check it on small
instances, and TLAPS proofs of its main invariants for every value of its
constants.

## The system

The controller turns the port rules of its own ("self") load-balancer service
into a `LoadBalancerConfig` and hands the config to a provider. Its parts
(spec 2) are:

| Part | Code | What it does |
|------|------|--------------|
| ReconcileLoop | `Run`, `ScheduleApplyConfig`, `sync`, `requeue`, `Stop`, `NewLoadBalancerController` (part_000:193-268, 831-875) | Reacts to three triggers (the metadata poller's `OnChange`, the certificate watcher, requeues after failures) through a coalescing task queue, runs one `sync` at a time, backs off after failures, and shuts down. |
| TaskQueue | `utils.TaskQueue` (not under `src/`) | The coalescing queue of one key with one worker. |
| SelectorExpander | `processSelector`, `AddRulesFromRegions` (part_000:491-647) | Expands selector rules into per-service rules. |
| EndpointResolver | `getServiceEndpoints` and helpers, `GetService` (part_000:692-826) | Resolves a service (regular, external, alias) to endpoints under a locality preference. |
| ConfigBuilder | `BuildConfigFromMetadata` (part_000:270-449) | Builds frontends and backends, merges endpoints, derives UUIDs, sorts. |
| Bootstrap, drain wiring | `init`, `Init`, drain verbs (part_000:33-155, 235-253) | Start-up I/O and pure delegation to the provider. |

How they interact: every trigger calls `ScheduleApplyConfig`, which enqueues
the key `"rancher"`. The queue's one worker calls `sync`, which checks
`shutdown`. It then calls `GetLBConfigs` (self service, then SelectorExpander,
then ConfigBuilder with EndpointResolver per rule) and `ApplyConfig` for each
config. On any failure `sync` starts `go requeue(key)`. That goroutine adds
5 s to `incrementalBackoff`, sleeps, and puts the key back. On success `sync`
resets the backoff to 0. `Stop` stops the provider, closes `stopCh` and sets
`shutdown`.

## Modules

- **ReconcileLoop.tla**: the reconcile loop and its task queue.
  - Variables:
    - `queued`, `dirty` and `processing` are the queue.
    - `wpc` is the worker's program counter through `sync`.
    - `cfg`, `failed` and `applied` are the tick's config, its local `requeue` flag, and what the provider last applied.
    - `backoff`, `rq` and `rqTmp` are `incrementalBackoff`, each requeue goroutine's program counter, and the value it read.
    - `shutdown`, `stopClosed`, `providerStopped`, `spc` and `stopRet` are the state and result of `Stop`.
    - `meta`, `seen` and `cert` are the versions of the metadata, of the metadata last seen by the poller, and of the certificate cache.
  - The config a tick builds is abstracted to the versions it read: `lo` and `hi` are the metadata versions at the start and end of `GetLBConfigs`, and `cert` is the certificate version. What the config contains is left to the ConfigBuilder model.
  - Actions follow the code:
    - `OnChange` and `LookForCertUpdates` are the triggers.
    - `WorkerGet`, `SyncSkip` (the early return at part_000:843) and `SyncStart` begin a tick.
    - `Collect` and `Resolve` are the reads and failure paths of `GetLBConfigs`.
      `Collect` (part_000:463-489) reads the self service, the selector expansion and the certificates in one step (`lo`). The reads of that stretch are not split, so a config mixing versions within it is not represented; a mix between `Collect` and the builder's reads (`hi`) is.
    - `ApplyConfig` and `SyncFinish` are part_000:849-867.
    - `WorkerDone` ends the tick.
    - `RequeueRead`, `RequeueWrite` and `RequeueAdd` are the three steps of `requeue`. The read and the write of line 872 are separate steps because nothing synchronises them.
    - `StopAlreadyShutdown`, `StopBegin`, `StopProvider`, `StopClose` and `StopFlag` are `Stop`.
  - The queue operators `Add`, `Get` and `Done` are modelled from spec 4.4 and 5, because `utils` is not under `src/`. No property is checked about the queue on its own (such as its bound of one further tick): it would check this model of the library, not the repository's code. The queue enters the properties only through what the loop does with it (`NoLostWakeup`, `EventuallyApplied`).
  - `sync`, `requeue`, `Stop`, `GetLBConfigs` and the constructor are the same code in the first earlier revision (rancher.go:191-204, 405-431, 790-834); the map cites those lines.
- **ProviderView.tla**: the abstract specification of the reconcile loop, as the provider sees it. Its variables are `meta`, `cert` and `applied`. Its actions are `ChangeMetadata`, `ChangeCerts` and `ApplyNewer`. `ApplyNewer` replaces the applied config by a `Successor`: a config read from metadata versions `lo..hi`, none newer than the store, with certificates no newer than the cache, that starts no earlier than the previous config ended and whose certificates are no older. ReconcileLoop instantiates it as `PV == INSTANCE ProviderView WITH meta <- meta, cert <- cert, applied <- applied`, hiding the queue, the worker's program counter, the requeue goroutines and `Stop`. `ProviderSpec == PV!PSpec` is checked as a PROPERTY and proved.
- **EndpointResolver.tla**: endpoint resolution and link lookup (part_000:682-826, 333-363), as operators without state.
  - A metadata snapshot `md` has containers (a sequence in `GetContainers()` order), services (kind, state, container indices, external IPs, CNAME host, links) and a directory from link names to services or `Missing`.
  - A resolution returns the set of its possible outcomes: `Ok(eps)`, `Err` (a metadata call failed), `Skip` (the rule is dropped) or `Crash` (stack overflow).
  - `ServiceOutcomes` is a recursive function over a depth. It allows as many frames as there are services. An alias still recursing at depth 0 is on a cycle, which the code follows until the stack overflows.
  - `AliasOutcomes` takes every visiting order of the links (Go map order) and every failing link as the returned error.
  - `GetService` never returns nil (part_000:704). A missing link therefore gives `Service{}`, which is active and has no endpoints, or an error.
  - Every operator takes the revision `rev`. `"current"` is part_000. `"earlier"` is rancher.go:634-787: the same code, except that stopping containers are not endpoints (`ContainerUpNoDrain`) and `GetService` first reads the region name, which may fail (an `Err` outcome, as for every lookup). `"earliest"` is rancher.go:1341-1486, where stopping containers are not endpoints either and a link is split with `SplitN(link, "/", 2)`, so a three- or four-part link names no service (`ResolveEarliest`).
  - `md.parts` gives each link's number of parts. A link with one part panics in both revisions (`Crash`), because the code indexes part 1.
- **ConfigBuilder.tla**: `BuildConfigFromMetadata` in three revisions selected by the variable `rev`: `"current"` (part_000:270-449), `"earlier"` (rancher.go:206-391, the same code but for logging, over the earlier resolution) and `"earliest"` (rancher.go:996-1199). The map cites the earlier revision's lines for the code the two share.
  - Variables:
    - `md`, `rules`, `pref` and `self` are the inputs.
    - `pc` and `i` are the position in the function.
    - `fmap`, `allBe` and `allEps` are `frontendsMap`, `allBe` and `allEps`.
    - `certs` and `defCert` are the certificates.
    - `out` is the sorted frontends.
    - `placed` is a history variable: for each rule that reached line 422, its identity key and the IPs it brought.
  - Actions:
    - `FetchCerts` is lines 282-301. `FetchCertsEarliest` is rancher.go:1008-1052: the label directories, or one `FetchCertificate` per name with the default certificate last.
    - Each rule is one step: `RuleNoPort` (line 313), `RuleFails` (a metadata error returns, or the alias recursion overflows), `RuleSkipped` (the `continue` statements of lines 338-357) or `RulePlaced`. `RulePlaced` uses `Place`, lines 316-422: get or create the frontend, merge into the backend of the `pathUUID` or create one, and set weights.
    - `Finish` is lines 425-448, the sorts and `ProcessCustomConfig`, which may fail.
  - `MapPut(m, a, b)` is the Go map store `m[a] = b`. The builder's stores are written with it rather than with TLC's `:>` and `@@`, which the prover cannot expand.
  - Host names, paths and ids are sequences of characters over a small alphabet. This is because the identity key is the string `Sprintf("%v_%s_%s")`, and the UUID is that string with runs of non-alphanumerics replaced.
  - Health checks are left out, because no property reads them.
  - The orderings of the `config` package (not under `src/`) are modelled from spec 4.3.1.
- **MCConfigBuilder.tla**: the snapshots and rule lists of the builder runs.
  - In `MergeRules`, the two rules merged into one backend have different priorities, so a merge that took the later rule's settings would show.
  - `Base` has two services that share a draining container, an inactive service and a missing link.
  - `Diamond` adds an alias over both services and an external service that repeats an IP.
  - `Cycle` adds two aliases that link to each other.
  - `LinkRules` use a peer-environment link (`lE`, three parts) and a link without `/` (`lZ`).
  - `SelectorTestRules` are TestSelectorMatch1's two rules after `processSelector`, on port 1 (ports are single digits here).
  - builder_safety explores all three revisions; the violation runs use the current one.
- **SelectorExpander.tla**: `processSelector` in two revisions; Init picks one from the constant `Revisions` into the variable `rev`, which no step changes:
  - `"current"`: part_000:575-646 with `AddRulesFromRegions` (491-559);
  - `"earlier"`: rancher.go:447-598, with `GetRegionName` and the regional fetch inline;
  - Variables: `rev`, `lbRules` (the input rules), `svcs` (the local services), `regionName`, `pc`, the loop indices `r` and `s`, the regional services `ext` of rule `r` and their index `x`, `out` (the rules built), and the history variable `origin` (which input rule each output came from).
  - Actions: `FetchServices`/`FetchServicesEarlier` (the fetches, which may fail), `PassThrough` (a rule without selector), `LocalService` (one local service of a selector rule: skipped, a `GetLBMetadata` error, or its rules), `RegionsFetch`/`RegionsFetchEarlier` (the regional fetch of a rule; the earlier revision drops its error), `RegionService` (one regional service, like `LocalService` but with the regional link `RegionalLink`), `RegionsDone` (on to the next rule) and `Finish`. The regional services are visited one step each, as the code loops over them, so no action needs a flattening of sequences.
  - A service is `[stack, name, labels, nested, bad]`: `labels` is the set of selectors it matches (`IsSelectorMatch` is in the metadata library, not under `src/`), `nested` its LB config's port rules and `bad` whether `GetLBMetadata` fails on it. A link is the sequence of its `/`-separated parts.
  - The dropped fetch error of the earlier revision is a choice between the fetched services and none.
- **MCSelectorExpander.tla**: four local services (plain, nested, another label, a broken LB config), one service in the local region's `e1` and one nested one in region `r2`; six rules (pass-through; selector without target port; a remote region; the local region by name; the broken service; a region without environment), in every list of at most two.
- **MCReconcileLoop.tla**: the constants of the TLC instances.
- **ReconcileLoopProofs.tla**: the TLAPS proofs about the reconcile loop.
- **SelectorExpanderProofs.tla**: the TLAPS proofs about `processSelector`: type correctness and the copied frontend fields.
- **SelectorMatchProofs.tla**: the TLAPS proof that the current `processSelector` expands every selector rule into exactly its matching services (`CurrentExpandsEveryMatch`).
- **ConfigBuilderProofs.tla**: the TLAPS proofs about `BuildConfigFromMetadata`.

## Runs

The reconcile-loop runs use `MCReconcileLoop`. `CHECK_DEADLOCK FALSE` is set because once the
bounded environment is used up, the real controller also sits idle: it is
blocked in the queue's `Get` with nothing to do.

| Run (cfg) | Checks | Expect | Shows |
|-----------|--------|--------|-------|
| queue_safety (`MCReconcileLoop.cfg`) | TypeOK, NoLostWakeup, ReconcileInv, EventuallyApplied, ProviderSpec | pass | A quiet, running controller has applied the latest metadata and certificates. The invariant the proof uses holds. Under the fairness below, the latest inputs are eventually applied for good unless the controller shuts down. The loop implements ProviderView: no config older than the applied one, or read from inputs that never existed, reaches the provider. |
| backoff_reset (`_BackoffReset`) | BackoffResetOnSuccess | violation | A stale requeue goroutine raises the backoff after a success reset it (spec 8.9). The write is an unsynchronised read-modify-write (line 872), modelled as a read and a later write. Two goroutines could therefore also lose an update, but no property here checks that. |
| tick_after_close (`_TickAfterClose`) | TickAfterCloseDoesNoWork | violation | A tick that checks `shutdown` between `close(stopCh)` and `shutdown = true` still applies (spec 5). |
| stop_result (`_StopResult`) | StopReportsSuccess | violation | The first `Stop` also returns "shutdown already in progress" (spec 7). |


The builder runs use `MCConfigBuilder`. They set `CHECK_DEADLOCK FALSE` because a build ends: `done`, `error` and `crash` are final.

| Run (cfg) | Checks | Expect | Shows |
|-----------|--------|--------|-------|
| builder_safety (`MCConfigBuilder.cfg`) | TypeOK, EndpointIndexConsistent, MergedRulesCovered, BackendsPerIdentity, FirstPlacedProtocolWins, MergeKeepsBackend | pass | See below. |
| duplicate_endpoint_ips (`_Unique`) | EndpointIPsUnique | violation | A new backend keeps the duplicate IPs of an alias diamond or a repeated external IP (spec I3). Only the merge path deduplicates. |
| draining_weight (`_Drain`) | DrainingWeightKept | violation | The rule weight overwrites the drain weight "0" (spec S6 against spec 4.3 step 2f). |
| missing_service (`_Missing`) | MissingServiceSkipped | violation | A link to no service creates an empty backend, because the nil check at line 338 is dead (spec 4.3 step 2b). |
| alias_cycle (`_Cycle`) | NoStackOverflow | violation | Two aliases that link to each other overflow the stack (spec 9). |
| selector_test_backends (`_SelectorTest`) | BackendPerService | violation | TestSelectorMatch1's two rules share one port and an empty host and path but name different services. They are merged into one backend (key `45__` in the test), while the test asserts two (rancher_regions_test.go:70). Spec I2 keys backends the way the code does. |

What builder_safety shows:
- The merge index agrees with the backends.
- Every placed rule's IPs are behind its backend.
- Each port's frontend lists each of its pathUUID keys exactly once. The key is the string `port_host_path`, not the triple. Triples that differ only in where a `_` falls between host and path would share a key. That needs a path not starting with `/`, which no input here has.
- The first placed rule on a port sets the frontend's protocol.
- `MergeKeepsBackend` (an action property): a merge only appends new endpoints. It never changes the backend's UUID, target port, priority or other fields, and never moves or reweights an endpoint already there. The later rule's settings are dropped (spec 4.3 step 2e).

Its rule lists cover:
- a rule skipped ahead of a later rule on the same port;
- a port-0 rule;
- two rules merged into one backend;
- a tcp rule beside http rules on one port;
- one host and path on two ports;
- a missing link;
- a stopped container;
- a peer-environment link and a link without "/".

Prefs are `any` and `prefer-local`. The default certificate is absent, nil or present. All three revisions are explored.

The selector runs use `MCSelectorExpander` with `CHECK_DEADLOCK FALSE`: `done` and `error` are final.

| Run (cfg) | Checks | Expect | Shows |
|-----------|--------|--------|-------|
| selector_current (`MCSelectorExpander.cfg`) | TypeOK, ExpansionKeepsFrontendFields, CurrentExpandsEveryMatch | pass | Both revisions copy SourcePort, Protocol and Weight from the selector rule (the earlier one with the region name known or lost). The current one, on success, expands each selector rule to exactly the matching services that have nested rules or a target port, local and regional. |
| selector_fetch_error (`_FetchError`) | EveryMatchExpanded | violation | The earlier revision never checks the regional fetch error (rancher.go:529-534): it returns success without the regional services (spec 4.1: fails if any fetch fails). |

`EveryMatchExpanded` (`CurrentExpandsEveryMatch` is it for `rev = "current"`) states spec 4.1 steps 2-3 directly (candidates by region and environment, skip only when no nested rules and no target port), independently of the model's own `Considered`.

**Bounds.**
- `MaxChanges = 1`: one metadata change and one certificate change, each landing at any step of a tick.
- `MaxFailures = 2`: a failure, a success and a failure again, with the first requeue goroutine still pending.
- `MaxStopCalls = 2` where a second call matters, 1 elsewhere.
- `BackoffInterval = 5`, as in the code.

Larger bounds did not finish within the time limit and add no new
interleaving shapes.

**Fairness.** `EventuallyApplied` assumes weak fairness of three things:
- the queue worker, a goroutine that always runs while it has work;
- the metadata poller, which polls every 5 s;
- each requeue goroutine, which only sleeps for a bounded time.

`ApplyConfig` and `GetLBConfigs` may fail only `MaxFailures` times, which
stands for transient failures.

## Proofs

`ReconcileLoopProofs.tla` proves `Spec => []ReconcileInv` (theorem
`ReconcileInvariant`). `TypeCorrect`,
`NoLostWakeupHolds` and the refinement `RefinesProviderView`
(`Spec => ProviderSpec`) follow from it.

`ReconcileInv` is `QueueInv /\ AppliedOrdered`, each proved inductive by a
lemma of its own (`InitInv`/`NextInv` and `InitOrdered`/`NextOrdered`).
`QueueInv` strengthens the properties checked by TLC with four facts:
- `QueueConsistent` links the queue to the worker: `processing` holds exactly when the worker is in a tick, and the key is queued iff it is dirty and not processing.
- `seen <= meta`.
- A tick's failure flag implies a spare goroutine slot.
- `WorkerCovers` says that, while the controller runs, the latest inputs are either still to be noticed (unseen metadata, a dirty key, a pending requeue), or being read by the running tick, or already applied.

`NoLostWakeup` alone is not inductive. It needs `WorkerCovers` to know which
part of the system still "owes" the latest change. The proof has one case per
action. The Boolean parts of the type invariant are proved by Zenon in steps
of their own.

`AppliedOrdered` says that the applied config ends no later than the
store, and that while the worker is between `Resolve` and `ApplyConfig`
its config starts no earlier than the applied one ends and was read from
inputs that exist. The refinement proof (`StepRefines`) maps each step:
`MetadataChange` to `ChangeMetadata`, `LookForCertUpdates` to `ChangeCerts`,
a successful `ApplyConfig` to `ApplyNewer` (the witness is the tick's `cfg`,
a `Successor` by `AppliedOrdered`), every other step to a stutter of
`meta`, `cert` and `applied`. `Init` maps to `PInit`. The argument needs
that one worker runs all ticks, so a tick's `Collect` follows the previous
tick's `Resolve`: the mutant `CollectFromSeen`, which builds from the
version the poller last reported, breaks it.

The only assumption is `BoundsAssumption`: the bounds are naturals and the
backoff interval is positive.

`SelectorExpanderProofs.tla` proves `TypeCorrect` (`Spec => []TypeOK`) and
`FrontendFieldsKept` (`Spec => []ExpansionKeepsFrontendFields`) for both
revisions and every input. The input assumption `InputsAssumption` (in
`SelectorExpander.tla`) says that what the metadata client returns are lists:
the port rules, the local services, each service's nested rules, and the
services of each environment a rule can name (`Fetchable`). The inductive
invariant `IInv` adds to the two properties:
- `out` and `origin` are lists of equal length (`OutOK`);
- the service lists `svcs` and `ext` are lists of services with list-valued nested rules;
- while the region loop runs, `r` is a selector rule of the input.

Without the last conjunct, a `RegionService` step could append rules built
from a rule without a selector, or from no rule at all. The proof has one
case per action. The shared argument is two lemmas:
- `EmitKeeps`: appending rules that each fit rule `r` keeps `OutOK`. It is proved from `ConcatProperties` of the library.
- `EmittedFacts`: what `Emitted` builds has no selector and the selector rule's SourcePort, Protocol and Weight.

The regional loop is one step per service (`RegionService`) rather than one
step over the flattened list, so no fact about `FlattenSeq` (a recursive
function, whose facts would need induction) is needed.

`SelectorMatchProofs.tla` proves `CurrentExpandsEveryMatchHolds`:
`Spec => []CurrentExpandsEveryMatch` holds for every input allowed by
`InputsAssumption`. Its inductive invariant is `CInv`, `rev = "current" => MInv`;
`RevUnchanged` (no step changes `rev`) carries it across a step of the
earlier revision. The restriction to the current revision is needed.
The earlier revision reads a failed regional fetch as "no services", so
it can finish with a selector rule that lacks its regional matches. Run
`selector_fetch_error` shows that violation.

The proof compares sets of stack/name pairs:
- `Built(y)` is what the rules built from input rule `y` name (the last two parts of each link, `LinkTarget`);
- `Routed(R, T)` is the routable services of `T` for selector rule `R`.

The inductive invariant `MInv` adds to `IInv` (of `SelectorExpanderProofs`):
- while services are not yet read, nothing is built and `r = 1`; afterwards `svcs = Local`;
- every output's origin is at most `r` (`OriginsUpTo`), so rule `r + 1` starts with nothing built;
- `LoopBuilt`: in the local loop, `Built(r)` is the routable services among the first `s - 1` local ones;
- `RegionBuilt`: in the regional loop, all local services have been visited; `ext` is the successful fetch (`RegionalFetch`); and `Built(r)` also holds the routable services among the first `x - 1` regional ones;
- `RulesBefore`: every selector rule before `r` is fully expanded into its `SpecCandidates`.

`LoopBuilt` and `RegionBuilt` are needed because a rule is expanded over
many steps, one per service. The proof also rests on these facts:
- appending rules at origin `r` changes only `Built(r)` (`BuiltConcat`, `EmitBuilt`);
- a considered service adds exactly its own stack/name (`ServiceTargets`), since `Considered` is spec 4.1's routability (`ConsideredIsRoutable`) and every link the code builds ends with stack/name (`LinkTargets`);
- the regional list read for a rule naming the local region equals the one read for a rule naming none (`FetchedCandidates`).

In `RegionService`, the link is region/env/stack/name or env/stack/name, never empty. That holds because a rule without an environment fetches no regional services (`RegionalLinkTarget`). A fetch error moves to `"error"`, where the property says nothing.

`ConfigBuilderProofs.tla` proves, for every revision, snapshot, rule list
and certificate result:
- `TypeCorrect` (`Spec => []TypeOK`);
- `BackendsPerIdentityHolds`;
- `FirstPlacedProtocolWinsHolds`;
- `BackendConfigKeptHolds` (`Spec => [][BackendConfigKept]_vars`), the configuration half of `MergeKeepsBackend`.

The assumption `InputsAssumption` (in `ConfigBuilder.tla`) says:
- the port rules are a list whose host names and paths are strings over `Chars`;
- each certificate result is a list.
- the alternate certificate list holds no nil. The code appends it without a nil check (part_000:296-300), and the real fetcher is not under `src/`. So `TypeCorrect`'s "no nil certificate in the list" holds only for such a fetcher: a nil from it would reach the list.

The inductive invariant `IInv` adds to `TypeOK` and `BackendsPerIdentity`:
- each placed rule's key is its `pathUUID`;
- each frontend is a record whose backend list is a list;
- `FirstPlacedWitness`: the protocol of the first placed rule, named by a witness `m` rather than by `Min`. The lemma `WitnessIsMin` turns it into `FirstPlacedProtocolWins`.

The central lemma is `SameKeySamePort`: two rules with one `pathUUID` have
one frontend name. The key starts with `Itoa(SourcePort)` and then `"_"`, and
host names and paths are strings (`PathUUIDHead`). From it,
`FrontendInHand` shows:
- the frontend `Place` works on lists exactly the keys of the rules placed on its port;
- a key already in `allBe` is on that frontend.

So a merge leaves every frontend as it was, and a new backend is appended
to a list that lacks it, which keeps the list injective. The step proof has
one lemma per group of actions: `CertsSteps`, `PlacedStep` and
`QuietSteps` (the steps that leave the maps alone).

Only TLC checks the following:
- the liveness property `EventuallyApplied`;
- the builder's `EndpointIndexConsistent`, `MergedRulesCovered` and the endpoint half of `MergeKeepsBackend` (`EndpointsKept`). What they say depends on the endpoint lists, which are built by `SelectSeq` (in `FreshEndpoints`) and by `FlattenSeq` and `SortStable` (in alias resolution). The library has no facts about these, and facts about them need induction over the list, which the provers cannot do. Even that a `SelectSeq` result is a list is out of reach. The induction theorems of `NaturalsInduction` take the predicate as an operator parameter, and none of the installed provers instantiates it;
- the violated properties.

## Not modelled yet, and the plan

- **SelectorExpander and what remains of the builder.** Planned order:
  1. `EndpointResolver.tla`: done.
  2. `ConfigBuilder.tla`: done (see above). Still open: output determinism (spec 8.1) under the random order of alias links, and UUID distinctness, which the spec does not claim.
  3. `SelectorExpander.tla`: done, with the two `rancher.go` revisions of `processSelector`. Still open: the test `TestSelectorMatch1` expects two backends for two selector rules on one port with empty host and path, which the builder's `pathUUID` merges into one; this needs the expander and builder composed.
  4. Proofs about the builder: the structure of frontends and backends is proved (see Proofs). Still open are the facts about endpoint lists and the sorted output. `SortStable` is a CHOOSE over permutations, so each such fact first needs a proof that a stable order exists, and that proof is induction over the list.
- **Bootstrap (`Init`, `init`) and drain wiring.** Start-up I/O and delegation; no state worth modelling.
- **The revisions in `rancher.go`.** Their reconcile loop is the same code, so ReconcileLoop covers it. The earlier builder and resolution (rancher.go:206-391, 634-787) are ConfigBuilder's `rev = "earlier"`. The earliest builder and resolution are ConfigBuilder's `rev = "earliest"`. The earliest `processSelector` (rancher.go:1257-1321) is not modelled: it expands local services only and does not copy Weight.
