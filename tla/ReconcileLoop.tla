--------------------------- MODULE ReconcileLoop ---------------------------
(***************************************************************************)
(* The reconcile loop of the Rancher load-balancer controller              *)
(* (LoadBalancerController in controller/rancher).                         *)
(*                                                                         *)
(* Goroutines modelled, each as its own actions:                           *)
(*   - the metadata poller (MetaFetcher.OnChange(5, ScheduleApplyConfig)), *)
(*   - the certificate watcher (CertFetcher.LookForCertUpdates),           *)
(*   - the single task-queue worker running sync(key),                     *)
(*   - one goroutine per failed sync running requeue(key),                 *)
(*   - the caller of Stop().                                               *)
(* All triggers enqueue the one key "rancher" in a coalescing work queue   *)
(* (queued / dirty / processing, the semantics of utils.TaskQueue).        *)
(*                                                                         *)
(* The configuration built by a tick is abstracted to the versions of the  *)
(* inputs it read: the metadata version at the start (lo) and at the end   *)
(* (hi) of GetLBConfigs, and the certificate-cache version.  The data the  *)
(* config contains is modelled in ConfigBuilder.                           *)
(*                                                                         *)
(* sync, requeue, Stop, GetLBConfigs and the constructor are the same code *)
(* in both revisions (part_000:255-268, 463-489, 831-875 and               *)
(* rancher.go:191-204, 405-431, 790-834); Run and the metadata poller are  *)
(* part_000's.                                                             *)
(***************************************************************************)
EXTENDS Naturals

CONSTANTS
    MaxChanges,       \* bound on metadata changes and on certificate changes
    MaxFailures,      \* bound on failed syncs (each spawns a requeue goroutine)
    MaxStopCalls,     \* bound on calls of Stop()
    BackoffInterval   \* incrementalBackoffInterval (5 in the code)

ASSUME BoundsAssumption ==
    /\ MaxChanges \in Nat
    /\ MaxFailures \in Nat
    /\ MaxStopCalls \in Nat
    /\ BackoffInterval \in Nat \ {0}

VARIABLES
    meta,            \* version of the metadata store
    seen,            \* version last seen by the OnChange poller (0 = "init")
    cert,            \* version of the certificate cache
    queued,          \* copies of the key in the work queue
    dirty,           \* key is in the queue's dirty set
    processing,      \* key is in the queue's processing set
    wpc,             \* program counter of the queue worker
    cfg,             \* the config the running tick has built so far
    failed,          \* the tick's local `requeue` flag
    applied,         \* the config the provider last applied successfully
    backoff,         \* lbc.incrementalBackoff
    rq,              \* program counter of each requeue goroutine
    rqTmp,           \* the value of incrementalBackoff each one has read
    failures,        \* failed syncs so far (= requeue goroutines spawned)
    lastSync,        \* outcome of the last finished tick (history)
    tickAfterClose,  \* the running tick passed its shutdown check after close(stopCh)
    shutdown,        \* lbc.shutdown
    stopClosed,      \* stopCh has been closed
    providerStopped, \* LBProvider.Stop() has returned nil
    spc,             \* program counter of the Stop() caller
    stopCalls,       \* calls of Stop() so far
    stopRet          \* what the last returned Stop() call did and returned

queueVars == <<queued, dirty, processing>>
envVars == <<meta, seen, cert>>
workerVars == <<wpc, cfg, failed, applied, lastSync, tickAfterClose>>
requeueVars == <<backoff, rq, rqTmp, failures>>
stopVars == <<shutdown, stopClosed, providerStopped, spc, stopCalls, stopRet>>
vars == <<queueVars, envVars, workerVars, requeueVars, stopVars>>

Goroutines == 1..MaxFailures
Versions == 0..MaxChanges + 1
Config == [lo : Versions, hi : Versions, cert : Versions]
NoConfig == [lo |-> 0, hi |-> 0, cert |-> 0]
WorkerPCs == {"idle", "sync", "collect", "resolve", "apply", "finish", "done"}
RequeuePCs == {"none", "read", "write", "requeue", "exit"}
StopPCs == {"idle", "provider", "close", "flag"}
NoReturn == [did |-> FALSE, err |-> FALSE]

\* The config that reflects the current inputs.
Fresh == [lo |-> meta, hi |-> meta, cert |-> cert]

-----------------------------------------------------------------------------
(* The coalescing work queue behind utils.TaskQueue: a key already dirty   *)
(* is not added again, and a key added while it is processed is queued     *)
(* again only when the worker calls Done.                                  *)

\* queue.Add(key), as called by Enqueue and Requeue; leaves processing alone.
Add ==
    /\ dirty' = TRUE
    /\ queued' = IF dirty \/ processing THEN queued ELSE queued + 1

\* Mutant of Get: does not wait for a queued key.
GetNoWait ==
    /\ queued' = queued - 1
    /\ processing' = TRUE
    /\ dirty' = FALSE

\* queue.Get(): blocks until the key is queued, then marks it processing.
Get ==
    /\ queued > 0
    /\ queued' = queued - 1
    /\ processing' = TRUE
    /\ dirty' = FALSE

\* Mutant of Done: a key dirtied while processing is not queued again.
DoneDropsDirty ==
    /\ processing' = FALSE
    /\ queued' = queued
    /\ UNCHANGED dirty

\* queue.Done(key): a key dirtied while processing goes back in the queue.
Done ==
    /\ processing' = FALSE
    /\ queued' = IF dirty THEN queued + 1 ELSE queued
    /\ UNCHANGED dirty

-----------------------------------------------------------------------------
(* Triggers.                                                               *)

\* The metadata store changes (outside the controller).
MetadataChange ==
    /\ meta <= MaxChanges
    /\ meta' = meta + 1
    /\ UNCHANGED <<seen, cert, queueVars, workerVars, requeueVars, stopVars>>

\* Mutant of OnChange: the new version is recorded but the callback is not
\* called.
OnChangeNoCallback ==
    /\ seen # meta
    /\ seen' = meta
    /\ UNCHANGED <<meta, cert, queueVars, workerVars, requeueVars, stopVars>>

\* The OnChange poller sees a new version and calls ScheduleApplyConfig.
OnChange ==
    /\ seen # meta
    /\ seen' = meta
    /\ Add
    /\ UNCHANGED <<meta, cert, processing, workerVars, requeueVars, stopVars>>

\* The certificate watcher refreshes its cache and calls ScheduleApplyConfig.
LookForCertUpdates ==
    /\ cert < MaxChanges
    /\ cert' = cert + 1
    /\ Add
    /\ UNCHANGED <<meta, seen, processing, workerVars, requeueVars, stopVars>>

-----------------------------------------------------------------------------
(* The queue worker: Get, sync(key), Done.                                 *)

WorkerGet ==
    /\ wpc = "idle"
    /\ Get
    /\ wpc' = "sync"
    /\ UNCHANGED <<envVars, cfg, failed, applied, lastSync, tickAfterClose,
                   requeueVars, stopVars>>

\* sync: return at once when the controller is shutting down.
SyncSkip ==
    /\ wpc = "sync"
    /\ shutdown
    /\ wpc' = "done"
    /\ UNCHANGED <<queueVars, envVars, cfg, failed, applied, lastSync,
                   tickAfterClose, requeueVars, stopVars>>

SyncStart ==
    /\ wpc = "sync"
    /\ ~shutdown
    /\ wpc' = "collect"
    /\ tickAfterClose' = stopClosed
    /\ UNCHANGED <<queueVars, envVars, cfg, failed, applied, lastSync,
                   requeueVars, stopVars>>

\* Mutant of Collect: the tick builds from the metadata version the
\* OnChange poller last reported instead of reading the store.
CollectFromSeen ==
    /\ wpc = "collect"
    /\ cfg' = [lo |-> seen, hi |-> seen, cert |-> cert]
    /\ wpc' = "resolve"
    /\ UNCHANGED <<queueVars, envVars, failed, applied, lastSync,
                   tickAfterClose, requeueVars, stopVars>>

\* GetLBConfigs up to the certificates: self service, selector expansion,
\* locality label, FetchCertificates.
Collect ==
    /\ wpc = "collect"
    /\ cfg' = [lo |-> meta, hi |-> meta, cert |-> cert]
    /\ wpc' = "resolve"
    /\ UNCHANGED <<queueVars, envVars, failed, applied, lastSync,
                   tickAfterClose, requeueVars, stopVars>>

\* The per-rule service and container reads of BuildConfigFromMetadata and
\* ProcessCustomConfig; any error of GetLBConfigs ends the tick here.
Resolve ==
    /\ wpc = "resolve"
    /\ \/ /\ cfg' = [cfg EXCEPT !.hi = meta]
          /\ wpc' = "apply"
          /\ UNCHANGED failed
       \/ /\ failures < MaxFailures
          /\ failed' = TRUE
          /\ wpc' = "finish"
          /\ UNCHANGED cfg
    /\ UNCHANGED <<queueVars, envVars, applied, lastSync, tickAfterClose,
                   requeueVars, stopVars>>

\* Mutant: a failed ApplyConfig is logged but does not set requeue.
ApplyConfigNoRequeue ==
    /\ wpc = "apply"
    /\ \/ applied' = cfg
       \/ UNCHANGED applied
    /\ wpc' = "finish"
    /\ UNCHANGED <<queueVars, envVars, cfg, failed, lastSync, tickAfterClose,
                   requeueVars, stopVars>>

\* LBProvider.ApplyConfig(cfg) for the one config returned.
ApplyConfig ==
    /\ wpc = "apply"
    /\ \/ /\ applied' = cfg
          /\ UNCHANGED failed
       \/ /\ failures < MaxFailures
          /\ failed' = TRUE
          /\ UNCHANGED applied
    /\ wpc' = "finish"
    /\ UNCHANGED <<queueVars, envVars, cfg, lastSync, tickAfterClose,
                   requeueVars, stopVars>>

\* Mutant of SyncFinish: a failed sync does not spawn a requeue goroutine.
SyncFinishNoRequeue ==
    /\ wpc = "finish"
    /\ IF failed
       THEN UNCHANGED <<backoff, failures, rq>>
       ELSE /\ backoff' = 0
            /\ UNCHANGED <<failures, rq>>
    /\ lastSync' = IF failed THEN "fail" ELSE "ok"
    /\ failed' = FALSE
    /\ wpc' = "done"
    /\ UNCHANGED <<queueVars, envVars, cfg, applied, tickAfterClose, rqTmp,
                   stopVars>>

\* End of sync: `go lbc.requeue(key)` on failure, else reset the backoff.
SyncFinish ==
    /\ wpc = "finish"
    /\ IF failed
       THEN /\ failures' = failures + 1
            /\ rq' = [rq EXCEPT ![failures + 1] = "read"]
            /\ UNCHANGED backoff
       ELSE /\ backoff' = 0
            /\ UNCHANGED <<failures, rq>>
    /\ lastSync' = IF failed THEN "fail" ELSE "ok"
    /\ failed' = FALSE
    /\ wpc' = "done"
    /\ UNCHANGED <<queueVars, envVars, cfg, applied, tickAfterClose, rqTmp,
                   stopVars>>

WorkerDone ==
    /\ wpc = "done"
    /\ Done
    /\ wpc' = "idle"
    /\ UNCHANGED <<envVars, cfg, failed, applied, lastSync, tickAfterClose,
                   requeueVars, stopVars>>

-----------------------------------------------------------------------------
(* requeue(key): incrementalBackoff += interval (an unsynchronised read    *)
(* and write), sleep, then queue.Add(key).                                 *)

RequeueRead(g) ==
    /\ rq[g] = "read"
    /\ rqTmp' = [rqTmp EXCEPT ![g] = backoff]
    /\ rq' = [rq EXCEPT ![g] = "write"]
    /\ UNCHANGED <<queueVars, envVars, workerVars, backoff, failures, stopVars>>

RequeueWrite(g) ==
    /\ rq[g] = "write"
    /\ backoff' = rqTmp[g] + BackoffInterval
    /\ rq' = [rq EXCEPT ![g] = "requeue"]
    /\ UNCHANGED <<queueVars, envVars, workerVars, rqTmp, failures, stopVars>>

RequeueAdd(g) ==
    /\ rq[g] = "requeue"
    /\ Add
    /\ rq' = [rq EXCEPT ![g] = "exit"]
    /\ UNCHANGED <<processing, envVars, workerVars, backoff, rqTmp, failures,
                   stopVars>>

-----------------------------------------------------------------------------
(* Stop(): stop the provider, close stopCh, set shutdown; every call       *)
(* returns the error "shutdown already in progress".                       *)

StopAlreadyShutdown ==
    /\ spc = "idle"
    /\ stopCalls < MaxStopCalls
    /\ shutdown
    /\ stopCalls' = stopCalls + 1
    /\ stopRet' = [did |-> FALSE, err |-> TRUE]
    /\ UNCHANGED <<queueVars, envVars, workerVars, requeueVars, shutdown,
                   stopClosed, providerStopped, spc>>

StopBegin ==
    /\ spc = "idle"
    /\ stopCalls < MaxStopCalls
    /\ ~shutdown
    /\ stopCalls' = stopCalls + 1
    /\ spc' = "provider"
    /\ UNCHANGED <<queueVars, envVars, workerVars, requeueVars, shutdown,
                   stopClosed, providerStopped, stopRet>>

\* LBProvider.Stop(): on error Stop returns that error at once.
StopProvider ==
    /\ spc = "provider"
    /\ \/ /\ providerStopped' = TRUE
          /\ spc' = "close"
          /\ UNCHANGED stopRet
       \/ /\ spc' = "idle"
          /\ stopRet' = [did |-> FALSE, err |-> TRUE]
          /\ UNCHANGED providerStopped
    /\ UNCHANGED <<queueVars, envVars, workerVars, requeueVars, shutdown,
                   stopClosed, stopCalls>>

StopClose ==
    /\ spc = "close"
    /\ stopClosed' = TRUE
    /\ spc' = "flag"
    /\ UNCHANGED <<queueVars, envVars, workerVars, requeueVars, shutdown,
                   providerStopped, stopCalls, stopRet>>

StopFlag ==
    /\ spc = "flag"
    /\ shutdown' = TRUE
    /\ spc' = "idle"
    /\ stopRet' = [did |-> TRUE, err |-> TRUE]
    /\ UNCHANGED <<queueVars, envVars, workerVars, requeueVars, stopClosed,
                   providerStopped, stopCalls>>

-----------------------------------------------------------------------------

\* NewLoadBalancerController and Run: backoff 0, every goroutine started.
Init ==
    /\ meta = 1
    /\ seen = 0
    /\ cert = 0
    /\ queued = 0
    /\ dirty = FALSE
    /\ processing = FALSE
    /\ wpc = "idle"
    /\ cfg = NoConfig
    /\ failed = FALSE
    /\ applied = NoConfig
    /\ backoff = 0
    /\ rq = [g \in Goroutines |-> "none"]
    /\ rqTmp = [g \in Goroutines |-> 0]
    /\ failures = 0
    /\ lastSync = "none"
    /\ tickAfterClose = FALSE
    /\ shutdown = FALSE
    /\ stopClosed = FALSE
    /\ providerStopped = FALSE
    /\ spc = "idle"
    /\ stopCalls = 0
    /\ stopRet = NoReturn

Worker ==
    \/ WorkerGet \/ SyncSkip \/ SyncStart \/ Collect \/ Resolve
    \/ ApplyConfig \/ SyncFinish \/ WorkerDone

Requeue(g) == RequeueRead(g) \/ RequeueWrite(g) \/ RequeueAdd(g)

Stopper ==
    \/ StopAlreadyShutdown \/ StopBegin \/ StopProvider \/ StopClose \/ StopFlag

Next ==
    \/ MetadataChange \/ OnChange \/ LookForCertUpdates
    \/ Worker
    \/ \E g \in Goroutines : Requeue(g)
    \/ Stopper

\* The worker, the poller and the requeue goroutines are never starved;
\* changes, failures and Stop are the environment's choice.
Fairness ==
    /\ WF_vars(Worker)
    /\ WF_vars(OnChange)
    /\ \A g \in Goroutines : WF_vars(Requeue(g))

Spec == Init /\ [][Next]_vars /\ Fairness

-----------------------------------------------------------------------------
(* Properties.                                                             *)

\* Every variable holds a value of its type.
TypeOK ==
    /\ meta \in 1..MaxChanges + 1
    /\ seen \in 0..MaxChanges + 1
    /\ cert \in 0..MaxChanges
    /\ queued \in Nat
    /\ dirty \in BOOLEAN
    /\ processing \in BOOLEAN
    /\ wpc \in WorkerPCs
    /\ cfg \in Config
    /\ failed \in BOOLEAN
    /\ applied \in Config
    /\ backoff \in Nat
    /\ rq \in [Goroutines -> RequeuePCs]
    /\ rqTmp \in [Goroutines -> Nat]
    /\ failures \in 0..MaxFailures
    /\ lastSync \in {"none", "ok", "fail"}
    /\ tickAfterClose \in BOOLEAN
    /\ shutdown \in BOOLEAN
    /\ stopClosed \in BOOLEAN
    /\ providerStopped \in BOOLEAN
    /\ spc \in StopPCs
    /\ stopCalls \in 0..MaxStopCalls
    /\ stopRet \in [did : BOOLEAN, err : BOOLEAN]

\* A requeue goroutine has not yet re-added the key.
RequeuePending == \E g \in Goroutines : rq[g] \in {"read", "write", "requeue"}

\* No lost wake-up between OnChange/ScheduleApplyConfig, the task queue and
\* sync: when the controller is running, the worker is blocked in Get with
\* nothing queued, no requeue goroutine is pending and the poller has seen
\* the latest metadata, then the provider has applied a config built
\* entirely from the current metadata and certificates.
NoLostWakeup ==
    (/\ ~shutdown
     /\ wpc = "idle"
     /\ queued = 0
     /\ seen = meta
     /\ ~RequeuePending)
    => applied = Fresh

\* The work queue's bookkeeping agrees with the worker: the key is
\* processing exactly while the worker is between Get and Done, it is queued
\* at most once and only while dirty, and a dirty key the worker is not
\* processing is queued.
QueueConsistent ==
    /\ queued \in 0..1
    /\ processing <=> wpc # "idle"
    /\ processing => queued = 0
    /\ queued > 0 => dirty
    /\ (dirty /\ ~processing) => queued > 0

\* Why the loop cannot lose a change: either a trigger is outstanding, or
\* the running tick will still read the current inputs, or it has read them
\* already, or it failed and will spawn a requeue goroutine, or the provider
\* already has the current config.
WorkerCovers ==
    \/ seen # meta \/ dirty \/ RequeuePending
    \/ wpc \in {"sync", "collect"}
    \/ wpc = "resolve" /\ cfg.lo = meta /\ cfg.cert = cert
    \/ wpc = "apply" /\ cfg = Fresh
    \/ wpc = "finish" /\ failed
    \/ wpc \in {"idle", "finish", "done"} /\ applied = Fresh

\* Why the provider only ever moves forward: the applied config was read
\* from inputs that existed, and the config the running tick is building
\* was started no earlier than the applied one was finished.
AppliedOrdered ==
    /\ applied.hi <= meta
    /\ applied.cert <= cert
    /\ wpc \in {"resolve", "apply"} =>
          /\ applied.hi <= cfg.lo
          /\ applied.cert <= cfg.cert
          /\ cfg.lo <= cfg.hi
          /\ cfg.hi <= meta
          /\ cfg.cert <= cert

\* The part of the inductive invariant behind NoLostWakeup: while the controller runs, every change of metadata or
\* certificates is covered by the task queue, a requeue goroutine or the
\* running sync.
QueueInv ==
    /\ TypeOK
    /\ QueueConsistent
    /\ seen <= meta
    /\ failed => failures < MaxFailures /\ wpc = "finish"
    /\ ~shutdown => WorkerCovers

\* The inductive invariant of the reconcile loop: no change is lost, and
\* configs are applied in the order of their inputs (behind ProviderSpec).
ReconcileInv == QueueInv /\ AppliedOrdered

\* Once metadata and certificates stop changing and syncs stop failing, the
\* reconcile loop applies a config built from the latest inputs, unless the
\* controller is shut down.
EventuallyApplied == <>[](shutdown \/ applied = Fresh)

\* Spec 9: the backoff is reset to 0 by the first successful sync (and
\* stays 0 until a sync fails again).
BackoffResetOnSuccess == lastSync = "ok" => backoff = 0

\* Spec 5: once stopCh is closed no further tick does work: a sync that
\* starts after close(stopCh) never builds or applies a config.
TickAfterCloseDoesNoWork ==
    wpc \in {"collect", "resolve", "apply"} => ~tickAfterClose

\* Spec 7: only a second Stop() reports "shutdown already in progress"; the
\* call that shuts the controller down returns no error.
StopReportsSuccess == stopRet.did => ~stopRet.err


-----------------------------------------------------------------------------
(* Refinement of the provider's view (ProviderView).                       *)

PV == INSTANCE ProviderView WITH meta <- meta, cert <- cert, applied <- applied

\* The loop implements ProviderView: metadata and certificates only move
\* forward, and every config ApplyConfig hands to the provider was read
\* from inputs that existed and is no older than the one applied before it
\* (one worker, so ticks never overtake each other, whatever the requeue
\* goroutines, the poller and Stop do).
ProviderSpec == PV!PSpec

=============================================================================
