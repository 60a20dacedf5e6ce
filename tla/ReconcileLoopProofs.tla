------------------------- MODULE ReconcileLoopProofs -------------------------
(***************************************************************************)
(* Proofs about the reconcile loop, for every value of the constants:      *)
(* ReconcileInv is inductive, and the type invariant, the coalescing of    *)
(* the task queue and the absence of lost wake-ups follow from it.         *)
(***************************************************************************)
EXTENDS ReconcileLoop, TLAPS

USE BoundsAssumption

\* The definitions every step of the proof needs to see.
USE DEF TypeOK, QueueConsistent, WorkerCovers, QueueInv,
        RequeuePending, Fresh, Config, Versions, Goroutines, WorkerPCs,
        RequeuePCs, StopPCs, queueVars, envVars, workerVars, requeueVars,
        stopVars, vars

-----------------------------------------------------------------------------

\* The Boolean-valued variables keep their type.  SMT does not derive
\* x \in BOOLEAN from x = FALSE next to integer facts, so this part of the
\* type invariant has steps of its own, proved by Zenon.
Flags == /\ dirty \in BOOLEAN /\ processing \in BOOLEAN /\ failed \in BOOLEAN
         /\ tickAfterClose \in BOOLEAN /\ shutdown \in BOOLEAN
         /\ stopClosed \in BOOLEAN /\ providerStopped \in BOOLEAN
         /\ stopRet \in [did : BOOLEAN, err : BOOLEAN]

\* The initial state of NewLoadBalancerController/Run satisfies QueueInv.
LEMMA InitInv == Init => QueueInv
<1> SUFFICES ASSUME Init PROVE QueueInv
    OBVIOUS
<1>1. TypeOK
      <2>1. Flags
            BY Zenon DEF Flags, Init, NoReturn
      <2>2. QED
            BY <2>1 DEF Flags, Init, NoConfig, NoReturn
<1>2. QueueConsistent
      BY DEF Init
<1>3. WorkerCovers
      BY DEF Init
<1>4. QED
      BY <1>1, <1>2, <1>3 DEF Init

\* Every step of every goroutine preserves QueueInv.
LEMMA NextInv == QueueInv /\ [Next]_vars => QueueInv'
<1> SUFFICES ASSUME QueueInv, [Next]_vars PROVE QueueInv'
    OBVIOUS
<1>1. CASE MetadataChange
      <2>1. Flags'
            BY <1>1, Zenon DEF Flags, MetadataChange
      <2>2. QED
            BY <1>1, <2>1 DEF Flags, MetadataChange
<1>2. CASE OnChange
      <2>1. Flags'
            BY <1>2, Zenon DEF Flags, OnChange, Add
      <2>2. QED
            BY <1>2, <2>1 DEF Flags, OnChange, Add
<1>3. CASE LookForCertUpdates
      <2>1. Flags'
            BY <1>3, Zenon DEF Flags, LookForCertUpdates, Add
      <2>2. QED
            BY <1>3, <2>1 DEF Flags, LookForCertUpdates, Add
<1>4. CASE WorkerGet
      <2>1. Flags'
            BY <1>4, Zenon DEF Flags, WorkerGet, Get
      <2>2. QED
            BY <1>4, <2>1 DEF Flags, WorkerGet, Get
<1>5. CASE SyncSkip
      <2>1. Flags'
            BY <1>5, Zenon DEF Flags, SyncSkip
      <2>2. QED
            BY <1>5, <2>1 DEF Flags, SyncSkip
<1>6. CASE SyncStart
      <2>1. Flags'
            BY <1>6, Zenon DEF Flags, SyncStart
      <2>2. QED
            BY <1>6, <2>1 DEF Flags, SyncStart
<1>7. CASE Collect
      <2>1. Flags'
            BY <1>7, Zenon DEF Flags, Collect
      <2>2. QED
            BY <1>7, <2>1 DEF Flags, Collect
<1>8. CASE Resolve
      <2>1. CASE /\ cfg' = [cfg EXCEPT !.hi = meta]
                 /\ wpc' = "apply"
                 /\ UNCHANGED failed
            \* The snapshot read at Collect is completed with the metadata
            \* version read now; if nothing changed meanwhile it is fresh.
            <3>1. Flags'
                  BY <1>8, <2>1, Zenon DEF Flags, Resolve
            <3>2. cfg' = [lo |-> cfg.lo, hi |-> meta, cert |-> cfg.cert]
                  BY <2>1, Zenon
            <3>3. (cfg.lo = meta /\ cfg.cert = cert) => cfg' = Fresh'
                  BY <1>8, <3>2 DEF Resolve
            <3>4. cfg' \in Config
                  BY <3>2
            <3>5. ~shutdown' => WorkerCovers'
                  <4>0. SUFFICES ASSUME ~shutdown' PROVE WorkerCovers'
                        OBVIOUS
                  <4>1. CASE seen # meta \/ dirty \/ RequeuePending
                        BY <1>8, <4>1 DEF Resolve
                  <4>2. CASE cfg.lo = meta /\ cfg.cert = cert
                        BY <1>8, <2>1, <3>3, <4>2 DEF Resolve
                  <4>3. wpc = "resolve" /\ ~shutdown
                        BY <1>8, <4>0 DEF Resolve
                  <4>4. QED
                        BY <4>1, <4>2, <4>3
            <3>6. QED
                  BY <1>8, <2>1, <3>1, <3>4, <3>5 DEF Flags, Resolve
      <2>2. CASE /\ failures < MaxFailures
                 /\ failed' = TRUE
                 /\ wpc' = "finish"
                 /\ UNCHANGED cfg
            <3>1. Flags'
                  BY <1>8, <2>2, Zenon DEF Flags, Resolve
            <3>2. QED
                  BY <1>8, <2>2, <3>1 DEF Flags, Resolve
      <2>3. QED
            BY <1>8, <2>1, <2>2 DEF Resolve
<1>9. CASE ApplyConfig
      <2>1. Flags'
            BY <1>9, Zenon DEF Flags, ApplyConfig
      <2>2. QED
            BY <1>9, <2>1 DEF Flags, ApplyConfig
<1>10. CASE SyncFinish
       <2>1. Flags'
             BY <1>10, Zenon DEF Flags, SyncFinish
       <2>2. CASE failed
             \* The failed tick has spawned the requeue goroutine numbered
             \* failures + 1, which is now pending.
             <3>1. failures + 1 \in Goroutines
                   BY <2>2
             <3>2. rq' = [rq EXCEPT ![failures + 1] = "read"]
                   BY <1>10, <2>2 DEF SyncFinish
             <3>3. rq' \in [Goroutines -> RequeuePCs] /\ rq'[failures + 1] = "read"
                   BY <3>1, <3>2
             <3>4. RequeuePending'
                   BY <3>1, <3>3
             <3>5. TypeOK'
                   BY <1>10, <2>1, <2>2, <3>3 DEF Flags, SyncFinish
             <3>6. QueueConsistent' /\ seen' <= meta'
                   BY <1>10 DEF SyncFinish
             <3>7. ~failed'
                   BY <1>10 DEF SyncFinish
             <3>8. WorkerCovers'
                   BY <3>4
             <3>9. QED
                   BY <3>5, <3>6, <3>7, <3>8
       <2>3. CASE ~failed
             BY <1>10, <2>1, <2>3 DEF Flags, SyncFinish
       <2>4. QED
             BY <2>2, <2>3
<1>11. CASE WorkerDone
       <2>1. Flags'
             BY <1>11, Zenon DEF Flags, WorkerDone, Done
       <2>2. QED
             BY <1>11, <2>1 DEF Flags, WorkerDone, Done
<1>12. ASSUME NEW g \in Goroutines, Requeue(g) PROVE QueueInv'
       <2>1. CASE RequeueRead(g)
             <3>1. Flags'
                   <4>1. /\ dirty' = dirty /\ processing' = processing
                         /\ failed' = failed /\ tickAfterClose' = tickAfterClose
                         /\ shutdown' = shutdown /\ stopClosed' = stopClosed
                         /\ providerStopped' = providerStopped /\ stopRet' = stopRet
                         BY <2>1 DEF RequeueRead, queueVars, workerVars, stopVars
                   <4>2. QED
                         BY <4>1, Zenon DEF Flags
             <3>2. QED
                   BY <2>1, <3>1 DEF Flags, RequeueRead
       <2>2. CASE RequeueWrite(g)
             <3>1. Flags'
                   BY <2>2, Zenon DEF Flags, RequeueWrite
             <3>2. backoff' \in Nat
                   <4>1. rqTmp[g] \in Nat /\ BackoffInterval \in Nat
                         BY <1>12
                   <4>2. QED
                         BY <2>2, <4>1, SMT DEF RequeueWrite
             <3>3. RequeuePending /\ RequeuePending'
                   BY <1>12, <2>2 DEF RequeueWrite
             <3>4. QED
                   BY <2>2, <3>1, <3>2, <3>3 DEF Flags, RequeueWrite
       <2>3. CASE RequeueAdd(g)
             <3>1. Flags'
                   BY <2>3, Zenon DEF Flags, RequeueAdd, Add
             <3>2. QED
                   BY <2>3, <3>1 DEF Flags, RequeueAdd, Add
       <2>4. QED BY <1>12, <2>1, <2>2, <2>3 DEF Requeue
<1>13. CASE StopAlreadyShutdown
       <2>1. Flags'
             BY <1>13, Zenon DEF Flags, StopAlreadyShutdown
       <2>2. QED
             BY <1>13, <2>1 DEF Flags, StopAlreadyShutdown
<1>14. CASE StopBegin
       <2>1. Flags'
             BY <1>14, Zenon DEF Flags, StopBegin
       <2>2. QED
             BY <1>14, <2>1 DEF Flags, StopBegin
<1>15. CASE StopProvider
       <2>1. Flags'
             <3>1. CASE providerStopped' = TRUE /\ UNCHANGED stopRet
                   BY <1>15, <3>1, Zenon DEF Flags, StopProvider
             <3>2. CASE stopRet' = [did |-> FALSE, err |-> TRUE]
                   BY <1>15, <3>2, Zenon DEF Flags, StopProvider
             <3>3. QED
                   BY <1>15, <3>1, <3>2 DEF StopProvider
       <2>2. QED
             BY <1>15, <2>1 DEF Flags, StopProvider
<1>16. CASE StopClose
       <2>1. Flags'
             BY <1>16, Zenon DEF Flags, StopClose
       <2>2. QED
             BY <1>16, <2>1 DEF Flags, StopClose
<1>17. CASE StopFlag
       <2>1. Flags'
             BY <1>17, Zenon DEF Flags, StopFlag
       <2>2. QED
             BY <1>17, <2>1 DEF Flags, StopFlag
<1>18. CASE UNCHANGED vars
       BY <1>18
<1>19. QED
       BY <1>1, <1>2, <1>3, <1>4, <1>5, <1>6, <1>7, <1>8, <1>9, <1>10, <1>11, <1>12, <1>13, <1>14, <1>15, <1>16, <1>17, <1>18
       DEF Next, Worker, Stopper

\* The initial state orders the (empty) applied config before the inputs.
LEMMA InitOrdered == Init => AppliedOrdered
BY DEF Init, NoConfig, AppliedOrdered

\* Every step keeps the applied config, the running tick's config and the
\* inputs in order: the worker alone writes cfg and applied, Collect reads
\* inputs no older than the applied config, and ApplyConfig hands over a
\* config read from inputs that existed.
LEMMA NextOrdered == QueueInv /\ AppliedOrdered /\ [Next]_vars => AppliedOrdered'
<1> SUFFICES ASSUME QueueInv, AppliedOrdered, [Next]_vars
             PROVE AppliedOrdered'
    OBVIOUS
<1> USE DEF AppliedOrdered
\* The steps that leave the inputs, cfg, applied and wpc alone.
<1>1. CASE UNCHANGED <<meta, cert, cfg, applied, wpc>>
      BY <1>1
\* The steps that move the worker to a state outside resolve/apply and
\* leave the inputs and applied alone.
<1>2. CASE /\ UNCHANGED <<meta, cert, applied>>
           /\ wpc' \notin {"resolve", "apply"}
      BY <1>2
<1>3. CASE MetadataChange
      BY <1>3 DEF MetadataChange
<1>4. CASE LookForCertUpdates
      BY <1>4 DEF LookForCertUpdates
<1>5. CASE Collect
      BY <1>5 DEF Collect
<1>6. CASE Resolve
      <2>1. CASE /\ cfg' = [cfg EXCEPT !.hi = meta]
                 /\ wpc' = "apply"
            <3>1. cfg' = [lo |-> cfg.lo, hi |-> meta, cert |-> cfg.cert]
                  BY <2>1, Zenon
            <3>2. /\ wpc = "resolve"
                  /\ UNCHANGED <<meta, cert, applied>>
                  BY <1>6 DEF Resolve
            \* The tick read lo at Collect, and the store has only grown.
            <3>3. /\ applied.hi <= cfg.lo
                  /\ applied.cert <= cfg.cert
                  /\ cfg.lo <= meta
                  /\ cfg.cert <= cert
                  BY <3>2
            <3>4. QED
                  BY <2>1, <3>1, <3>2, <3>3
      <2>2. CASE wpc' = "finish"
            BY <1>6, <2>2 DEF Resolve
      <2>3. QED
            BY <1>6, <2>1, <2>2 DEF Resolve
<1>7. CASE ApplyConfig
      BY <1>7 DEF ApplyConfig
<1>8. QED
      <2>1. CASE WorkerGet \/ SyncSkip \/ SyncStart \/ SyncFinish \/ WorkerDone
            BY <2>1, <1>2
            DEF WorkerGet, SyncSkip, SyncStart, SyncFinish, WorkerDone
      <2>2. CASE OnChange \/ (\E g \in Goroutines : Requeue(g)) \/ Stopper
            BY <2>2, <1>1
            DEF OnChange, Add, Requeue, RequeueRead, RequeueWrite, RequeueAdd,
                Stopper, StopAlreadyShutdown, StopBegin, StopProvider,
                StopClose, StopFlag
      <2>3. QED
            BY <1>1, <1>3, <1>4, <1>5, <1>6, <1>7, <2>1, <2>2 DEF Next, Worker

\* ReconcileInv holds in every reachable state.
THEOREM ReconcileInvariant == Spec => []ReconcileInv
<1>1. Init => ReconcileInv
      BY InitInv, InitOrdered DEF ReconcileInv
<1>2. ReconcileInv /\ [Next]_vars => ReconcileInv'
      BY NextInv, NextOrdered DEF ReconcileInv
<1>3. QED
      BY <1>1, <1>2, PTL DEF Spec
-----------------------------------------------------------------------------

\* Every variable of the reconcile loop keeps its type.
THEOREM TypeCorrect == Spec => []TypeOK
BY ReconcileInvariant, PTL DEF ReconcileInv

\* A quiescent running controller has applied the config of the current
\* metadata and certificates: no change is lost between OnChange, the task
\* queue and sync.
THEOREM NoLostWakeupHolds == Spec => []NoLostWakeup
<1>1. ReconcileInv => NoLostWakeup
      BY DEF ReconcileInv, NoLostWakeup
<1>2. QED BY <1>1, ReconcileInvariant, PTL

-----------------------------------------------------------------------------
(* Refinement: the loop implements ProviderView.                           *)

\* Every step of the loop is a step of ProviderView on meta, cert and
\* applied, or leaves the three alone.
LEMMA StepRefines == ReconcileInv /\ [Next]_vars => [PV!PNext]_PV!pvars
<1> SUFFICES ASSUME ReconcileInv, [Next]_vars PROVE [PV!PNext]_PV!pvars
    OBVIOUS
<1>1. CASE MetadataChange
      BY <1>1 DEF MetadataChange, PV!PNext, PV!ChangeMetadata
<1>2. CASE LookForCertUpdates
      BY <1>2 DEF LookForCertUpdates, Add, PV!PNext, PV!ChangeCerts
<1>3. CASE ApplyConfig
      <2>1. CASE applied' = cfg
            \* The config handed to the provider is the one the tick built;
            \* AppliedOrdered says it is a successor of the applied one.
            <3>1. wpc = "apply" /\ UNCHANGED <<meta, cert>>
                  BY <1>3 DEF ApplyConfig
            <3>2. cfg \in PV!Config
                  BY DEF ReconcileInv, PV!Config, PV!Versions
            <3>3. PV!Successor(applied, cfg, meta, cert)
                  BY <3>1 DEF ReconcileInv, AppliedOrdered, PV!Successor
            <3>4. PV!ApplyNewer
                  BY <2>1, <3>1, <3>2, <3>3 DEF PV!ApplyNewer
            <3>5. QED
                  BY <3>4 DEF PV!PNext
      <2>2. CASE UNCHANGED applied
            BY <1>3, <2>2 DEF ApplyConfig, PV!pvars
      <2>3. QED
            BY <1>3, <2>1, <2>2 DEF ApplyConfig
<1>4. CASE UNCHANGED <<meta, cert, applied>>
      BY <1>4 DEF PV!pvars
<1>5. QED
      <2>1. CASE \/ OnChange \/ WorkerGet \/ SyncSkip \/ SyncStart \/ Collect
                 \/ Resolve \/ SyncFinish \/ WorkerDone
            BY <2>1, <1>4
            DEF OnChange, Add, WorkerGet, Get, SyncSkip, SyncStart, Collect,
                Resolve, SyncFinish, WorkerDone, Done
      <2>2. CASE (\E g \in Goroutines : Requeue(g)) \/ Stopper
            BY <2>2, <1>4
            DEF Requeue, RequeueRead, RequeueWrite, RequeueAdd, Add, Stopper,
                StopAlreadyShutdown, StopBegin, StopProvider, StopClose,
                StopFlag
      <2>3. QED
            BY <1>1, <1>2, <1>3, <1>4, <2>1, <2>2 DEF Next, Worker

\* The reconcile loop implements ProviderView (ProviderSpec) for every value
\* of the constants: metadata and certificates only move forward, and every
\* config LBProvider.ApplyConfig accepts was read from inputs that existed
\* and is no older than the one applied before it.
THEOREM RefinesProviderView == Spec => ProviderSpec
<1>1. Init => PV!PInit
      BY DEF Init, NoConfig, PV!PInit, PV!NoConfig
<1>2. QED
      BY <1>1, StepRefines, ReconcileInvariant, PTL
      DEF Spec, ProviderSpec, PV!PSpec

=============================================================================
