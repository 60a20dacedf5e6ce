--------------------------- MODULE ProviderView ---------------------------
(***************************************************************************)
(* What the reconcile loop of LoadBalancerController promises the          *)
(* load-balancer provider, with the task queue, the requeue goroutines and *)
(* Stop hidden.  The inputs (the metadata store and the certificate cache) *)
(* only move forward, and each config the provider applies                 *)
(*   - was built from inputs that existed: it read metadata versions       *)
(*     lo .. hi, none newer than the store, and a certificate cache no     *)
(*     newer than the current one;                                         *)
(*   - is never older than the config applied before it: it started        *)
(*     reading metadata no earlier than the previous config finished, and  *)
(*     its certificates are no older.                                      *)
(* ReconcileLoop implements this specification under the mapping that      *)
(* keeps meta, cert and applied (ReconcileLoop!ProviderSpec).              *)
(***************************************************************************)
EXTENDS Naturals

CONSTANT MaxChanges   \* bound on metadata changes and on certificate changes

VARIABLES
    meta,      \* version of the metadata store
    cert,      \* version of the certificate cache
    applied    \* the config the provider last applied successfully

pvars == <<meta, cert, applied>>

Versions == 0..MaxChanges + 1
Config == [lo : Versions, hi : Versions, cert : Versions]
NoConfig == [lo |-> 0, hi |-> 0, cert |-> 0]

\* A config c may follow the applied config old when the store is at
\* version m and the certificate cache at version k.
Successor(old, c, m, k) ==
    /\ old.hi <= c.lo
    /\ c.lo <= c.hi
    /\ c.hi <= m
    /\ old.cert <= c.cert
    /\ c.cert <= k

PInit ==
    /\ meta = 1
    /\ cert = 0
    /\ applied = NoConfig

ChangeMetadata ==
    /\ meta <= MaxChanges
    /\ meta' = meta + 1
    /\ UNCHANGED <<cert, applied>>

ChangeCerts ==
    /\ cert < MaxChanges
    /\ cert' = cert + 1
    /\ UNCHANGED <<meta, applied>>

\* LBProvider.ApplyConfig returns nil for a config built by one tick.
ApplyNewer ==
    /\ \E c \in Config :
          /\ Successor(applied, c, meta, cert)
          /\ applied' = c
    /\ UNCHANGED <<meta, cert>>

PNext == ChangeMetadata \/ ChangeCerts \/ ApplyNewer

PSpec == PInit /\ [][PNext]_pvars
=============================================================================
