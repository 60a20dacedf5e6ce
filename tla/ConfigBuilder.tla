---------------------------- MODULE ConfigBuilder ----------------------------
(***************************************************************************)
(* BuildConfigFromMetadata (part_000:270-449): the certificates, then one  *)
(* step per port rule of the loop at lines 312-423, then the sort of       *)
(* backends and frontends and ProcessCustomConfig.  The variable rev picks *)
(* the revision: "current" (part_000), "earlier" (rancher.go:206-391, the  *)
(* same code but for logging; its resolution does not drain) or            *)
(* "earliest" (rancher.go:996-1199: other certificate sources, SplitN      *)
(* links, no drain and no weights).  The line numbers below are           *)
(* part_000's; the earlier revision has the same lines 64 lower up to line *)
(* 330 and 58 lower after it (with logging lines in between).             *)
(*                                                                         *)
(* Host names, paths, backend names and the generated ids are sequences of *)
(* characters, because the identity key (pathUUID, line 383) and the UUID *)
(* derived from it (line 399) are strings the code builds and rewrites.    *)
(* Ports are single digits, so strconv.Itoa(port) is one character.        *)
(* Endpoint resolution is EndpointResolver's.                              *)
(***************************************************************************)
EXTENDS EndpointResolver

CONSTANTS
    Revisions,        \* the revisions of the code the runs explore
    Snapshots,        \* metadata snapshots the fetcher can answer from
    RuleLists,        \* lbMeta.PortRules the self service can carry
    Prefs,            \* localServicePreference values GetLBConfigs passes
    SelfHosts,        \* selfHostUUID values GetLBConfigs passes
    EnvUUID,          \* the self service's EnvironmentUUID
    DefCertChoices,   \* results of FetchCertificates(lbMeta, true)
    AltCertChoices    \* results of FetchCertificates(lbMeta, false)

\* No link in PortRule.Service.
NoLink == ""

\* A nil *config.Certificate.
NilCert == "nilcert"

VARIABLES
    rev,      \* the revision of the code
    md,       \* the metadata snapshot the fetchers answer from
    rules,    \* lbMeta.PortRules
    pref,     \* localServicePreference
    self,     \* selfHostUUID
    pc,       \* "certs", "loop", "done", "error" or "crash"
    i,        \* index of the rule the loop is at
    fmap,     \* frontendsMap: Itoa(port) -> frontend
    allBe,    \* allBe: pathUUID -> backend
    allEps,   \* allEps: pathUUID -> set of endpoint IPs
    certs,    \* certs
    defCert,  \* defaultCert
    out,      \* the sorted frontends of the returned config
    placed    \* history: rule index -> [key, ips] for each rule that reached line 422

inputVars == <<rev, md, rules, pref, self>>
vars == <<rev, md, rules, pref, self, pc, i, fmap, allBe, allEps, certs, defCert, out,
          placed>>

-----------------------------------------------------------------------------
(* Strings.                                                                *)

\* Byte values of the characters the model's strings use.
Code ==
    ("*" :> 42) @@ ("-" :> 45) @@ ("." :> 46) @@ ("/" :> 47) @@
    ("0" :> 48) @@ ("1" :> 49) @@ ("2" :> 50) @@ ("3" :> 51) @@
    ("_" :> 95) @@ ("a" :> 97) @@ ("b" :> 98)

Digit == <<"1", "2", "3">>

\* The characters of host names and paths.
Chars == DOMAIN Code

IsAlnum(c) ==
    \/ Code[c] \in 48..57
    \/ Code[c] \in 65..90
    \/ Code[c] \in 97..122

\* strconv.Itoa for the single-digit ports of the model.
Itoa(p) == <<Digit[p]>>

\* Byte-wise string order, as Go compares strings.
StrLess(a, b) ==
    \E k \in 0..Len(a) :
       /\ k <= Len(b)
       /\ SubSeq(a, 1, k) = SubSeq(b, 1, k)
       /\ \/ k = Len(a) /\ k < Len(b)
          \/ k < Len(a) /\ k < Len(b) /\ Code[a[k + 1]] < Code[b[k + 1]]

\* reg.ReplaceAllString(s, "_") with reg = [^A-Za-z0-9]+: every maximal run
\* of other characters becomes one "_".
ReplaceNonAlnum(s) ==
    LET keep(k) == IsAlnum(s[k]) \/ k = 1 \/ IsAlnum(s[k - 1])
        idx == SelectSeq([k \in 1..Len(s) |-> k], keep)
    IN  [j \in 1..Len(idx) |-> IF IsAlnum(s[idx[j]]) THEN s[idx[j]] ELSE "_"]

\* lbMeta.PortRules is a slice whose Hostname and Path are strings, and
\* FetchCertificates returns a slice.  The alternate certificates are
\* appended as they come (lines 296-300) with no nil check, so that the
\* fetcher (not under src/) returns no nil among them is assumed here.
ASSUME InputsAssumption ==
    /\ \A rl \in RuleLists :
          /\ rl \in Seq(Range(rl))
          /\ \A j \in 1..Len(rl) : rl[j].host \in Seq(Chars) /\ rl[j].path \in Seq(Chars)
    /\ \A c \in DefCertChoices \cup AltCertChoices : c \in Seq(Range(c))
    /\ \A c \in AltCertChoices : NilCert \notin Range(c)

-----------------------------------------------------------------------------
(* One rule.                                                               *)

\* m[a] = b on a Go map m.
MapPut(m, a, b) == [y \in {a} \cup DOMAIN m |-> IF y = a THEN b ELSE m[y]]

HttpProtos == {"http", "https", "sni"}

\* Lines 365-381: hostname and path are cleared for non-HTTP protocols; a
\* host name longer than 2 loses a leading "*" (comparator end) or else a
\* trailing "*" (comparator beg).
Normalize(r) ==
    LET h == IF r.proto \in HttpProtos THEN r.host ELSE <<>>
        p == IF r.proto \in HttpProtos THEN r.path ELSE <<>>
    IN  CASE Len(h) > 2 /\ h[1] = "*" ->
               [host |-> Tail(h), path |-> p, cmp |-> "end"]
          [] Len(h) > 2 /\ h[Len(h)] = "*" ->
               [host |-> SubSeq(h, 1, Len(h) - 1), path |-> p, cmp |-> "beg"]
          [] OTHER ->
               [host |-> h, path |-> p, cmp |-> "eq"]

\* Mutant: the identity key leaves out the source port.
PathUUIDNoPort(r) ==
    LET n == Normalize(r)
    IN  <<"_">> \o n.host \o <<"_">> \o n.path

\* fmt.Sprintf("%v_%s_%s", rule.SourcePort, hostname, path).
PathUUID(r) ==
    LET n == Normalize(r)
    IN  Itoa(r.port) \o <<"_">> \o n.host \o <<"_">> \o n.path

\* Lines 396-400: the backend name, or the pathUUID with non-alphanumerics
\* replaced.
BackendUUID(r) ==
    IF r.bname # <<>> THEN r.bname ELSE ReplaceNonAlnum(PathUUID(r))

IPs(eps) == {eps[j].ip : j \in 1..Len(eps)}

\* ep.Weight = rule.Weight on every endpoint (lines 391 and 417); the
\* earliest revision sets no weight (rancher.go:1138-1143, 1164-1166).
Weighted(eps, w) ==
    IF rev # "earliest" THEN [j \in 1..Len(eps) |-> [eps[j] EXCEPT !.weight = w]]
    ELSE eps

\* Mutant: the epMap test of line 389 inverted.
FreshEndpointsInverted(eps, epMap) == SelectSeq(eps, LAMBDA e : e.ip \in epMap)

\* Lines 388-394: the endpoints whose IP is not yet in epMap, each IP once.
FreshEndpoints(eps, epMap) ==
    LET new(k) == eps[k].ip \notin epMap /\ \A j \in 1..k - 1 : eps[j].ip # eps[k].ip
        idx == SelectSeq([k \in 1..Len(eps) |-> k], new)
    IN  [j \in 1..Len(idx) |-> eps[idx[j]]]

\* The outcomes of lines 330-363 for rule r.
RuleOutcomes(r) ==
    IF r.svc # NoLink
    THEN ServiceRuleOutcomes(rev, md, r.svc, r.tp, self, pref)
    ELSE ContainerRuleOutcomes(rev, md, EnvUUID, r.ctr, r.tp)

-----------------------------------------------------------------------------
(* Actions.                                                                *)

\* Mutant: the default certificate is appended without the nil check.
FetchCertsKeepNil ==
    /\ pc = "certs"
    /\ rev # "earliest"
    /\ \E def \in DefCertChoices, alt \in AltCertChoices :
          \/ pc' = "error" /\ UNCHANGED <<certs, defCert>>
          \/ /\ defCert' = IF def # <<>> THEN def[1] ELSE NilCert
             /\ certs' = def \o alt
             /\ pc' = "loop"
    /\ UNCHANGED <<inputVars, i, fmap, allBe, allEps, out, placed>>

\* Lines 270-310: both FetchCertificates calls; the default certificate
\* leads the list unless it is nil.
FetchCerts ==
    /\ pc = "certs"
    /\ rev # "earliest"
    /\ \E def \in DefCertChoices, alt \in AltCertChoices :
          \/ pc' = "error" /\ UNCHANGED <<certs, defCert>>
          \/ /\ defCert' = IF def # <<>> THEN def[1] ELSE NilCert
             /\ certs' = (IF def # <<>> /\ def[1] # NilCert THEN <<def[1]>> ELSE <<>>)
                         \o alt
             /\ pc' = "loop"
    /\ UNCHANGED <<inputVars, i, fmap, allBe, allEps, out, placed>>

\* rancher.go:1008-1052: with a cert_dir or default_cert_dir label, the
\* default certificate (if that label is set) and then the directory's
\* certificates; without, FetchCertificate of each name of lbMeta.Certs and
\* then of lbMeta.DefaultCert, which comes last.  Each read may fail, and a
\* nil default certificate is left out.
FetchCertsEarliest ==
    /\ pc = "certs"
    /\ rev = "earliest"
    /\ \E def \in DefCertChoices, alt \in AltCertChoices, fromDir \in BOOLEAN :
          LET dc == IF def # <<>> THEN def[1] ELSE NilCert
              lead == IF dc # NilCert THEN <<dc>> ELSE <<>>
          IN  \/ pc' = "error" /\ UNCHANGED <<certs, defCert>>
              \/ /\ defCert' = dc
                 /\ certs' = IF fromDir THEN lead \o alt ELSE alt \o lead
                 /\ pc' = "loop"
    /\ UNCHANGED <<inputVars, i, fmap, allBe, allEps, out, placed>>

\* Line 313: a rule without a source port is passed over.
RuleNoPort ==
    /\ pc = "loop"
    /\ i <= Len(rules)
    /\ rules[i].port < 1
    /\ i' = i + 1
    /\ UNCHANGED <<inputVars, pc, fmap, allBe, allEps, certs, defCert, out, placed>>

\* Lines 335-337, 342-344, 351-353: a metadata call fails and the build
\* returns the error; an alias cycle overflows the stack.
RuleFails ==
    /\ pc = "loop"
    /\ i <= Len(rules)
    /\ rules[i].port >= 1
    /\ \E o \in RuleOutcomes(rules[i]) \cap {Err, Crash} :
          pc' = IF o = Err THEN "error" ELSE "crash"
    /\ UNCHANGED <<inputVars, i, fmap, allBe, allEps, certs, defCert, out, placed>>

\* Mutant: the frontend is stored before the skip, as if line 422 came
\* before the continue statements.
RuleSkippedStoresFrontend ==
    /\ pc = "loop"
    /\ i <= Len(rules)
    /\ rules[i].port >= 1
    /\ Skip \in RuleOutcomes(rules[i])
    /\ LET r == rules[i]
           name == Itoa(r.port)
       IN  fmap' = IF name \in DOMAIN fmap THEN fmap
                   ELSE MapPut(fmap, name, [name |-> name, port |-> r.port, proto |-> r.proto,
                                             bes |-> <<>>])
    /\ i' = i + 1
    /\ UNCHANGED <<inputVars, pc, allBe, allEps, certs, defCert, out, placed>>

\* Lines 338-340 and 355-357: an inactive service or a container without
\* an endpoint drops the rule, and a frontend created for it is not stored.
RuleSkipped ==
    /\ pc = "loop"
    /\ i <= Len(rules)
    /\ rules[i].port >= 1
    /\ Skip \in RuleOutcomes(rules[i])
    /\ i' = i + 1
    /\ UNCHANGED <<inputVars, pc, fmap, allBe, allEps, certs, defCert, out, placed>>

\* Mutant: a merge appends the endpoints but leaves epMap as it was.
PlaceNoIndexUpdate(r, eps) ==
    LET n == Normalize(r)
        k == PathUUID(r)
        name == Itoa(r.port)
        fe == IF name \in DOMAIN fmap THEN fmap[name]
              ELSE [name |-> name, port |-> r.port, proto |-> r.proto, bes |-> <<>>]
        be == [uuid |-> BackendUUID(r), host |-> n.host, path |-> n.path,
               port |-> r.tp, proto |-> r.proto, cmp |-> n.cmp,
               eps |-> Weighted(eps, r.weight), prio |-> r.prio]
    IN  IF k \in DOMAIN allBe
        THEN /\ allBe' = [allBe EXCEPT ![k].eps =
                            @ \o Weighted(FreshEndpoints(eps, allEps[k]), r.weight)]
             /\ allEps' = allEps
             /\ fmap' = MapPut(fmap, name, fe)
        ELSE /\ allBe' = MapPut(allBe, k, be)
             /\ allEps' = MapPut(allEps, k, IPs(eps))
             /\ fmap' = MapPut(fmap, name, [fe EXCEPT !.bes = Append(@, k)])

\* Mutant: a merge rebuilds the backend from the later rule, as if the
\* backend of line 384 were always created anew.
PlaceRebuildBackend(r, eps) ==
    LET n == Normalize(r)
        k == PathUUID(r)
        name == Itoa(r.port)
        fe == IF name \in DOMAIN fmap THEN fmap[name]
              ELSE [name |-> name, port |-> r.port, proto |-> r.proto, bes |-> <<>>]
        be == [uuid |-> BackendUUID(r), host |-> n.host, path |-> n.path,
               port |-> r.tp, proto |-> r.proto, cmp |-> n.cmp,
               eps |-> Weighted(eps, r.weight), prio |-> r.prio]
    IN  IF k \in DOMAIN allBe
        THEN /\ allBe' = [allBe EXCEPT ![k] =
                            [be EXCEPT !.eps = allBe[k].eps
                                         \o Weighted(FreshEndpoints(eps, allEps[k]), r.weight)]]
             /\ allEps' = [allEps EXCEPT ![k] = @ \cup IPs(eps)]
             /\ fmap' = MapPut(fmap, name, fe)
        ELSE /\ allBe' = MapPut(allBe, k, be)
             /\ allEps' = MapPut(allEps, k, IPs(eps))
             /\ fmap' = MapPut(fmap, name, [fe EXCEPT !.bes = Append(@, k)])

\* Lines 316-328 and 365-422 for a rule whose endpoints are eps: the
\* frontend of its source port (the first rule's protocol wins), then either
\* the new endpoints merged into the backend of its pathUUID, or a new
\* backend; all endpoints get the rule's weight.
Place(r, eps) ==
    LET n == Normalize(r)
        k == PathUUID(r)
        name == Itoa(r.port)
        fe == IF name \in DOMAIN fmap THEN fmap[name]
              ELSE [name |-> name, port |-> r.port, proto |-> r.proto, bes |-> <<>>]
        be == [uuid |-> BackendUUID(r), host |-> n.host, path |-> n.path,
               port |-> r.tp, proto |-> r.proto, cmp |-> n.cmp,
               eps |-> Weighted(eps, r.weight), prio |-> r.prio]
    IN  IF k \in DOMAIN allBe
        THEN /\ allBe' = [allBe EXCEPT ![k].eps =
                            @ \o Weighted(FreshEndpoints(eps, allEps[k]), r.weight)]
             /\ allEps' = [allEps EXCEPT ![k] = @ \cup IPs(eps)]
             /\ fmap' = MapPut(fmap, name, fe)
        ELSE /\ allBe' = MapPut(allBe, k, be)
             /\ allEps' = MapPut(allEps, k, IPs(eps))
             /\ fmap' = MapPut(fmap, name, [fe EXCEPT !.bes = Append(@, k)])

RulePlaced ==
    /\ pc = "loop"
    /\ i <= Len(rules)
    /\ rules[i].port >= 1
    /\ \E o \in RuleOutcomes(rules[i]) \ {Err, Crash, Skip} :
          /\ Place(rules[i], o.eps)
          /\ placed' = MapPut(placed, i, [key |-> PathUUID(rules[i]), ips |-> IPs(o.eps)])
    /\ i' = i + 1
    /\ UNCHANGED <<inputVars, pc, certs, defCert, out>>

\* config.BackendServices.Less (spec 4.3.1): priority, then comparator
\* (eq, beg, end), then UUID.
CmpRank == [eq |-> 0, beg |-> 1, end |-> 2]

BackendLess(a, b) ==
    \/ a.prio < b.prio
    \/ a.prio = b.prio /\ CmpRank[a.cmp] < CmpRank[b.cmp]
    \/ a.prio = b.prio /\ a.cmp = b.cmp /\ StrLess(a.uuid, b.uuid)

\* config.FrontendServices.Less: by port.
FrontendLess(a, b) == a.port < b.port

\* Lines 425-448: the backends of each frontend sorted, the frontends taken
\* from the map in any order and sorted, then ProcessCustomConfig, which
\* may fail.
Finish ==
    /\ pc = "loop"
    /\ i > Len(rules)
    /\ LET sortedFe(f) == [f EXCEPT !.bes =
                             SortStable([j \in 1..Len(f.bes) |-> allBe[f.bes[j]]],
                                        BackendLess)]
           fes == SetToSeq({sortedFe(fmap[nm]) : nm \in DOMAIN fmap})
       IN  out' = SortStable(fes, FrontendLess)
    /\ pc' \in {"done", "error"}
    /\ UNCHANGED <<inputVars, i, fmap, allBe, allEps, certs, defCert, placed>>

Init ==
    /\ rev \in Revisions
    /\ md \in Snapshots
    /\ rules \in RuleLists
    /\ pref \in Prefs
    /\ self \in SelfHosts
    /\ pc = "certs"
    /\ i = 1
    /\ fmap = <<>>
    /\ allBe = <<>>
    /\ allEps = <<>>
    /\ certs = <<>>
    /\ defCert = NilCert
    /\ out = <<>>
    /\ placed = <<>>

Next ==
    \/ FetchCerts
    \/ FetchCertsEarliest
    \/ RuleNoPort
    \/ RuleFails
    \/ RuleSkipped
    \/ RulePlaced
    \/ Finish

Spec == Init /\ [][Next]_vars

-----------------------------------------------------------------------------
(* Properties.                                                             *)

\* The certificates FetchCertificates can return, other than nil.
CertNames == ((UNION {Range(a) : a \in AltCertChoices}) \cup
              (UNION {Range(d) : d \in DefCertChoices})) \ {NilCert}

\* Type invariant; in particular a nil default certificate never enters the
\* certificate list (the nil check at line 291).
TypeOK ==
    /\ pc \in {"certs", "loop", "done", "error", "crash"}
    /\ i \in 1..Len(rules) + 1
    /\ DOMAIN placed \subseteq 1..i - 1
    /\ certs \in Seq(CertNames)
    /\ defCert \in CertNames \cup {NilCert}
    /\ DOMAIN allEps = DOMAIN allBe

\* The indices of the rules placed on the frontend named nm.
PlacedOn(nm) == {j \in DOMAIN placed : Itoa(rules[j].port) = nm}

\* allEps, the IP index the merge at lines 386-394 consults, is exactly the
\* set of IPs of its backend: a later rule never re-adds an IP the backend
\* has, and never misses one it lacks.
EndpointIndexConsistent ==
    \A k \in DOMAIN allBe : allEps[k] = IPs(allBe[k].eps)

\* Every endpoint of every rule that reached line 422 is behind the backend
\* of the rule's identity triple, whether the rule created it or was merged
\* into it (spec scenario S5).
MergedRulesCovered ==
    \A j \in DOMAIN placed :
       /\ placed[j].key \in DOMAIN allBe
       /\ placed[j].ips \subseteq IPs(allBe[placed[j].key].eps)

\* One frontend per source port of a placed rule, and each frontend lists
\* each backend of its port's pathUUID keys exactly once (spec I1, I2 and
\* property 8.3): the shared *BackendService of line 403 is never attached
\* twice or to another port's frontend.  The key is the string of line 383,
\* not the triple spec I2 names: two rules whose triples differ only in
\* where a '_' falls between host and path share one key and one backend.
BackendsPerIdentity ==
    /\ DOMAIN fmap = {Itoa(rules[j].port) : j \in DOMAIN placed}
    /\ DOMAIN allBe = {placed[j].key : j \in DOMAIN placed}
    /\ \A nm \in DOMAIN fmap :
          /\ IsInjective(fmap[nm].bes)
          /\ Range(fmap[nm].bes) = {placed[j].key : j \in PlacedOn(nm)}

\* TestSelectorMatch1 (rancher_regions_test.go:36-83) builds two rules on
\* source port 45 with the same empty host and path that name different
\* services and expects the frontend to list two backends (line 70): rules
\* that reach line 422 naming different service links have different
\* backends.  The code merges them under one pathUUID (lines 383-394).
BackendPerService ==
    \A j, k \in DOMAIN placed :
       rules[j].svc # rules[k].svc => placed[j].key # placed[k].key

\* A backend, once created, keeps its key and its configuration: the merge
\* of lines 386-394 writes only the endpoint list, so a later rule with the
\* same pathUUID but another BackendName, TargetPort or Priority changes
\* nothing of the backend (spec 4.3 step 2e).
BackendConfigKept ==
    \A k \in DOMAIN allBe :
       /\ k \in DOMAIN allBe'
       /\ \A f \in DOMAIN allBe[k] \ {"eps"} : allBe'[k][f] = allBe[k][f]

\* The endpoints already in a backend stay first, in their order and with
\* the weight they were added with: only newly added endpoints get the
\* later rule's weight (spec 4.3 step 2e).
EndpointsKept ==
    \A k \in DOMAIN allBe : IsPrefix(allBe[k].eps, allBe'[k].eps)

\* No step of the builder changes a backend other than by appending new
\* endpoints to it.
MergeKeepsBackend == [][BackendConfigKept /\ EndpointsKept]_vars

\* The protocol of a frontend is that of the first rule placed on its port
\* (spec 4.3 step 2a, "the first writer wins"); a rule that was skipped
\* before line 422 does not count.
FirstPlacedProtocolWins ==
    \A nm \in DOMAIN fmap :
       /\ PlacedOn(nm) # {}
       /\ fmap[nm].proto = rules[Min(PlacedOn(nm))].proto

\* Endpoint IPs behind one backend are unique (spec I3 and property 8.4).
EndpointIPsUnique ==
    \A k \in DOMAIN allBe :
       IsInjective([j \in 1..Len(allBe[k].eps) |-> allBe[k].eps[j].ip])

\* An endpoint of a stopping container is emitted with Weight "0" (spec
\* scenario S6).
DrainingWeightKept ==
    \A k \in DOMAIN allBe, j \in 1..Len(md.containers) :
       LET c == md.containers[j] IN
       c.state = "stopping" =>
          \A e \in Range(allBe[k].eps) : e.ip = c.ip => e.weight = "0"

\* A rule whose service link names no service is skipped (spec 4.3 step
\* 2b, the nil check of line 338).
MissingServiceSkipped ==
    \A j \in DOMAIN placed :
       rules[j].svc # NoLink => Resolve(rev, md, rules[j].svc) # Missing

\* The build ends in a config or an error, never in a stack overflow of
\* the alias recursion of getAliasServiceEndpoints (spec 4.2: resolution
\* fails only with metadata errors).
NoStackOverflow == pc # "crash"

=============================================================================
