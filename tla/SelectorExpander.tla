------------------------- MODULE SelectorExpander -------------------------
(***************************************************************************)
(* processSelector: the port rules of the load balancer with every         *)
(* selector rule replaced by one rule per matching service (or per nested  *)
(* rule of that service), in two revisions of the code, one chosen by Init *)
(* from Revisions (the rule handling of lines 583-646 of part_000 is      *)
(* lines 467-598 of rancher.go):                                           *)
(*   "current"  part_000:575-646 with AddRulesFromRegions (491-559);       *)
(*   "earlier"  rancher.go:447-598, regions inline, with the local region  *)
(*              name.                                                       *)
(* A selector match is the selector's membership in the service's set of   *)
(* matching selectors (IsSelectorMatch is not under src/).  A service link *)
(* is the sequence of its "/"-separated parts.                             *)
(***************************************************************************)
EXTENDS Naturals, Sequences, SequencesExt

CONSTANTS
    Revisions,     \* the revisions a run explores: "current", "earlier"
    RuleLists,     \* lbMeta.PortRules after GetLBMetadata
    Local,         \* what GetServices() returns
    EnvServices,   \* EnvServices[region][env]: the services of env in region
    SelfRegion     \* the name GetRegionName() returns

\* The zero value of a string field of metadata.PortRule.
NoValue == ""

\* f is a finite sequence (of its own values).
IsSeq(f) == f \in Seq(Range(f))

\* A list of metadata.Service whose LB configs' port rules are lists.
IsServiceSeq(ss) == IsSeq(ss) /\ \A i \in 1..Len(ss) : IsSeq(ss[i].nested)

\* The service lists processSelector may read for selector rule R: the
\* environment R.env of the local region, and of R's own region.
Fetchable(R) ==
    {EnvServices[SelfRegion][R.env]} \cup
    (IF R.region # NoValue /\ R.env # NoValue THEN {EnvServices[R.region][R.env]} ELSE {})

\* What the metadata client returns is a list: the port rules, the local
\* services, and the services of every environment a rule names.
ASSUME InputsAssumption ==
    /\ IsServiceSeq(Local)
    /\ \A rl \in RuleLists :
          /\ IsSeq(rl)
          /\ \A i \in 1..Len(rl) : \A ss \in Fetchable(rl[i]) : IsServiceSeq(ss)

VARIABLES
    rev,         \* the revision of processSelector that runs
    lbRules,     \* lbMeta.PortRules on entry
    svcs,        \* the local services read by GetServices
    regionName,  \* the local region name ("earlier" only)
    pc,          \* "fetch", "loop", "region", "done" or "error"
    r,           \* index of the input rule the loop is at
    s,           \* index of the local service the inner loop is at
    ext,         \* the regional services fetched for rule r
    x,           \* index of the regional service the inner loop is at
    out,         \* the rules built so far
    origin       \* history: out[k] was built from lbRules[origin[k]]

vars == <<rev, lbRules, svcs, regionName, pc, r, s, ext, x, out, origin>>

-----------------------------------------------------------------------------

Matches(R, S) == R.sel \in S.labels

\* Mutant: a service without nested rules is always skipped.
ConsideredNestedOnly(R, S) == Matches(R, S) /\ S.nested # <<>>

\* The check at part_000:598-602: a service without nested rules needs the
\* selector rule's target port.
Considered(R, S) == Matches(R, S) /\ ~(S.nested = <<>> /\ R.tp = 0)

\* Mutant: SourcePort taken from the target port of the source rule.
DerivedPortFromTarget(R, src, link, regional) ==
    [port |-> src.tp, proto |-> R.proto, path |-> src.path, host |-> src.host,
     sel |-> NoValue, svc |-> link, ctr |-> NoValue, tp |-> src.tp,
     bname |-> src.bname, prio |-> 0, weight |-> R.weight,
     region |-> IF regional THEN R.region ELSE NoValue,
     env |-> IF regional THEN R.env ELSE NoValue]

\* One metadata.PortRule built from selector rule R for the service link;
\* path, hostname, target port and backend name come from src (a nested
\* rule of the service, or R itself).  The regional expansions also copy
\* Region and Environment.
Derived(R, src, link, regional) ==
    [port |-> R.port, proto |-> R.proto, path |-> src.path, host |-> src.host,
     sel |-> NoValue, svc |-> link, ctr |-> NoValue, tp |-> src.tp,
     bname |-> src.bname, prio |-> 0, weight |-> R.weight,
     region |-> IF regional THEN R.region ELSE NoValue,
     env |-> IF regional THEN R.env ELSE NoValue]

\* The rules a considered service S yields: one per nested rule, or one
\* from R when it has none.
Emitted(R, S, link, regional) ==
    IF S.nested # <<>>
    THEN [j \in 1..Len(S.nested) |-> Derived(R, S.nested[j], link, regional)]
    ELSE <<Derived(R, R, link, regional)>>

\* The link a regional rule R gives service S: region/env/stack/name when R
\* names a region (the earlier revision: a region other than the local
\* one), else env/stack/name, else empty (part_000:518-523,
\* rancher.go:562-566).
RegionalLink(R, S) ==
    IF R.region # NoValue /\ ~(rev = "earlier" /\ R.region = regionName)
    THEN <<R.region, R.env, S.stack, S.name>>
    ELSE IF R.env # NoValue THEN <<R.env, S.stack, S.name>>
    ELSE <<>>

\* Appends the rules xs, all built from input rule r.
Emit(xs) ==
    /\ out' = out \o xs
    /\ origin' = origin \o [j \in 1..Len(xs) |-> r]

-----------------------------------------------------------------------------
(* Actions.                                                                *)

\* part_000:576-581: GetServices.
FetchServices ==
    /\ pc = "fetch"
    /\ rev # "earlier"
    /\ \/ pc' = "error" /\ UNCHANGED svcs
       \/ pc' = "loop" /\ svcs' = Local
    /\ UNCHANGED <<rev, lbRules, regionName, r, s, ext, x, out, origin>>

\* rancher.go:452-463: GetServices, then GetRegionName, whose error is
\* dropped and leaves the region name empty.
FetchServicesEarlier ==
    /\ pc = "fetch"
    /\ rev = "earlier"
    /\ \/ pc' = "error" /\ UNCHANGED <<svcs, regionName>>
       \/ /\ pc' = "loop"
          /\ svcs' = Local
          /\ regionName' \in {SelfRegion, NoValue}
    /\ UNCHANGED <<rev, lbRules, r, s, ext, x, out, origin>>

\* Mutant: the selector test of line 584 dropped.
PassThroughAnyRule ==
    /\ pc = "loop"
    /\ r <= Len(lbRules)
    /\ Emit(<<lbRules[r]>>)
    /\ r' = r + 1
    /\ UNCHANGED <<rev, lbRules, svcs, regionName, pc, s, ext, x>>

\* part_000:583-586: a rule without a selector is kept as it is.
PassThrough ==
    /\ pc = "loop"
    /\ r <= Len(lbRules)
    /\ lbRules[r].sel = NoValue
    /\ Emit(<<lbRules[r]>>)
    /\ r' = r + 1
    /\ UNCHANGED <<rev, lbRules, svcs, regionName, pc, s, ext, x>>

\* part_000:588-639: one local service of a selector rule: skipped, a
\* GetLBMetadata error, or its rules with the link stack/name.
LocalService ==
    /\ pc = "loop"
    /\ r <= Len(lbRules)
    /\ lbRules[r].sel # NoValue
    /\ s <= Len(svcs)
    /\ LET R == lbRules[r]
           S == svcs[s]
       IN  IF Considered(R, S) /\ S.bad
           THEN pc' = "error" /\ UNCHANGED <<out, origin>>
           ELSE /\ Emit(IF Considered(R, S)
                        THEN Emitted(R, S, <<S.stack, S.name>>, FALSE)
                        ELSE <<>>)
                /\ UNCHANGED pc
    /\ s' = s + 1
    /\ UNCHANGED <<rev, lbRules, svcs, regionName, r, ext, x>>

\* part_000:491-503 and 637: after the local services, AddRulesFromRegions
\* fetches the services of R's environment in R's region (or the local
\* one); without an environment there is nothing to fetch.  A fetch error
\* ends processSelector.
RegionsFetch ==
    /\ pc = "loop"
    /\ rev = "current"
    /\ r <= Len(lbRules)
    /\ lbRules[r].sel # NoValue
    /\ s > Len(svcs)
    /\ LET R == lbRules[r] IN
       IF R.env = NoValue
       THEN pc' = "region" /\ ext' = <<>>
       ELSE \/ pc' = "error" /\ UNCHANGED ext
            \/ /\ pc' = "region"
               /\ ext' = IF R.region # NoValue THEN EnvServices[R.region][R.env]
                         ELSE EnvServices[SelfRegion][R.env]
    /\ x' = 1
    /\ UNCHANGED <<rev, lbRules, svcs, regionName, r, s, out, origin>>

\* rancher.go:522-535: the regional fetch of the earlier revision.  A rule
\* in the local region reads its environment by name (even an empty one);
\* the error of either fetch is assigned and never checked, so a failed
\* fetch reads as no services.
RegionsFetchEarlier ==
    /\ pc = "loop"
    /\ rev = "earlier"
    /\ r <= Len(lbRules)
    /\ lbRules[r].sel # NoValue
    /\ s > Len(svcs)
    /\ LET R == lbRules[r]
           fetched == IF R.region # NoValue
                      THEN IF R.region = regionName THEN EnvServices[SelfRegion][R.env]
                           ELSE IF R.env # NoValue THEN EnvServices[R.region][R.env]
                           ELSE <<>>
                      ELSE IF R.env # NoValue THEN EnvServices[SelfRegion][R.env]
                      ELSE <<>>
       IN  ext' \in {fetched, <<>>}
    /\ pc' = "region"
    /\ x' = 1
    /\ UNCHANGED <<rev, lbRules, svcs, regionName, r, s, out, origin>>

\* One regional service of rule r (part_000:504-556, rancher.go:536-592):
\* skipped, a GetLBMetadata error, or its rules with the regional link.
RegionService ==
    /\ pc = "region"
    /\ x <= Len(ext)
    /\ LET R == lbRules[r]
           S == ext[x]
       IN  IF Considered(R, S) /\ S.bad
           THEN pc' = "error" /\ UNCHANGED <<out, origin>>
           ELSE /\ Emit(IF Considered(R, S)
                        THEN Emitted(R, S, RegionalLink(R, S), TRUE)
                        ELSE <<>>)
                /\ UNCHANGED pc
    /\ x' = x + 1
    /\ UNCHANGED <<rev, lbRules, svcs, regionName, r, s, ext>>

\* The regional services are done: on to the next port rule (part_000:557
\* and 637-641, rancher.go:593).
RegionsDone ==
    /\ pc = "region"
    /\ x > Len(ext)
    /\ pc' = "loop"
    /\ r' = r + 1
    /\ s' = 1
    /\ UNCHANGED <<rev, lbRules, svcs, regionName, ext, x, out, origin>>

\* part_000:644-645 (rancher.go:596-597): lbMeta.PortRules = rules.
Finish ==
    /\ pc = "loop"
    /\ r > Len(lbRules)
    /\ pc' = "done"
    /\ UNCHANGED <<rev, lbRules, svcs, regionName, r, s, ext, x, out, origin>>

Init ==
    /\ rev \in Revisions
    /\ lbRules \in RuleLists
    /\ svcs = <<>>
    /\ regionName = NoValue
    /\ pc = "fetch"
    /\ r = 1
    /\ s = 1
    /\ ext = <<>>
    /\ x = 1
    /\ out = <<>>
    /\ origin = <<>>

Next ==
    \/ FetchServices
    \/ FetchServicesEarlier
    \/ PassThrough
    \/ LocalService
    \/ RegionsFetch
    \/ RegionsFetchEarlier
    \/ RegionService
    \/ RegionsDone
    \/ Finish

Spec == Init /\ [][Next]_vars

-----------------------------------------------------------------------------
(* Properties.                                                             *)

\* Type invariant.  No rule that leaves processSelector carries a selector
\* (the contract of spec 4.1: every rule names a service or a container).
TypeOK ==
    /\ pc \in {"fetch", "loop", "region", "done", "error"}
    /\ r \in 1..Len(lbRules) + 1
    /\ s \in 1..Len(svcs) + 1
    /\ x \in 1..Len(ext) + 1
    /\ Len(origin) = Len(out)
    /\ \A k \in 1..Len(out) :
          /\ origin[k] \in 1..Len(lbRules)
          /\ out[k].sel = NoValue

\* Every rule built from a selector rule keeps its SourcePort, Protocol and
\* Weight (spec 4.1 step 3), and a rule without a selector is kept as it is.
ExpansionKeepsFrontendFields ==
    \A k \in 1..Len(out) :
       LET R == lbRules[origin[k]] IN
       /\ out[k].port = R.port
       /\ out[k].proto = R.proto
       /\ out[k].weight = R.weight
       /\ R.sel = NoValue => out[k] = R

\* The services spec 4.1 step 2 collects for selector rule R: the local
\* ones, and with an environment those of the environment in R's region
\* (the local region when R names none or names the local one).
SpecCandidates(R) ==
    Range(Local) \cup
    (IF R.env = NoValue THEN {}
     ELSE IF R.region \in {NoValue, SelfRegion} THEN Range(EnvServices[SelfRegion][R.env])
     ELSE Range(EnvServices[R.region][R.env]))

\* Spec 4.1 step 3: a matching service is skipped only when it has no
\* nested rules and R has no target port.
SpecRoutable(R, S) ==
    /\ R.sel \in S.labels
    /\ S.nested # <<>> \/ R.tp # 0

\* The stack and name a service link ends with.
LinkTarget(link) == SubSeq(link, Len(link) - 1, Len(link))

\* When processSelector returns without an error, the services the rules
\* built from a selector rule name are exactly the candidates whose labels
\* match and that can be routed to (spec 4.1 steps 2-3; it fails with an
\* error if any fetch fails).
EveryMatchExpanded ==
    pc = "done" =>
       \A y \in 1..Len(lbRules) :
          lbRules[y].sel # NoValue =>
             {LinkTarget(out[k].svc) : k \in {k \in 1..Len(out) : origin[k] = y}}
             = {<<S.stack, S.name>> :
                  S \in {S \in SpecCandidates(lbRules[y]) : SpecRoutable(lbRules[y], S)}}


\* The code in the repository now (part_000:575-646) satisfies spec 4.1:
\* in the current revision, a processSelector that returns without error
\* has expanded each selector rule into exactly its matching, routable
\* candidates, local and regional.
CurrentExpandsEveryMatch == rev = "current" => EveryMatchExpanded

=============================================================================
