-------------------------- MODULE EndpointResolver --------------------------
(***************************************************************************)
(* Endpoint resolution of the load-balancer controller (part_000:682-826): *)
(* the endpoints of a service reference by kind of service (regular,       *)
(* external, DNS alias) under the locality preference, and the lookups of  *)
(* a link and of a container.                                              *)
(*                                                                         *)
(* A metadata snapshot md is a record:                                     *)
(*   md.containers : sequence of containers, in GetContainers() order,     *)
(*                   [name, ip, state, host, env];                         *)
(*   md.services   : function from service ids to                          *)
(*                   [kind, state, containers (indices into md.containers),*)
(*                    externalIps (a sequence), hostname (0 = none),       *)
(*                    links (a set of link names)];                        *)
(*   md.dir        : function from link names to the service id the link   *)
(*                   names, or Missing;                                    *)
(*   md.parts      : function from link names to the number of their       *)
(*                   "/"-separated parts.                                  *)
(* The operators take the revision rev of the code: "current"              *)
(* (part_000:682-826), "earlier" (rancher.go:634-787, the same code but    *)
(* for the region check of GetService and no draining) or "earliest"       *)
(* (rancher.go:1341-1486).                                                 *)
(* Addresses (IPs and CNAME host names) are numbers, in the order of their *)
(* strings, so that sorting compares them as sort.Sort compares the        *)
(* strings.                                                                *)
(*                                                                         *)
(* A resolution has a set of possible outcomes: Ok of a sorted sequence of *)
(* endpoints, Err (a metadata call failed) or Crash (a runtime panic: the  *)
(* recursion over alias links does not end and the stack overflows, or a   *)
(* link without "/" is indexed past its one part).                         *)
(***************************************************************************)
EXTENDS Naturals, Sequences, FiniteSets, SequencesExt, TLC

Err == [fail |-> "error"]
Crash == [fail |-> "crash"]
Missing == "missing"

\* A link without "/": splitting it gives one part.
Bare == "bare"

\* A resolution that returned the endpoints eps.
Ok(eps) == [eps |-> eps]

\* A nil *config.Endpoint.
NoEndpoint == [fail |-> "nil"]

Endpoint(ip, port, cname, weight) ==
    [ip |-> ip, port |-> port, cname |-> cname, weight |-> weight]

\* The Service{} value GetService returns when the library finds nothing.
ZeroService ==
    [kind |-> "", state |-> "", containers |-> <<>>, externalIps |-> <<>>,
     hostname |-> 0, links |-> {}]

\* The Container{} value GetContainer returns when no container matches.
ZeroContainer ==
    [name |-> "", ip |-> 0, state |-> "", host |-> "", env |-> ""]

\* IsActiveService: every state but the four inactive ones is active.
IsActiveService(svc) ==
    svc.state \notin {"inactive", "deactivating", "removed", "removing"}

\* rancher.go:772 (and 1473): the earlier revisions take running and
\* starting containers only.
ContainerUpNoDrain(c) == c.state \in {"running", "starting"}

\* part_000:809: a stopping container is still up (it drains).
ContainerUp(rev, c) ==
    IF rev = "current" THEN c.state \in {"running", "starting", "stopping"}
    ELSE ContainerUpNoDrain(c)

\* getContainerEndpoint: the endpoint of a live container, with Weight "0"
\* when it is stopping (draining); it is a contingency endpoint when a
\* locality preference is set and the container runs on another host.
ContainerEndpoint(rev, c, tp) ==
    IF ContainerUp(rev, c)
    THEN Endpoint(c.ip, tp, FALSE, IF c.state = "stopping" THEN "0" ELSE "")
    ELSE NoEndpoint

IsContingency(c, self, pref) == pref # "any" /\ c.host # self

\* getRegularServiceEndpoints: primaries, or under prefer-local with no
\* primary the contingency endpoints; only-local drops the contingency ones.
RegularEndpoints(rev, md, svc, tp, self, pref) ==
    LET up(id) == ContainerUp(rev, md.containers[id])
        primary == SelectSeq(svc.containers,
                     LAMBDA id : up(id) /\ ~IsContingency(md.containers[id], self, pref))
        contingency == SelectSeq(svc.containers,
                     LAMBDA id : up(id) /\ IsContingency(md.containers[id], self, pref))
        chosen == IF pref = "prefer-local" /\ primary = <<>>
                  THEN contingency ELSE primary
    IN  [j \in 1..Len(chosen) |-> ContainerEndpoint(rev, md.containers[chosen[j]], tp)]

\* getExternalServiceEndpoints: one endpoint per external IP, then a CNAME
\* endpoint for the host name if there is one.
ExternalEndpoints(svc, tp) ==
    [j \in 1..Len(svc.externalIps) |-> Endpoint(svc.externalIps[j], tp, FALSE, "")]
    \o (IF svc.hostname # 0 THEN <<Endpoint(svc.hostname, tp, TRUE, "")>> ELSE <<>>)

\* sort.Sort on the short slices the controller builds (insertion sort, so
\* elements that compare equal keep their order): the permutation of s that
\* orders it by Less and keeps ties in their original order.
SortStable(s, Less(_, _)) ==
    LET P == CHOOSE p \in Permutations(1..Len(s)) :
               \A a, b \in 1..Len(s) :
                  a < b => \/ Less(s[p[a]], s[p[b]])
                           \/ ~Less(s[p[b]], s[p[a]]) /\ p[a] < p[b]
    IN  [j \in 1..Len(s) |-> s[P[j]]]

\* config.Endpoints.Less: by IP, then by port.
EndpointLess(a, b) == a.ip < b.ip \/ (a.ip = b.ip /\ a.port < b.port)

SortEndpoints(eps) == SortStable(eps, EndpointLess)

\* rancher.go:1083-1084, 1351-1367: SplitN(link, "/", 2) and a lookup of
\* part 1 as the name and part 0 as the stack in the own environment, so a
\* link of three or four parts names no service.
ResolveEarliest(md, link) ==
    IF md.parts[link] > 2 THEN Missing ELSE md.dir[link]

\* part_000:692-704: Split(link, "/") and the fetch by 4, 3 or 2 parts; a
\* link of one part is indexed at part 1 and panics.
Resolve(rev, md, link) ==
    CASE md.parts[link] = 1 -> Bare
      [] rev = "earliest"   -> ResolveEarliest(md, link)
      [] OTHER              -> md.dir[link]

\* GetService on a link of one part: the earlier revision first asks for
\* the region name, which may fail (rancher.go:649-652), before it indexes
\* past the part and panics (line 665); the others panic at once.
BareOutcomes(rev) == IF rev = "earlier" THEN {Err, Crash} ELSE {Crash}

\* The outcomes of resolving one alias link, given the outcomes prev of every
\* service one frame deeper: GetService may fail; a link to no service gives
\* the library's Service{} (no endpoints) or its error.
LinkOutcomes(rev, md, link, prev) ==
    LET t == Resolve(rev, md, link)
    IN  CASE t = Bare    -> BareOutcomes(rev)
          [] t = Missing -> {Ok(<<>>), Err}
          [] OTHER       -> prev[t] \cup {Err}

\* getAliasServiceEndpoints: the links are visited in Go's random map order
\* and the first failure is returned, so any failing link's outcome can be
\* the result; without failures the endpoints of all links are appended in
\* that order and sorted.
AliasOutcomes(rev, md, svc, prev) ==
    LET picks == {f \in [svc.links -> UNION {LinkOutcomes(rev, md, l, prev) : l \in svc.links}] :
                    \A l \in svc.links : f[l] \in LinkOutcomes(rev, md, l, prev)}
        Bad(f) == {f[l] : l \in svc.links} \cap {Err, Crash}
        \* The endpoints of the links appended in the visiting order ord.
        concat(f, ord) == FlattenSeq([j \in 1..Len(ord) |-> f[ord[j]].eps])
    IN  UNION {IF Bad(f) = {}
               THEN {Ok(SortEndpoints(concat(f, ord))) : ord \in SetToSeqs(svc.links)}
               ELSE Bad(f) :
               f \in picks}

\* getServiceEndpoints for every service of md: the set of its outcomes.
\* F[d] resolves with d frames left for alias recursion.  A chain of more
\* aliases with links than there are services repeats one, so reaching
\* depth 0 at such an alias means the links form a cycle, and the code
\* recurses until the stack overflows.
ServiceOutcomes(rev, md, tp, self, pref) ==
    LET S == DOMAIN md.services
        F[d \in 0..Cardinality(S)] ==
          [s \in S |->
             LET svc == md.services[s] IN
             CASE svc.kind = "externalService" ->
                    {Ok(SortEndpoints(ExternalEndpoints(svc, tp)))}
               [] svc.kind = "dnsService" /\ svc.links = {} -> {Ok(<<>>)}
               [] svc.kind = "dnsService" /\ d = 0 -> {Crash}
               [] svc.kind = "dnsService" -> AliasOutcomes(rev, md, svc, F[d - 1])
               [] OTHER -> {Ok(SortEndpoints(RegularEndpoints(rev, md, svc, tp, self, pref)))}]
    IN  F[Cardinality(S)]

\* The rule-level service lookup of BuildConfigFromMetadata: GetService(link)
\* (which never returns nil, part_000:704), then IsActiveService, then
\* getServiceEndpoints.  Skip means the rule is dropped.
Skip == [fail |-> "skip"]

ServiceRuleOutcomes(rev, md, link, tp, self, pref) ==
    LET t == Resolve(rev, md, link)
    IN  CASE t = Bare    -> BareOutcomes(rev)
          [] t = Missing -> {Err, Ok(<<>>)}
          [] ~IsActiveService(md.services[t]) -> {Err, Skip}
          [] OTHER -> {Err} \cup ServiceOutcomes(rev, md, tp, self, pref)[t]

\* GetContainer: the first container of envUUID with that name, or
\* Container{} when there is none.
GetContainer(md, env, name) ==
    LET hits == SelectSeq(md.containers, LAMBDA c : c.env = env /\ c.name = name)
    IN  IF hits = <<>> THEN ZeroContainer ELSE Head(hits)

\* The container branch of BuildConfigFromMetadata: GetContainers may fail;
\* a container that is not up gives no endpoint and the rule is dropped.  The
\* contingency flag is ignored here, so locality does not apply.
ContainerRuleOutcomes(rev, md, env, name, tp) ==
    LET ep == ContainerEndpoint(rev, GetContainer(md, env, name), tp)
    IN  {Err, IF ep = NoEndpoint THEN Skip ELSE Ok(<<ep>>)}

=============================================================================
