-------------------------- MODULE MCConfigBuilder --------------------------
(* Small instances of ConfigBuilder for TLC: metadata snapshots and port   *)
(* rule lists chosen so that each branch of the rule loop is taken.         *)
EXTENDS ConfigBuilder

\* Containers, in GetContainers() order: running on this host, stopping
\* (draining) on another host, stopped, and running on another host.
C1 == [name |-> "c1", ip |-> 1, state |-> "running",  host |-> "h1", env |-> "e1"]
C2 == [name |-> "c2", ip |-> 2, state |-> "stopping", host |-> "h2", env |-> "e1"]
C3 == [name |-> "c3", ip |-> 3, state |-> "stopped",  host |-> "h1", env |-> "e1"]
C4 == [name |-> "c4", ip |-> 4, state |-> "running",  host |-> "h2", env |-> "e1"]

Regular(state, ctrs) ==
    [kind |-> "service", state |-> state, containers |-> ctrs,
     externalIps |-> <<>>, hostname |-> 0, links |-> {}]

Alias(links) ==
    [kind |-> "dnsService", state |-> "active", containers |-> <<>>,
     externalIps |-> <<>>, hostname |-> 0, links |-> links]

External(ips, host) ==
    [kind |-> "externalService", state |-> "active", containers |-> <<>>,
     externalIps |-> ips, hostname |-> host, links |-> {}]

\* Services A and B share the draining container c2; I is inactive; the
\* link lM names no service; lE is a peer-environment link env/stack/name
\* to B, and lZ a link without "/".
BaseServices ==
    ("A" :> Regular("active", <<1, 2>>)) @@
    ("B" :> Regular("active", <<2, 3, 4>>)) @@
    ("I" :> Regular("inactive", <<1>>))

BaseDir ==
    ("lA" :> "A") @@ ("lB" :> "B") @@ ("lI" :> "I") @@ ("lM" :> Missing) @@
    ("lE" :> "B") @@ ("lZ" :> "A")

\* The number of "/"-separated parts of each link of dir.
Parts(dir) == [l \in DOMAIN dir |-> CASE l = "lZ" -> 1 [] l = "lE" -> 3 [] OTHER -> 2]

Base ==
    [containers |-> <<C1, C2, C3, C4>>, services |-> BaseServices, dir |-> BaseDir,
     parts |-> Parts(BaseDir)]

\* An alias over both A and B (c2 is reached twice), and an external service
\* listing one IP twice.
Diamond ==
    [Base EXCEPT
       !.services = ("D" :> Alias({"lA", "lB"})) @@
                    ("X" :> External(<<5, 5>>, 0)) @@ BaseServices,
       !.dir = ("lD" :> "D") @@ ("lX" :> "X") @@ BaseDir,
       !.parts = Parts(("lD" :> "D") @@ ("lX" :> "X") @@ BaseDir)]

\* Two aliases that link to each other.
Cycle ==
    [Base EXCEPT
       !.services = ("P" :> Alias({"lQ"})) @@ ("Q" :> Alias({"lP"})) @@ BaseServices,
       !.dir = ("lP" :> "P") @@ ("lQ" :> "Q") @@ BaseDir,
       !.parts = Parts(("lP" :> "P") @@ ("lQ" :> "Q") @@ BaseDir)]

Rule(port, proto, host, svc, ctr, prio) ==
    [port |-> port, proto |-> proto, host |-> host, path |-> <<"/">>,
     svc |-> svc, ctr |-> ctr, tp |-> 8, weight |-> "w", bname |-> <<>>,
     prio |-> prio]

\* Port 1, host "a", path "/": A then B merge into one backend (S5), whose
\* priority stays that of the first rule; a tcp
\* rule on port 1 gets a backend of its own but the frontend keeps http;
\* port 2 has a skipped inactive service before a container rule with a
\* wildcard host; a port-0 rule is passed over.
MergeRules ==
    <<Rule(2, "tcp", <<"a">>, "lI", "", 0),
      Rule(1, "http", <<"a">>, "lA", "", 0),
      Rule(0, "http", <<"a">>, "lA", "", 0),
      Rule(1, "http", <<"a">>, "lB", "", 1),
      Rule(1, "tcp", <<"a">>, "lB", "", 1),
      Rule(2, "https", <<"*", "a", "b">>, NoLink, "c1", 0)>>

\* The same host and path on two ports, a missing link, and a container
\* rule for a stopped container.
PortRules ==
    <<Rule(1, "http", <<"a">>, "lM", "", 0),
      Rule(2, "http", <<"a">>, "lA", "", 0),
      Rule(1, "http", <<"a">>, "lB", "", 0),
      Rule(3, "sni", <<"a", "b", "*">>, NoLink, "c3", 0)>>

\* A peer-environment link, which the earliest revision cannot resolve,
\* beside a link without "/", on which both revisions panic.
LinkRules ==
    <<Rule(1, "http", <<"a">>, "lE", "", 0),
      Rule(2, "tcp", <<>>, "lZ", "", 0)>>

\* TestSelectorMatch1's rules after processSelector: one source port, no
\* host and no path, two different services.
SelectorTestRules ==
    <<[Rule(1, "http", <<>>, "lA", "", 0) EXCEPT !.path = <<>>],
      [Rule(1, "http", <<>>, "lB", "", 0) EXCEPT !.path = <<>>]>>

MCRevisions == {"current", "earlier", "earliest"}
MCCurrent == {"current"}
MCSnapshots == {Base}
MCRuleLists == {MergeRules, PortRules, LinkRules}
MCPrefs == {"any", "prefer-local"}
MCSelfHosts == {"h1"}
MCEnvUUID == "e1"
MCDefCertChoices == {<<>>, <<NilCert>>, <<"d">>}
MCAltCertChoices == {<<"x">>}

\* Rules that meet the alias diamond and the duplicated external IP.
DiamondRules ==
    <<Rule(1, "http", <<"a">>, "lD", "", 0),
      Rule(2, "tcp", <<>>, "lX", "", 0)>>

\* A rule on the alias cycle.
CycleRules == <<Rule(1, "http", <<"a">>, "lP", "", 0)>>

MCDiamondSnapshots == {Diamond}
MCDiamondRuleLists == {DiamondRules}
MCCycleSnapshots == {Cycle}
MCCycleRuleLists == {CycleRules}
MCSelectorTestRuleLists == {SelectorTestRules}

=============================================================================
