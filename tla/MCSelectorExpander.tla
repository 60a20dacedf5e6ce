------------------------ MODULE MCSelectorExpander ------------------------
(* Small instances of SelectorExpander for TLC.                            *)
EXTENDS SelectorExpander

Svc(stack, name, labels, nested, bad) ==
    [stack |-> stack, name |-> name, labels |-> labels, nested |-> nested, bad |-> bad]

\* A nested port rule of a service's own LB config.
Nested == [path |-> "/p", host |-> "h", tp |-> 8, bname |-> "n"]

\* Local services: a plain one and one with a nested rule (both match
\* selector x), one matching y only, and one whose LB config fails to
\* convert (matching z).
MCLocal ==
    <<Svc("s1", "a", {"x"}, <<>>, FALSE),
      Svc("s1", "b", {"x"}, <<Nested>>, FALSE),
      Svc("s2", "c", {"y"}, <<>>, FALSE),
      Svc("s2", "d", {"z"}, <<Nested>>, TRUE)>>

\* Environment e1 of the local region r1 and of region r2.
MCEnvServices ==
    [g \in {"r1", "r2"} |->
       [e \in {NoValue, "e1"} |->
          IF e = NoValue THEN <<>>
          ELSE IF g = "r1" THEN <<Svc("s3", "p", {"x"}, <<>>, FALSE)>>
          ELSE <<Svc("s4", "q", {"x", "y"}, <<Nested>>, FALSE)>>]]

MCSelfRegion == "r1"

Rule(sel, tp, region, env) ==
    [port |-> 1, proto |-> "http", path |-> NoValue, host |-> NoValue, sel |-> sel,
     svc |-> <<>>, ctr |-> NoValue, tp |-> tp, bname |-> NoValue, prio |-> 0,
     weight |-> "w", region |-> region, env |-> env]

\* A plain rule; a selector rule without target port over the local
\* region's e1; one over region r2's e1; one naming the local region; one
\* that meets the service whose config does not convert; one that names a
\* region but no environment.
MCRules ==
    {[Rule(NoValue, 8, NoValue, NoValue) EXCEPT !.svc = <<"s9", "z">>],
     Rule("x", 0, NoValue, "e1"),
     Rule("x", 8, "r2", "e1"),
     Rule("x", 8, "r1", "e1"),
     Rule("z", 8, NoValue, NoValue),
     Rule("y", 0, "r2", NoValue)}

\* Every list of at most two of them.
MCRuleLists == BoundedSeq(MCRules, 2)

=============================================================================
