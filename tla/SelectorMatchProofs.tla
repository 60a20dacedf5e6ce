------------------------- MODULE SelectorMatchProofs -------------------------
(***************************************************************************)
(* Proof that processSelector (the current revision) expands every        *)
(* selector rule into exactly the services spec 4.1 says it matches: the  *)
(* local ones and those of the rule's environment whose labels match and  *)
(* that can be routed to.  The earlier revision drops the regional fetch  *)
(* error and does not satisfy it.                                         *)
(***************************************************************************)
EXTENDS SelectorExpanderProofs

\* The stack and name of the services that the rules in o with origin y
\* (in og) name.
BuiltOf(o, og, y) == {LinkTarget(o[k].svc) : k \in {k \in 1..Len(o) : og[k] = y}}

\* The stack and name of the services the rules built from input rule y
\* name.
Built(y) == BuiltOf(out, origin, y)

\* The stack and name of the services the rules xs name.
Targets(xs) == {LinkTarget(xs[j].svc) : j \in 1..Len(xs)}

\* The stack and name of the services among T that selector rule R is
\* expanded into (spec 4.1 step 3).
Routed(R, T) == {<<S.stack, S.name>> : S \in {S \in T : SpecRoutable(R, S)}}

\* The first n elements of the list ss, as a set.
Visited(ss, n) == {ss[j] : j \in 1..n}

\* The regional services RegionsFetch reads for selector rule R when the
\* fetch succeeds.
RegionalFetch(R) ==
    IF R.env = NoValue THEN <<>>
    ELSE IF R.region # NoValue THEN EnvServices[R.region][R.env]
    ELSE EnvServices[SelfRegion][R.env]

\* Every rule built so far comes from input rule r or one before it.
OriginsUpTo == \A k \in 1..Len(out) : origin[k] <= r

\* In the loop over the local services, a selector rule r has been
\* expanded into the routable services among the first s - 1; a rule
\* without a selector has not yet been passed through.
LoopBuilt ==
    pc = "loop" /\ r <= Len(lbRules) =>
       IF lbRules[r].sel = NoValue
       THEN s = 1
       ELSE Built(r) = Routed(lbRules[r], Visited(svcs, s - 1))

\* In the loop over the regional services, every local service has been
\* visited, ext is what the fetch returned, and rule r has been expanded
\* into the routable local services and the first x - 1 regional ones.
RegionBuilt ==
    pc = "region" =>
       /\ s = Len(svcs) + 1
       /\ ext = RegionalFetch(lbRules[r])
       /\ Built(r) = Routed(lbRules[r], Range(svcs)) \cup
                     Routed(lbRules[r], Visited(ext, x - 1))

\* Every selector rule before r has been expanded into all its routable
\* candidates.
RulesBefore ==
    \A y \in 1..r - 1 :
       lbRules[y].sel # NoValue =>
          Built(y) = Routed(lbRules[y], SpecCandidates(lbRules[y]))

\* The inductive invariant behind EveryMatchExpanded: IInv; nothing is
\* built and the loop is at the first rule before the services are read; the local services are Local; and
\* the rules before r are fully expanded while rule r is expanded into the
\* routable services visited so far, local and then regional.
MInv ==
    /\ IInv
    /\ pc = "fetch" => out = <<>> /\ r = 1
    /\ pc \in {"loop", "region", "done"} => svcs = Local
    /\ OriginsUpTo
    /\ LoopBuilt
    /\ RegionBuilt
    /\ pc = "done" => r = Len(lbRules) + 1
    /\ RulesBefore

-----------------------------------------------------------------------------
(* Lemmas.                                                                 *)

\* Appending the rules xs with origin i adds the services they name to
\* what rule i built, and nothing to any other rule; every new origin is i.
LEMMA BuiltConcat ==
    ASSUME NEW o, NEW og, NEW xs, NEW i, NEW y,
           IsSeq(o), IsSeq(og), Len(og) = Len(o), IsSeq(xs)
    PROVE  /\ BuiltOf(o \o xs, og \o Origins(Len(xs), i), y) =
                 BuiltOf(o, og, y) \cup (IF y = i THEN Targets(xs) ELSE {})
           /\ Len(og \o Origins(Len(xs), i)) = Len(o \o xs)
           /\ \A k \in 1..Len(o \o xs) :
                 (og \o Origins(Len(xs), i))[k] = IF k <= Len(o) THEN og[k] ELSE i
<1> DEFINE ys == Origins(Len(xs), i)
           U == Range(o) \cup Range(xs) \cup Range(og) \cup {i}
<1>1. Len(xs) \in Nat /\ Len(o) \in Nat
      BY LenProperties DEF IsSeq
<1>2. ys \in Seq(U) /\ Len(ys) = Len(xs) /\ \A j \in 1..Len(xs) : ys[j] = i
      BY <1>1 DEF Origins
<1>3. o \in Seq(U) /\ xs \in Seq(U) /\ og \in Seq(U)
      BY SeqMonotonic DEF IsSeq
<1>4. /\ Len(o \o xs) = Len(o) + Len(xs)
      /\ \A k \in 1 .. Len(o) + Len(xs) :
            (o \o xs)[k] = IF k <= Len(o) THEN o[k] ELSE xs[k - Len(o)]
      BY <1>3, ConcatProperties
<1>5. /\ Len(og \o ys) = Len(o) + Len(xs)
      /\ \A k \in 1 .. Len(o) + Len(xs) :
            (og \o ys)[k] = IF k <= Len(o) THEN og[k] ELSE i
      <2>1. /\ Len(og \o ys) = Len(og) + Len(ys)
            /\ \A k \in 1 .. Len(og) + Len(ys) :
                  (og \o ys)[k] = IF k <= Len(og) THEN og[k] ELSE ys[k - Len(og)]
            BY <1>2, <1>3, ConcatProperties
      <2>2. QED
            BY <1>1, <1>2, <2>1
<1>6. BuiltOf(o \o xs, og \o ys, y) =
         BuiltOf(o, og, y) \cup (IF y = i THEN Targets(xs) ELSE {})
      <2>1. ASSUME NEW k \in 1..Len(o \o xs), (og \o ys)[k] = y
            PROVE  LinkTarget((o \o xs)[k].svc) \in
                      BuiltOf(o, og, y) \cup (IF y = i THEN Targets(xs) ELSE {})
            <3>1. CASE k <= Len(o)
                  <4>1. k \in 1..Len(o) /\ og[k] = y /\ (o \o xs)[k] = o[k]
                        BY <1>1, <1>4, <1>5, <2>1, <3>1
                  <4>2. QED
                        BY <4>1 DEF BuiltOf
            <3>2. CASE ~(k <= Len(o))
                  <4>1. k - Len(o) \in 1..Len(xs) /\ y = i
                        /\ (o \o xs)[k] = xs[k - Len(o)]
                        BY <1>1, <1>4, <1>5, <2>1, <3>2
                  <4>2. QED
                        BY <4>1 DEF Targets
            <3>3. QED
                  BY <3>1, <3>2
      <2>2. ASSUME NEW k \in 1..Len(o), og[k] = y
            PROVE  LinkTarget(o[k].svc) \in BuiltOf(o \o xs, og \o ys, y)
            <3>1. k \in 1..Len(o \o xs) /\ (og \o ys)[k] = y /\ (o \o xs)[k] = o[k]
                  BY <1>1, <1>4, <1>5, <2>2
            <3>2. QED
                  BY <3>1 DEF BuiltOf
      <2>3. ASSUME y = i, NEW j \in 1..Len(xs)
            PROVE  LinkTarget(xs[j].svc) \in BuiltOf(o \o xs, og \o ys, y)
            <3>1. /\ Len(o) + j \in 1..Len(o \o xs)
                  /\ (og \o ys)[Len(o) + j] = y
                  /\ (o \o xs)[Len(o) + j] = xs[j]
                  BY <1>1, <1>4, <1>5, <2>3
            <3>2. QED
                  BY <3>1 DEF BuiltOf
      <2>4. QED
            BY <2>1, <2>2, <2>3 DEF BuiltOf, Targets
<1>7. QED
      BY <1>1, <1>4, <1>5, <1>6

\* The last two parts of a stack/name, env/stack/name and
\* region/env/stack/name link are stack/name.
LEMMA LinkTargets ==
    ASSUME NEW a, NEW b, NEW c, NEW d
    PROVE  /\ LinkTarget(<<a, b>>) = <<a, b>>
           /\ LinkTarget(<<c, a, b>>) = <<a, b>>
           /\ LinkTarget(<<d, c, a, b>>) = <<a, b>>
<1> DEFINE S == {a, b, c, d}
<1>1. <<a, b>> \in Seq(S) /\ Len(<<a, b>>) = 2
      OBVIOUS
<1>2. ASSUME NEW sq \in Seq(S), Len(sq) >= 2, sq[Len(sq) - 1] = a, sq[Len(sq)] = b
      PROVE  SubSeq(sq, Len(sq) - 1, Len(sq)) = <<a, b>>
      <2>1. Len(sq) \in Nat
            BY LenProperties
      <2>2. /\ SubSeq(sq, Len(sq) - 1, Len(sq)) \in Seq(S)
            /\ Len(SubSeq(sq, Len(sq) - 1, Len(sq))) = 2
            /\ \A i \in 1..2 : SubSeq(sq, Len(sq) - 1, Len(sq))[i] = sq[Len(sq) - 1 + i - 1]
            <3>1. \A i \in Len(sq) - 1 .. Len(sq) : sq[i] \in S
                  BY <2>1, <1>2
            <3>2. QED
                  BY <2>1, <3>1, SubSeqProperties
      <2>3. \A i \in 1..Len(SubSeq(sq, Len(sq) - 1, Len(sq))) :
               SubSeq(sq, Len(sq) - 1, Len(sq))[i] = <<a, b>>[i]
            BY <1>2, <2>1, <2>2
      <2>4. QED
            BY <1>1, <2>2, <2>3, SeqEqual
<1>3. LinkTarget(<<a, b>>) = <<a, b>>
      BY <1>1, <1>2 DEF LinkTarget
<1>4. LinkTarget(<<c, a, b>>) = <<a, b>>
      <2>1. /\ <<c, a, b>> \in Seq(S) /\ Len(<<c, a, b>>) >= 2
            /\ <<c, a, b>>[Len(<<c, a, b>>) - 1] = a /\ <<c, a, b>>[Len(<<c, a, b>>)] = b
            OBVIOUS
      <2>2. SubSeq(<<c, a, b>>, Len(<<c, a, b>>) - 1, Len(<<c, a, b>>)) = <<a, b>>
            BY <2>1, <1>2
      <2>3. QED
            BY <2>2 DEF LinkTarget
<1>5. LinkTarget(<<d, c, a, b>>) = <<a, b>>
      <2>1. /\ <<d, c, a, b>> \in Seq(S) /\ Len(<<d, c, a, b>>) >= 2
            /\ <<d, c, a, b>>[Len(<<d, c, a, b>>) - 1] = a /\ <<d, c, a, b>>[Len(<<d, c, a, b>>)] = b
            OBVIOUS
      <2>2. SubSeq(<<d, c, a, b>>, Len(<<d, c, a, b>>) - 1, Len(<<d, c, a, b>>)) = <<a, b>>
            BY <2>1, <1>2
      <2>3. QED
            BY <2>2 DEF LinkTarget
<1>6. QED
      BY <1>3, <1>4, <1>5

\* The check of part_000:598-602 is spec 4.1's routability.
LEMMA ConsideredIsRoutable ==
    ASSUME NEW R, NEW S
    PROVE  Considered(R, S) <=> SpecRoutable(R, S)
BY DEF Considered, Matches, SpecRoutable

\* What one service S of selector rule R adds to the services R was
\* expanded into: S's stack and name if S is routable, else nothing.
LEMMA ServiceTargets ==
    ASSUME NEW R, NEW S, NEW link, NEW rg, IsSeq(S.nested),
           LinkTarget(link) = <<S.stack, S.name>>
    PROVE  /\ IsSeq(IF Considered(R, S) THEN Emitted(R, S, link, rg) ELSE <<>>)
           /\ Targets(IF Considered(R, S) THEN Emitted(R, S, link, rg) ELSE <<>>) =
                 IF SpecRoutable(R, S) THEN {<<S.stack, S.name>>} ELSE {}
<1>1. Len(S.nested) \in Nat
      BY LenProperties DEF IsSeq
<1>2. CASE Considered(R, S) /\ S.nested # <<>>
      <2> DEFINE xs == [j \in 1..Len(S.nested) |-> Derived(R, S.nested[j], link, rg)]
      <2>1. IsSeq(xs) /\ Len(xs) = Len(S.nested)
            BY <1>1, MkSeq
      <2>2. Len(S.nested) # 0
            BY <1>2, EmptySeq DEF IsSeq
      <2>3. Targets(xs) = {<<S.stack, S.name>>}
            <3>1. \A j \in 1..Len(xs) : xs[j].svc = link
                  BY <2>1 DEF Derived
            <3>2. 1 \in 1..Len(xs)
                  BY <1>1, <2>1, <2>2
            <3>3. QED
                  BY <3>1, <3>2 DEF Targets
      <2>4. QED
            BY <1>2, <2>1, <2>3, ConsideredIsRoutable DEF Emitted
<1>3. CASE Considered(R, S) /\ S.nested = <<>>
      <2> DEFINE xs == <<Derived(R, R, link, rg)>>
      <2>1. IsSeq(xs) /\ Len(xs) = 1
            BY DEF IsSeq, Range
      <2>2. Targets(xs) = {<<S.stack, S.name>>}
            BY <2>1 DEF Targets, Derived
      <2>3. QED
            BY <1>3, <2>1, <2>2, ConsideredIsRoutable DEF Emitted
<1>4. CASE ~Considered(R, S)
      <2>1. IsSeq(<<>>) /\ Targets(<<>>) = {}
            BY DEF IsSeq, Range, Targets
      <2>2. QED
            BY <1>4, <2>1, ConsideredIsRoutable
<1>5. QED
      BY <1>2, <1>3, <1>4

\* Emit(xs) at input rule r adds the services xs names to what rule r
\* built and nothing to any other rule, and keeps every origin at most r.
LEMMA EmitBuilt ==
    ASSUME NEW xs, IsSeq(xs), OutOK(out, origin, lbRules), r \in Nat,
           \A k \in 1..Len(out) : origin[k] <= r,
           Emit(xs)
    PROVE  /\ \A y : BuiltOf(out', origin', y) =
                       BuiltOf(out, origin, y) \cup (IF y = r THEN Targets(xs) ELSE {})
           /\ \A k \in 1..Len(out') : origin'[k] <= r
<1>1. out' = out \o xs /\ origin' = origin \o Origins(Len(xs), r)
      BY DEF Emit, Origins
<1>2. IsSeq(out) /\ IsSeq(origin) /\ Len(origin) = Len(out)
      BY DEF OutOK
<1>3. \A y : BuiltOf(out \o xs, origin \o Origins(Len(xs), r), y) =
                BuiltOf(out, origin, y) \cup (IF y = r THEN Targets(xs) ELSE {})
      BY <1>2, BuiltConcat
<1>4. \A k \in 1..Len(out \o xs) : (origin \o Origins(Len(xs), r))[k] <= r
      <2> DEFINE ys == Origins(Len(xs), r)
                 U == Range(out) \cup Range(xs) \cup Range(origin) \cup {r}
      <2>1. Len(xs) \in Nat /\ Len(out) \in Nat
            BY <1>2, LenProperties DEF IsSeq
      <2>2. ys \in Seq(U) /\ Len(ys) = Len(xs) /\ \A j \in 1..Len(xs) : ys[j] = r
            BY <2>1 DEF Origins
      <2>3. out \in Seq(U) /\ xs \in Seq(U) /\ origin \in Seq(U)
            BY <1>2, SeqMonotonic DEF IsSeq
      <2>4. Len(out \o xs) = Len(out) + Len(xs)
            BY <2>3, ConcatProperties
      <2>5. /\ Len(origin \o ys) = Len(origin) + Len(ys)
            /\ \A k \in 1 .. Len(origin) + Len(ys) :
                  (origin \o ys)[k] = IF k <= Len(origin) THEN origin[k] ELSE ys[k - Len(origin)]
            BY <2>2, <2>3, ConcatProperties
      <2>6. QED
            BY <1>2, <2>1, <2>2, <2>4, <2>5
<1>5. QED
      BY <1>1, <1>3, <1>4

\* All the elements of a list are its range.
LEMMA VisitedAll ==
    ASSUME NEW ss, IsSeq(ss)
    PROVE  Visited(ss, Len(ss)) = Range(ss)
<1>1. DOMAIN ss = 1..Len(ss)
      BY DEF IsSeq
<1>2. QED
      BY <1>1 DEF Visited, Range

\* The local services and the successful regional fetch of RegionsFetch
\* are the candidates of spec 4.1 step 2: a rule naming the local region
\* reads the same list as one naming none.
LEMMA FetchedCandidates ==
    ASSUME NEW R
    PROVE  Routed(R, Range(Local)) \cup Routed(R, Range(RegionalFetch(R))) =
              Routed(R, SpecCandidates(R))
<1>1. Range(RegionalFetch(R)) =
         IF R.env = NoValue THEN {}
         ELSE IF R.region \in {NoValue, SelfRegion} THEN Range(EnvServices[SelfRegion][R.env])
         ELSE Range(EnvServices[R.region][R.env])
      BY DEF RegionalFetch, Range
<1>2. SpecCandidates(R) = Range(Local) \cup Range(RegionalFetch(R))
      BY <1>1 DEF SpecCandidates
<1>3. Routed(R, Range(Local) \cup Range(RegionalFetch(R))) =
         Routed(R, Range(Local)) \cup Routed(R, Range(RegionalFetch(R)))
      BY DEF Routed
<1>4. QED
      BY <1>2, <1>3

-----------------------------------------------------------------------------
(* MInv is inductive in the current revision.                              *)

\* The state processSelector starts in satisfies MInv.
LEMMA InitMInv == Init => MInv
<1> SUFFICES ASSUME Init PROVE MInv
    OBVIOUS
<1>1. IInv
      BY InitIInv
<1>2. QED
      BY <1>1 DEF Init, MInv, OriginsUpTo, LoopBuilt, RegionBuilt, RulesBefore

\* Facts of MInv every step uses.
LEMMA MInvFacts ==
    ASSUME MInv
    PROVE  /\ IInv
           /\ IsSeq(lbRules) /\ Len(lbRules) \in Nat
           /\ r \in Nat /\ s \in Nat /\ x \in Nat
           /\ Len(svcs) \in Nat /\ Len(ext) \in Nat
           /\ OutOK(out, origin, lbRules)
           /\ \A k \in 1..Len(out) : origin[k] \in Nat /\ origin[k] <= r
<1>1. IInv
      BY DEF MInv
<1>2. IsSeq(lbRules) /\ Len(lbRules) \in Nat
      BY <1>1, RulesSeq DEF IInv
<1>3. Len(svcs) \in Nat /\ Len(ext) \in Nat
      BY <1>1, LenProperties DEF IInv, IsServiceSeq, IsSeq
<1>4. QED
      BY <1>1, <1>2, <1>3 DEF MInv, IInv, OutOK, OriginsUpTo

\* FetchServices: the local services are read; nothing is built yet.
LEMMA FetchServicesMInv ==
    ASSUME MInv, FetchServices
    PROVE  MInv'
<1>1. IInv'
      BY NextIInv DEF MInv, Next
<1>2. /\ pc = "fetch" /\ out = <<>> /\ s = 1 /\ r = 1
      /\ Len(lbRules) \in Nat /\ OutOK(out, origin, lbRules)
      BY MInvFacts, FetchServices DEF FetchServices, MInv, IInv
<1>3. CASE pc' = "error"
      BY <1>1, <1>2, <1>3 DEF FetchServices, MInv, OriginsUpTo, LoopBuilt, RegionBuilt,
         RulesBefore
<1>4. CASE pc' = "loop"
      <2>1. /\ svcs' = Local /\ lbRules' = lbRules /\ r' = 1 /\ s' = 1
            /\ out' = <<>> /\ origin' = origin
            BY <1>2, <1>4 DEF FetchServices
      <2>2. BuiltOf(out', origin', r') = {}
            BY <2>1 DEF BuiltOf
      <2>3. Routed(lbRules'[r'], Visited(svcs', s' - 1)) = {}
            BY <2>1 DEF Routed, Visited
      <2>4. LoopBuilt'
            BY <2>1, <2>2, <2>3 DEF LoopBuilt, Built
      <2>5. QED
            BY <1>1, <1>2, <1>4, <2>1, <2>2, <2>4 DEF MInv, OriginsUpTo, RegionBuilt, RulesBefore
<1>5. QED
      BY <1>3, <1>4 DEF FetchServices

\* Finish: the loop has passed the last rule.
LEMMA FinishMInv ==
    ASSUME MInv, Finish
    PROVE  MInv'
<1>1. IInv'
      BY NextIInv DEF MInv, Next
<1>2. r = Len(lbRules) + 1
      BY MInvFacts DEF Finish, MInv, IInv
<1>3. QED
      BY <1>1, <1>2 DEF Finish, MInv, OriginsUpTo, LoopBuilt, RegionBuilt, RulesBefore, Built

\* A stuttering step keeps MInv.
LEMMA StutterMInv ==
    ASSUME MInv, UNCHANGED vars
    PROVE  MInv'
BY DEF vars, MInv, IInv, OriginsUpTo, LoopBuilt, RegionBuilt, RulesBefore, Built

\* A step that moves the loop on to rule r + 1 with s = 1, having built
\* nothing from a rule after r, starts rule r + 1 in the state LoopBuilt
\* asks for.
LEMMA AdvanceLoop ==
    ASSUME r \in Nat, pc' = "loop", r' = r + 1, s' = 1, lbRules' = lbRules,
           \A k \in 1..Len(out') : origin'[k] \in Nat /\ origin'[k] <= r
    PROVE  LoopBuilt'
<1>1. BuiltOf(out', origin', r') = {}
      BY DEF BuiltOf
<1>2. Routed(lbRules'[r'], Visited(svcs', s' - 1)) = {}
      BY DEF Routed, Visited
<1>3. QED
      BY <1>1, <1>2 DEF LoopBuilt, Built

\* The origins of the rules after a step are numbers (IInv').
LEMMA OriginsNat ==
    ASSUME IInv'
    PROVE  \A k \in 1..Len(out') : origin'[k] \in Nat
BY DEF IInv, OutOK

\* PassThrough: a rule without a selector is copied; it constrains
\* nothing, and rule r + 1 starts with nothing built from it.
LEMMA PassThroughMInv ==
    ASSUME MInv, PassThrough
    PROVE  MInv'
<1> DEFINE xs == <<lbRules[r]>>
<1>1. IInv'
      BY NextIInv DEF MInv, Next
<1>2. /\ pc = "loop" /\ r \in 1..Len(lbRules) /\ lbRules[r].sel = NoValue /\ s = 1
      /\ r \in Nat /\ OutOK(out, origin, lbRules)
      /\ \A k \in 1..Len(out) : origin[k] <= r
      BY MInvFacts DEF PassThrough, MInv, IInv, LoopBuilt
<1>3. IsSeq(xs) /\ Emit(xs)
      BY DEF IsSeq, Range, PassThrough
<1>4. /\ \A y : BuiltOf(out', origin', y) =
                  BuiltOf(out, origin, y) \cup (IF y = r THEN Targets(xs) ELSE {})
      /\ \A k \in 1..Len(out') : origin'[k] <= r
      BY <1>2, <1>3, EmitBuilt
<1>5. \A k \in 1..Len(out') : origin'[k] \in Nat /\ origin'[k] <= r
      BY <1>1, <1>4, OriginsNat
<1>6. OriginsUpTo'
      BY <1>2, <1>5 DEF PassThrough, OriginsUpTo
<1>7. LoopBuilt'
      BY <1>2, <1>5, AdvanceLoop DEF PassThrough
<1>8. RulesBefore'
      <2>1. SUFFICES ASSUME NEW y \in 1..r, lbRules[y].sel # NoValue
                     PROVE  BuiltOf(out', origin', y) = Routed(lbRules[y], SpecCandidates(lbRules[y]))
            <3>1. r' - 1 = r /\ lbRules' = lbRules
                  BY <1>2 DEF PassThrough
            <3>2. QED
                  BY <3>1 DEF RulesBefore, Built
      <2>2. y # r /\ y \in 1..r - 1
            BY <1>2, <2>1
      <2>3. BuiltOf(out', origin', y) = BuiltOf(out, origin, y)
            BY <1>4, <2>2
      <2>4. BuiltOf(out, origin, y) = Routed(lbRules[y], SpecCandidates(lbRules[y]))
            BY <2>1, <2>2 DEF MInv, RulesBefore, Built
      <2>5. QED
            BY <2>3, <2>4
<1>9. QED
      BY <1>1, <1>2, <1>6, <1>7, <1>8 DEF PassThrough, MInv, RegionBuilt

\* RegionsDone: rule r is complete, having visited every local and every
\* regional service; the loop goes on to rule r + 1.
LEMMA RegionsDoneMInv ==
    ASSUME MInv, RegionsDone
    PROVE  MInv'
<1> DEFINE R == lbRules[r]
<1>1. IInv'
      BY NextIInv DEF MInv, Next
<1>2. /\ pc = "region" /\ r \in 1..Len(lbRules) /\ R.sel # NoValue
      /\ r \in Nat /\ x = Len(ext) + 1 /\ svcs = Local
      /\ ext = RegionalFetch(R)
      /\ Built(r) = Routed(R, Range(svcs)) \cup Routed(R, Visited(ext, x - 1))
      /\ \A k \in 1..Len(out) : origin[k] \in Nat /\ origin[k] <= r
      BY MInvFacts DEF RegionsDone, MInv, IInv, RegionBuilt
<1>3. Visited(ext, x - 1) = Range(RegionalFetch(R))
      BY <1>2, VisitedAll DEF IInv, MInv, IsServiceSeq
<1>4. Built(r) = Routed(R, SpecCandidates(R))
      BY <1>2, <1>3, FetchedCandidates
<1>5. UNCHANGED <<out, origin, lbRules>> /\ pc' = "loop" /\ r' = r + 1 /\ s' = 1
      BY DEF RegionsDone
<1>6. LoopBuilt'
      BY <1>2, <1>5, AdvanceLoop
<1>7. RulesBefore'
      <2>1. SUFFICES ASSUME NEW y \in 1..r, lbRules[y].sel # NoValue
                     PROVE  BuiltOf(out, origin, y) = Routed(lbRules[y], SpecCandidates(lbRules[y]))
            <3>1. r' - 1 = r
                  BY <1>2, <1>5
            <3>2. QED
                  BY <1>5, <3>1 DEF RulesBefore, Built
      <2>2. CASE y = r
            BY <1>4, <2>2 DEF Built
      <2>3. CASE y # r
            BY <1>2, <2>1, <2>3 DEF MInv, RulesBefore, Built
      <2>4. QED
            BY <2>2, <2>3
<1>8. QED
      BY <1>1, <1>2, <1>5, <1>6, <1>7 DEF RegionsDone, MInv, OriginsUpTo, RegionBuilt

\* LocalService: local service s is visited; its rules, if it is routable,
\* add its stack and name to what rule r was expanded into.
LEMMA LocalServiceMInv ==
    ASSUME MInv, LocalService
    PROVE  MInv'
<1> DEFINE R == lbRules[r]
           S == svcs[s]
           xs == IF Considered(R, S) THEN Emitted(R, S, <<S.stack, S.name>>, FALSE) ELSE <<>>
<1>1. IInv'
      BY NextIInv DEF MInv, Next
<1>2. /\ pc = "loop" /\ r \in 1..Len(lbRules) /\ R.sel # NoValue
      /\ s \in 1..Len(svcs) /\ r \in Nat /\ s \in Nat
      /\ Built(r) = Routed(R, Visited(svcs, s - 1))
      /\ OutOK(out, origin, lbRules)
      /\ \A k \in 1..Len(out) : origin[k] <= r
      BY MInvFacts DEF LocalService, MInv, IInv, LoopBuilt
<1>3. /\ lbRules' = lbRules /\ svcs' = svcs /\ r' = r /\ s' = s + 1
      BY DEF LocalService
<1>4. CASE Considered(R, S) /\ S.bad
      <2>1. pc' = "error" /\ out' = out /\ origin' = origin
            BY <1>4 DEF LocalService
      <2>2. QED
            BY <1>1, <1>3, <2>1 DEF MInv, OriginsUpTo, LoopBuilt, RegionBuilt, RulesBefore, Built
<1>5. CASE ~(Considered(R, S) /\ S.bad)
      <2>1. Emit(xs) /\ pc' = "loop"
            BY <1>2, <1>5 DEF LocalService
      <2>2. IsSeq(S.nested)
            BY <1>2 DEF MInv, IInv, IsServiceSeq
      <2>3. LinkTarget(<<S.stack, S.name>>) = <<S.stack, S.name>>
            BY LinkTargets
      <2>4. IsSeq(xs) /\ Targets(xs) = IF SpecRoutable(R, S) THEN {<<S.stack, S.name>>} ELSE {}
            BY <2>2, <2>3, ServiceTargets
      <2>5. /\ \A y : BuiltOf(out', origin', y) =
                        BuiltOf(out, origin, y) \cup (IF y = r THEN Targets(xs) ELSE {})
            /\ \A k \in 1..Len(out') : origin'[k] <= r
            BY <1>2, <2>1, <2>4, EmitBuilt
      <2>6. BuiltOf(out', origin', r) = Routed(R, Visited(svcs, s))
            <3>1. BuiltOf(out', origin', r) = Routed(R, Visited(svcs, s - 1)) \cup Targets(xs)
                  BY <1>2, <2>5 DEF Built
            <3>2. Visited(svcs, s) = Visited(svcs, s - 1) \cup {S}
                  BY <1>2 DEF Visited
            <3>3. QED
                  BY <2>4, <3>1, <3>2 DEF Routed
      <2>7. LoopBuilt'
            BY <1>2, <1>3, <2>1, <2>6 DEF LoopBuilt, Built
      <2>8. RulesBefore'
            <3>1. SUFFICES ASSUME NEW y \in 1..r - 1, lbRules[y].sel # NoValue
                           PROVE  BuiltOf(out', origin', y) =
                                     Routed(lbRules[y], SpecCandidates(lbRules[y]))
                  BY <1>3 DEF RulesBefore, Built
            <3>2. y # r
                  BY <1>2
            <3>3. BuiltOf(out', origin', y) = BuiltOf(out, origin, y)
                  BY <2>5, <3>2
            <3>4. QED
                  BY <3>1, <3>3 DEF MInv, RulesBefore, Built
      <2>9. OriginsUpTo'
            BY <1>3, <2>5 DEF OriginsUpTo
      <2>10. RegionBuilt' /\ (pc' = "fetch" => out' = <<>> /\ r' = 1) /\ (pc' = "done" => r' = Len(lbRules') + 1)
            BY <2>1 DEF RegionBuilt
      <2>11. QED
            BY <1>1, <1>2, <1>3, <2>1, <2>7, <2>8, <2>9, <2>10 DEF MInv
<1>6. QED
      BY <1>4, <1>5

\* RegionsFetch: every local service has been visited; the regional
\* services are fetched (or the fetch fails) and none is visited yet.
LEMMA RegionsFetchMInv ==
    ASSUME MInv, RegionsFetch
    PROVE  MInv'
<1> DEFINE R == lbRules[r]
<1>1. IInv'
      BY NextIInv DEF MInv, Next
<1>2. /\ pc = "loop" /\ r \in 1..Len(lbRules) /\ R.sel # NoValue
      /\ s = Len(svcs) + 1
      /\ Built(r) = Routed(R, Visited(svcs, s - 1))
      BY MInvFacts DEF RegionsFetch, MInv, IInv, LoopBuilt
<1>3. Built(r) = Routed(R, Range(svcs))
      BY <1>2, VisitedAll DEF MInv, IInv, IsServiceSeq
<1>4. /\ UNCHANGED <<lbRules, svcs, r, s, out, origin>> /\ x' = 1
      /\ pc' \in {"error", "region"}
      /\ pc' = "region" => ext' = RegionalFetch(R)
      BY DEF RegionsFetch, RegionalFetch
<1>5. RegionBuilt'
      <2>1. Routed(R, Visited(ext', x' - 1)) = {}
            BY <1>4 DEF Routed, Visited
      <2>2. QED
            BY <1>2, <1>3, <1>4, <2>1 DEF RegionBuilt, Built
<1>6. QED
      BY <1>1, <1>2, <1>4, <1>5 DEF MInv, OriginsUpTo, LoopBuilt, RulesBefore, Built

\* In the current revision a regional service's link ends with its stack
\* and name: a rule with regional services has an environment, so the
\* link is region/env/stack/name or env/stack/name.
LEMMA RegionalLinkTarget ==
    ASSUME rev = "current", NEW R, NEW S, RegionalFetch(R) # <<>>
    PROVE  LinkTarget(RegionalLink(R, S)) = <<S.stack, S.name>>
<1>1. R.env # NoValue
      BY DEF RegionalFetch
<1>2. CASE R.region # NoValue
      <2>1. RegionalLink(R, S) = <<R.region, R.env, S.stack, S.name>>
            BY <1>2 DEF RegionalLink
      <2>2. QED
            BY <2>1, LinkTargets
<1>3. CASE R.region = NoValue
      <2>1. RegionalLink(R, S) = <<R.env, S.stack, S.name>>
            BY <1>1, <1>3 DEF RegionalLink
      <2>2. QED
            BY <2>1, LinkTargets
<1>4. QED
      BY <1>2, <1>3

\* RegionService: regional service x is visited; its rules, if it is
\* routable, add its stack and name to what rule r was expanded into.
LEMMA RegionServiceMInv ==
    ASSUME rev = "current", MInv, RegionService
    PROVE  MInv'
<1> DEFINE R == lbRules[r]
           S == ext[x]
           xs == IF Considered(R, S) THEN Emitted(R, S, RegionalLink(R, S), TRUE) ELSE <<>>
<1>1. IInv'
      BY NextIInv DEF MInv, Next
<1>2. /\ pc = "region" /\ r \in 1..Len(lbRules) /\ R.sel # NoValue
      /\ x \in 1..Len(ext) /\ r \in Nat /\ x \in Nat
      /\ s = Len(svcs) + 1 /\ ext = RegionalFetch(R)
      /\ Built(r) = Routed(R, Range(svcs)) \cup Routed(R, Visited(ext, x - 1))
      /\ OutOK(out, origin, lbRules)
      /\ \A k \in 1..Len(out) : origin[k] <= r
      BY MInvFacts DEF RegionService, MInv, IInv, RegionBuilt
<1>3. /\ lbRules' = lbRules /\ svcs' = svcs /\ r' = r /\ s' = s /\ ext' = ext
      /\ x' = x + 1
      BY DEF RegionService
<1>4. CASE Considered(R, S) /\ S.bad
      <2>1. pc' = "error" /\ out' = out /\ origin' = origin
            BY <1>4 DEF RegionService
      <2>2. QED
            BY <1>1, <1>3, <2>1 DEF MInv, OriginsUpTo, LoopBuilt, RegionBuilt, RulesBefore, Built
<1>5. CASE ~(Considered(R, S) /\ S.bad)
      <2>1. Emit(xs) /\ pc' = "region"
            BY <1>2, <1>5 DEF RegionService
      <2>2. IsSeq(S.nested)
            BY <1>2 DEF MInv, IInv, IsServiceSeq
      <2>3. LinkTarget(RegionalLink(R, S)) = <<S.stack, S.name>>
            <3>1. RegionalFetch(R) # <<>>
                  BY <1>2
            <3>2. QED
                  BY <3>1, RegionalLinkTarget
      <2>4. IsSeq(xs) /\ Targets(xs) = IF SpecRoutable(R, S) THEN {<<S.stack, S.name>>} ELSE {}
            BY <2>2, <2>3, ServiceTargets
      <2>5. /\ \A y : BuiltOf(out', origin', y) =
                        BuiltOf(out, origin, y) \cup (IF y = r THEN Targets(xs) ELSE {})
            /\ \A k \in 1..Len(out') : origin'[k] <= r
            BY <1>2, <2>1, <2>4, EmitBuilt
      <2>6. BuiltOf(out', origin', r) = Routed(R, Range(svcs)) \cup Routed(R, Visited(ext, x))
            <3>1. BuiltOf(out', origin', r) =
                     Routed(R, Range(svcs)) \cup Routed(R, Visited(ext, x - 1)) \cup Targets(xs)
                  BY <1>2, <2>5 DEF Built
            <3>2. Visited(ext, x) = Visited(ext, x - 1) \cup {S}
                  BY <1>2 DEF Visited
            <3>3. QED
                  BY <2>4, <3>1, <3>2 DEF Routed
      <2>7. RegionBuilt'
            BY <1>2, <1>3, <2>1, <2>6 DEF RegionBuilt, Built
      <2>8. RulesBefore'
            <3>1. SUFFICES ASSUME NEW y \in 1..r - 1, lbRules[y].sel # NoValue
                           PROVE  BuiltOf(out', origin', y) =
                                     Routed(lbRules[y], SpecCandidates(lbRules[y]))
                  BY <1>3 DEF RulesBefore, Built
            <3>2. y # r
                  BY <1>2
            <3>3. BuiltOf(out', origin', y) = BuiltOf(out, origin, y)
                  BY <2>5, <3>2
            <3>4. QED
                  BY <3>1, <3>3 DEF MInv, RulesBefore, Built
      <2>9. OriginsUpTo'
            BY <1>3, <2>5 DEF OriginsUpTo
      <2>10. LoopBuilt' /\ (pc' = "fetch" => out' = <<>> /\ r' = 1) /\ (pc' = "done" => r' = Len(lbRules') + 1)
            BY <2>1 DEF LoopBuilt
      <2>11. QED
            BY <1>1, <1>2, <1>3, <2>1, <2>7, <2>8, <2>9, <2>10 DEF MInv
<1>6. QED
      BY <1>4, <1>5

\* Every step of the current revision keeps MInv.  (The steps of the
\* earlier revision are not enabled.)
LEMMA NextMInv ==
    ASSUME rev = "current", MInv, [Next]_vars
    PROVE  MInv'
<1>1. CASE FetchServices
      BY <1>1, FetchServicesMInv
<1>2. CASE FetchServicesEarlier
      BY <1>2 DEF FetchServicesEarlier
<1>3. CASE PassThrough
      BY <1>3, PassThroughMInv
<1>4. CASE LocalService
      BY <1>4, LocalServiceMInv
<1>5. CASE RegionsFetch
      BY <1>5, RegionsFetchMInv
<1>6. CASE RegionsFetchEarlier
      BY <1>6 DEF RegionsFetchEarlier
<1>7. CASE RegionService
      BY <1>7, RegionServiceMInv
<1>8. CASE RegionsDone
      BY <1>8, RegionsDoneMInv
<1>9. CASE Finish
      BY <1>9, FinishMInv
<1>10. CASE UNCHANGED vars
      BY <1>10, StutterMInv
<1>11. QED
      BY <1>1, <1>2, <1>3, <1>4, <1>5, <1>6, <1>7, <1>8, <1>9, <1>10 DEF Next

\* When the loop is done, every rule is before r, so RulesBefore is
\* EveryMatchExpanded.
LEMMA MInvProperty == MInv => EveryMatchExpanded
BY DEF MInv, RulesBefore, Built, BuiltOf, Routed, EveryMatchExpanded

\* No step changes the revision that runs.
LEMMA RevUnchanged == [Next]_vars => rev' = rev
BY DEF Next, vars, FetchServices, FetchServicesEarlier, PassThrough, LocalService,
       RegionsFetch, RegionsFetchEarlier, RegionService, RegionsDone, Finish

\* The inductive invariant of the theorem: MInv whenever the current
\* revision runs.
CInv == rev = "current" => MInv

-----------------------------------------------------------------------------
(* The theorem.                                                            *)

\* In the current revision, when processSelector returns without an error,
\* the services the rules built from each selector rule name are exactly
\* its candidates (local, and those of its environment in its region)
\* whose labels match and that can be routed to (spec 4.1 steps 2-3).  The
\* earlier revision drops the regional fetch error and reads a failed
\* fetch as no services; run selector_fetch_error shows it violating this.
THEOREM CurrentExpandsEveryMatchHolds == Spec => []CurrentExpandsEveryMatch
<1>1. Init => CInv
      BY InitMInv DEF CInv
<1>2. CInv /\ [Next]_vars => CInv'
      <2> SUFFICES ASSUME CInv, [Next]_vars PROVE CInv'
          OBVIOUS
      <2>1. rev' = rev
            BY RevUnchanged
      <2>2. CASE rev = "current"
            BY <2>1, <2>2, NextMInv DEF CInv
      <2>3. CASE rev # "current"
            BY <2>1, <2>3 DEF CInv
      <2>4. QED
            BY <2>2, <2>3
<1>3. CInv => CurrentExpandsEveryMatch
      BY MInvProperty DEF CInv, CurrentExpandsEveryMatch
<1>4. QED
      BY <1>1, <1>2, <1>3, PTL DEF Spec

=============================================================================
