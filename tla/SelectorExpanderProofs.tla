----------------------- MODULE SelectorExpanderProofs -----------------------
(***************************************************************************)
(* Proofs about processSelector, for every revision and every input the    *)
(* metadata client can return: no rule it outputs carries a selector, and  *)
(* every rule built from a selector rule keeps that rule's SourcePort,     *)
(* Protocol and Weight.                                                    *)
(***************************************************************************)
EXTENDS SelectorExpander, SequenceTheorems, TLAPS

\* Rule y may stand in the output for input rule R: it has no selector,
\* R's SourcePort, Protocol and Weight, and is R itself when R has no
\* selector.
Fits(y, R) ==
    /\ y.sel = NoValue
    /\ y.port = R.port
    /\ y.proto = R.proto
    /\ y.weight = R.weight
    /\ R.sel = NoValue => y = R

\* out and origin are lists of equal length, and out[k] fits the input rule
\* origin[k] names in rules.
OutOK(o, og, rules) ==
    /\ IsSeq(o) /\ IsSeq(og) /\ Len(og) = Len(o)
    /\ \A k \in 1..Len(o) : og[k] \in 1..Len(rules) /\ Fits(o[k], rules[og[k]])

\* TypeOK and ExpansionKeepsFrontendFields are not inductive by themselves:
\* a step appends rules built from lbRules[r] and reads the service lists,
\* so the invariant also says these are lists, and that the rule the region
\* loop is at exists and is a selector rule.
IInv ==
    /\ pc \in {"fetch", "loop", "region", "done", "error"}
    /\ r \in 1..Len(lbRules) + 1
    /\ s \in 1..Len(svcs) + 1
    /\ x \in 1..Len(ext) + 1
    /\ OutOK(out, origin, lbRules)
    /\ lbRules \in RuleLists
    /\ IsServiceSeq(svcs)
    /\ IsServiceSeq(ext)
    /\ pc = "fetch" => s = 1
    /\ pc = "region" => r \in 1..Len(lbRules) /\ lbRules[r].sel # NoValue

-----------------------------------------------------------------------------
(* Lemmas about the operators the expansion is built from.                 *)

\* A list of n computed elements is a list of length n.
LEMMA MkSeq ==
    ASSUME NEW n \in Nat, NEW f, f = [j \in 1..n |-> f[j]]
    PROVE  IsSeq(f) /\ Len(f) = n
<1>1. f \in Seq(Range(f))
      BY DEF Range
<1>2. QED
      BY <1>1 DEF IsSeq

\* The origins Emit appends for n rules built from input rule i.
Origins(n, i) == [j \in 1..n |-> i]

\* Appending the rules xs built from input rule i (Emit) keeps OutOK when
\* each of them fits that rule: the old entries stay, and the new ones are
\* xs, each with origin i.
LEMMA EmitKeeps ==
    ASSUME NEW o, NEW og, NEW xs, NEW i \in 1..Len(lbRules),
           OutOK(o, og, lbRules), IsSeq(xs),
           \A j \in 1..Len(xs) : Fits(xs[j], lbRules[i])
    PROVE  OutOK(o \o xs, og \o Origins(Len(xs), i), lbRules)
<1> DEFINE ys == Origins(Len(xs), i)
           U == Range(o) \cup Range(xs) \cup Range(og) \cup {i}
<1>0. IsSeq(o) /\ IsSeq(og) /\ Len(og) = Len(o)
      BY DEF OutOK
<1>1. Len(xs) \in Nat
      BY LenProperties DEF IsSeq
<1>2. IsSeq(ys) /\ Len(ys) = Len(xs)
      BY <1>1, MkSeq DEF Origins
<1>3. /\ o \in Seq(U) /\ xs \in Seq(U)
      /\ og \in Seq(U) /\ ys \in Seq(U)
      <2>1. /\ Range(o) \subseteq U /\ Range(xs) \subseteq U
            /\ Range(og) \subseteq U
            OBVIOUS
      <2>2. o \in Seq(U)
            BY <1>0, <2>1, SeqMonotonic DEF IsSeq
      <2>3. xs \in Seq(U)
            BY <2>1, SeqMonotonic DEF IsSeq
      <2>4. og \in Seq(U)
            BY <1>0, <2>1, SeqMonotonic DEF IsSeq
      <2>5. ys \in Seq(U)
            BY <1>1 DEF Origins
      <2>6. QED
            BY <2>2, <2>3, <2>4, <2>5
<1>4. /\ o \o xs \in Seq(U)
      /\ Len(o \o xs) = Len(o) + Len(xs)
      /\ \A k \in 1 .. Len(o) + Len(xs) :
            (o \o xs)[k] = IF k <= Len(o) THEN o[k] ELSE xs[k - Len(o)]
      BY <1>3, ConcatProperties
<1>5. /\ og \o ys \in Seq(U)
      /\ Len(og \o ys) = Len(og) + Len(ys)
      /\ \A k \in 1 .. Len(og) + Len(ys) :
            (og \o ys)[k] = IF k <= Len(og) THEN og[k] ELSE ys[k - Len(og)]
      BY <1>3, ConcatProperties
<1>6. IsSeq(o \o xs) /\ IsSeq(og \o ys)
      BY <1>4, <1>5, SeqOfRange DEF IsSeq
<1>7. Len(o) \in Nat /\ Len(og) \in Nat
      BY <1>3, LenProperties
<1>8. ASSUME NEW k \in 1..Len(o \o xs)
      PROVE  (og \o ys)[k] \in 1..Len(lbRules) /\ Fits((o \o xs)[k], lbRules[(og \o ys)[k]])
      <2>1. CASE k <= Len(o)
            <3>1. (o \o xs)[k] = o[k] /\ (og \o ys)[k] = og[k]
                  BY <2>1, <1>0, <1>1, <1>2, <1>4, <1>5, <1>7
            <3>2. QED
                  BY <2>1, <3>1, <1>7 DEF OutOK
      <2>2. CASE ~(k <= Len(o))
            <3>1. k - Len(o) \in 1..Len(xs)
                  BY <2>2, <1>1, <1>4, <1>7
            <3>2. ys[k - Len(o)] = i
                  BY <3>1 DEF Origins
            <3>3. (o \o xs)[k] = xs[k - Len(o)] /\ (og \o ys)[k] = i
                  BY <2>2, <3>1, <3>2, <1>0, <1>1, <1>2, <1>4, <1>5, <1>7
            <3>4. QED
                  BY <3>1, <3>3
      <2>3. QED
            BY <2>1, <2>2
<1>9. QED
      BY <1>0, <1>1, <1>2, <1>4, <1>5, <1>6, <1>8 DEF OutOK

\* The rules Emitted builds from selector rule R for service S form a list,
\* and each has no selector and R's SourcePort, Protocol and Weight.
LEMMA EmittedFacts ==
    ASSUME NEW R, NEW S, NEW link, NEW rg, IsSeq(S.nested)
    PROVE  LET xs == Emitted(R, S, link, rg)
           IN  /\ IsSeq(xs)
               /\ \A j \in 1..Len(xs) :
                     /\ xs[j].sel = NoValue
                     /\ xs[j].port = R.port
                     /\ xs[j].proto = R.proto
                     /\ xs[j].weight = R.weight
<1>1. Len(S.nested) \in Nat
      BY LenProperties DEF IsSeq
<1>2. CASE S.nested # <<>>
      <2> DEFINE xs == [j \in 1..Len(S.nested) |-> Derived(R, S.nested[j], link, rg)]
      <2>1. IsSeq(xs) /\ Len(xs) = Len(S.nested)
            BY <1>1, MkSeq
      <2>2. QED
            BY <1>2, <2>1 DEF Emitted, Derived
<1>3. CASE S.nested = <<>>
      <2> DEFINE xs == <<Derived(R, R, link, rg)>>
      <2>1. IsSeq(xs) /\ Len(xs) = 1
            BY DEF IsSeq, Range
      <2>2. QED
            BY <1>3, <2>1 DEF Emitted, Derived
<1>4. QED
      BY <1>2, <1>3

\* An Emit of rules that fit rule r keeps OutOK.
LEMMA EmitStep ==
    ASSUME NEW xs, OutOK(out, origin, lbRules), IsSeq(xs),
           r \in 1..Len(lbRules),
           \A j \in 1..Len(xs) : Fits(xs[j], lbRules[r]),
           Emit(xs)
    PROVE  OutOK(out', origin', lbRules)
<1>1. out' = out \o xs /\ origin' = origin \o Origins(Len(xs), r)
      BY DEF Emit, Origins
<1>2. OutOK(out \o xs, origin \o Origins(Len(xs), r), lbRules)
      BY EmitKeeps
<1>3. QED
      BY <1>1, <1>2

\* What one service S of selector rule R appends (LocalService and
\* RegionService): nothing when S is not considered, else Emitted.
LEMMA ServiceEmit ==
    ASSUME NEW R, NEW S, NEW link, NEW rg, IsSeq(S.nested), R.sel # NoValue
    PROVE  LET xs == IF Considered(R, S) THEN Emitted(R, S, link, rg) ELSE <<>>
           IN  IsSeq(xs) /\ \A j \in 1..Len(xs) : Fits(xs[j], R)
<1>1. CASE Considered(R, S)
      BY <1>1, EmittedFacts DEF Fits
<1>2. CASE ~Considered(R, S)
      BY <1>2 DEF IsSeq, Range
<1>3. QED
      BY <1>1, <1>2

\* The port rules processSelector reads form a list.
LEMMA RulesSeq ==
    ASSUME lbRules \in RuleLists
    PROVE  IsSeq(lbRules) /\ Len(lbRules) \in Nat
BY InputsAssumption, LenProperties DEF IsSeq

\* The invariant gives the two properties.
LEMMA IInvProperties == IInv => TypeOK /\ ExpansionKeepsFrontendFields
BY DEF IInv, OutOK, Fits, TypeOK, ExpansionKeepsFrontendFields

\* The state processSelector starts in satisfies IInv.
LEMMA InitIInv == Init => IInv
<1> SUFFICES ASSUME Init PROVE IInv
    OBVIOUS
<1>1. IsSeq(lbRules) /\ Len(lbRules) \in Nat
      BY RulesSeq DEF Init
<1>2. IsServiceSeq(<<>>) /\ OutOK(<<>>, <<>>, lbRules)
      BY DEF IsServiceSeq, IsSeq, Range, OutOK
<1>3. QED
      BY <1>1, <1>2 DEF Init, IInv

\* Every step of processSelector preserves IInv.
LEMMA NextIInv == IInv /\ [Next]_vars => IInv'
<1> SUFFICES ASSUME IInv, [Next]_vars PROVE IInv'
    OBVIOUS
<1>0. /\ IsSeq(lbRules) /\ Len(lbRules) \in Nat
      /\ Len(svcs) \in Nat /\ Len(ext) \in Nat
      /\ OutOK(out, origin, lbRules)
      BY RulesSeq, LenProperties DEF IInv, IsServiceSeq, IsSeq
<1>1. CASE FetchServices
      BY <1>0, <1>1, InputsAssumption, LenProperties DEF FetchServices, IInv, IsServiceSeq, IsSeq
<1>2. CASE FetchServicesEarlier
      BY <1>0, <1>1, <1>2, InputsAssumption, LenProperties
         DEF FetchServicesEarlier, IInv, IsServiceSeq, IsSeq
<1>3. CASE PassThrough
      <2>1. IsSeq(<<lbRules[r]>>) /\ Len(<<lbRules[r]>>) = 1
            BY DEF IsSeq, Range
      <2>2. r \in 1..Len(lbRules) /\ Fits(lbRules[r], lbRules[r])
            BY <1>0, <1>3 DEF PassThrough, Fits, IInv
      <2>3. OutOK(out', origin', lbRules)
            BY <1>0, <1>3, <2>1, <2>2, EmitStep DEF PassThrough
      <2>4. QED
            BY <1>0, <1>3, <2>3 DEF PassThrough, IInv
<1>4. CASE LocalService
      <2> DEFINE R == lbRules[r]
                 S == svcs[s]
                 xs == IF Considered(R, S) THEN Emitted(R, S, <<S.stack, S.name>>, FALSE) ELSE <<>>
      <2>1. r \in 1..Len(lbRules) /\ s \in 1..Len(svcs) /\ R.sel # NoValue
            BY <1>0, <1>4 DEF LocalService, IInv
      <2>2. IsSeq(S.nested)
            BY <2>1 DEF IInv, IsServiceSeq
      <2>3. IsSeq(xs) /\ \A j \in 1..Len(xs) : Fits(xs[j], R)
            BY <2>1, <2>2, ServiceEmit
      <2>4. OutOK(out', origin', lbRules)
            <3>1. CASE Considered(R, S) /\ S.bad
                  BY <1>0, <1>4, <3>1 DEF LocalService
            <3>2. CASE ~(Considered(R, S) /\ S.bad)
                  <4>1. Emit(xs)
                        BY <1>4, <3>2 DEF LocalService
                  <4>2. QED
                        BY <1>0, <2>1, <2>3, <4>1, EmitStep
            <3>3. QED
                  BY <3>1, <3>2
      <2>5. pc' \in {"error", pc}
            BY <1>4 DEF LocalService
      <2>6. QED
            BY <1>0, <1>4, <2>1, <2>4, <2>5 DEF LocalService, IInv
<1>5. CASE RegionsFetch
      <2> DEFINE R == lbRules[r]
      <2>1. r \in 1..Len(lbRules) /\ R.sel # NoValue
            BY <1>0, <1>5 DEF RegionsFetch, IInv
      <2>2. \A ss \in Fetchable(R) : IsServiceSeq(ss)
            BY <2>1, InputsAssumption DEF IInv
      <2>3. IsServiceSeq(ext')
            <3>1. IsServiceSeq(<<>>)
                  BY DEF IsServiceSeq, IsSeq, Range
            <3>2. QED
                  BY <1>5, <2>2, <3>1 DEF RegionsFetch, Fetchable, IInv
      <2>4. Len(ext') \in Nat
            BY <2>3, LenProperties DEF IsServiceSeq, IsSeq
      <2>5. QED
            BY <1>0, <1>5, <2>1, <2>3, <2>4 DEF RegionsFetch, IInv
<1>6. CASE RegionsFetchEarlier
      <2> DEFINE R == lbRules[r]
      <2>1. r \in 1..Len(lbRules) /\ R.sel # NoValue
            BY <1>0, <1>6 DEF RegionsFetchEarlier, IInv
      <2>2. \A ss \in Fetchable(R) : IsServiceSeq(ss)
            BY <2>1, InputsAssumption DEF IInv
      <2>3. IsServiceSeq(ext')
            <3>1. IsServiceSeq(<<>>)
                  BY DEF IsServiceSeq, IsSeq, Range
            <3>2. QED
                  BY <1>6, <2>2, <3>1 DEF RegionsFetchEarlier, Fetchable, IInv
      <2>4. Len(ext') \in Nat
            BY <2>3, LenProperties DEF IsServiceSeq, IsSeq
      <2>5. QED
            BY <1>0, <1>6, <2>1, <2>3, <2>4 DEF RegionsFetchEarlier, IInv
<1>7. CASE RegionService
      <2> DEFINE R == lbRules[r]
                 S == ext[x]
                 xs == IF Considered(R, S) THEN Emitted(R, S, RegionalLink(R, S), TRUE) ELSE <<>>
      <2>1. r \in 1..Len(lbRules) /\ x \in 1..Len(ext) /\ R.sel # NoValue
            BY <1>0, <1>7 DEF RegionService, IInv
      <2>2. IsSeq(S.nested)
            BY <2>1 DEF IInv, IsServiceSeq
      <2>3. IsSeq(xs) /\ \A j \in 1..Len(xs) : Fits(xs[j], R)
            BY <2>1, <2>2, ServiceEmit
      <2>4. OutOK(out', origin', lbRules)
            <3>1. CASE Considered(R, S) /\ S.bad
                  BY <1>0, <1>7, <3>1 DEF RegionService
            <3>2. CASE ~(Considered(R, S) /\ S.bad)
                  <4>1. Emit(xs)
                        BY <1>7, <3>2 DEF RegionService
                  <4>2. QED
                        BY <1>0, <2>1, <2>3, <4>1, EmitStep
            <3>3. QED
                  BY <3>1, <3>2
      <2>5. pc' \in {"error", "region"}
            BY <1>7 DEF RegionService
      <2>6. QED
            BY <1>0, <1>7, <2>1, <2>4, <2>5 DEF RegionService, IInv
<1>8. CASE RegionsDone
      BY <1>0, <1>8 DEF RegionsDone, IInv
<1>9. CASE Finish
      BY <1>0, <1>9 DEF Finish, IInv
<1>10. CASE UNCHANGED vars
      BY <1>10 DEF vars, IInv
<1>11. QED
      BY <1>1, <1>2, <1>3, <1>4, <1>5, <1>6, <1>7, <1>8, <1>9, <1>10 DEF Next

\* IInv holds in every state of every run of processSelector.
THEOREM InvariantHolds == Spec => []IInv
<1>1. Init => IInv
      BY InitIInv
<1>2. IInv /\ [Next]_vars => IInv'
      BY NextIInv
<1>3. QED
      BY <1>1, <1>2, PTL DEF Spec

\* No rule processSelector outputs carries a selector, and every output
\* rule's origin is an input rule (TypeOK), whatever the revision, the
\* port rules and the services the metadata client returns.
THEOREM TypeCorrect == Spec => []TypeOK
<1>1. IInv => TypeOK
      BY IInvProperties
<1>2. QED
      BY <1>1, InvariantHolds, PTL

\* Every rule processSelector builds from a selector rule keeps that rule's
\* SourcePort, Protocol and Weight, and a rule without a selector passes
\* through unchanged (spec 4.1 step 3), for every input.
THEOREM FrontendFieldsKept == Spec => []ExpansionKeepsFrontendFields
<1>1. IInv => ExpansionKeepsFrontendFields
      BY IInvProperties
<1>2. QED
      BY <1>1, InvariantHolds, PTL

=============================================================================
