------------------------- MODULE ConfigBuilderProofs -------------------------
(***************************************************************************)
(* Proofs about BuildConfigFromMetadata, for every revision, metadata      *)
(* snapshot and list of port rules: the type invariant, the frontend and  *)
(* backend structure keyed by pathUUID (BackendsPerIdentity) and the      *)
(* protocol of each frontend (FirstPlacedProtocolWins).  They hold         *)
(* whatever endpoints a resolution returns, so the proofs never look      *)
(* inside RuleOutcomes.                                                    *)
(***************************************************************************)
EXTENDS ConfigBuilder, SequenceTheorems, TLAPS

\* The frontend named nm has the protocol of its first placed rule, stated
\* with the first rule as a witness instead of Min.
FirstPlacedWitness ==
    \A nm \in DOMAIN fmap :
       \E m \in PlacedOn(nm) :
          /\ \A y \in PlacedOn(nm) : m <= y
          /\ fmap[nm].proto = rules[m].proto

\* The inductive invariant: TypeOK and BackendsPerIdentity, with the facts
\* that each placed rule's key is its pathUUID, that the backend lists are
\* lists, and the witness form of FirstPlacedProtocolWins.
IInv ==
    /\ TypeOK
    /\ rules \in RuleLists
    /\ \A j \in DOMAIN placed : placed[j].key = PathUUID(rules[j])
    /\ \A nm \in DOMAIN fmap :
          /\ {"bes", "proto"} \subseteq DOMAIN fmap[nm]
          /\ fmap[nm].bes \in Seq(Range(fmap[nm].bes))
    /\ BackendsPerIdentity
    /\ FirstPlacedWitness

-----------------------------------------------------------------------------
(* Lemmas about the operators the builder is built from.                   *)

\* What storing b under key a in the map f does.
LEMMA StoreFacts ==
    ASSUME NEW a, NEW b, NEW f
    PROVE  /\ DOMAIN MapPut(f, a, b) = {a} \cup DOMAIN f
           /\ MapPut(f, a, b)[a] = b
           /\ \A y \in DOMAIN f \ {a} : MapPut(f, a, b)[y] = f[y]
BY DEF MapPut

\* The first character of a concatenation whose left part is not empty.
LEMMA ConcatHead ==
    ASSUME NEW S, NEW s \in Seq(S), NEW u \in Seq(S), Len(s) >= 1
    PROVE  /\ s \o u \in Seq(S)
           /\ Len(s \o u) >= 1
           /\ (s \o u)[1] = s[1]
BY ConcatProperties

\* Normalize keeps host name and path strings.
LEMMA NormalizeStrings ==
    ASSUME NEW r, r.host \in Seq(Chars), r.path \in Seq(Chars)
    PROVE  Normalize(r).host \in Seq(Chars) /\ Normalize(r).path \in Seq(Chars)
<1> DEFINE h == IF r.proto \in HttpProtos THEN r.host ELSE <<>>
<1>1. h \in Seq(Chars)
      OBVIOUS
<1>2. Len(h) > 2 => Tail(h) \in Seq(Chars) /\ SubSeq(h, 1, Len(h) - 1) \in Seq(Chars)
      BY <1>1
<1>3. QED
      BY <1>1, <1>2 DEF Normalize

\* pathUUID starts with Itoa(SourcePort) (line 383).
LEMMA PathUUIDHead ==
    ASSUME NEW r, r.host \in Seq(Chars), r.path \in Seq(Chars)
    PROVE  PathUUID(r)[1] = Digit[r.port]
<1> DEFINE S == Chars \cup {"_", Digit[r.port]}
           n == Normalize(r)
<1>1. n.host \in Seq(S) /\ n.path \in Seq(S)
      <2>1. n.host \in Seq(Chars) /\ n.path \in Seq(Chars)
            BY NormalizeStrings
      <2>2. QED
            BY <2>1, SeqMonotonic
<1>2. Itoa(r.port) \in Seq(S) /\ Len(Itoa(r.port)) >= 1 /\ <<"_">> \in Seq(S)
      BY DEF Itoa
<1>3. Itoa(r.port) \o <<"_">> \in Seq(S) /\ Len(Itoa(r.port) \o <<"_">>) >= 1
      /\ (Itoa(r.port) \o <<"_">>)[1] = Digit[r.port]
      BY <1>2, ConcatHead DEF Itoa
<1>4. Itoa(r.port) \o <<"_">> \o n.host \in Seq(S)
      /\ Len(Itoa(r.port) \o <<"_">> \o n.host) >= 1
      /\ (Itoa(r.port) \o <<"_">> \o n.host)[1] = Digit[r.port]
      BY <1>1, <1>3, ConcatHead
<1>5. Itoa(r.port) \o <<"_">> \o n.host \o <<"_">> \in Seq(S)
      /\ Len(Itoa(r.port) \o <<"_">> \o n.host \o <<"_">>) >= 1
      /\ (Itoa(r.port) \o <<"_">> \o n.host \o <<"_">>)[1] = Digit[r.port]
      BY <1>2, <1>4, ConcatHead
<1>6. (Itoa(r.port) \o <<"_">> \o n.host \o <<"_">> \o n.path)[1] = Digit[r.port]
      BY <1>1, <1>5, ConcatHead
<1>7. QED
      BY <1>6 DEF PathUUID

\* Rules with one pathUUID have one frontend: the key's leading
\* Itoa(SourcePort) is followed by "_", so it determines the port.
LEMMA SameKeySamePort ==
    ASSUME NEW r1, NEW r2,
           r1.host \in Seq(Chars), r1.path \in Seq(Chars),
           r2.host \in Seq(Chars), r2.path \in Seq(Chars),
           PathUUID(r1) = PathUUID(r2)
    PROVE  Itoa(r1.port) = Itoa(r2.port)
<1>1. Digit[r1.port] = Digit[r2.port]
      BY PathUUIDHead
<1>2. QED
      BY <1>1 DEF Itoa

\* The port rules are a list of rules with string host names and paths.
LEMMA RulesFacts ==
    ASSUME rules \in RuleLists
    PROVE  /\ rules \in Seq(Range(rules)) /\ Len(rules) \in Nat
           /\ \A j \in 1..Len(rules) :
                 rules[j].host \in Seq(Chars) /\ rules[j].path \in Seq(Chars)
BY InputsAssumption, LenProperties

\* Appending x to a list adds x to its elements, and keeps a list without
\* repetitions so when x is new.
LEMMA AppendRange ==
    ASSUME NEW S, NEW s \in Seq(S), NEW x
    PROVE  /\ Range(Append(s, x)) = Range(s) \cup {x}
           /\ Append(s, x) \in Seq(Range(Append(s, x)))
           /\ IsInjective(s) /\ x \notin Range(s) => IsInjective(Append(s, x))
<1>1. Append(s, x) \in Seq(S \cup {x}) /\ Len(Append(s, x)) = Len(s) + 1
      /\ \A j \in 1..Len(s) : Append(s, x)[j] = s[j]
      /\ Append(s, x)[Len(s) + 1] = x
      BY AppendProperties, SeqMonotonic
<1>2. Range(Append(s, x)) = Range(s) \cup {x}
      BY <1>1 DEF Range
<1>3. Append(s, x) \in Seq(Range(Append(s, x)))
      BY <1>1, SeqOfRange
<1>4. IsInjective(s) /\ x \notin Range(s) => IsInjective(Append(s, x))
      BY <1>1 DEF IsInjective, Range
<1>5. QED
      BY <1>2, <1>3, <1>4

-----------------------------------------------------------------------------
(* The inductive invariant.                                                *)

\* The rule the loop is at, its pathUUID and frontend name, and the frontend
\* Place works on (lines 316-328): the stored one, or a new one.
Key == PathUUID(rules[i])
Name == Itoa(rules[i].port)
Fe == IF Name \in DOMAIN fmap THEN fmap[Name]
      ELSE [name |-> Name, port |-> rules[i].port, proto |-> rules[i].proto, bes |-> <<>>]

\* Under IInv, the frontend Place works on lists the backends of the rules
\* placed on it, and has the protocol of the first of them if any, else the
\* protocol of the rule in hand; the pathUUID of that rule is a backend
\* only if the rule shares its frontend with the rule that made it.
LEMMA FrontendInHand ==
    ASSUME IInv, i \in 1..Len(rules)
    PROVE  /\ {"bes", "proto"} \subseteq DOMAIN Fe
           /\ Fe.bes \in Seq(Range(Fe.bes))
           /\ IsInjective(Fe.bes)
           /\ Range(Fe.bes) = {placed[j].key : j \in PlacedOn(Name)}
           /\ \/ \E m \in PlacedOn(Name) :
                    /\ \A y \in PlacedOn(Name) : m <= y
                    /\ Fe.proto = rules[m].proto
              \/ PlacedOn(Name) = {} /\ Fe.proto = rules[i].proto
           /\ Key \in DOMAIN allBe => Name \in DOMAIN fmap /\ Key \in Range(Fe.bes)
<1>1. rules[i].host \in Seq(Chars) /\ rules[i].path \in Seq(Chars)
      /\ \A j \in DOMAIN placed : rules[j].host \in Seq(Chars) /\ rules[j].path \in Seq(Chars)
      BY RulesFacts DEF IInv, TypeOK
<1>2. Key \in DOMAIN allBe => Name \in DOMAIN fmap /\ Key \in Range(Fe.bes)
      <2>1. SUFFICES ASSUME NEW j \in DOMAIN placed, placed[j].key = Key
                     PROVE  Name \in DOMAIN fmap /\ Key \in Range(Fe.bes)
            BY DEF IInv, BackendsPerIdentity
      <2>2. Itoa(rules[j].port) = Name
            BY <1>1, <2>1, SameKeySamePort DEF IInv, Key, Name
      <2>3. j \in PlacedOn(Name)
            BY <2>1, <2>2 DEF PlacedOn
      <2>4. Name \in DOMAIN fmap
            BY <2>1, <2>2 DEF IInv, BackendsPerIdentity
      <2>5. Range(Fe.bes) = {placed[y].key : y \in PlacedOn(Name)}
            BY <2>4 DEF Fe, IInv, BackendsPerIdentity
      <2>6. QED
            BY <2>1, <2>3, <2>4, <2>5
<1>3. CASE Name \in DOMAIN fmap
      <2>1. Fe = fmap[Name]
            BY <1>3 DEF Fe
      <2>2. QED
            BY <1>2, <1>3, <2>1 DEF IInv, BackendsPerIdentity, FirstPlacedWitness
<1>4. CASE Name \notin DOMAIN fmap
      <2>1. Fe = [name |-> Name, port |-> rules[i].port, proto |-> rules[i].proto, bes |-> <<>>]
            BY <1>4 DEF Fe
      <2>2. PlacedOn(Name) = {}
            BY <1>4 DEF IInv, BackendsPerIdentity, PlacedOn
      <2>3. Key \notin DOMAIN allBe
            BY <1>2, <1>4
      <2>4. QED
            BY <2>1, <2>2, <2>3 DEF IsInjective, Range
<1>5. QED
      BY <1>3, <1>4

\* Placing a rule keeps IInv.
LEMMA PlacedStep ==
    ASSUME IInv, RulePlaced
    PROVE  IInv'
<1>1. /\ i \in 1..Len(rules) /\ i \notin DOMAIN placed /\ Len(rules) \in Nat
      /\ rules' = rules /\ i' = i + 1
      /\ UNCHANGED <<pc, certs, defCert>>
      BY RulesFacts DEF RulePlaced, IInv, TypeOK, inputVars
<1>20. PICK nh : nh = Name
      OBVIOUS
<1>2. PICK o \in RuleOutcomes(rules[i]) \ {Err, Crash, Skip} :
         /\ Place(rules[i], o.eps)
         /\ placed' = MapPut(placed, i, [key |-> Key, ips |-> IPs(o.eps)])
      BY DEF RulePlaced, Key
<1>3. /\ DOMAIN placed' = {i} \cup DOMAIN placed
      /\ placed'[i].key = Key
      /\ \A j \in DOMAIN placed : placed'[j] = placed[j]
      BY <1>1, <1>2 DEF MapPut
<1>4. \A nm : PlacedOn(nm)' = PlacedOn(nm) \cup {y \in {i} : Name = nm}
      BY <1>1, <1>3 DEF PlacedOn, Name
<1>5. /\ DOMAIN fmap' = {Name} \cup DOMAIN fmap
      /\ \A nm \in DOMAIN fmap \ {Name} : fmap'[nm] = fmap[nm]
      /\ DOMAIN allBe' = {Key} \cup DOMAIN allBe
      /\ DOMAIN allEps' = DOMAIN allBe'
      /\ {"bes", "proto"} \subseteq DOMAIN fmap'[Name]
      /\ fmap'[Name].proto = Fe.proto
      /\ fmap'[Name].bes = IF Key \in DOMAIN allBe THEN Fe.bes ELSE Append(Fe.bes, Key)
      <2>1. {"bes", "proto"} \subseteq DOMAIN Fe
            BY <1>1, FrontendInHand
      <2>2. CASE Key \in DOMAIN allBe
            <3>1. /\ allBe' = [allBe EXCEPT ![Key].eps =
                                 @ \o Weighted(FreshEndpoints(o.eps, allEps[Key]), rules[i].weight)]
                  /\ allEps' = [allEps EXCEPT ![Key] = @ \cup IPs(o.eps)]
                  /\ fmap' = MapPut(fmap, Name, Fe)
                  BY <1>2, <2>2 DEF Place, Key, Name, Fe
            <3>2. QED
                  BY <2>1, <2>2, <3>1 DEF IInv, TypeOK, MapPut
      <2>3. CASE Key \notin DOMAIN allBe
            <3>1. /\ DOMAIN allBe' = {Key} \cup DOMAIN allBe
                  /\ DOMAIN allEps' = {Key} \cup DOMAIN allEps
                  /\ fmap' = MapPut(fmap, Name, [Fe EXCEPT !.bes = Append(@, Key)])
                  BY <1>2, <2>3 DEF Place, Key, Name, Fe, MapPut
            <3>2. QED
                  BY <2>1, <2>3, <3>1 DEF IInv, TypeOK, MapPut
      <2>4. QED
            BY <2>2, <2>3
<1>6. /\ IsInjective(fmap'[Name].bes)
      /\ fmap'[Name].bes \in Seq(Range(fmap'[Name].bes))
      /\ Range(fmap'[Name].bes) = {placed'[j].key : j \in PlacedOn(nh)'}
      <2>1. /\ Fe.bes \in Seq(Range(Fe.bes))
            /\ IsInjective(Fe.bes)
            /\ Range(Fe.bes) = {placed[j].key : j \in PlacedOn(Name)}
            /\ Key \in DOMAIN allBe => Key \in Range(Fe.bes)
            BY <1>1, FrontendInHand
      <2>2. {placed'[j].key : j \in PlacedOn(nh)'} = Range(Fe.bes) \cup {Key}
            <3>1. PlacedOn(nh)' = PlacedOn(Name) \cup {i}
                  BY <1>4, <1>20
            <3>2. PlacedOn(Name) \subseteq DOMAIN placed
                  BY DEF PlacedOn
            <3>3. QED
                  BY <1>3, <2>1, <3>1, <3>2
      <2>3. CASE Key \in DOMAIN allBe
            BY <1>5, <2>1, <2>2, <2>3
      <2>4. CASE Key \notin DOMAIN allBe
            <3>1. Key \notin Range(Fe.bes)
                  BY <2>1, <2>4, <1>1 DEF IInv, BackendsPerIdentity, PlacedOn
            <3>2. /\ Range(Append(Fe.bes, Key)) = Range(Fe.bes) \cup {Key}
                  /\ Append(Fe.bes, Key) \in Seq(Range(Append(Fe.bes, Key)))
                  /\ IsInjective(Append(Fe.bes, Key))
                  <4>1. DEFINE S == Range(Fe.bes)
                  <4>2. Fe.bes \in Seq(S)
                        BY <2>1
                  <4>3. QED
                        BY <2>1, <3>1, <4>2, AppendRange
            <3>3. fmap'[Name].bes = Append(Fe.bes, Key)
                  BY <1>5, <2>4
            <3>4. QED
                  BY <2>2, <3>2, <3>3
      <2>5. QED
            BY <2>3, <2>4
<1>7. \/ \E m \in PlacedOn(nh)' :
            /\ \A y \in PlacedOn(nh)' : m <= y
            /\ fmap'[Name].proto = rules[m].proto
      <2>1. \/ \E m \in PlacedOn(Name) :
                  /\ \A y \in PlacedOn(Name) : m <= y
                  /\ Fe.proto = rules[m].proto
            \/ PlacedOn(Name) = {} /\ Fe.proto = rules[i].proto
            BY <1>1, FrontendInHand
      <2>2. i \in Nat
            BY <1>1
      <2>3. PlacedOn(Name) \subseteq 1..i - 1
            <3>1. DOMAIN placed \subseteq 1..i - 1
                  BY DEF IInv, TypeOK
            <3>2. QED
                  BY <3>1 DEF PlacedOn
      <2>4. PlacedOn(nh)' = PlacedOn(Name) \cup {i}
            BY <1>4, <1>20
      <2>5. QED
            BY <1>5, <2>1, <2>2, <2>3, <2>4
<1>8. \A nm \in DOMAIN fmap \ {Name} :
         /\ PlacedOn(nm)' = PlacedOn(nm)
         /\ {placed'[j].key : j \in PlacedOn(nm)'} = {placed[j].key : j \in PlacedOn(nm)}
      BY <1>3, <1>4 DEF PlacedOn
<1>9. TypeOK'
      BY <1>1, <1>3, <1>5 DEF IInv, TypeOK
<1>10. \A j \in DOMAIN placed' : placed'[j].key = PathUUID(rules'[j])
      BY <1>1, <1>3 DEF IInv, Key
<1>11. DOMAIN fmap' = {Itoa(rules'[j].port) : j \in DOMAIN placed'}
      BY <1>1, <1>3, <1>5 DEF IInv, BackendsPerIdentity, Name
<1>12. DOMAIN allBe' = {placed'[j].key : j \in DOMAIN placed'}
      BY <1>3, <1>5 DEF IInv, BackendsPerIdentity
<1>13. \A nm \in DOMAIN fmap' :
          /\ {"bes", "proto"} \subseteq DOMAIN fmap'[nm]
          /\ fmap'[nm].bes \in Seq(Range(fmap'[nm].bes))
      BY <1>5, <1>6 DEF IInv
<1>14. \A nm \in DOMAIN fmap' :
          /\ IsInjective(fmap'[nm].bes)
          /\ Range(fmap'[nm].bes) = {placed'[j].key : j \in PlacedOn(nm)'}
      BY <1>5, <1>6, <1>8, <1>20 DEF IInv, BackendsPerIdentity
<1>15. FirstPlacedWitness'
      <2>1. SUFFICES ASSUME NEW nm \in DOMAIN fmap', nm # Name
                     PROVE  \E m \in PlacedOn(nm)' :
                               /\ \A y \in PlacedOn(nm)' : m <= y
                               /\ fmap'[nm].proto = rules'[m].proto
            BY <1>1, <1>7, <1>20 DEF FirstPlacedWitness
      <2>2. nm \in DOMAIN fmap /\ fmap'[nm] = fmap[nm] /\ PlacedOn(nm)' = PlacedOn(nm)
            BY <1>5, <1>8, <2>1
      <2>3. QED
            BY <1>1, <2>1, <2>2 DEF IInv, FirstPlacedWitness
<1>16. QED
      BY <1>1, <1>9, <1>10, <1>11, <1>12, <1>13, <1>14, <1>15
      DEF IInv, BackendsPerIdentity

\* The state BuildConfigFromMetadata starts in satisfies IInv.
LEMMA InitIInv == Init => IInv
<1> SUFFICES ASSUME Init PROVE IInv
    OBVIOUS
<1>1. Len(rules) \in Nat
      BY RulesFacts DEF Init
<1>2. TypeOK
      BY <1>1 DEF Init, TypeOK
<1>3. BackendsPerIdentity /\ FirstPlacedWitness
      BY DEF Init, BackendsPerIdentity, FirstPlacedWitness
<1>4. QED
      BY <1>2, <1>3 DEF Init, IInv

\* The steps that change neither the maps nor the placed rules: passing
\* over a rule, failing, finishing.
LEMMA QuietSteps ==
    ASSUME IInv,
           \/ RuleNoPort \/ RuleFails \/ RuleSkipped \/ Finish
           \/ UNCHANGED vars
    PROVE  IInv'
<1>1. /\ UNCHANGED <<rules, placed, fmap, allBe, allEps, certs, defCert>>
      /\ pc' \in {"certs", "loop", "done", "error", "crash"}
      /\ i' \in 1..Len(rules) + 1
      /\ DOMAIN placed \subseteq 1..i' - 1
      <2>1. Len(rules) \in Nat
            BY RulesFacts DEF IInv
      <2>2. QED
            BY <2>1 DEF IInv, TypeOK, RuleNoPort, RuleFails, RuleSkipped, Finish,
                        inputVars, vars
<1>2. TypeOK'
      BY <1>1 DEF IInv, TypeOK
<1>3. BackendsPerIdentity'
      BY <1>1 DEF IInv, BackendsPerIdentity, PlacedOn
<1>4. FirstPlacedWitness'
      BY <1>1 DEF IInv, FirstPlacedWitness, PlacedOn
<1>5. QED
      BY <1>1, <1>2, <1>3, <1>4 DEF IInv

\* FetchCertificates' result: the default certificate (unless nil) and
\* the other certificates (no nil among them, by InputsAssumption), in
\* either order, are certificate names.
LEMMA CertsFacts ==
    ASSUME NEW def \in DefCertChoices, NEW alt \in AltCertChoices
    PROVE  LET dc == IF def # <<>> THEN def[1] ELSE NilCert
               lead == IF dc # NilCert THEN <<dc>> ELSE <<>>
           IN  /\ dc \in CertNames \cup {NilCert}
               /\ lead \o alt \in Seq(CertNames)
               /\ alt \o lead \in Seq(CertNames)
<1> DEFINE dc == IF def # <<>> THEN def[1] ELSE NilCert
           lead == IF dc # NilCert THEN <<dc>> ELSE <<>>
<1>1. def \in Seq(Range(def)) /\ alt \in Seq(Range(alt))
      BY InputsAssumption
<1>2. dc \in CertNames \cup {NilCert}
      <2>1. CASE def # <<>>
            <3>1. def[1] \in Range(def)
                  BY <1>1, <2>1, EmptySeq DEF Range
            <3>2. def[1] = NilCert \/ def[1] \in CertNames
                  <4>1. Range(def) \ {NilCert} \subseteq CertNames
                        BY DEF CertNames
                  <4>2. QED
                        BY <3>1, <4>1
            <3>3. QED
                  BY <2>1, <3>2
      <2>2. QED
            BY <2>1
<1>3. lead \in Seq(CertNames)
      BY <1>2
<1>4. alt \in Seq(CertNames)
      <2>1. Range(alt) \subseteq CertNames
            <3>1. NilCert \notin Range(alt)
                  BY InputsAssumption
            <3>2. QED
                  BY <3>1 DEF CertNames
      <2>2. QED
            BY <1>1, <2>1, SeqMonotonic
<1>5. QED
      BY <1>2, <1>3, <1>4, ConcatProperties

\* Fetching the certificates keeps IInv.
LEMMA CertsSteps ==
    ASSUME IInv, FetchCerts \/ FetchCertsEarliest
    PROVE  IInv'
<1>1. /\ UNCHANGED <<rules, i, placed, fmap, allBe, allEps>>
      /\ pc' \in {"certs", "loop", "done", "error", "crash"}
      /\ certs' \in Seq(CertNames)
      /\ defCert' \in CertNames \cup {NilCert}
      <2>1. CASE FetchCerts
            <3>1. PICK def \in DefCertChoices, alt \in AltCertChoices :
                     \/ pc' = "error" /\ UNCHANGED <<certs, defCert>>
                     \/ /\ defCert' = IF def # <<>> THEN def[1] ELSE NilCert
                        /\ certs' = (IF def # <<>> /\ def[1] # NilCert THEN <<def[1]>> ELSE <<>>)
                                    \o alt
                        /\ pc' = "loop"
                  BY <2>1 DEF FetchCerts
            <3>2. QED
                  BY <2>1, <3>1, CertsFacts DEF FetchCerts, inputVars, IInv, TypeOK
      <2>2. CASE FetchCertsEarliest
            <3>1. PICK def \in DefCertChoices, alt \in AltCertChoices, fromDir \in BOOLEAN :
                     LET dc == IF def # <<>> THEN def[1] ELSE NilCert
                         lead == IF dc # NilCert THEN <<dc>> ELSE <<>>
                     IN  \/ pc' = "error" /\ UNCHANGED <<certs, defCert>>
                         \/ /\ defCert' = dc
                            /\ certs' = IF fromDir THEN lead \o alt ELSE alt \o lead
                            /\ pc' = "loop"
                  BY <2>2 DEF FetchCertsEarliest
            <3>2. QED
                  BY <2>2, <3>1, CertsFacts DEF FetchCertsEarliest, inputVars, IInv, TypeOK
      <2>3. QED
            BY <2>1, <2>2
<1>2. TypeOK'
      BY <1>1 DEF IInv, TypeOK
<1>3. BackendsPerIdentity'
      BY <1>1 DEF IInv, BackendsPerIdentity, PlacedOn
<1>4. FirstPlacedWitness'
      BY <1>1 DEF IInv, FirstPlacedWitness, PlacedOn
<1>5. QED
      BY <1>1, <1>2, <1>3, <1>4 DEF IInv

\* Every step of BuildConfigFromMetadata keeps IInv.
LEMMA NextIInv == IInv /\ [Next]_vars => IInv'
<1> SUFFICES ASSUME IInv, [Next]_vars PROVE IInv'
    OBVIOUS
<1>1. CASE FetchCerts \/ FetchCertsEarliest
      BY <1>1, CertsSteps
<1>2. CASE RulePlaced
      BY <1>2, PlacedStep
<1>3. CASE RuleNoPort \/ RuleFails \/ RuleSkipped \/ Finish \/ UNCHANGED vars
      BY <1>3, QuietSteps
<1>4. QED
      BY <1>1, <1>2, <1>3 DEF Next

\* The witness of FirstPlacedWitness is the least placed index on the
\* frontend, so it is the Min of FirstPlacedProtocolWins.
LEMMA WitnessIsMin ==
    ASSUME IInv PROVE FirstPlacedProtocolWins
<1> SUFFICES ASSUME NEW nm \in DOMAIN fmap
             PROVE  /\ PlacedOn(nm) # {}
                    /\ fmap[nm].proto = rules[Min(PlacedOn(nm))].proto
    BY DEF FirstPlacedProtocolWins
<1>1. PICK m \in PlacedOn(nm) :
         /\ \A y \in PlacedOn(nm) : m <= y
         /\ fmap[nm].proto = rules[m].proto
      BY DEF IInv, FirstPlacedWitness
<1>2. PlacedOn(nm) \subseteq Nat
      BY DEF IInv, TypeOK, PlacedOn
<1>3. Min(PlacedOn(nm)) = m
      <2>1. \A x \in PlacedOn(nm) : (\A y \in PlacedOn(nm) : x <= y) => x = m
            BY <1>1, <1>2
      <2>2. QED
            BY <1>1, <2>1 DEF Min
<1>4. QED
      BY <1>1, <1>3

\* Placing a rule changes no backend but the endpoint list of the one it
\* merges into.
LEMMA PlacedKeepsBackends ==
    ASSUME RulePlaced
    PROVE  BackendConfigKept
<1>1. PICK o \in RuleOutcomes(rules[i]) \ {Err, Crash, Skip} : Place(rules[i], o.eps)
      BY DEF RulePlaced
<1>2. CASE Key \in DOMAIN allBe
      <2>1. allBe' = [allBe EXCEPT ![Key].eps =
                        @ \o Weighted(FreshEndpoints(o.eps, allEps[Key]), rules[i].weight)]
            BY <1>1, <1>2 DEF Place, Key
      <2>2. QED
            BY <2>1 DEF BackendConfigKept
<1>3. CASE Key \notin DOMAIN allBe
      <2>1. \E be : allBe' = MapPut(allBe, Key, be)
            BY <1>1, <1>3 DEF Place, Key
      <2>2. QED
            BY <1>3, <2>1 DEF BackendConfigKept, MapPut
<1>4. QED
      BY <1>2, <1>3

-----------------------------------------------------------------------------
(* Theorems.                                                               *)

\* BuildConfigFromMetadata's state keeps its types: a nil default
\* certificate never enters the certificate list (the nil check at line
\* 291), and the IP index and the backend map have the same keys.
THEOREM TypeCorrect == Spec => []TypeOK
<1>1. Init => IInv
      BY InitIInv
<1>2. IInv /\ [Next]_vars => IInv'
      BY NextIInv
<1>3. IInv => TypeOK
      BY DEF IInv
<1>4. QED
      BY <1>1, <1>2, <1>3, PTL DEF Spec

\* Every run of the rule loop leaves one frontend per source port of a
\* placed rule and one backend per pathUUID, each backend listed once, on
\* the frontend of its port (lines 317-328 and 383-422).
THEOREM BackendsPerIdentityHolds == Spec => []BackendsPerIdentity
<1>1. IInv => BackendsPerIdentity
      BY DEF IInv
<1>2. QED
      BY <1>1, InitIInv, NextIInv, PTL DEF Spec

\* A frontend keeps the protocol of the first rule placed on its port
\* (lines 318-328: a stored frontend is reused, so the protocol set when it
\* was created stays; the first writer wins).
THEOREM FirstPlacedProtocolWinsHolds == Spec => []FirstPlacedProtocolWins
<1>1. IInv => FirstPlacedProtocolWins
      BY WitnessIsMin
<1>2. QED
      BY <1>1, InitIInv, NextIInv, PTL DEF Spec

\* A backend keeps its key and its configuration once created: a later
\* rule with the same pathUUID only adds endpoints (lines 386-394), so its
\* BackendName, TargetPort and Priority are dropped.  The endpoint half of
\* MergeKeepsBackend (EndpointsKept) is left to TLC.
THEOREM BackendConfigKeptHolds == Spec => [][BackendConfigKept]_vars
<1>1. [Next]_vars => [BackendConfigKept]_vars
      <2> SUFFICES ASSUME [Next]_vars PROVE [BackendConfigKept]_vars
          OBVIOUS
      <2>1. CASE RulePlaced
            BY <2>1, PlacedKeepsBackends
      <2>2. CASE ~RulePlaced
            <3>1. allBe' = allBe
                  BY <2>2 DEF Next, vars, FetchCerts, FetchCertsEarliest, RuleNoPort,
                              RuleFails, RuleSkipped, Finish
            <3>2. QED
                  BY <3>1 DEF BackendConfigKept
      <2>3. QED
            BY <2>1, <2>2
<1>2. QED
      BY <1>1, PTL DEF Spec

=============================================================================
