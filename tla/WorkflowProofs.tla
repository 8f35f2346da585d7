--------------------------- MODULE WorkflowProofs ---------------------------
(***************************************************************************)
(* The multi-specialist engine, for every pull request, every budget and   *)
(* every submission. The first part is about the synthesis: merging finding*)
(* by finding keeps what the reference keeps, and the ranking is a         *)
(* permutation with the most severe first, both by induction on the number *)
(* of findings. The second is about the run: its invariant says, of each   *)
(* specialist's task, what its phase implies about its counters and its    *)
(* result entry, and, of each stage of the graph, what the reducers and the*)
(* report hold; billed is the sum of what the tasks spent throughout.      *)
(***************************************************************************)
EXTENDS Workflow, TLAPS, WellFoundedInduction, FiniteSetTheorems, FunctionTheorems

-----------------------------------------------------------------------------
(* Induction over the natural numbers, for a set instead of a predicate.   *)
LEMMA NatInduct ==
    ASSUME NEW S, 0 \in S, \A n \in Nat : n \in S => n + 1 \in S
    PROVE  Nat \subseteq S
<1> SUFFICES ASSUME Nat \ S # {} PROVE FALSE
  OBVIOUS
<1> DEFINE R == {ss \in Nat \X Nat : ss[1] < ss[2]}
<1>1. IsWellFoundedOn(R, Nat)
  BY NatLessThanWellFounded DEF OpToRel
<1> HIDE DEF R
<1>2. PICK x \in Nat \ S : \A y \in Nat \ S : ~(<<y, x>> \in R)
  <2>1. Nat \ S \subseteq Nat
    OBVIOUS
  <2> QED  BY <1>1, <2>1, WFMin
<1>3. x - 1 \in Nat /\ x = (x - 1) + 1 /\ x - 1 < x
  OBVIOUS
<1>4. x - 1 \notin S
  BY <1>3
<1>5. <<x - 1, x>> \in R
  BY <1>3 DEF R
<1> QED  BY <1>2, <1>3, <1>4, <1>5

LEMMA MinIsLeast ==
    ASSUME NEW S, S \subseteq Nat, S # {}
    PROVE  Min(S) \in S /\ \A y \in S : Min(S) <= y
<1> DEFINE R == {ss \in Nat \X Nat : ss[1] < ss[2]}
<1>1. IsWellFoundedOn(R, Nat)
  BY NatLessThanWellFounded DEF OpToRel
<1> HIDE DEF R
<1>2. PICK x \in S : \A y \in S : ~(<<y, x>> \in R)
  BY <1>1, WFMin
<1>3. ASSUME NEW y \in S PROVE x <= y
  <2>1. x \in Nat /\ y \in Nat /\ <<y, x>> \notin R
    BY <1>2
  <2>2. ~(y < x)
    BY <2>1 DEF R
  <2> QED  BY <2>1, <2>2
<1> QED  BY <1>3 DEF Min

LEMMA ConcatFacts ==
    ASSUME NEW T, NEW a \in Seq(T), NEW b \in Seq(T)
    PROVE  /\ a \o b \in Seq(T) /\ Len(a \o b) = Len(a) + Len(b)
           /\ \A i \in DOMAIN a : i \in DOMAIN (a \o b) /\ (a \o b)[i] = a[i]
           /\ \A i \in DOMAIN b : Len(a) + i \in DOMAIN (a \o b) /\ (a \o b)[Len(a) + i] = b[i]
  OBVIOUS

LEMMA AppendFacts ==
    ASSUME NEW T, NEW s \in Seq(T), NEW x \in T
    PROVE  /\ Append(s, x) \in Seq(T) /\ Len(s) \in Nat
           /\ DOMAIN s = 1..Len(s) /\ DOMAIN Append(s, x) = 1..(Len(s) + 1)
           /\ Append(s, x)[Len(s) + 1] = x
           /\ \A i \in DOMAIN s : i \in DOMAIN Append(s, x) /\ Append(s, x)[i] = s[i]
           /\ \A i \in DOMAIN Append(s, x) : i \in DOMAIN s \/ i = Len(s) + 1
  OBVIOUS

(* The flattening of a list of lists is the list of all their elements.    *)
LEMMA FlattenExists ==
    ASSUME NEW seqs
    PROVE  \A n \in Nat : \E f : f = [i \in 1..n |-> IF i = 1 THEN seqs[i] ELSE f[i - 1] \o seqs[i]]
<1> DEFINE Flat(f, n) == f = [i \in 1..n |-> IF i = 1 THEN seqs[i] ELSE f[i - 1] \o seqs[i]]
           S == {n \in Nat : \E f : Flat(f, n)}
<1>1. 0 \in S
  <2>1. Flat([i \in 1..0 |-> seqs[i]], 0)
    OBVIOUS
  <2> QED  BY <2>1
<1>2. ASSUME NEW n \in Nat, n \in S PROVE n + 1 \in S
  <2>1. PICK f : Flat(f, n)
    BY <1>2
  <2> DEFINE g == [i \in 1..(n + 1) |->
                     IF i = n + 1 THEN (IF n = 0 THEN seqs[1] ELSE f[n] \o seqs[n + 1]) ELSE f[i]]
  <2>2. \A i \in 1..(n + 1) : g[i] = IF i = 1 THEN seqs[i] ELSE g[i - 1] \o seqs[i]
    <3> SUFFICES ASSUME NEW i \in 1..(n + 1)
                 PROVE  g[i] = IF i = 1 THEN seqs[i] ELSE g[i - 1] \o seqs[i]
      OBVIOUS
    <3>1. CASE i = n + 1
      BY <3>1
    <3>2. CASE i # n + 1
      <4>1. i \in 1..n
        BY <3>2
      <4>2. g[i] = f[i] /\ f[i] = IF i = 1 THEN seqs[i] ELSE f[i - 1] \o seqs[i]
        BY <2>1, <3>2, <4>1
      <4>3. i # 1 => g[i - 1] = f[i - 1]
        BY <4>1
      <4> QED  BY <4>2, <4>3
    <3> QED  BY <3>1, <3>2
  <2>3. Flat(g, n + 1)
    BY <2>2
  <2> HIDE DEF g, Flat
  <2> QED  BY <2>3
<1> HIDE DEF S
<1>3. Nat \subseteq S
  BY <1>1, <1>2, NatInduct
<1> QED  BY <1>3 DEF S

LEMMA FlattenFacts ==
    ASSUME NEW T, NEW seqs \in Seq(Seq(T))
    PROVE  /\ FlattenSeq(seqs) \in Seq(T)
           /\ \A i \in DOMAIN seqs : \A j \in DOMAIN seqs[i] :
                 \E p \in DOMAIN FlattenSeq(seqs) : FlattenSeq(seqs)[p] = seqs[i][j]
<1>1. CASE Len(seqs) = 0
  <2>1. seqs = <<>>
    BY <1>1
  <2> QED  BY <1>1, <2>1 DEF FlattenSeq
<1>2. CASE Len(seqs) # 0
  <2> DEFINE fl == CHOOSE f : f = [i \in 1..Len(seqs) |->
                      IF i = 1 THEN seqs[i] ELSE f[i - 1] \o seqs[i]]
  <2>1. Len(seqs) \in Nat /\ Len(seqs) >= 1 /\ DOMAIN seqs = 1..Len(seqs)
        /\ \A i \in 1..Len(seqs) : seqs[i] \in Seq(T)
    BY <1>2
  <2>2. fl = [i \in 1..Len(seqs) |-> IF i = 1 THEN seqs[i] ELSE fl[i - 1] \o seqs[i]]
    <3>1. \E f : f = [i \in 1..Len(seqs) |-> IF i = 1 THEN seqs[i] ELSE f[i - 1] \o seqs[i]]
      BY <2>1, FlattenExists
    <3> QED  BY <3>1
  <2>3. FlattenSeq(seqs) = fl[Len(seqs)]
    BY <1>2 DEF FlattenSeq
  <2> HIDE DEF fl
  <2> DEFINE Good(n) == /\ fl[n] \in Seq(T)
                        /\ \A i \in 1..n : \A j \in DOMAIN seqs[i] :
                              \E p \in DOMAIN fl[n] : fl[n][p] = seqs[i][j]
             S == {n \in Nat : n \in 1..Len(seqs) => Good(n)}
  <2>4. 0 \in S
    OBVIOUS
  <2>5. ASSUME NEW n \in Nat, n \in S PROVE n + 1 \in S
    <3> SUFFICES ASSUME n + 1 \in 1..Len(seqs) PROVE Good(n + 1)
      OBVIOUS
    <3>1. CASE n = 0
      BY <2>1, <2>2, <3>1
    <3>2. CASE n # 0
      <4>1. n \in 1..Len(seqs) /\ Good(n)
        BY <2>1, <2>5, <3>2
      <4>2. fl[n + 1] = fl[n] \o seqs[n + 1] /\ seqs[n + 1] \in Seq(T)
        <5>1. n + 1 # 1 /\ (n + 1) - 1 = n /\ n + 1 \in 1..Len(seqs)
          BY <3>2
        <5> QED  BY <2>1, <2>2, <5>1
      <4>3. fl[n] \in Seq(T) /\ fl[n + 1] \in Seq(T)
        BY <4>1, <4>2
      <4>5. /\ \A k \in DOMAIN fl[n] : k \in DOMAIN fl[n + 1] /\ fl[n + 1][k] = fl[n][k]
            /\ \A k \in DOMAIN seqs[n + 1] :
                  Len(fl[n]) + k \in DOMAIN fl[n + 1] /\ fl[n + 1][Len(fl[n]) + k] = seqs[n + 1][k]
        <5> DEFINE a == fl[n]
                   b == seqs[n + 1]
                   c == fl[n + 1]
        <5>1. a \in Seq(T) /\ b \in Seq(T)
          BY <4>2, <4>3
        <5>4. c = a \o b
          BY <4>2
        <5> HIDE DEF a, b, c
        <5>2. /\ \A k \in DOMAIN a : k \in DOMAIN (a \o b) /\ (a \o b)[k] = a[k]
              /\ \A k \in DOMAIN b : Len(a) + k \in DOMAIN (a \o b) /\ (a \o b)[Len(a) + k] = b[k]
          BY <5>1, ConcatFacts
        <5>3. /\ \A k \in DOMAIN a : k \in DOMAIN c /\ c[k] = a[k]
              /\ \A k \in DOMAIN b : Len(a) + k \in DOMAIN c /\ c[Len(a) + k] = b[k]
          BY <5>2, <5>4
        <5> QED  BY <5>3 DEF a, b, c
      <4> HIDE DEF Good
      <4>4. ASSUME NEW i \in 1..(n + 1), NEW j \in DOMAIN seqs[i]
            PROVE  \E p \in DOMAIN fl[n + 1] : fl[n + 1][p] = seqs[i][j]
        <5>1. CASE i = n + 1
          <6>1. j \in DOMAIN seqs[n + 1]
            BY <4>4, <5>1
          <6>2. Len(fl[n]) + j \in DOMAIN fl[n + 1] /\ fl[n + 1][Len(fl[n]) + j] = seqs[i][j]
            BY <4>5, <5>1, <6>1
          <6> QED  BY <6>2
        <5>2. CASE i # n + 1
          <6>1. PICK p \in DOMAIN fl[n] : fl[n][p] = seqs[i][j]
            <7>1. i \in 1..n
              BY <5>2
            <7> QED  BY <4>1, <4>4, <7>1 DEF Good
          <6>2. p \in DOMAIN fl[n + 1] /\ fl[n + 1][p] = fl[n][p]
            BY <4>5
          <6> QED  BY <6>1, <6>2
        <5> QED  BY <5>1, <5>2
      <4> QED  BY <4>3, <4>4 DEF Good
    <3> QED  BY <3>1, <3>2
  <2> HIDE DEF S
  <2>6. Nat \subseteq S
    BY <2>4, <2>5, NatInduct
  <2>7. Good(Len(seqs))
    BY <2>1, <2>6 DEF S
  <2> QED  BY <2>1, <2>3, <2>7
<1> QED  BY <1>1, <1>2

-----------------------------------------------------------------------------
(* A finding with its sources, the specialists that reported it.           *)
MergedFinding ==
    [file: Int, line: Int \cup {None}, category: DOMAIN NormalizedCategory,
     severity: Severities, summary: STRING, sources: SUBSET Specialists]

LEMMA SourcesFacts ==
    ASSUME NEW x \in MergedFinding, NEW S \in SUBSET Specialists
    PROVE  /\ [x EXCEPT !.sources = S] \in MergedFinding
           /\ [x EXCEPT !.sources = S].sources = S
           /\ [x EXCEPT !.sources = S].severity = x.severity
           /\ Key([x EXCEPT !.sources = S]) = Key(x)
           /\ \A S2 \in SUBSET Specialists :
                 [[x EXCEPT !.sources = S] EXCEPT !.sources = S2] = [x EXCEPT !.sources = S2]
  BY DEF MergedFinding, Key

LEMMA OwnSources ==
    ASSUME NEW x \in MergedFinding
    PROVE  x.sources \in SUBSET Specialists /\ [x EXCEPT !.sources = x.sources] = x
  BY DEF MergedFinding

(* A finding is appended if its key is new, or put in the one place where  *)
(* its key is.                                                             *)
Keep(existing, finding) == IF MoreSevere(finding, existing) THEN finding ELSE existing

LEMMA MergeFindingFacts ==
    ASSUME NEW T, NEW merged \in Seq(T), NEW finding
    PROVE  \/ /\ \A i \in DOMAIN merged : Key(merged[i]) # Key(finding)
              /\ MergeFinding(merged, finding) = Append(merged, finding)
           \/ \E at \in DOMAIN merged :
                 /\ Key(merged[at]) = Key(finding)
                 /\ MergeFinding(merged, finding) =
                       [merged EXCEPT ![at] = [Keep(merged[at], finding) EXCEPT
                          !.sources = merged[at].sources \cup finding.sources]]
<1> DEFINE I == {i \in 1..Len(merged) : Key(merged[i]) = Key(finding)}
           at == IF I # {} THEN Min(I) ELSE 0
           keep == IF MoreSevere(finding, merged[at]) THEN finding ELSE merged[at]
<1>1. MergeFinding(merged, finding) =
        IF at = 0 THEN Append(merged, finding)
        ELSE [merged EXCEPT ![at] =
                [keep EXCEPT !.sources = merged[at].sources \cup finding.sources]]
  BY DEF MergeFinding, SelectInSeq
<1>2. I \subseteq Nat /\ DOMAIN merged = 1..Len(merged)
  OBVIOUS
<1>3. CASE I = {}
  BY <1>1, <1>2, <1>3
<1>4. CASE I # {}
  <2>1. at \in I
    BY <1>2, <1>4, MinIsLeast
  <2>2. at \in DOMAIN merged /\ Key(merged[at]) = Key(finding) /\ at # 0
    BY <1>2, <2>1
  <2> HIDE DEF at, I
  <2>3. keep = Keep(merged[at], finding)
    BY DEF Keep
  <2> HIDE DEF keep
  <2> QED  BY <1>1, <2>2, <2>3
<1> QED  BY <1>3, <1>4

(* The merge, as the sequence of its intermediate dicts.                   *)
LEMMA MergedExists ==
    ASSUME NEW reported
    PROVE  \A n \in Nat : \E f : f = [k \in 0..n |->
              IF k = 0 THEN <<>> ELSE MergeFinding(f[k - 1], reported[k])]
<1> DEFINE Merges(f, n) == f = [k \in 0..n |->
              IF k = 0 THEN <<>> ELSE MergeFinding(f[k - 1], reported[k])]
           S == {n \in Nat : \E f : Merges(f, n)}
<1>1. 0 \in S
  <2>1. Merges([k \in 0..0 |-> <<>>], 0)
    OBVIOUS
  <2> HIDE DEF Merges
  <2> QED  BY <2>1
<1>2. ASSUME NEW n \in Nat, n \in S PROVE n + 1 \in S
  <2>1. PICK f : Merges(f, n)
    BY <1>2
  <2> DEFINE g == [k \in 0..(n + 1) |->
                     IF k = n + 1 THEN MergeFinding(f[n], reported[n + 1]) ELSE f[k]]
  <2>2. ASSUME NEW k \in 0..(n + 1)
        PROVE  g[k] = IF k = 0 THEN <<>> ELSE MergeFinding(g[k - 1], reported[k])
    <3>1. CASE k = n + 1
      <4>1. k - 1 = n /\ g[n] = f[n] /\ k # 0
        BY <3>1
      <4> QED  BY <3>1, <4>1
    <3>2. CASE k # n + 1
      <4>1. k \in 0..n /\ (k # 0 => k - 1 \in 0..n /\ k - 1 # n + 1 /\ k - 1 \in 0..(n + 1))
        BY <3>2
      <4>2. g[k] = f[k] /\ f[k] = IF k = 0 THEN <<>> ELSE MergeFinding(f[k - 1], reported[k])
        BY <2>1, <3>2, <4>1
      <4>3. k # 0 => g[k - 1] = f[k - 1]
        BY <4>1
      <4> QED  BY <4>2, <4>3
    <3> QED  BY <3>1, <3>2
  <2>3. Merges(g, n + 1)
    BY <2>2
  <2> HIDE DEF g, Merges
  <2> QED  BY <2>3
<1> HIDE DEF S
<1>3. Nat \subseteq S
  BY <1>1, <1>2, NatInduct
<1> QED  BY <1>3 DEF S

(* What the merge of the first n reported findings holds: one entry per    *)
(* key, each what the reference keeps of the first n.                      *)
SameKeyTo(reported, n, i) == {j \in 1..n : Key(reported[j]) = Key(reported[i])}

WinsTo(reported, n, i) ==
    \A j \in SameKeyTo(reported, n, i) \ {i} :
        \/ MoreSevere(reported[i], reported[j])
        \/ ~MoreSevere(reported[j], reported[i]) /\ i < j

SourcesTo(reported, n, i) == UNION {reported[j].sources : j \in SameKeyTo(reported, n, i)}

WinnerTo(reported, n, i) == [reported[i] EXCEPT !.sources = SourcesTo(reported, n, i)]

Collects(reported, n, merged) ==
    /\ merged \in Seq(MergedFinding)
    /\ \A i, j \in DOMAIN merged : Key(merged[i]) = Key(merged[j]) => i = j
    /\ \A p \in 1..n : \E i \in DOMAIN merged : Key(merged[i]) = Key(reported[p])
    /\ \A i \in DOMAIN merged :
          \E w \in 1..n : WinsTo(reported, n, w) /\ merged[i] = WinnerTo(reported, n, w)

LEMMA SeverityFacts ==
    /\ \A f \in MergedFinding : SeverityRank[f.severity] \in Int
    /\ \A f \in Finding : SeverityRank[f.severity] \in Int
<1>1. \A severity \in Severities : SeverityRank[severity] \in Int
  BY DEF Severities, SeverityRank
<1> QED  BY <1>1 DEF MergedFinding, Finding

LEMMA WinnerFacts ==
    ASSUME NEW reported \in Seq(MergedFinding), NEW n \in Nat, n <= Len(reported), NEW w \in 1..n
    PROVE  /\ reported[w] \in MergedFinding /\ SourcesTo(reported, n, w) \in SUBSET Specialists
           /\ WinnerTo(reported, n, w) \in MergedFinding
           /\ Key(WinnerTo(reported, n, w)) = Key(reported[w])
           /\ WinnerTo(reported, n, w).severity = reported[w].severity
           /\ WinnerTo(reported, n, w).sources = SourcesTo(reported, n, w)
           /\ \A S \in SUBSET Specialists :
                 [WinnerTo(reported, n, w) EXCEPT !.sources = S] = [reported[w] EXCEPT !.sources = S]
<1>1. \A j \in 1..n : reported[j] \in MergedFinding
  OBVIOUS
<1>2. \A j \in 1..n : reported[j].sources \in SUBSET Specialists
  BY <1>1, OwnSources
<1>3. SourcesTo(reported, n, w) \in SUBSET Specialists
  BY <1>2 DEF SourcesTo, SameKeyTo
<1> QED  BY <1>1, <1>3, SourcesFacts DEF WinnerTo

(* An entry whose key is not the new finding's keeps its winner.           *)
LEMMA OtherKey ==
    ASSUME NEW reported, NEW n \in Nat, NEW w \in 1..n, Key(reported[w]) # Key(reported[n + 1])
    PROVE  /\ WinsTo(reported, n, w) => WinsTo(reported, n + 1, w)
           /\ WinnerTo(reported, n + 1, w) = WinnerTo(reported, n, w)
<1>1. SameKeyTo(reported, n + 1, w) = SameKeyTo(reported, n, w)
  BY DEF SameKeyTo
<1> QED  BY <1>1 DEF WinsTo, WinnerTo, SourcesTo

LEMMA AppendKeeps ==
    ASSUME NEW reported \in Seq(MergedFinding), NEW n \in Nat, n + 1 <= Len(reported),
           NEW merged, Collects(reported, n, merged),
           \A i \in DOMAIN merged : Key(merged[i]) # Key(reported[n + 1])
    PROVE  Collects(reported, n + 1, Append(merged, reported[n + 1]))
<1> DEFINE x == reported[n + 1]
           m == Append(merged, x)
<1>1. /\ merged \in Seq(MergedFinding) /\ x \in MergedFinding
      /\ \A i, j \in DOMAIN merged : Key(merged[i]) = Key(merged[j]) => i = j
      /\ \A p \in 1..n : \E i \in DOMAIN merged : Key(merged[i]) = Key(reported[p])
      /\ \A i \in DOMAIN merged :
            \E w \in 1..n : WinsTo(reported, n, w) /\ merged[i] = WinnerTo(reported, n, w)
  BY DEF Collects
<1>2. /\ m \in Seq(MergedFinding) /\ Len(merged) \in Nat
      /\ DOMAIN merged = 1..Len(merged) /\ DOMAIN m = 1..(Len(merged) + 1)
      /\ m[Len(merged) + 1] = x
      /\ \A i \in DOMAIN merged : i \in DOMAIN m /\ m[i] = merged[i]
      /\ \A i \in DOMAIN m : i \in DOMAIN merged \/ i = Len(merged) + 1
  <2>1. merged \in Seq(MergedFinding) /\ x \in MergedFinding
    BY <1>1
  <2> HIDE DEF x
  <2> QED  BY <2>1, AppendFacts
<1>3. \A i, j \in DOMAIN m : Key(m[i]) = Key(m[j]) => i = j
  BY <1>1, <1>2
<1>4. \A p \in 1..(n + 1) : \E i \in DOMAIN m : Key(m[i]) = Key(reported[p])
  <2> SUFFICES ASSUME NEW p \in 1..(n + 1)
               PROVE  \E i \in DOMAIN m : Key(m[i]) = Key(reported[p])
    OBVIOUS
  <2>1. CASE p = n + 1
    BY <1>2, <2>1
  <2>2. CASE p # n + 1
    <3>1. p \in 1..n
      BY <2>2
    <3> QED  BY <1>1, <1>2, <3>1
  <2> QED  BY <2>1, <2>2
<1>5. \A j \in 1..n : Key(reported[j]) # Key(x)
  BY <1>1
<1>6. SameKeyTo(reported, n + 1, n + 1) = {n + 1}
  BY <1>5 DEF SameKeyTo
<1>7. WinsTo(reported, n + 1, n + 1) /\ WinnerTo(reported, n + 1, n + 1) = x
  <2>1. SourcesTo(reported, n + 1, n + 1) = x.sources
    BY <1>6 DEF SourcesTo
  <2>2. [x EXCEPT !.sources = x.sources] = x
    BY <1>1, OwnSources
  <2> QED  BY <1>6, <2>1, <2>2 DEF WinsTo, WinnerTo
<1>8. \A i \in DOMAIN m :
         \E w \in 1..(n + 1) : WinsTo(reported, n + 1, w) /\ m[i] = WinnerTo(reported, n + 1, w)
  <2> SUFFICES ASSUME NEW i \in DOMAIN m
               PROVE  \E w \in 1..(n + 1) :
                         WinsTo(reported, n + 1, w) /\ m[i] = WinnerTo(reported, n + 1, w)
    OBVIOUS
  <2>1. CASE i = Len(merged) + 1
    <3>1. n + 1 \in 1..(n + 1)
      OBVIOUS
    <3> QED  BY <1>2, <1>7, <2>1, <3>1
  <2>2. CASE i \in DOMAIN merged
    <3>1. PICK w \in 1..n : WinsTo(reported, n, w) /\ merged[i] = WinnerTo(reported, n, w)
      BY <1>1, <2>2
    <3>2. Key(reported[w]) # Key(x) /\ w \in 1..(n + 1)
      BY <1>5
    <3> QED  BY <1>2, <2>2, <3>1, <3>2, OtherKey
  <2> QED  BY <1>2, <2>1, <2>2
<1> HIDE DEF m
<1>9. Collects(reported, n + 1, m)
  BY <1>2, <1>3, <1>4, <1>8 DEF Collects
<1> QED  BY <1>9 DEF m

(* A duplicate takes the place of the entry with its key, and wins only if *)
(* it is more severe than the winner so far.                               *)
LEMMA ReplaceKeeps ==
    ASSUME NEW reported \in Seq(MergedFinding), NEW n \in Nat, n + 1 <= Len(reported),
           NEW merged, Collects(reported, n, merged),
           NEW at \in DOMAIN merged, Key(merged[at]) = Key(reported[n + 1])
    PROVE  Collects(reported, n + 1, [merged EXCEPT ![at] =
              [Keep(merged[at], reported[n + 1]) EXCEPT
                 !.sources = merged[at].sources \cup reported[n + 1].sources]])
<1> DEFINE x == reported[n + 1]
           y == [Keep(merged[at], x) EXCEPT !.sources = merged[at].sources \cup x.sources]
           m == [merged EXCEPT ![at] = y]
<1>1. /\ merged \in Seq(MergedFinding) /\ x \in MergedFinding /\ merged[at] \in MergedFinding
      /\ \A i, j \in DOMAIN merged : Key(merged[i]) = Key(merged[j]) => i = j
      /\ \A p \in 1..n : \E i \in DOMAIN merged : Key(merged[i]) = Key(reported[p])
      /\ \A i \in DOMAIN merged :
            \E w \in 1..n : WinsTo(reported, n, w) /\ merged[i] = WinnerTo(reported, n, w)
  BY DEF Collects
<1>2. n <= Len(reported) /\ \A j \in 1..(n + 1) : reported[j] \in MergedFinding
  OBVIOUS
<1>3. PICK w \in 1..n : WinsTo(reported, n, w) /\ merged[at] = WinnerTo(reported, n, w)
  BY <1>1
<1>4. /\ Key(reported[w]) = Key(x) /\ merged[at].severity = reported[w].severity
      /\ merged[at].sources = SourcesTo(reported, n, w) /\ reported[w] \in MergedFinding
      /\ \A S \in SUBSET Specialists : [merged[at] EXCEPT !.sources = S] = [reported[w] EXCEPT !.sources = S]
  <2>1. Key(merged[at]) = Key(x)
    OBVIOUS
  <2>2. /\ reported[w] \in MergedFinding /\ Key(merged[at]) = Key(reported[w])
        /\ merged[at].severity = reported[w].severity
        /\ merged[at].sources = SourcesTo(reported, n, w)
        /\ \A SS \in SUBSET Specialists :
              [merged[at] EXCEPT !.sources = SS] = [reported[w] EXCEPT !.sources = SS]
    <3>1. /\ reported[w] \in MergedFinding
          /\ Key(WinnerTo(reported, n, w)) = Key(reported[w])
          /\ WinnerTo(reported, n, w).severity = reported[w].severity
          /\ WinnerTo(reported, n, w).sources = SourcesTo(reported, n, w)
          /\ \A SS \in SUBSET Specialists :
                [WinnerTo(reported, n, w) EXCEPT !.sources = SS] = [reported[w] EXCEPT !.sources = SS]
      BY <1>2, WinnerFacts
    <3>2. merged[at] = WinnerTo(reported, n, w)
      BY <1>3
    <3> HIDE DEF x
    <3> QED  BY <3>1, <3>2
  <2> QED  BY <2>1, <2>2
<1> DEFINE S == merged[at].sources \cup x.sources
<1>5. S \in SUBSET Specialists
  BY <1>1, OwnSources
<1>6. \A v \in {w, n + 1} : SameKeyTo(reported, n + 1, v) = SameKeyTo(reported, n, w) \cup {n + 1}
  BY <1>4 DEF SameKeyTo
<1>7. \A v \in {w, n + 1} : SourcesTo(reported, n + 1, v) = S
  BY <1>4, <1>6 DEF SourcesTo
<1>8. \E v \in 1..(n + 1) : WinsTo(reported, n + 1, v) /\ y = WinnerTo(reported, n + 1, v)
  <2>1. /\ SeverityRank[x.severity] \in Int
        /\ \A j \in 1..n : SeverityRank[reported[j].severity] \in Int
    BY <1>2, SeverityFacts
  <2>2. \A j \in SameKeyTo(reported, n, w) : j \in 1..n
    BY DEF SameKeyTo
  <2>3. CASE MoreSevere(x, reported[w])
    <3>1. Keep(merged[at], x) = x
      BY <1>4, <2>3 DEF Keep, MoreSevere
    <3>2. y = WinnerTo(reported, n + 1, n + 1)
      BY <1>7, <3>1 DEF WinnerTo
    <3>3. \A j \in SameKeyTo(reported, n, w) : MoreSevere(x, reported[j])
      BY <1>3, <2>1, <2>2, <2>3 DEF WinsTo, MoreSevere
    <3>4. WinsTo(reported, n + 1, n + 1)
      BY <1>6, <3>3 DEF WinsTo
    <3> QED  BY <3>2, <3>4
  <2>4. CASE ~MoreSevere(x, reported[w])
    <3>1. Keep(merged[at], x) = merged[at]
      BY <1>4, <2>4 DEF Keep, MoreSevere
    <3>2. y = [reported[w] EXCEPT !.sources = S]
      BY <1>4, <1>5, <3>1
    <3>3. y = WinnerTo(reported, n + 1, w)
      BY <1>7, <3>2 DEF WinnerTo
    <3>4. WinsTo(reported, n + 1, w)
      <4>1. w < n + 1 /\ w \in 1..(n + 1)
        OBVIOUS
      <4>2. \A j \in SameKeyTo(reported, n + 1, w) : j \in SameKeyTo(reported, n, w) \/ j = n + 1
        BY <1>6
      <4> QED  BY <1>3, <2>4, <4>1, <4>2 DEF WinsTo
    <3> QED  BY <3>3, <3>4
  <2> QED  BY <2>3, <2>4
<1>9. y \in MergedFinding /\ Key(y) = Key(x)
  <2>1. Keep(merged[at], x) \in MergedFinding /\ Key(Keep(merged[at], x)) = Key(x)
    BY <1>1 DEF Keep
  <2> HIDE DEF x
  <2> QED  BY <1>5, <2>1, SourcesFacts
<1> HIDE DEF y, S
<1>10. /\ m \in Seq(MergedFinding) /\ DOMAIN m = DOMAIN merged /\ m[at] = y
       /\ \A i \in DOMAIN merged : i # at => m[i] = merged[i]
  BY <1>1, <1>9
<1> HIDE DEF m
<1>11. \A i \in DOMAIN m : Key(m[i]) = Key(merged[i])
  BY <1>9, <1>10
<1>12. \A i, j \in DOMAIN m : Key(m[i]) = Key(m[j]) => i = j
  BY <1>1, <1>10, <1>11
<1>13. \A p \in 1..(n + 1) : \E i \in DOMAIN m : Key(m[i]) = Key(reported[p])
  <2> SUFFICES ASSUME NEW p \in 1..(n + 1)
               PROVE  \E i \in DOMAIN m : Key(m[i]) = Key(reported[p])
    OBVIOUS
  <2>1. CASE p = n + 1
    BY <1>10, <1>11, <2>1
  <2>2. CASE p # n + 1
    <3>1. p \in 1..n
      BY <2>2
    <3> QED  BY <1>1, <1>10, <1>11, <3>1
  <2> QED  BY <2>1, <2>2
<1>14. \A i \in DOMAIN m :
          \E v \in 1..(n + 1) : WinsTo(reported, n + 1, v) /\ m[i] = WinnerTo(reported, n + 1, v)
  <2> SUFFICES ASSUME NEW i \in DOMAIN m
               PROVE  \E v \in 1..(n + 1) :
                         WinsTo(reported, n + 1, v) /\ m[i] = WinnerTo(reported, n + 1, v)
    OBVIOUS
  <2>1. CASE i = at
    BY <1>8, <1>10, <2>1
  <2>2. CASE i # at
    <3>1. PICK v \in 1..n : WinsTo(reported, n, v) /\ merged[i] = WinnerTo(reported, n, v)
      BY <1>1, <1>10
    <3>2. Key(merged[i]) = Key(reported[v])
      BY <1>2, <3>1, WinnerFacts
    <3>3. Key(reported[v]) # Key(x) /\ v \in 1..(n + 1)
      BY <1>1, <1>10, <2>2, <3>2
    <3> QED  BY <1>10, <2>2, <3>1, <3>3, OtherKey
  <2> QED  BY <2>1, <2>2
<1>15. Collects(reported, n + 1, m)
  BY <1>10, <1>12, <1>13, <1>14 DEF Collects
<1> QED  BY <1>15 DEF m, y

(* The whole merge keeps what the reference keeps, one entry per key.      *)
LEMMA MergedCollects ==
    ASSUME NEW results, Reported(results) \in Seq(MergedFinding)
    PROVE  Collects(Reported(results), Len(Reported(results)), Merged(results))
<1> DEFINE reported == Reported(results)
           N == Len(reported)
           mg == CHOOSE f : f = [n \in 0..N |->
                    IF n = 0 THEN <<>> ELSE MergeFinding(f[n - 1], reported[n])]
<1>1. reported \in Seq(MergedFinding) /\ N \in Nat /\ Merged(results) = mg[N]
  BY DEF Merged
<1> HIDE DEF reported
<1>2. mg = [n \in 0..N |-> IF n = 0 THEN <<>> ELSE MergeFinding(mg[n - 1], reported[n])]
  <2>1. \E f : f = [n \in 0..N |-> IF n = 0 THEN <<>> ELSE MergeFinding(f[n - 1], reported[n])]
    BY <1>1, MergedExists
  <2> QED  BY <2>1
<1> HIDE DEF mg, N
<1> DEFINE S == {n \in Nat : n <= N => Collects(reported, n, mg[n])}
<1>3. 0 \in S
  <2>1. mg[0] = <<>>
    BY <1>1, <1>2
  <2>2. Collects(reported, 0, <<>>)
    BY DEF Collects
  <2> QED  BY <2>1, <2>2
<1>4. ASSUME NEW n \in Nat, n \in S PROVE n + 1 \in S
  <2> SUFFICES ASSUME n + 1 <= N PROVE Collects(reported, n + 1, mg[n + 1])
    OBVIOUS
  <2>1. Collects(reported, n, mg[n])
    BY <1>1, <1>4
  <2>2. mg[n + 1] = MergeFinding(mg[n], reported[n + 1])
    <3>1. n + 1 \in 0..N /\ n + 1 # 0 /\ (n + 1) - 1 = n
      BY <1>1
    <3> QED  BY <1>2, <3>1
  <2>3. mg[n] \in Seq(MergedFinding) /\ n + 1 <= Len(reported)
    BY <2>1 DEF Collects, N
  <2>4. CASE /\ \A i \in DOMAIN mg[n] : Key(mg[n][i]) # Key(reported[n + 1])
             /\ MergeFinding(mg[n], reported[n + 1]) = Append(mg[n], reported[n + 1])
    BY <1>1, <2>1, <2>2, <2>3, <2>4, AppendKeeps
  <2>5. CASE \E at \in DOMAIN mg[n] :
                /\ Key(mg[n][at]) = Key(reported[n + 1])
                /\ MergeFinding(mg[n], reported[n + 1]) =
                      [mg[n] EXCEPT ![at] = [Keep(mg[n][at], reported[n + 1]) EXCEPT
                         !.sources = mg[n][at].sources \cup reported[n + 1].sources]]
    <3>1. PICK at \in DOMAIN mg[n] :
                /\ Key(mg[n][at]) = Key(reported[n + 1])
                /\ mg[n + 1] =
                      [mg[n] EXCEPT ![at] = [Keep(mg[n][at], reported[n + 1]) EXCEPT
                         !.sources = mg[n][at].sources \cup reported[n + 1].sources]]
      BY <2>2, <2>5
    <3>2. Collects(reported, n + 1, [mg[n] EXCEPT ![at] = [Keep(mg[n][at], reported[n + 1]) EXCEPT
                         !.sources = mg[n][at].sources \cup reported[n + 1].sources]])
      BY <1>1, <2>1, <2>3, <3>1, ReplaceKeeps
    <3> QED  BY <3>1, <3>2
  <2> QED  BY <2>3, <2>4, <2>5, MergeFindingFacts
<1> HIDE DEF S
<1>5. Nat \subseteq S
  BY <1>3, <1>4, NatInduct
<1>6. Collects(reported, N, mg[N])
  BY <1>1, <1>5 DEF S
<1> QED  BY <1>1, <1>6 DEF N, reported

LEMMA InjectiveCount ==
    ASSUME NEW T, NEW s \in Seq(T), IsInjective(s)
    PROVE  IsFiniteSet(ToSet(s)) /\ Cardinality(ToSet(s)) = Len(s)
<1>1. s \in [1..Len(s) -> ToSet(s)] /\ DOMAIN s = 1..Len(s) /\ Len(s) \in Nat
  BY DEF ToSet
<1>2. \A t \in ToSet(s) : \E i \in 1..Len(s) : s[i] = t
  BY <1>1 DEF ToSet
<1>3. \A a, b \in 1..Len(s) : s[a] = s[b] => a = b
  BY <1>1 DEF IsInjective
<1>4. s \in Bijection(1..Len(s), ToSet(s))
  BY <1>1, <1>2, <1>3, Fun_IsBij
<1>5. IsFiniteSet(1..Len(s)) /\ Cardinality(1..Len(s)) = Len(s)
  <2>1. Len(s) \in Nat
    OBVIOUS
  <2> QED  BY <2>1, FS_Interval
<1> QED  BY <1>4, <1>5, FS_Bijection DEF ExistsBijection

LEMMA MergedIsReference ==
    ASSUME NEW results, Reported(results) \in Seq(MergedFinding)
    PROVE  /\ Merged(results) \in Seq(MergedFinding)
           /\ IsInjective(Merged(results))
           /\ ToSet(Merged(results)) = ReferenceMerge(Reported(results))
<1> DEFINE reported == Reported(results)
           N == Len(reported)
           merged == Merged(results)
<1>1. /\ merged \in Seq(MergedFinding)
      /\ \A i, j \in DOMAIN merged : Key(merged[i]) = Key(merged[j]) => i = j
      /\ \A p \in 1..N : \E i \in DOMAIN merged : Key(merged[i]) = Key(reported[p])
      /\ \A i \in DOMAIN merged :
            \E w \in 1..N : WinsTo(reported, N, w) /\ merged[i] = WinnerTo(reported, N, w)
  BY MergedCollects DEF Collects
<1>2. reported \in Seq(MergedFinding) /\ N \in Nat /\ DOMAIN reported = 1..N
      /\ N <= Len(reported)
  OBVIOUS
<1> HIDE DEF merged, reported
<1>3. \A i \in 1..N : /\ SameKeyTo(reported, N, i) = SameKey(reported, i)
                      /\ WinsTo(reported, N, i) = Wins(reported, i)
                      /\ WinnerTo(reported, N, i) = Winner(reported, i)
  BY <1>2 DEF SameKeyTo, SameKey, WinsTo, Wins, WinnerTo, Winner, SourcesTo
<1>4. \A w \in 1..N : Key(WinnerTo(reported, N, w)) = Key(reported[w])
  <2> TAKE w \in 1..N
  <2> HIDE DEF N
  <2> QED  BY <1>2, WinnerFacts
<1>5. \A w, i \in 1..N :
         Wins(reported, w) /\ Wins(reported, i) /\ Key(reported[w]) = Key(reported[i]) => w = i
  <2> SUFFICES ASSUME NEW w \in 1..N, NEW i \in 1..N, Wins(reported, w), Wins(reported, i),
                      Key(reported[w]) = Key(reported[i]), w # i
               PROVE  FALSE
    OBVIOUS
  <2>1. i \in SameKey(reported, w) \ {w} /\ w \in SameKey(reported, i) \ {i}
    BY <1>2 DEF SameKey
  <2>2. SeverityRank[reported[w].severity] \in Int /\ SeverityRank[reported[i].severity] \in Int
    <3>1. reported[w] \in MergedFinding /\ reported[i] \in MergedFinding
      BY <1>2
    <3> QED  BY <3>1, SeverityFacts
  <2> QED  BY <2>1, <2>2 DEF Wins, MoreSevere
<1>6. IsInjective(merged)
  BY <1>1 DEF IsInjective
<1>7. ASSUME NEW g \in ToSet(merged) PROVE g \in ReferenceMerge(reported)
  <2>1. PICK k \in DOMAIN merged : g = merged[k]
    BY DEF ToSet
  <2>2. PICK w \in 1..N : WinsTo(reported, N, w) /\ merged[k] = WinnerTo(reported, N, w)
    BY <1>1
  <2> QED  BY <1>2, <1>3, <2>1, <2>2 DEF ReferenceMerge
<1>8. ASSUME NEW g \in ReferenceMerge(reported) PROVE g \in ToSet(merged)
  <2>1. PICK i \in 1..N : Wins(reported, i) /\ g = Winner(reported, i)
    BY <1>2 DEF ReferenceMerge
  <2>2. PICK k \in DOMAIN merged : Key(merged[k]) = Key(reported[i])
    BY <1>1
  <2>3. PICK w \in 1..N : WinsTo(reported, N, w) /\ merged[k] = WinnerTo(reported, N, w)
    BY <1>1
  <2>4. w = i
    BY <1>3, <1>4, <1>5, <2>1, <2>2, <2>3
  <2> QED  BY <1>3, <2>1, <2>3, <2>4 DEF ToSet
<1>9. ToSet(merged) = ReferenceMerge(reported)
  BY <1>7, <1>8
<1> QED  BY <1>1, <1>6, <1>9 DEF merged, reported

-----------------------------------------------------------------------------
(* The order of the ranking is a strict total order, so a place has one    *)
(* finding and a finding one place.                                        *)
LEMMA SortKeyFacts ==
    ASSUME NEW f \in MergedFinding
    PROVE  /\ SortKey(f)[1] \in Int /\ SortKey(f)[2] \in Int /\ SortKey(f)[3] \in Int
           /\ SortKey(f)[1] = SeverityRank[f.severity]
           /\ SortKey(f) = <<SortKey(f)[1], SortKey(f)[2], SortKey(f)[3]>>
<1>1. f.line \in Int \cup {None} /\ f.file \in Int
  BY DEF MergedFinding
<1> QED  BY <1>1, SeverityFacts DEF SortKey

LEMMA PrecedesFacts ==
    ASSUME NEW s \in Seq(MergedFinding)
    PROVE  /\ \A i \in DOMAIN s : ~Precedes(s, i, i)
           /\ \A i, j \in DOMAIN s : i # j => Precedes(s, i, j) \/ Precedes(s, j, i)
           /\ \A i, j, k \in DOMAIN s : Precedes(s, i, j) /\ Precedes(s, j, k) => Precedes(s, i, k)
<1> DEFINE key(i) == SortKey(s[i])
<1>1. \A i \in DOMAIN s : i \in Nat /\ key(i)[1] \in Int /\ key(i)[2] \in Int /\ key(i)[3] \in Int
  BY SortKeyFacts
<1>3. \A i \in DOMAIN s : key(i) = <<key(i)[1], key(i)[2], key(i)[3]>>
  BY SortKeyFacts
<1>2. \A i, j \in DOMAIN s :
         Precedes(s, i, j) <=>
                             \/ key(i)[1] < key(j)[1]
                             \/ key(i)[1] = key(j)[1] /\ key(i)[2] < key(j)[2]
                             \/ key(i)[1] = key(j)[1] /\ key(i)[2] = key(j)[2] /\ key(i)[3] < key(j)[3]
                             \/ /\ key(i)[1] = key(j)[1] /\ key(i)[2] = key(j)[2]
                                /\ key(i)[3] = key(j)[3] /\ i < j
  BY <1>1, <1>3 DEF Precedes, Before
<1> HIDE DEF key
<1>4. \A i \in DOMAIN s : ~Precedes(s, i, i)
  BY <1>1, <1>2
<1>5. \A i, j \in DOMAIN s : i # j => Precedes(s, i, j) \/ Precedes(s, j, i)
  <2> TAKE i, j \in DOMAIN s
  <2>1. i # j => i < j \/ j < i
    BY <1>1
  <2> QED  BY <1>1, <1>2, <2>1
<1>6. \A i, j, k \in DOMAIN s : Precedes(s, i, j) /\ Precedes(s, j, k) => Precedes(s, i, k)
  <2> TAKE i, j, k \in DOMAIN s
  <2> DEFINE a == key(i)[1]
             b == key(j)[1]
             c == key(k)[1]
  <2>1. Precedes(s, i, j) => a <= b
    BY <1>1, <1>2
  <2>2. Precedes(s, j, k) => b <= c
    BY <1>1, <1>2
  <2> QED  BY <1>1, <1>2, <2>1, <2>2
<1> QED  BY <1>4, <1>5, <1>6

LEMMA PlaceFacts ==
    ASSUME NEW s \in Seq(MergedFinding)
    PROVE  /\ \A j \in DOMAIN s : Place(s, j) \in 1..Len(s)
           /\ \A i, j \in DOMAIN s : Precedes(s, i, j) <=> Place(s, i) < Place(s, j)
           /\ \A i, j \in DOMAIN s : Place(s, i) = Place(s, j) => i = j
<1> DEFINE before(j) == {i \in DOMAIN s : Precedes(s, i, j)}
<1>1. DOMAIN s = 1..Len(s) /\ Len(s) \in Nat
  OBVIOUS
<1>2. IsFiniteSet(DOMAIN s) /\ Cardinality(DOMAIN s) = Len(s)
  BY <1>1, FS_Interval
<1>3. \A j \in DOMAIN s : /\ IsFiniteSet(before(j)) /\ Cardinality(before(j)) \in Nat
                          /\ Cardinality(before(j)) < Len(s)
  <2> TAKE j \in DOMAIN s
  <2>1. before(j) \in SUBSET DOMAIN s /\ before(j) # DOMAIN s
    BY PrecedesFacts
  <2> HIDE DEF before
  <2>2. IsFiniteSet(before(j)) /\ Cardinality(before(j)) <= Len(s) /\ Len(s) # Cardinality(before(j))
    BY <1>2, <2>1, FS_Subset
  <2>3. Cardinality(before(j)) \in Nat
    BY <2>2, FS_CardinalityType
  <2> QED  BY <1>1, <2>2, <2>3
<1>4. \A i, j \in DOMAIN s :
         Precedes(s, i, j) => Cardinality(before(i)) < Cardinality(before(j))
  <2> SUFFICES ASSUME NEW i \in DOMAIN s, NEW j \in DOMAIN s, Precedes(s, i, j)
               PROVE  Cardinality(before(i)) < Cardinality(before(j))
    OBVIOUS
  <2>1. before(i) \in SUBSET before(j) /\ before(i) # before(j)
    BY PrecedesFacts
  <2> HIDE DEF before
  <2>2. Cardinality(before(i)) <= Cardinality(before(j))
        /\ Cardinality(before(j)) # Cardinality(before(i))
    BY <1>3, <2>1, FS_Subset
  <2> QED  BY <1>3, <2>2
<1>5. \A j \in DOMAIN s : Place(s, j) = Cardinality(before(j)) + 1
  BY DEF Place
<1> HIDE DEF before
<1>6. \A j \in DOMAIN s : Place(s, j) \in 1..Len(s)
  BY <1>1, <1>3, <1>5
<1>7. \A i, j \in DOMAIN s : Precedes(s, i, j) => Place(s, i) < Place(s, j)
  BY <1>3, <1>4, <1>5
<1>8. \A i, j \in DOMAIN s : Place(s, i) \in Int /\ Place(s, j) \in Int
  BY <1>6
<1> QED  BY <1>6, <1>7, <1>8, PrecedesFacts

LEMMA RankedFacts ==
    ASSUME NEW s \in Seq(MergedFinding)
    PROVE  /\ Ranked(s) \in Seq(MergedFinding) /\ Len(Ranked(s)) = Len(s)
           /\ ToSet(Ranked(s)) = ToSet(s)
           /\ IsInjective(s) => IsInjective(Ranked(s))
           /\ \A k, l \in DOMAIN Ranked(s) :
                 k < l => SeverityRank[Ranked(s)[k].severity] <= SeverityRank[Ranked(s)[l].severity]
<1> DEFINE D == 1..Len(s)
           place == [j \in D |-> Place(s, j)]
           at(k) == CHOOSE j \in DOMAIN s : Place(s, j) = k
<1>1. DOMAIN s = D /\ Len(s) \in Nat /\ \A i \in D : s[i] \in MergedFinding
  OBVIOUS
<1>2. place \in Injection(D, D)
  <2>1. place \in [D -> D] /\ \A a, b \in D : place[a] = place[b] => a = b
    BY <1>1, PlaceFacts
  <2> HIDE DEF place
  <2> QED  BY <2>1, Fun_IsInj
<1>3. \A k \in D : \E j \in D : Place(s, j) = k
  <2>1. IsFiniteSet(D)
    BY <1>1, FS_Interval
  <2>2. place \in Surjection(D, D)
    <3> HIDE DEF place, D
    <3> QED  BY <1>2, <2>1, FS_Injection
  <2>3. \A k \in D : \E j \in D : place[j] = k
    <3> HIDE DEF place, D
    <3> QED  BY <2>2, Fun_SurjectionProperties
  <2> QED  BY <2>3
<1>4. \A k \in D : at(k) \in D /\ Place(s, at(k)) = k
  BY <1>1, <1>3
<1>5. \A j \in D : Place(s, j) \in D /\ at(Place(s, j)) = j
  <2> SUFFICES ASSUME NEW j \in D PROVE Place(s, j) \in D /\ at(Place(s, j)) = j
    OBVIOUS
  <2>1. Place(s, j) \in D
    BY <1>1, PlaceFacts
  <2>2. at(Place(s, j)) \in D /\ Place(s, at(Place(s, j))) = Place(s, j)
    BY <1>4, <2>1
  <2> HIDE DEF at
  <2> QED  BY <1>1, <2>1, <2>2, PlaceFacts
<1>6. Ranked(s) = [k \in D |-> s[at(k)]]
  BY <1>1 DEF Ranked
<1> HIDE DEF at
<1>7. Ranked(s) \in Seq(MergedFinding) /\ Len(Ranked(s)) = Len(s) /\ DOMAIN Ranked(s) = D
  <2>1. \A k \in D : s[at(k)] \in MergedFinding
    BY <1>1, <1>4
  <2> QED  BY <1>1, <1>6, <2>1
<1>8. ToSet(Ranked(s)) = ToSet(s)
  <2>1. \A k \in D : Ranked(s)[k] \in ToSet(s)
    BY <1>1, <1>4, <1>6 DEF ToSet
  <2>2. \A j \in D : s[j] \in ToSet(Ranked(s))
    <3> TAKE j \in D
    <3>1. Ranked(s)[Place(s, j)] = s[j]
      BY <1>5, <1>6
    <3> QED  BY <1>5, <1>7, <3>1 DEF ToSet
  <2> QED  BY <1>1, <1>7, <2>1, <2>2 DEF ToSet
<1>9. IsInjective(s) => IsInjective(Ranked(s))
  <2> SUFFICES ASSUME IsInjective(s), NEW k \in D, NEW l \in D, Ranked(s)[k] = Ranked(s)[l]
               PROVE  k = l
    BY <1>7 DEF IsInjective
  <2>1. at(k) = at(l)
    BY <1>1, <1>4, <1>6 DEF IsInjective
  <2> QED  BY <1>4, <2>1
<1>10. ASSUME NEW k \in D, NEW l \in D, k < l
       PROVE  SeverityRank[Ranked(s)[k].severity] <= SeverityRank[Ranked(s)[l].severity]
  <2>1. Precedes(s, at(k), at(l))
    BY <1>1, <1>4, <1>10, PlaceFacts
  <2>2. /\ SortKey(s[at(k)])[1] \in Int /\ SortKey(s[at(l)])[1] \in Int
        /\ SortKey(s[at(k)])[1] = SeverityRank[s[at(k)].severity]
        /\ SortKey(s[at(l)])[1] = SeverityRank[s[at(l)].severity]
    BY <1>1, <1>4, SortKeyFacts
  <2>3. SortKey(s[at(k)])[1] <= SortKey(s[at(l)])[1]
    BY <2>1, <2>2 DEF Precedes, Before
  <2> QED  BY <1>6, <2>2, <2>3
<1> QED  BY <1>7, <1>8, <1>9, <1>10

-----------------------------------------------------------------------------
(* The findings that reach the merge: those of the results that are ok.    *)
ListsFindings(results) ==
    \A i \in DOMAIN results : results[i].findings \in Seq(Finding) /\ results[i].name \in Specialists

LEMMA WithSourceFacts ==
    ASSUME NEW f \in Finding, NEW name \in Specialists
    PROVE  /\ WithSource(f, name) \in MergedFinding
           /\ Key(WithSource(f, name)) = Key(f)
           /\ WithSource(f, name).severity = f.severity
           /\ name \in WithSource(f, name).sources
  BY DEF Finding, MergedFinding, WithSource, Key

LEMMA ReportedFacts ==
    ASSUME NEW T, NEW results \in Seq(T), ListsFindings(results)
    PROVE  /\ Reported(results) \in Seq(MergedFinding)
           /\ \A i \in DOMAIN results : results[i].status = "ok" =>
                 \A j \in DOMAIN results[i].findings :
                    \E p \in DOMAIN Reported(results) :
                       Reported(results)[p] = WithSource(results[i].findings[j], results[i].name)
<1> DEFINE own(i) == [j \in DOMAIN results[i].findings |->
                         WithSource(results[i].findings[j], results[i].name)]
           lists == [i \in DOMAIN results |-> IF results[i].status = "ok" THEN own(i) ELSE <<>>]
<1>1. DOMAIN results = 1..Len(results) /\ Len(results) \in Nat
  OBVIOUS
<1>2. \A i \in DOMAIN results : own(i) \in Seq(MergedFinding)
  <2> SUFFICES ASSUME NEW i \in DOMAIN results PROVE own(i) \in Seq(MergedFinding)
    OBVIOUS
  <2> DEFINE fs == results[i].findings
             name == results[i].name
  <2>1. fs \in Seq(Finding) /\ name \in Specialists
    BY DEF ListsFindings
  <2>2. own(i) = [j \in DOMAIN fs |-> WithSource(fs[j], name)]
    OBVIOUS
  <2> HIDE DEF fs, name, own
  <2>3. DOMAIN fs = 1..Len(fs) /\ Len(fs) \in Nat /\ \A j \in DOMAIN fs : fs[j] \in Finding
    BY <2>1
  <2>4. \A j \in DOMAIN fs : WithSource(fs[j], name) \in MergedFinding
    BY <2>1, <2>3, WithSourceFacts
  <2> QED  BY <2>2, <2>3, <2>4
<1>3. Reported(results) = FlattenSeq(lists)
  BY DEF Reported
<1> HIDE DEF own
<1>4. lists \in Seq(Seq(MergedFinding)) /\ DOMAIN lists = DOMAIN results
  <2>1. \A i \in DOMAIN results : lists[i] \in Seq(MergedFinding)
    BY <1>2
  <2>2. DOMAIN lists = DOMAIN results /\ lists = [i \in 1..Len(results) |-> lists[i]]
    BY <1>1
  <2> HIDE DEF lists
  <2> QED  BY <1>1, <2>1, <2>2
<1>5. \A i \in DOMAIN results : results[i].status = "ok" => lists[i] = own(i)
  OBVIOUS
<1> HIDE DEF lists
<1>6. /\ Reported(results) \in Seq(MergedFinding)
      /\ \A i \in DOMAIN lists : \A j \in DOMAIN lists[i] :
            \E p \in DOMAIN Reported(results) : Reported(results)[p] = lists[i][j]
  BY <1>3, <1>4, FlattenFacts
<1>7. ASSUME NEW i \in DOMAIN results, results[i].status = "ok", NEW j \in DOMAIN results[i].findings
      PROVE  \E p \in DOMAIN Reported(results) :
                Reported(results)[p] = WithSource(results[i].findings[j], results[i].name)
  <2>1. j \in DOMAIN own(i) /\ own(i)[j] = WithSource(results[i].findings[j], results[i].name)
    BY DEF own
  <2> QED  BY <1>4, <1>5, <1>6, <1>7, <2>1
<1> QED  BY <1>6, <1>7

(* Everything reported is kept under its key, at least as severe and with  *)
(* the names of those who reported it.                                     *)
LEMMA ReferenceCovers ==
    ASSUME NEW results, Reported(results) \in Seq(MergedFinding), NEW p \in DOMAIN Reported(results)
    PROVE  \E g \in ReferenceMerge(Reported(results)) :
              /\ Key(g) = Key(Reported(results)[p])
              /\ Reported(results)[p].sources \subseteq g.sources
              /\ ~MoreSevere(Reported(results)[p], g)
<1> DEFINE reported == Reported(results)
           N == Len(reported)
           merged == Merged(results)
<1>1. reported \in Seq(MergedFinding) /\ N \in Nat /\ N <= Len(reported) /\ p \in 1..N
      /\ \A i \in 1..N : reported[i] \in MergedFinding
  OBVIOUS
<1>2. /\ \A q \in 1..N : \E i \in DOMAIN merged : Key(merged[i]) = Key(reported[q])
      /\ \A i \in DOMAIN merged :
            \E w \in 1..N : WinsTo(reported, N, w) /\ merged[i] = WinnerTo(reported, N, w)
      /\ \A i \in DOMAIN merged : merged[i] \in ReferenceMerge(reported)
  BY MergedCollects, MergedIsReference DEF Collects, ToSet
<1> HIDE DEF merged, reported, N
<1>3. PICK i \in DOMAIN merged : Key(merged[i]) = Key(reported[p])
  BY <1>1, <1>2
<1>4. PICK w \in 1..N : WinsTo(reported, N, w) /\ merged[i] = WinnerTo(reported, N, w)
  BY <1>2
<1>5. /\ Key(merged[i]) = Key(reported[w]) /\ merged[i].severity = reported[w].severity
      /\ merged[i].sources = SourcesTo(reported, N, w)
  BY <1>1, <1>4, WinnerFacts
<1>6. p \in SameKeyTo(reported, N, w)
  BY <1>1, <1>3, <1>5 DEF SameKeyTo
<1>7. reported[p].sources \subseteq merged[i].sources
  BY <1>5, <1>6 DEF SourcesTo
<1>8. SeverityRank[reported[p].severity] \in Int /\ SeverityRank[reported[w].severity] \in Int
  BY <1>1, SeverityFacts
<1>9. ~MoreSevere(reported[p], merged[i])
  <2>1. CASE p = w
    BY <1>5, <1>8, <2>1 DEF MoreSevere
  <2>2. CASE p # w
    BY <1>4, <1>5, <1>6, <1>8, <2>2 DEF MoreSevere, WinsTo
  <2> QED  BY <2>1, <2>2
<1>10. merged[i] \in ReferenceMerge(reported)
  BY <1>2
<1> QED  BY <1>3, <1>7, <1>9, <1>10 DEF reported

LEMMA CutFacts ==
    ASSUME NEW T, NEW s \in Seq(T), NEW cut \in 0..Len(s)
    PROVE  /\ SubSeq(s, 1, cut) \in Seq(T) /\ Len(SubSeq(s, 1, cut)) = cut
           /\ DOMAIN SubSeq(s, 1, cut) = 1..cut
           /\ \A i \in 1..cut : i \in DOMAIN s /\ SubSeq(s, 1, cut)[i] = s[i]
           /\ DOMAIN s = 1..Len(s)
  OBVIOUS

LEMMA SynthesizeFacts ==
    ASSUME NEW results, Reported(results) \in Seq(MergedFinding), NEW max_findings \in Nat,
           NEW y, y = synthesize(results, max_findings)
    PROVE  /\ y.findings \in Seq(MergedFinding) /\ y.dropped_findings \in Nat
           /\ Len(y.findings) <= max_findings
           /\ ToSet(y.findings) \subseteq ReferenceMerge(Reported(results))
           /\ IsInjective(y.findings)
           /\ Len(y.findings) + y.dropped_findings = Cardinality(ReferenceMerge(Reported(results)))
           /\ y.dropped_findings = 0 => ToSet(y.findings) = ReferenceMerge(Reported(results))
           /\ \A i, j \in DOMAIN y.findings :
                 i < j => ~MoreSevere(y.findings[j], y.findings[i])
           /\ \A f \in ReferenceMerge(Reported(results)) \ ToSet(y.findings),
                 i \in DOMAIN y.findings : ~MoreSevere(f, y.findings[i])
<1> DEFINE kept == ReferenceMerge(Reported(results))
           r == Ranked(Merged(results))
           cut == IF Len(r) > max_findings THEN max_findings ELSE Len(r)
           fs == SubSeq(r, 1, cut)
<1>1. /\ r \in Seq(MergedFinding) /\ ToSet(r) = kept /\ IsInjective(r)
      /\ \A k, l \in DOMAIN r :
            k < l => SeverityRank[r[k].severity] <= SeverityRank[r[l].severity]
  BY MergedIsReference, RankedFacts
<1>2. y.findings = fs /\ y.dropped_findings = Len(r) - cut
  BY DEF synthesize
<1> HIDE DEF r, kept
<1>3. Len(r) \in Nat /\ cut \in 0..Len(r) /\ cut <= max_findings /\ (Len(r) - cut = 0 => cut = Len(r))
  BY <1>1
<1> HIDE DEF cut
<1>4. /\ fs \in Seq(MergedFinding) /\ Len(fs) = cut /\ DOMAIN fs = 1..cut
      /\ \A i \in 1..cut : i \in DOMAIN r /\ fs[i] = r[i]
      /\ DOMAIN r = 1..Len(r)
  BY <1>1, <1>3, CutFacts
<1> HIDE DEF fs
<1>5. Cardinality(kept) = Len(r)
  BY <1>1, InjectiveCount
<1>6. ToSet(fs) \subseteq kept
  BY <1>1, <1>4 DEF ToSet
<1>7. IsInjective(fs)
  BY <1>1, <1>4 DEF IsInjective
<1>8. Len(r) - cut = 0 => ToSet(fs) = kept
  <2> SUFFICES ASSUME cut = Len(r) PROVE kept \subseteq ToSet(fs)
    BY <1>3, <1>6
  <2> QED  BY <1>1, <1>4 DEF ToSet
<1>9. \A k \in DOMAIN r : SeverityRank[r[k].severity] \in Int
  <2>1. \A k \in DOMAIN r : r[k] \in MergedFinding
    BY <1>1
  <2> QED  BY <2>1, SeverityFacts
<1>10. \A i, j \in DOMAIN fs : i < j => ~MoreSevere(fs[j], fs[i])
  BY <1>1, <1>4, <1>9 DEF MoreSevere
<1>11. \A f \in kept \ ToSet(fs), i \in DOMAIN fs : ~MoreSevere(f, fs[i])
  <2> SUFFICES ASSUME NEW f \in kept \ ToSet(fs), NEW i \in DOMAIN fs
               PROVE  ~MoreSevere(f, fs[i])
    OBVIOUS
  <2>1. PICK k \in DOMAIN r : r[k] = f
    BY <1>1 DEF ToSet
  <2>2. k \notin 1..cut
    BY <1>4, <2>1 DEF ToSet
  <2>3. i \in DOMAIN r /\ fs[i] = r[i]
    BY <1>4
  <2>4. i < k
    <3>1. i \in 1..cut /\ k \in 1..Len(r)
      BY <1>4
    <3> QED  BY <1>3, <2>2, <3>1
  <2> QED  BY <1>1, <1>9, <2>1, <2>3, <2>4 DEF MoreSevere
<1>12. Len(r) - cut \in Nat /\ cut + (Len(r) - cut) = Len(r)
  BY <1>3
<1> QED  BY <1>2, <1>3, <1>4, <1>5, <1>6, <1>7, <1>8, <1>10, <1>11, <1>12 DEF kept

-----------------------------------------------------------------------------
Running_phases == {"model", "tools", "cancelling"}
UnknownOutcomes == {"api_error", "timed_out"}

TaskOK(s) ==
    /\ phase[s] = "idle" => spent[s] = 0 /\ iteration[s] = 0
    /\ phase[s] # "done" => entry[s] = None /\ outcome[s] = None
    /\ phase[s] = "model" => iteration[s] < MaxIterations[s]
    /\ phase[s] = "tools" => iteration[s] > 0
    /\ phase[s] = "done" =>
          /\ entry[s].name = s
          /\ outcome[s] \in Outcomes
          /\ (entry[s].status = "ok") = (outcome[s] = "submitted")
          /\ entry[s].tokens = IF outcome[s] \in UnknownOutcomes THEN None ELSE spent[s]

TasksOK == \A s \in Specialists : TaskOK(s)

BilledIsSpent == billed = Sum(spent)

BeforeRouting ==
    node \in {"fetch_context", "triage"} => \A s \in Specialists : phase[s] = "idle" /\ scope[s] = {}

DiffAtTriage == node = "triage" => diff_text = pull_request

BeforeSynthesis ==
    node \in {"fetch_context", "triage", "run_specialist"} =>
        specialist_results = <<>> /\ tokens = 0

Reviewed_run == verdict \in {"submitted", "all_failed"}

Routed ==
    node \in {"run_specialist", "synthesize"} \/ Reviewed_run =>
        /\ files = triage_diff(pull_request)
        /\ scope = Scopes(files)
        /\ \A s \in Specialists : (phase[s] = "idle") = (scope[s] = {})

Collected ==
    node = "synthesize" \/ Reviewed_run =>
        /\ \A s \in Sent : phase[s] = "done"
        /\ specialist_results = [i \in DOMAIN Sends |-> entry[Sends[i]]]
        /\ tokens = Sum(Over([s \in Sent |-> OrZero(entry[s].tokens)], Sent))

Synthesis == synthesize(specialist_results, MaxFindings)

Told ==
    /\ (node = END) = (verdict # None)
    /\ Reviewed_run => report.usage = tokens
    /\ verdict = "submitted" =>
          /\ report.usage_by_specialist = UsageBySpecialist
          /\ report.incomplete_specialists = Incomplete(specialist_results)
    /\ verdict = "all_failed" => Synthesis.all_failed
    /\ verdict = "submitted" =>
          /\ ~Synthesis.all_failed
          /\ report.findings = Synthesis.findings
          /\ report.dropped_findings = Synthesis.dropped_findings

Inv ==
    /\ TypeOK /\ TasksOK /\ BilledIsSpent
    /\ BeforeRouting /\ DiffAtTriage /\ BeforeSynthesis
    /\ Routed /\ Collected /\ Told

-----------------------------------------------------------------------------
(* The change one specialist makes to the state.                           *)
TaskChange(s) ==
    /\ node = "run_specialist"
    /\ UNCHANGED <<pull_request, node, state, scope, returned>>
    /\ \A r \in Specialists : r # s =>
          /\ phase'[r] = phase[r] /\ iteration'[r] = iteration[r] /\ spent'[r] = spent[r]
          /\ outcome'[r] = outcome[r] /\ entry'[r] = entry[r] /\ expired'[r] = expired[r]
    /\ expired' \in [Specialists -> BOOLEAN]
    /\ phase[s] \in Running_phases
    /\ phase' \in [Specialists -> {"idle", "model", "tools", "cancelling", "done"}]
    /\ phase'[s] # "idle"
    /\ iteration' \in [Specialists -> Nat] /\ iteration'[s] <= MaxIterations[s]
    /\ spent' \in [Specialists -> Nat]
    /\ outcome' \in [Specialists -> Outcomes \cup {None}]
    /\ entry' \in [Specialists -> ResultEntry \cup {None}]
    /\ (phase'[s] = "done") = (entry'[s] # None)
    /\ TaskOK(s)'
    /\ billed' \in Nat /\ billed' = billed + (spent'[s] - spent[s])

(* What the code's steps have in common: an answer is counted and billed;  *)
(* a result entry is one.                                                  *)
LEMMA AnswerCounts ==
    ASSUME Inv, NEW s \in Specialists, ModelAnswers(s)
    PROVE  /\ node = "run_specialist" /\ phase[s] = "model"
           /\ iteration[s] \in Nat /\ spent[s] \in Nat /\ billed \in Nat
           /\ iteration[s] < MaxIterations[s] /\ MaxIterations[s] \in Nat
           /\ \E c \in Costs : spent'[s] = spent[s] + c
           /\ iteration' \in [Specialists -> Nat] /\ spent' \in [Specialists -> Nat]
           /\ iteration'[s] = iteration[s] + 1 /\ iteration'[s] <= MaxIterations[s]
           /\ spent'[s] \in Nat /\ billed' \in Nat /\ billed' = billed + (spent'[s] - spent[s])
           /\ \A r \in Specialists : r # s => iteration'[r] = iteration[r] /\ spent'[r] = spent[r]
<1>1. node = "run_specialist" /\ phase[s] = "model"
  BY DEF ModelAnswers, Running
<1>2. /\ iteration \in [Specialists -> Nat] /\ spent \in [Specialists -> Nat] /\ billed \in Nat
      /\ iteration[s] < MaxIterations[s] /\ MaxIterations[s] \in Nat
  BY <1>1, MaxIterationsAssumption DEF Inv, TypeOK, TasksOK, TaskOK
<1>3. iteration' = [iteration EXCEPT ![s] = iteration[s] + 1]
  BY DEF ModelAnswers
<1>4. PICK c \in Costs : spent' = [spent EXCEPT ![s] = spent[s] + c] /\ billed' = billed + c
  BY DEF ModelAnswers
<1>5. c \in Nat
  BY CostsAssumption
<1>6. /\ iteration' \in [Specialists -> Nat] /\ iteration'[s] = iteration[s] + 1
      /\ \A r \in Specialists : r # s => iteration'[r] = iteration[r]
  BY <1>2, <1>3
<1>7. /\ spent' \in [Specialists -> Nat] /\ spent'[s] = spent[s] + c
      /\ \A r \in Specialists : r # s => spent'[r] = spent[r]
  BY <1>2, <1>4, <1>5
<1>8. \E d \in Costs : spent'[s] = spent[s] + d
  BY <1>4, <1>7
<1>9. billed' \in Nat /\ billed' = billed + (spent'[s] - spent[s])
  BY <1>2, <1>4, <1>5, <1>7
<1> QED  BY <1>1, <1>2, <1>6, <1>7, <1>8, <1>9

LEMMA FinishEntry ==
    ASSUME Inv, NEW s \in Specialists, NEW status \in {"ok", "failed", "timed_out"},
           NEW findings \in Submissions \cup {<<>>}, NEW known \in Nat \cup {None},
           Finish(s, status, findings, known)
    PROVE  /\ phase' \in [Specialists -> {"idle", "model", "tools", "cancelling", "done"}]
           /\ phase'[s] = "done"
           /\ entry' \in [Specialists -> ResultEntry \cup {None}]
           /\ entry'[s] # None
           /\ entry'[s].name = s /\ entry'[s].status = status /\ entry'[s].tokens = known
           /\ \A r \in Specialists : r # s => phase'[r] = phase[r] /\ entry'[r] = entry[r]
           /\ expired' \in [Specialists -> BOOLEAN]
           /\ \A r \in Specialists : r # s => expired'[r] = expired[r]
<1> DEFINE e == [name |-> s, status |-> status, findings |-> findings, tokens |-> known]
<1>1. phase' = [phase EXCEPT ![s] = "done"] /\ entry' = [entry EXCEPT ![s] = e]
  BY DEF Finish
<1>2. e.name = s /\ e.status = status /\ e.tokens = known
  OBVIOUS
<1>3. e \in ResultEntry
  BY DEF ResultEntry
<1> HIDE DEF e
<1>4. e # None
  BY <1>3, NoneAssumption
<1>5. /\ entry \in [Specialists -> ResultEntry \cup {None}]
      /\ phase \in [Specialists -> {"idle", "model", "tools", "cancelling", "done"}]
  BY DEF Inv, TypeOK
<1>6. phase' \in [Specialists -> {"idle", "model", "tools", "cancelling", "done"}]
      /\ phase'[s] = "done" /\ \A r \in Specialists : r # s => phase'[r] = phase[r]
  BY <1>1, <1>5
<1>7. entry' \in [Specialists -> ResultEntry \cup {None}]
      /\ entry'[s] = e /\ \A r \in Specialists : r # s => entry'[r] = entry[r]
  BY <1>1, <1>3, <1>5
<1>8. /\ expired' \in [Specialists -> BOOLEAN]
      /\ \A r \in Specialists : r # s => expired'[r] = expired[r]
  BY DEF Finish, Inv, TypeOK
<1> QED  BY <1>2, <1>4, <1>6, <1>7, <1>8

(* Every step of a specialist's task is a change of its own part.          *)
LEMMA AsksForToolsChanges ==
    ASSUME Inv, NEW s \in Specialists, AsksForTools(s) PROVE TaskChange(s)
<1>1. ModelAnswers(s) /\ phase' = [phase EXCEPT ![s] = "tools"]
      /\ UNCHANGED <<expired, outcome, entry>> /\ InTask
  BY DEF AsksForTools
<1>2. phase \in [Specialists -> {"idle", "model", "tools", "cancelling", "done"}] /\ TaskOK(s)
      /\ expired \in [Specialists -> BOOLEAN]
      /\ outcome \in [Specialists -> Outcomes \cup {None}]
      /\ entry \in [Specialists -> ResultEntry \cup {None}]
      /\ (phase[s] = "done") = (entry[s] # None)
  BY DEF Inv, TypeOK, TasksOK
<1>3. TaskOK(s)'
  BY <1>1, <1>2, AnswerCounts DEF TaskOK
<1>4. /\ phase' \in [Specialists -> {"idle", "model", "tools", "cancelling", "done"}]
      /\ phase'[s] = "tools" /\ \A r \in Specialists : r # s => phase'[r] = phase[r]
  BY <1>1, <1>2
<1> QED  BY <1>1, <1>2, <1>3, <1>4, AnswerCounts DEF TaskChange, InTask, Running_phases

LEMMA StopsChanges ==
    ASSUME Inv, NEW s \in Specialists, StopsWithoutSubmitting(s) PROVE TaskChange(s)
<1>1. /\ ModelAnswers(s) /\ outcome' = [outcome EXCEPT ![s] = "no_submit"]
      /\ Finish(s, "failed", <<>>, spent'[s]) /\ InTask
  BY DEF StopsWithoutSubmitting
<1>2. /\ outcome' \in [Specialists -> Outcomes \cup {None}] /\ outcome'[s] = "no_submit"
      /\ \A r \in Specialists : r # s => outcome'[r] = outcome[r]
  BY <1>1 DEF Inv, TypeOK, Outcomes
<1>3. spent'[s] \in Nat \cup {None} /\ <<>> \in Submissions \cup {<<>>}
  BY <1>1, AnswerCounts
<1>4. /\ phase' \in [Specialists -> {"idle", "model", "tools", "cancelling", "done"}]
      /\ phase'[s] = "done"
      /\ entry' \in [Specialists -> ResultEntry \cup {None}]
      /\ entry'[s] # None
      /\ entry'[s].name = s /\ entry'[s].status = "failed" /\ entry'[s].tokens = spent'[s]
      /\ \A r \in Specialists : r # s => phase'[r] = phase[r] /\ entry'[r] = entry[r]
      /\ expired' \in [Specialists -> BOOLEAN]
      /\ \A r \in Specialists : r # s => expired'[r] = expired[r]
  BY <1>1, <1>3, FinishEntry
<1>5. TaskOK(s)'
  BY <1>2, <1>4 DEF TaskOK, Outcomes, UnknownOutcomes
<1> QED  BY <1>1, <1>2, <1>4, <1>5, AnswerCounts DEF TaskChange, InTask, Running_phases

LEMMA KeepsGoingChanges ==
    ASSUME Inv, NEW s \in Specialists, KeepsGoing(s) PROVE TaskChange(s)
<1>1. /\ node = "run_specialist" /\ phase[s] = "tools" /\ iteration[s] < MaxIterations[s]
      /\ phase' = [phase EXCEPT ![s] = "model"]
      /\ UNCHANGED <<expired, iteration, spent, outcome, entry, billed>> /\ InTask
  BY DEF KeepsGoing, Running
<1>2. TypeOK /\ TaskOK(s)
  BY DEF Inv, TasksOK
<1>3. /\ phase' \in [Specialists -> {"idle", "model", "tools", "cancelling", "done"}]
      /\ phase'[s] = "model" /\ \A r \in Specialists : r # s => phase'[r] = phase[r]
  BY <1>1, <1>2 DEF TypeOK
<1>4. TaskOK(s)'
  BY <1>1, <1>2, <1>3 DEF TaskOK
<1> QED  BY <1>1, <1>2, <1>3, <1>4 DEF TaskChange, InTask, TypeOK, Running_phases

LEMMA TimeExpiresChanges ==
    ASSUME Inv, NEW s \in Specialists, TimeExpires(s) PROVE TaskChange(s)
<1>1. /\ node = "run_specialist" /\ phase[s] \in {"model", "tools"}
      /\ phase' = [phase EXCEPT ![s] = "cancelling"]
      /\ expired' = [expired EXCEPT ![s] = TRUE]
      /\ UNCHANGED <<iteration, spent, outcome, entry, billed>> /\ InTask
  BY DEF TimeExpires, Running
<1>2. TypeOK /\ TaskOK(s)
  BY DEF Inv, TasksOK
<1>3. /\ phase' \in [Specialists -> {"idle", "model", "tools", "cancelling", "done"}]
      /\ phase'[s] = "cancelling" /\ \A r \in Specialists : r # s => phase'[r] = phase[r]
  BY <1>1, <1>2 DEF TypeOK
<1>4. TaskOK(s)'
  BY <1>1, <1>2, <1>3 DEF TaskOK
<1>5. /\ expired' \in [Specialists -> BOOLEAN]
      /\ \A r \in Specialists : r # s => expired'[r] = expired[r]
  BY <1>1, <1>2 DEF TypeOK
<1> QED  BY <1>1, <1>2, <1>3, <1>4, <1>5 DEF TaskChange, InTask, TypeOK, Running_phases

LEMMA CancellationLostChanges ==
    ASSUME Inv, NEW s \in Specialists, CancellationLost(s) PROVE TaskChange(s)
<1>1. /\ node = "run_specialist" /\ phase[s] = "tools"
      /\ expired' = [expired EXCEPT ![s] = TRUE]
      /\ UNCHANGED <<phase, iteration, spent, outcome, entry, billed>> /\ InTask
  BY DEF CancellationLost, Running
<1>2. TypeOK /\ TaskOK(s)
  BY DEF Inv, TasksOK
<1>3. TaskOK(s)'
  BY <1>1, <1>2 DEF TaskOK
<1>4. /\ expired' \in [Specialists -> BOOLEAN]
      /\ \A r \in Specialists : r # s => expired'[r] = expired[r]
  BY <1>1, <1>2 DEF TypeOK
<1> QED  BY <1>1, <1>2, <1>3, <1>4 DEF TaskChange, InTask, TypeOK, Running_phases

(* The steps that end a task without a model answer.                       *)
LEMMA EndsChanges ==
    ASSUME Inv, NEW s \in Specialists, node = "run_specialist", phase[s] \in Running_phases,
           NEW how \in Outcomes, outcome' = [outcome EXCEPT ![s] = how],
           NEW status \in {"ok", "failed", "timed_out"},
           (status = "ok") = (how = "submitted"),
           NEW findings \in Submissions \cup {<<>>},
           Finish(s, status, findings, IF how \in UnknownOutcomes THEN None ELSE spent[s]),
           UNCHANGED <<iteration, spent, billed>>, InTask
    PROVE  TaskChange(s)
<1> DEFINE known == IF how \in UnknownOutcomes THEN None ELSE spent[s]
<1>1. TypeOK /\ TaskOK(s) /\ known \in Nat \cup {None}
      /\ Finish(s, status, findings, known)
  BY DEF Inv, TasksOK, TypeOK
<1> HIDE DEF known
<1>2. /\ phase' \in [Specialists -> {"idle", "model", "tools", "cancelling", "done"}]
      /\ phase'[s] = "done"
      /\ entry' \in [Specialists -> ResultEntry \cup {None}]
      /\ entry'[s] # None
      /\ entry'[s].name = s /\ entry'[s].status = status /\ entry'[s].tokens = known
      /\ \A r \in Specialists : r # s => phase'[r] = phase[r] /\ entry'[r] = entry[r]
      /\ expired' \in [Specialists -> BOOLEAN]
      /\ \A r \in Specialists : r # s => expired'[r] = expired[r]
  BY <1>1, FinishEntry
<1>3. /\ outcome' \in [Specialists -> Outcomes \cup {None}] /\ outcome'[s] = how
      /\ \A r \in Specialists : r # s => outcome'[r] = outcome[r]
  BY <1>1 DEF TypeOK
<1>4. TaskOK(s)'
  BY <1>1, <1>2, <1>3 DEF TaskOK, known
<1> QED  BY <1>1, <1>2, <1>3, <1>4 DEF TaskChange, InTask, TypeOK

LEMMA SpecialistChanges ==
    ASSUME Inv, NEW s \in Specialists, Specialist(s)
    PROVE  TaskChange(s) \/ Escapes
<1>0. <<>> \in Submissions \cup {<<>>}
  OBVIOUS
<1>1. CASE Submits(s)
  <2>1. PICK findings \in Submissions : Finish(s, "ok", findings, spent[s])
    BY <1>1 DEF Submits
  <2>2. "submitted" \in Outcomes /\ "submitted" \notin UnknownOutcomes
    BY DEF Outcomes, UnknownOutcomes
  <2> QED  BY <1>1, <2>1, <2>2, EndsChanges DEF Submits, Running, Running_phases
<1>2. CASE Exceeds(s)
  <2>1. "exceeded" \in Outcomes /\ "exceeded" \notin UnknownOutcomes
    BY DEF Outcomes, UnknownOutcomes
  <2> QED  BY <1>0, <1>2, <2>1, EndsChanges DEF Exceeds, Running, Running_phases
<1>3. CASE ApiFails(s)
  <2>1. "api_error" \in Outcomes /\ "api_error" \in UnknownOutcomes
    BY DEF Outcomes, UnknownOutcomes
  <2> QED  BY <1>0, <1>3, <2>1, EndsChanges DEF ApiFails, Running, Running_phases
<1>4. CASE TimesOut(s)
  <2>1. "timed_out" \in Outcomes /\ "timed_out" \in UnknownOutcomes
    BY DEF Outcomes, UnknownOutcomes
  <2> QED  BY <1>0, <1>4, <2>1, EndsChanges DEF TimesOut, Running, Running_phases
<1>5. CASE BackstopFires(s) \/ Crashes(s)
  BY <1>5 DEF BackstopFires, Crashes
<1> QED  BY <1>1, <1>2, <1>3, <1>4, <1>5, AsksForToolsChanges, StopsChanges, KeepsGoingChanges,
            TimeExpiresChanges, CancellationLostChanges DEF Specialist

-----------------------------------------------------------------------------
(* The sum over the four specialists.                                      *)
LEMMA SumType == ASSUME NEW f \in [Specialists -> Nat] PROVE Sum(f) \in Nat
<1>1. f["security"] \in Nat /\ f["performance"] \in Nat /\ f["correctness"] \in Nat
      /\ f["dependencies"] \in Nat
  BY DEF Specialists
<1> QED  BY <1>1 DEF Sum

LEMMA SumChange ==
    ASSUME NEW f \in [Specialists -> Nat], NEW g \in [Specialists -> Nat], NEW s \in Specialists,
           \A r \in Specialists : r # s => g[r] = f[r]
    PROVE  Sum(g) = Sum(f) + (g[s] - f[s])
<1>1. \A r \in Specialists : f[r] \in Nat /\ g[r] \in Nat
  OBVIOUS
<1> QED  BY <1>1 DEF Sum, Specialists

(* A task's change keeps the invariant.                                    *)
LEMMA TaskChangeInv == ASSUME Inv, NEW s \in Specialists, TaskChange(s) PROVE Inv'
<1>1. /\ node = "run_specialist" /\ node' = node
      /\ UNCHANGED <<pull_request, diff_text, files, specialist_results, tokens, scope, verdict,
                     report>>
  BY DEF TaskChange, state, returned
<1>2. TypeOK'
  <2>1. \A r \in Specialists : iteration'[r] <= MaxIterations[r]
    BY DEF Inv, TypeOK, TaskChange
  <2>2. \A r \in Specialists : (phase'[r] = "done") = (entry'[r] # None)
    BY DEF Inv, TypeOK, TaskChange
  <2> QED  BY <1>1, <2>1, <2>2 DEF Inv, TypeOK, TaskChange
<1>3. TasksOK'
  <2> SUFFICES ASSUME NEW r \in Specialists PROVE TaskOK(r)'
    BY DEF TasksOK
  <2>1. CASE r = s
    BY <2>1 DEF TaskChange
  <2>2. CASE r # s
    BY <2>2 DEF TaskChange, Inv, TasksOK, TaskOK
  <2> QED  BY <2>1, <2>2
<1>4. BilledIsSpent'
  <2>1. Sum(spent') = Sum(spent) + (spent'[s] - spent[s])
    BY SumChange DEF TaskChange, Inv, TypeOK
  <2>2. Sum(spent)' = Sum(spent')
    BY DEF Sum
  <2> QED  BY <2>1, <2>2 DEF BilledIsSpent, TaskChange, Inv
<1>5. BeforeRouting' /\ DiffAtTriage' /\ BeforeSynthesis'
  BY <1>1 DEF Inv, BeforeRouting, DiffAtTriage, BeforeSynthesis
<1>6. Routed'
  <2>1. \A r \in Specialists : (phase'[r] = "idle") = (scope[r] = {})
    BY <1>1 DEF Inv, Routed, TaskChange, Running_phases
  <2>2. files' = triage_diff(pull_request') /\ scope' = Scopes(files')
    BY <1>1 DEF Inv, Routed
  <2> QED  BY <1>1, <2>1, <2>2 DEF Routed
<1>7. verdict = None /\ ~Reviewed_run /\ ~Reviewed_run'
  BY <1>1, NoneAssumption DEF Inv, Told, Reviewed_run, END
<1>8. Collected' /\ Told'
  BY <1>1, <1>7, NoneAssumption DEF Inv, Collected, Told, Reviewed_run, END
<1> QED  BY <1>2, <1>3, <1>4, <1>5, <1>6, <1>8 DEF Inv

(* An exception that escapes reports nothing.                              *)
LEMMA EscapesInv == ASSUME Inv, Escapes PROVE Inv'
<1>1. node' = END /\ verdict' = "error" /\ UNCHANGED <<pull_request, state, scope, tasks, report, billed>>
  BY DEF Escapes
<1>2. UNCHANGED <<diff_text, files, specialist_results, tokens, scope, expired, phase, iteration, spent,
                  outcome, entry>>
  BY <1>1 DEF state, tasks
<1>3. TypeOK' /\ TasksOK' /\ BilledIsSpent'
  BY <1>1, <1>2 DEF Inv, TypeOK, TasksOK, TaskOK, BilledIsSpent, Sum, END
<1>4. BeforeRouting' /\ DiffAtTriage' /\ BeforeSynthesis' /\ Routed' /\ Collected'
  BY <1>1 DEF BeforeRouting, DiffAtTriage, BeforeSynthesis, Routed, Collected, Reviewed_run, END
<1>5. Told'
  BY <1>1, NoneAssumption DEF Told, Reviewed_run, END
<1> QED  BY <1>3, <1>4, <1>5 DEF Inv

LEMMA FetchContextInv == ASSUME Inv, FetchContext PROVE Inv'
<1>1. /\ node = "fetch_context" /\ node' = "triage" /\ diff_text' = pull_request
      /\ UNCHANGED <<pull_request, files, specialist_results, tokens, scope, expired, phase, iteration,
                     spent, outcome, entry, verdict, report, billed>>
  BY DEF FetchContext, tasks, returned
<1>2. TypeOK' /\ TasksOK' /\ BilledIsSpent'
  BY <1>1 DEF Inv, TypeOK, TasksOK, TaskOK, BilledIsSpent, Sum
<1>3. BeforeRouting' /\ DiffAtTriage' /\ BeforeSynthesis'
  BY <1>1 DEF Inv, BeforeRouting, DiffAtTriage, BeforeSynthesis
<1>4. Routed' /\ Collected' /\ Told'
  BY <1>1, NoneAssumption DEF Inv, Routed, Collected, Told, Reviewed_run, END
<1> QED  BY <1>2, <1>3, <1>4 DEF Inv

-----------------------------------------------------------------------------
(* The Sends are the specialists with a scope: those of the code files     *)
(* share one, and are sent together.                                       *)
LEMMA ScopesShared ==
    ASSUME NEW changes, scope = Scopes(changes)
    PROVE  scope["security"] = scope["performance"] /\ scope["security"] = scope["correctness"]
  BY DEF Scopes, Specialists

LEMMA SendsAreSent ==
    ASSUME NEW changes, scope = Scopes(changes)
    PROVE  /\ Len(Sends) \in Nat /\ DOMAIN Sends = 1..Len(Sends)
           /\ \A i \in DOMAIN Sends : Sends[i] \in Sent
           /\ \A s \in Sent : \E i \in DOMAIN Sends : Sends[i] = s
<1> DEFINE code == IF scope["security"] # {} THEN CodeSpecialists ELSE <<>>
           manifests == IF scope["dependencies"] # {} THEN <<"dependencies">> ELSE <<>>
<1>1. code \in Seq(Specialists) /\ manifests \in Seq(Specialists)
  <2>1. <<"security", "performance", "correctness">> \in Seq(Specialists)
    BY DEF Specialists
  <2>2. <<"dependencies">> \in Seq(Specialists)
    BY DEF Specialists
  <2>3. <<>> \in Seq(Specialists)
    OBVIOUS
  <2> QED  BY <2>1, <2>2, <2>3 DEF CodeSpecialists
<1>2. /\ \A i \in DOMAIN code : code[i] \in Sent
      /\ \A s \in Sent : s # "dependencies" => \E i \in DOMAIN code : code[i] = s
  <2>1. CASE scope["security"] # {}
    <3>1. code = <<"security", "performance", "correctness">>
      BY <2>1 DEF CodeSpecialists
    <3> HIDE DEF code
    <3>2. /\ \A i \in DOMAIN code : i \in 1..3 /\ code[i] \in {"security", "performance", "correctness"}
          /\ 1 \in DOMAIN code /\ code[1] = "security"
          /\ 2 \in DOMAIN code /\ code[2] = "performance"
          /\ 3 \in DOMAIN code /\ code[3] = "correctness"
      BY <3>1
    <3>3. {"security", "performance", "correctness"} \subseteq Sent
      BY <2>1, ScopesShared DEF Sent, Specialists
    <3> QED  BY <3>2, <3>3 DEF Sent, Specialists
  <2>2. CASE scope["security"] = {}
    <3>1. code = <<>> /\ Sent \subseteq {"dependencies"}
      BY <2>2, ScopesShared DEF Sent, Specialists
    <3> QED  BY <3>1
  <2> QED  BY <2>1, <2>2
<1>3. /\ \A i \in DOMAIN manifests : manifests[i] \in Sent
      /\ "dependencies" \in Sent => \E i \in DOMAIN manifests : manifests[i] = "dependencies"
  BY DEF Sent, Specialists
<1>4. Sends = code \o manifests
  BY DEF Sends
<1> HIDE DEF code, manifests
<1>5. /\ Len(Sends) = Len(code) + Len(manifests) /\ DOMAIN Sends = 1..Len(Sends)
      /\ \A i \in DOMAIN code : i \in DOMAIN Sends /\ Sends[i] = code[i]
      /\ \A i \in DOMAIN manifests :
            i + Len(code) \in DOMAIN Sends /\ Sends[i + Len(code)] = manifests[i]
      /\ \A i \in DOMAIN Sends : i \notin DOMAIN code =>
            i - Len(code) \in DOMAIN manifests /\ Sends[i] = manifests[i - Len(code)]
  BY <1>1, <1>4
<1>6. \A i \in DOMAIN Sends : Sends[i] \in Sent
  BY <1>2, <1>3, <1>5
<1>7. \A s \in Sent : \E i \in DOMAIN Sends : Sends[i] = s
  BY <1>2, <1>3, <1>5
<1>8. Len(Sends) \in Nat
  BY <1>1, <1>5
<1> QED  BY <1>5, <1>6, <1>7, <1>8

(* What the reducers leave: the results are the entries of the specialists *)
(* that were sent.                                                         *)
LEMMA ResultsAreEntries ==
    ASSUME Inv, node = "synthesize" \/ Reviewed_run
    PROVE  /\ \A s \in Sent : phase[s] = "done" /\ entry[s] \in ResultEntry /\ TaskOK(s)
           /\ \A i \in DOMAIN specialist_results :
                 \E s \in Sent : specialist_results[i] = entry[s] /\ entry[s].name = s
           /\ \A s \in Sent : \E i \in DOMAIN specialist_results : specialist_results[i] = entry[s]
<1>1. /\ \A s \in Sent : phase[s] = "done"
      /\ specialist_results = [i \in DOMAIN Sends |-> entry[Sends[i]]]
      /\ scope = Scopes(files)
  BY DEF Inv, Collected, Routed
<1>2. \A s \in Sent : entry[s] \in ResultEntry /\ TaskOK(s)
  BY <1>1 DEF Inv, TypeOK, TasksOK, Sent
<1>3. \A s \in Sent : entry[s].name = s
  BY <1>1, <1>2 DEF TaskOK
<1>4. /\ \A i \in DOMAIN Sends : Sends[i] \in Sent
      /\ \A s \in Sent : \E i \in DOMAIN Sends : Sends[i] = s
  BY <1>1, SendsAreSent
<1>5. \A i \in DOMAIN specialist_results :
          \E s \in Sent : specialist_results[i] = entry[s] /\ entry[s].name = s
  BY <1>1, <1>3, <1>4
<1>6. \A s \in Sent : \E i \in DOMAIN specialist_results : specialist_results[i] = entry[s]
  BY <1>1, <1>4
<1> QED  BY <1>1, <1>2, <1>5, <1>6

(* Triage writes the files, and routing the scope, of this pull request.   *)
LEMMA TriageAndRouteInv == ASSUME Inv, TriageAndRoute PROVE Inv'
<1>1. /\ node = "triage" /\ files' = triage_diff(diff_text) /\ diff_text' = {}
      /\ scope' = Scopes(files')
      /\ phase' = [s \in Specialists |-> IF scope'[s] # {} THEN "model" ELSE "idle"]
      /\ node' = IF \A s \in Specialists : scope'[s] = {} THEN "synthesize" ELSE "run_specialist"
      /\ UNCHANGED <<pull_request, specialist_results, tokens, expired, iteration, spent, outcome, entry,
                     verdict, report, billed>>
  BY DEF TriageAndRoute, returned
<1>2. diff_text = pull_request /\ specialist_results = <<>> /\ tokens = 0
      /\ \A s \in Specialists : phase[s] = "idle"
  BY <1>1 DEF Inv, BeforeRouting, DiffAtTriage, BeforeSynthesis
<1>3. \A s \in Specialists : spent[s] = 0 /\ iteration[s] = 0 /\ entry[s] = None /\ outcome[s] = None
  BY <1>2 DEF Inv, TasksOK, TaskOK
<1>4. verdict = None
  BY <1>1 DEF Inv, Told, END
<1>5. scope' \in [Specialists -> SUBSET triage_diff(pull_request)]
  BY <1>1, <1>2 DEF Scopes
<1>6. phase' \in [Specialists -> {"idle", "model", "tools", "cancelling", "done"}]
      /\ \A s \in Specialists : phase'[s] \in {"idle", "model"} /\ (phase'[s] = "idle") = (scope'[s] = {})
  BY <1>1
<1>7. TypeOK'
  BY <1>1, <1>3, <1>5, <1>6 DEF Inv, TypeOK
<1>8. TasksOK'
  <2> SUFFICES ASSUME NEW s \in Specialists PROVE TaskOK(s)'
    BY DEF TasksOK
  <2>1. MaxIterations[s] \in Nat \ {0}
    BY MaxIterationsAssumption
  <2> QED  BY <1>1, <1>3, <1>6, <2>1 DEF TaskOK
<1>9. BilledIsSpent'
  BY <1>1 DEF Inv, BilledIsSpent, Sum
<1>10. BeforeRouting' /\ DiffAtTriage' /\ BeforeSynthesis'
  BY <1>1, <1>2 DEF BeforeRouting, DiffAtTriage, BeforeSynthesis
<1>11. Routed'
  BY <1>1, <1>2, <1>6 DEF Routed
<1>12. Collected'
  <2> SUFFICES ASSUME node' = "synthesize"
               PROVE  /\ Sent' = {} /\ specialist_results' = [i \in DOMAIN Sends' |-> entry'[Sends'[i]]]
                      /\ tokens' = Sum(Over([s \in Sent' |-> OrZero(entry'[s].tokens)], Sent'))
    BY <1>1, <1>4, NoneAssumption DEF Collected, Reviewed_run
  <2>1. \A s \in Specialists : scope'[s] = {}
    BY <1>1
  <2>2. Sent' = {}
    BY <2>1 DEF Sent
  <2>3. scope'["security"] = {} /\ scope'["dependencies"] = {}
    BY <2>1 DEF Specialists
  <2>4. Sends' = <<>>
    BY <2>3 DEF Sends
  <2>5. specialist_results' = [i \in DOMAIN Sends' |-> entry'[Sends'[i]]]
    BY <1>1, <1>2, <2>4
  <2>6. tokens' = Sum(Over([s \in Sent' |-> OrZero(entry'[s].tokens)], Sent'))
    BY <1>1, <1>2, <2>2 DEF Sum, Over, Specialists
  <2> QED  BY <2>2, <2>5, <2>6
<1>13. Told'
  BY <1>1, <1>4, NoneAssumption DEF Told, Reviewed_run, END
<1> QED  BY <1>7, <1>8, <1>9, <1>10, <1>11, <1>12, <1>13 DEF Inv

(* The reducers start from nothing, and see every entry once.              *)
LEMMA EndFanOutInv == ASSUME Inv, EndFanOut PROVE Inv'
<1>1. /\ node = "run_specialist" /\ node' = "synthesize"
      /\ \A s \in Sent : phase[s] = "done"
      /\ specialist_results' = specialist_results \o [i \in DOMAIN Sends |-> entry[Sends[i]]]
      /\ tokens' = tokens + Sum(Over([s \in Sent |-> OrZero(entry[s].tokens)], Sent))
      /\ UNCHANGED <<pull_request, diff_text, files, scope, expired, phase, iteration, spent, outcome,
                     entry, verdict, report, billed>>
  BY DEF EndFanOut, tasks, returned
<1>2. specialist_results = <<>> /\ tokens = 0
  BY <1>1 DEF Inv, BeforeSynthesis
<1>3. scope = Scopes(files)
  BY <1>1 DEF Inv, Routed
<1>4. Sent' = Sent /\ Sends' = Sends
  BY <1>1 DEF Sent, Sends
<1>5. specialist_results' = [i \in DOMAIN Sends |-> entry[Sends[i]]]
  <2> DEFINE results == [i \in DOMAIN Sends |-> entry[Sends[i]]]
  <2>1. Len(Sends) \in Nat /\ DOMAIN Sends = 1..Len(Sends)
    BY <1>3, SendsAreSent
  <2>2. results \in Seq({entry[Sends[i]] : i \in DOMAIN Sends})
    BY <2>1
  <2> HIDE DEF results
  <2>3. <<>> \o results = results
    BY <2>2
  <2> QED  BY <1>1, <1>2, <2>3 DEF results
<1>6. Sum(Over([s \in Sent |-> OrZero(entry[s].tokens)], Sent)) \in Nat
  <2> DEFINE f == Over([s \in Sent |-> OrZero(entry[s].tokens)], Sent)
  <2>1. \A s \in Sent : entry[s] \in ResultEntry
    BY <1>1 DEF Inv, TypeOK, Sent
  <2>2. \A s \in Sent : OrZero(entry[s].tokens) \in Nat
    BY <2>1 DEF ResultEntry, OrZero
  <2>3. f \in [Specialists -> Nat]
    BY <2>2 DEF Over
  <2> HIDE DEF f
  <2>4. Sum(f) \in Nat
    BY <2>3, SumType
  <2> QED  BY <2>4 DEF f
<1>7. tokens' = Sum(Over([s \in Sent |-> OrZero(entry[s].tokens)], Sent)) /\ tokens' \in Nat
  BY <1>1, <1>2, <1>6
<1>8. TypeOK' /\ TasksOK' /\ BilledIsSpent'
  BY <1>1, <1>7 DEF Inv, TypeOK, TasksOK, TaskOK, BilledIsSpent, Sum
<1>9. BeforeRouting' /\ DiffAtTriage' /\ BeforeSynthesis' /\ Routed'
  BY <1>1 DEF Inv, BeforeRouting, DiffAtTriage, BeforeSynthesis, Routed
<1>10. Collected'
  <2>1. \A s \in Sent' : phase'[s] = "done"
    BY <1>1, <1>4
  <2>2. specialist_results' = [i \in DOMAIN Sends' |-> entry'[Sends'[i]]]
    BY <1>1, <1>4, <1>5
  <2>3. tokens' = Sum(Over([s \in Sent' |-> OrZero(entry'[s].tokens)], Sent'))
    BY <1>1, <1>4, <1>7
  <2> QED  BY <2>1, <2>2, <2>3 DEF Collected
<1>11. Told'
  BY <1>1, NoneAssumption DEF Inv, Told, Reviewed_run, END
<1> QED  BY <1>8, <1>9, <1>10, <1>11 DEF Inv

(* The runner reports what the synthesis of the results says.              *)
LEMMA SynthesizeAndReturnInv == ASSUME Inv, SynthesizeAndReturn PROVE Inv'
<1>1. /\ node = "synthesize" /\ node' = END
      /\ UNCHANGED <<pull_request, diff_text, files, specialist_results, tokens, scope, expired, phase,
                     iteration, spent, outcome, entry, billed>>
  BY DEF SynthesizeAndReturn, state, tasks
<1>2. Synthesis.incomplete_specialists = Incomplete(specialist_results)
  BY DEF Synthesis, synthesize
<1>3. \/ /\ Synthesis.all_failed
         /\ verdict' = "all_failed" /\ report' = [NoReport EXCEPT !.usage = tokens]
      \/ /\ ~Synthesis.all_failed
         /\ verdict' = "submitted"
         /\ report' = [findings               |-> Synthesis.findings,
                       usage                  |-> tokens,
                       usage_by_specialist    |-> UsageBySpecialist,
                       incomplete_specialists |-> Synthesis.incomplete_specialists,
                       dropped_findings       |-> Synthesis.dropped_findings]
  BY DEF SynthesizeAndReturn, Synthesis
<1>4. verdict' \in {"submitted", "all_failed"}
  BY <1>3
<1>5. report'.usage = tokens
  BY <1>3 DEF NoReport
<1>6. verdict' = "submitted" =>
          /\ report'.usage_by_specialist = UsageBySpecialist
          /\ report'.incomplete_specialists = Incomplete(specialist_results)
  BY <1>2, <1>3
<1>7. TypeOK' /\ TasksOK' /\ BilledIsSpent'
  BY <1>1, <1>4 DEF Inv, TypeOK, TasksOK, TaskOK, BilledIsSpent, Sum
<1>8. BeforeRouting' /\ DiffAtTriage' /\ BeforeSynthesis'
  BY <1>1 DEF BeforeRouting, DiffAtTriage, BeforeSynthesis, END
<1>9. Routed' /\ Collected'
  BY <1>1 DEF Inv, Routed, Collected, Sent, Sends
<1>10. UsageBySpecialist' = UsageBySpecialist /\ Incomplete(specialist_results)' = Incomplete(specialist_results)
  BY <1>1 DEF UsageBySpecialist, Incomplete
<1>11. Synthesis' = Synthesis
  BY <1>1 DEF Synthesis
<1>12. /\ verdict' = "all_failed" => Synthesis.all_failed
       /\ verdict' = "submitted" =>
             /\ ~Synthesis.all_failed
             /\ report'.findings = Synthesis.findings
             /\ report'.dropped_findings = Synthesis.dropped_findings
  BY <1>3
<1>13. Told'
  BY <1>1, <1>4, <1>5, <1>6, <1>10, <1>11, <1>12, NoneAssumption DEF Told, END
<1> QED  BY <1>7, <1>8, <1>9, <1>13 DEF Inv

LEMMA InitInv == Init => Inv
<1> SUFFICES ASSUME Init PROVE Inv
  OBVIOUS
<1>1. TypeOK
  BY MaxIterationsAssumption DEF Init, TypeOK, END
<1>2. TasksOK
  BY DEF Init, TasksOK, TaskOK
<1>3. BilledIsSpent
  BY DEF Init, BilledIsSpent, Sum, Specialists
<1>4. BeforeRouting /\ DiffAtTriage /\ BeforeSynthesis
  BY DEF Init, BeforeRouting, DiffAtTriage, BeforeSynthesis
<1>5. Routed /\ Collected /\ Told
  BY NoneAssumption DEF Init, Routed, Collected, Told, Reviewed_run, END
<1> QED  BY <1>1, <1>2, <1>3, <1>4, <1>5 DEF Inv

LEMMA StutterInv == ASSUME Inv, UNCHANGED vars PROVE Inv'
<1>1. UNCHANGED <<pull_request, node, diff_text, files, specialist_results, tokens, scope, expired, phase,
                  iteration, spent, outcome, entry, verdict, report, billed>>
  BY DEF vars, state, tasks, returned
<1>2. TypeOK' /\ TasksOK' /\ BilledIsSpent'
  BY <1>1 DEF Inv, TypeOK, TasksOK, TaskOK, BilledIsSpent, Sum
<1>3. BeforeRouting' /\ DiffAtTriage' /\ BeforeSynthesis'
  BY <1>1 DEF Inv, BeforeRouting, DiffAtTriage, BeforeSynthesis
<1>4. Routed' /\ Collected'
  BY <1>1 DEF Inv, Routed, Collected, Reviewed_run, Sent, Sends
<1>5. Told'
  BY <1>1 DEF Inv, Told, Reviewed_run, UsageBySpecialist, Synthesis
<1> QED  BY <1>2, <1>3, <1>4, <1>5 DEF Inv

LEMMA StepInv == Inv /\ [Next]_vars => Inv'
<1> SUFFICES ASSUME Inv, [Next]_vars PROVE Inv'
  OBVIOUS
<1>1. CASE FetchContext
  BY <1>1, FetchContextInv
<1>2. CASE GithubFails
  BY <1>2, EscapesInv DEF GithubFails
<1>3. CASE TriageAndRoute
  BY <1>3, TriageAndRouteInv
<1>4. CASE \E s \in Specialists : Specialist(s)
  BY <1>4, SpecialistChanges, TaskChangeInv, EscapesInv
<1>5. CASE EndFanOut
  BY <1>5, EndFanOutInv
<1>6. CASE SynthesizeAndReturn
  BY <1>6, SynthesizeAndReturnInv
<1>7. CASE Terminated \/ UNCHANGED vars
  BY <1>7, StutterInv DEF Terminated
<1> QED  BY <1>1, <1>2, <1>3, <1>4, <1>5, <1>6, <1>7 DEF Next

THEOREM Invariance == Spec => []Inv
  BY InitInv, StepInv, PTL DEF Spec

-----------------------------------------------------------------------------
(* Whatever the specialists do, the state of a run has its types, and no   *)
(* specialist makes more model calls than its budget.                      *)
THEOREM WorkflowTypeCorrect == Spec => []TypeOK
<1>1. Inv => TypeOK
  BY DEF Inv
<1> QED  BY <1>1, Invariance, PTL

(* Among the results, those with known tokens, by name, are the sent       *)
(* specialists whose tokens are known; each has its entry's figure.        *)
LEMMA UsageIsByEntry ==
    ASSUME Inv, Reviewed_run
    PROVE  /\ DOMAIN UsageBySpecialist = Sent \ Unknown
           /\ \A s \in Sent \ Unknown : UsageBySpecialist[s] = entry[s].tokens
<1> DEFINE known == {i \in DOMAIN specialist_results : specialist_results[i].tokens # None}
           names == {specialist_results[i].name : i \in known}
           of(name) == CHOOSE r \in ToSet(specialist_results) : r.name = name
<1>1. /\ \A s \in Sent : phase[s] = "done" /\ entry[s] \in ResultEntry /\ TaskOK(s)
      /\ \A i \in DOMAIN specialist_results :
            \E s \in Sent : specialist_results[i] = entry[s] /\ entry[s].name = s
      /\ \A s \in Sent : \E i \in DOMAIN specialist_results : specialist_results[i] = entry[s]
  BY ResultsAreEntries
<1>2. \A s \in Sent : entry[s] # None /\ entry[s].name = s
  BY <1>1, NoneAssumption DEF TaskOK
<1>3. UsageBySpecialist = [name \in names |-> of(name).tokens]
  BY DEF UsageBySpecialist
<1>4. names = Sent \ Unknown
  <2>1. \A name \in names : name \in Sent /\ name \notin Unknown
    BY <1>1, <1>2 DEF Unknown
  <2>2. \A s \in Sent \ Unknown : s \in names
    <3> SUFFICES ASSUME NEW s \in Sent \ Unknown PROVE s \in names
      OBVIOUS
    <3>1. PICK i \in DOMAIN specialist_results : specialist_results[i] = entry[s]
      BY <1>1
    <3>2. specialist_results[i].tokens # None /\ specialist_results[i].name = s
      BY <1>2, <3>1 DEF Unknown
    <3> QED  BY <3>2
  <2> QED  BY <2>1, <2>2
<1>5. \A s \in Sent : of(s) = entry[s]
  <2> SUFFICES ASSUME NEW s \in Sent PROVE of(s) = entry[s]
    OBVIOUS
  <2>1. ToSet(specialist_results) = {specialist_results[i] : i \in DOMAIN specialist_results}
    BY DEF ToSet
  <2>2. entry[s] \in ToSet(specialist_results) /\ entry[s].name = s
    BY <1>1, <1>2, <2>1
  <2>3. \A r \in ToSet(specialist_results) : r.name = s => r = entry[s]
    BY <1>1, <1>2, <2>1
  <2> QED  BY <2>2, <2>3
<1> HIDE DEF names, of
<1> QED  BY <1>3, <1>4, <1>5

LEMMA SumOfSums ==
    ASSUME NEW f \in [Specialists -> Nat], NEW g \in [Specialists -> Nat],
           NEW h \in [Specialists -> Nat], \A s \in Specialists : h[s] = f[s] + g[s]
    PROVE  Sum(h) = Sum(f) + Sum(g)
<1>1. \A s \in Specialists : f[s] \in Nat /\ g[s] \in Nat
  OBVIOUS
<1> QED  BY <1>1 DEF Sum, Specialists

LEMMA SumIsByMember ==
    ASSUME NEW f, NEW g, \A s \in Specialists : f[s] = g[s] PROVE Sum(f) = Sum(g)
  BY DEF Sum, Specialists

(* The usage a caller is told is what was billed, less what the            *)
(* specialists with unknown tokens spent, and the figures per specialist   *)
(* add up to it.                                                           *)
THEOREM UsageIsAccounted == Spec => []UsageAccountsForBilling
<1>1. Inv => UsageAccountsForBilling
  <2> SUFFICES ASSUME Inv, Reviewed_run
               PROVE  /\ report.usage + Sum(Over(spent, Unknown)) = billed
                      /\ verdict = "submitted" =>
                            /\ DOMAIN report.usage_by_specialist = Sent \ Unknown
                            /\ Sum(Over(report.usage_by_specialist, Sent \ Unknown)) = report.usage
    BY DEF UsageAccountsForBilling, Reviewed_run
  <2> DEFINE f == Over([s \in Sent |-> OrZero(entry[s].tokens)], Sent)
             g == Over(spent, Unknown)
             h == Over(UsageBySpecialist, Sent \ Unknown)
  <2>1. /\ \A s \in Sent : phase[s] = "done" /\ entry[s] \in ResultEntry /\ TaskOK(s)
        /\ Sent \subseteq Specialists /\ Unknown \subseteq Sent
    BY ResultsAreEntries DEF Sent, Unknown
  <2>2. spent \in [Specialists -> Nat] /\ billed = Sum(spent) /\ tokens = Sum(f)
    BY DEF Inv, TypeOK, BilledIsSpent, Collected
  <2>3. \A s \in Specialists \ Sent : spent[s] = 0
    BY DEF Inv, Routed, Sent, TasksOK, TaskOK
  <2>4. \A s \in Sent : entry[s] # None /\ entry[s].tokens \in Nat \cup {None}
    BY <2>1, NoneAssumption DEF ResultEntry
  <2>5. \A s \in Sent \ Unknown : entry[s].tokens = spent[s] /\ entry[s].tokens # None
    BY <2>1, <2>4 DEF Unknown, TaskOK
  <2>6. \A s \in Unknown : entry[s].tokens = None
    BY DEF Unknown
  <2>7. /\ \A s \in Sent \ Unknown : f[s] = spent[s] /\ g[s] = 0 /\ h[s] = spent[s]
        /\ \A s \in Unknown : f[s] = 0 /\ g[s] = spent[s] /\ h[s] = 0
        /\ \A s \in Specialists \ Sent : f[s] = 0 /\ g[s] = 0 /\ h[s] = 0
    <3>1. \A s \in Specialists : f[s] = IF s \in Sent THEN OrZero(entry[s].tokens) ELSE 0
      BY <2>1 DEF Over
    <3>2. \A s \in Specialists : g[s] = IF s \in Unknown THEN spent[s] ELSE 0
      BY DEF Over
    <3>3. \A s \in Specialists : h[s] = IF s \in Sent \ Unknown THEN entry[s].tokens ELSE 0
      BY UsageIsByEntry DEF Over
    <3> HIDE DEF f, g, h
    <3> QED  BY <2>1, <2>5, <2>6, <3>1, <3>2, <3>3 DEF OrZero
  <2>8. DOMAIN f = Specialists /\ DOMAIN g = Specialists /\ DOMAIN h = Specialists
        /\ f = [s \in Specialists |-> f[s]] /\ g = [s \in Specialists |-> g[s]]
    BY DEF Over
  <2> HIDE DEF f, g, h
  <2>9. \A s \in Specialists : spent[s] = f[s] + g[s] /\ f[s] \in Nat /\ g[s] \in Nat /\ h[s] = f[s]
    BY <2>1, <2>2, <2>3, <2>7
  <2>10. f \in [Specialists -> Nat] /\ g \in [Specialists -> Nat]
    BY <2>8, <2>9
  <2>11. Sum(spent) = Sum(f) + Sum(g)
    BY <2>2, <2>9, <2>10, SumOfSums
  <2>12. Sum(h) = Sum(f)
    BY <2>9, SumIsByMember
  <2>13. report.usage = tokens /\ (verdict = "submitted" => report.usage_by_specialist = UsageBySpecialist)
    BY DEF Inv, Told
  <2>14. report.usage + Sum(g) = billed
    BY <2>2, <2>11, <2>13
  <2>15. verdict = "submitted" =>
            /\ DOMAIN report.usage_by_specialist = Sent \ Unknown
            /\ Sum(Over(report.usage_by_specialist, Sent \ Unknown)) = report.usage
    BY <2>2, <2>12, <2>13, UsageIsByEntry DEF h
  <2> QED  BY <2>14, <2>15 DEF g
<1> QED  BY <1>1, Invariance, PTL

(* A review without findings and without incomplete specialists means that *)
(* every file worth reading was in the scope of a specialist that          *)
(* submitted, a code file in that of all three.                            *)
THEOREM CleanReviewsAreEarned == Spec => []CleanReviewIsEarned
<1>1. Inv => CleanReviewIsEarned
  <2> SUFFICES ASSUME Inv, verdict = "submitted", report.incomplete_specialists = {},
                      NEW c \in pull_request, SkipReason(c) = Reviewed
               PROVE  \/ is_root_manifest_path(c) /\ ReadBy("dependencies", c)
                      \/ \A s \in ToSet(CodeSpecialists) : ReadBy(s, c)
    BY DEF CleanReviewIsEarned
  <2>1. /\ \A s \in Sent : phase[s] = "done" /\ TaskOK(s)
        /\ \A s \in Sent : \E i \in DOMAIN specialist_results : specialist_results[i] = entry[s]
    BY ResultsAreEntries DEF Reviewed_run
  <2>2. Incomplete(specialist_results) = {}
    BY DEF Inv, Told
  <2>3. \A i \in DOMAIN specialist_results : specialist_results[i].status = "ok"
    BY <2>2 DEF Incomplete
  <2>4. \A s \in Sent : outcome[s] = "submitted"
    BY <2>1, <2>3 DEF TaskOK
  <2>5. scope = Scopes(triage_diff(pull_request))
    BY DEF Inv, Routed, Reviewed_run
  <2> DEFINE change == FileChange(c)
  <2>6. /\ change \in triage_diff(pull_request)
        /\ change.skip_reason = Reviewed /\ change.is_manifest = is_root_manifest_path(c)
    BY DEF triage_diff, FileChange
  <2> HIDE DEF change
  <2>7. CASE is_root_manifest_path(c)
    <3>1. change \in scope["dependencies"]
      BY <2>5, <2>6, <2>7 DEF Scopes, Specialists
    <3>2. outcome["dependencies"] = "submitted"
      BY <2>4, <3>1 DEF Sent, Specialists
    <3> QED  BY <2>7, <3>1, <3>2 DEF ReadBy, change
  <2>8. CASE ~is_root_manifest_path(c)
    <3>1. \A s \in Specialists \ {"dependencies"} : change \in scope[s]
      BY <2>5, <2>6, <2>8 DEF Scopes
    <3>2. \A s \in Specialists \ {"dependencies"} : outcome[s] = "submitted"
      BY <2>4, <3>1 DEF Sent
    <3>3. ToSet(CodeSpecialists) \subseteq Specialists \ {"dependencies"}
      <4>1. \A i \in DOMAIN CodeSpecialists : CodeSpecialists[i] \in Specialists \ {"dependencies"}
        BY DEF CodeSpecialists, Specialists
      <4> QED  BY <4>1 DEF ToSet
    <3> QED  BY <3>1, <3>2, <3>3 DEF ReadBy, change
  <2> QED  BY <2>7, <2>8
<1> QED  BY <1>1, Invariance, PTL

-----------------------------------------------------------------------------
(* The findings of a review are the synthesis of lists of findings.        *)
LEMMA ResultsListFindings ==
    ASSUME Inv, Reviewed_run
    PROVE  /\ specialist_results \in Seq(ResultEntry) /\ ListsFindings(specialist_results)
           /\ Reported(specialist_results) \in Seq(MergedFinding)
<1>1. specialist_results = [i \in DOMAIN Sends |-> entry[Sends[i]]] /\ scope = Scopes(files)
  BY DEF Inv, Collected, Routed
<1>2. DOMAIN Sends = 1..Len(Sends) /\ Len(Sends) \in Nat
  BY <1>1, SendsAreSent
<1>3. \A i \in DOMAIN specialist_results : specialist_results[i] \in ResultEntry
  BY ResultsAreEntries
<1>4. DOMAIN specialist_results = DOMAIN Sends
  BY <1>1
<1>5. specialist_results = [i \in 1..Len(Sends) |-> specialist_results[i]]
  BY <1>1, <1>2
<1>6. specialist_results \in Seq(ResultEntry)
  BY <1>2, <1>3, <1>4, <1>5
<1>7. ListsFindings(specialist_results)
  <2> SUFFICES ASSUME NEW e \in ResultEntry PROVE e.findings \in Seq(Finding) /\ e.name \in Specialists
    BY <1>3 DEF ListsFindings
  <2>1. e.findings \in Submissions \cup {<<>>} /\ e.name \in Specialists
    BY DEF ResultEntry
  <2>2. e.findings \in Seq(Finding)
    <3>1. <<>> \in Seq(Finding)
      OBVIOUS
    <3> HIDE DEF Finding
    <3> QED  BY <2>1, <3>1, SubmissionsAssumption
  <2>3. e.name \in Specialists
    BY <2>1
  <2> QED  BY <2>2, <2>3
<1> QED  BY <1>6, <1>7, ReportedFacts

(* The findings of a review are what the reference keeps of everything     *)
(* reported, up to the cap, none twice, and the dropped ones are counted.  *)
THEOREM ReviewsMergeAsReference == Spec => []MergeMeetsReference
<1>1. Inv => MergeMeetsReference
  <2> SUFFICES ASSUME Inv, verdict = "submitted"
               PROVE  /\ ToSet(report.findings) \subseteq ReferenceMerge(Reported(specialist_results))
                      /\ IsInjective(report.findings)
                      /\ Len(report.findings) + report.dropped_findings =
                            Cardinality(ReferenceMerge(Reported(specialist_results)))
    BY DEF MergeMeetsReference
  <2>1. Reported(specialist_results) \in Seq(MergedFinding)
    BY ResultsListFindings DEF Reviewed_run
  <2>2. report.findings = Synthesis.findings /\ report.dropped_findings = Synthesis.dropped_findings
    BY DEF Inv, Told
  <2> QED  BY <2>1, <2>2, SynthesizeFacts, MaxFindingsAssumption DEF Synthesis
<1> QED  BY <1>1, Invariance, PTL

(* The most severe findings come first, and the cap drops none more severe *)
(* than one it keeps.                                                      *)
THEOREM ReviewsKeepTheMostSevere == Spec => []CapKeepsMostSevere
<1>1. Inv => CapKeepsMostSevere
  <2> SUFFICES ASSUME Inv, verdict = "submitted"
               PROVE  /\ Len(report.findings) <= MaxFindings
                      /\ \A i, j \in DOMAIN report.findings :
                            i < j => ~MoreSevere(report.findings[j], report.findings[i])
                      /\ \A dropped \in ReferenceMerge(Reported(specialist_results))
                                            \ ToSet(report.findings),
                            i \in DOMAIN report.findings : ~MoreSevere(dropped, report.findings[i])
    BY DEF CapKeepsMostSevere
  <2>1. Reported(specialist_results) \in Seq(MergedFinding)
    BY ResultsListFindings DEF Reviewed_run
  <2>2. report.findings = Synthesis.findings
    BY DEF Inv, Told
  <2> QED  BY <2>1, <2>2, SynthesizeFacts, MaxFindingsAssumption DEF Synthesis
<1> QED  BY <1>1, Invariance, PTL

(* Whatever the others do, what a specialist submitted is in the review,   *)
(* under its key, at least as severe and with its name, unless the cap     *)
(* dropped findings; a review fails only if none submitted.                *)
THEOREM SurvivorsReachTheReview == Spec => []SurvivorsAreReported
<1>1. ASSUME Inv PROVE verdict = "all_failed" => Succeeded = {}
  <2> SUFFICES ASSUME verdict = "all_failed", NEW s \in Succeeded PROVE FALSE
    OBVIOUS
  <2>1. s \in Sent /\ s \in Specialists /\ outcome[s] = "submitted"
    BY DEF Succeeded, Sent
  <2>2. /\ phase[s] = "done" /\ TaskOK(s)
        /\ \E i \in DOMAIN specialist_results : specialist_results[i] = entry[s]
    BY <1>1, <2>1, ResultsAreEntries DEF Reviewed_run
  <2>3. entry[s].status = "ok"
    BY <2>1, <2>2 DEF TaskOK
  <2>4. \A i \in DOMAIN specialist_results : specialist_results[i].status # "ok"
    BY <1>1 DEF Inv, Told, Synthesis, synthesize
  <2> QED  BY <2>2, <2>3, <2>4
<1>2. ASSUME Inv, verdict = "submitted", report.dropped_findings = 0,
             NEW s \in Succeeded, NEW f \in ToSet(entry[s].findings)
      PROVE  \E g \in ToSet(report.findings) :
                Key(g) = Key(f) /\ s \in g.sources /\ ~MoreSevere(f, g)
  <2>1. s \in Sent /\ s \in Specialists /\ outcome[s] = "submitted"
    BY DEF Succeeded, Sent
  <2>2. PICK i \in DOMAIN specialist_results : specialist_results[i] = entry[s]
    BY <1>2, <2>1, ResultsAreEntries DEF Reviewed_run
  <2>3. phase[s] = "done" /\ TaskOK(s)
    BY <1>2, <2>1, ResultsAreEntries DEF Reviewed_run
  <2>4. entry[s].status = "ok" /\ entry[s].name = s
    BY <2>1, <2>3 DEF TaskOK
  <2>5. PICK j \in DOMAIN entry[s].findings : f = entry[s].findings[j]
    BY <1>2 DEF ToSet
  <2>6. /\ specialist_results \in Seq(ResultEntry) /\ ListsFindings(specialist_results)
        /\ Reported(specialist_results) \in Seq(MergedFinding)
    BY <1>2, ResultsListFindings DEF Reviewed_run
  <2>7. PICK p \in DOMAIN Reported(specialist_results) :
              Reported(specialist_results)[p] = WithSource(f, s)
    BY <2>2, <2>4, <2>5, <2>6, ReportedFacts
  <2>8. f \in Finding /\ s \in Specialists
    <3>1. entry[s].findings \in Seq(Finding) /\ entry[s].name \in Specialists
      BY <2>2, <2>6 DEF ListsFindings
    <3> QED  BY <2>4, <2>5, <3>1
  <2>9. PICK g \in ReferenceMerge(Reported(specialist_results)) :
              /\ Key(g) = Key(WithSource(f, s)) /\ WithSource(f, s).sources \subseteq g.sources
              /\ ~MoreSevere(WithSource(f, s), g)
    BY <2>6, <2>7, ReferenceCovers
  <2>10. ToSet(report.findings) = ReferenceMerge(Reported(specialist_results))
    <3>1. report.findings = Synthesis.findings /\ Synthesis.dropped_findings = 0
      BY <1>2 DEF Inv, Told
    <3> QED  BY <2>6, <3>1, SynthesizeFacts, MaxFindingsAssumption DEF Synthesis
  <2>11. /\ Key(WithSource(f, s)) = Key(f) /\ WithSource(f, s).severity = f.severity
         /\ s \in WithSource(f, s).sources
    BY <2>8, WithSourceFacts
  <2>12. Key(g) = Key(f) /\ s \in g.sources /\ ~MoreSevere(f, g)
    BY <2>9, <2>11 DEF MoreSevere
  <2> QED  BY <2>10, <2>12
<1>3. Inv => SurvivorsAreReported
  BY <1>1, <1>2 DEF SurvivorsAreReported
<1> QED  BY <1>3, Invariance, PTL

(* A pull request with nothing to read makes no model call and is still    *)
(* reviewed.                                                               *)
THEOREM NothingToReadIsFree == Spec => []NothingToReadCostsNothing
<1>1. Inv => NothingToReadCostsNothing
  <2> SUFFICES ASSUME Inv, node = END, verdict # "error",
                      \A f \in pull_request : SkipReason(f) # Reviewed
               PROVE  verdict = "submitted" /\ billed = 0 /\ report.findings = <<>>
    BY DEF NothingToReadCostsNothing
  <2>1. Reviewed_run
    BY DEF Inv, Told, TypeOK, Reviewed_run
  <2>2. scope = Scopes(triage_diff(pull_request))
    BY <2>1 DEF Inv, Routed
  <2>3. \A change \in triage_diff(pull_request) : change.skip_reason # Reviewed
    BY DEF triage_diff, FileChange
  <2>4. \A s \in Specialists : scope[s] = {}
    BY <2>2, <2>3 DEF Scopes
  <2>5. \A s \in Specialists : spent[s] = 0
    BY <2>1, <2>4 DEF Inv, Routed, TasksOK, TaskOK
  <2>6. billed = 0
    BY <2>5 DEF Inv, BilledIsSpent, Sum, Specialists
  <2>7. specialist_results = <<>>
    <3>1. Sends = <<>>
      BY <2>4 DEF Sends, Specialists
    <3> QED  BY <2>1, <3>1 DEF Inv, Collected
  <2>8. verdict = "submitted"
    <3>1. ~Synthesis.all_failed
      BY <2>7 DEF Synthesis, synthesize
    <3> QED  BY <2>1, <3>1 DEF Inv, Told, Reviewed_run
  <2>9. Reported(specialist_results) = <<>>
    BY <2>7 DEF Reported, FlattenSeq
  <2>10. ReferenceMerge(Reported(specialist_results)) = {}
    BY <2>9 DEF ReferenceMerge
  <2>11. report.findings \in Seq(MergedFinding) /\ ToSet(report.findings) = {}
    <3>1. Reported(specialist_results) \in Seq(MergedFinding)
      BY <2>1, ResultsListFindings
    <3>2. report.findings = Synthesis.findings
      BY <2>8 DEF Inv, Told
    <3> QED  BY <2>10, <3>1, <3>2, SynthesizeFacts, MaxFindingsAssumption DEF Synthesis
  <2>12. report.findings = <<>>
    <3> DEFINE fs == report.findings
    <3>1. DOMAIN fs = {} /\ fs \in Seq(MergedFinding)
      BY <2>11 DEF ToSet
    <3> HIDE DEF fs
    <3>2. Len(fs) = 0
      BY <3>1
    <3>3. fs = <<>>
      BY <3>1, <3>2
    <3> QED  BY <3>3 DEF fs
  <2> QED  BY <2>6, <2>8, <2>12
<1> QED  BY <1>1, Invariance, PTL

-----------------------------------------------------------------------------
(* The contract of every engine, read off a specialist's task.             *)
Seen(s) == <<iteration[s], spent[s], AgentVerdict(s), AgentUsage(s)>>

LEMMA UnseenStep ==
    ASSUME NEW s \in Specialists, Seen(s)' = Seen(s) PROVE AgentStep(s)
  BY DEF AgentStep, Agent!vars, Seen

(* A running task has told nobody anything.                                *)
LEMMA RunningIsSilent ==
    ASSUME Inv, NEW s \in Specialists, phase[s] # "done"
    PROVE  entry[s] = None /\ outcome[s] = None /\ AgentVerdict(s) = None /\ AgentUsage(s) = None
  BY NoneAssumption DEF Inv, TasksOK, TaskOK, AgentVerdict, AgentUsage, Outcomes

LEMMA InvestigateStep ==
    ASSUME Inv, NEW s \in Specialists, AsksForTools(s) PROVE AgentStep(s)
<1>1. phase[s] = "model" /\ ModelAnswers(s) /\ outcome' = outcome /\ entry' = entry
  BY DEF AsksForTools, ModelAnswers, Running
<1>2. AgentVerdict(s) = None /\ AgentVerdict(s)' = None /\ AgentUsage(s)' = AgentUsage(s)
  BY <1>1, RunningIsSilent DEF AgentVerdict, AgentUsage
<1>3. Agent(s)!Answered
  BY <1>1, <1>2, AnswerCounts DEF Agent!Answered
<1>4. Agent(s)!Investigate
  BY <1>2, <1>3 DEF Agent!Investigate
<1> QED  BY <1>4 DEF AgentStep, Agent!Next

LEMMA GiveUpStep ==
    ASSUME Inv, NEW s \in Specialists, StopsWithoutSubmitting(s) PROVE AgentStep(s)
<1>1. phase[s] = "model" /\ ModelAnswers(s) /\ outcome' = [outcome EXCEPT ![s] = "no_submit"]
      /\ Finish(s, "failed", <<>>, spent'[s])
  BY DEF StopsWithoutSubmitting, ModelAnswers, Running
<1>2. AgentVerdict(s) = None
  BY <1>1, RunningIsSilent
<1>3. spent'[s] \in Nat \cup {None} /\ <<>> \in Submissions \cup {<<>>}
  BY <1>1, AnswerCounts
<1>4. entry'[s] # None /\ entry'[s].tokens = spent'[s]
  BY <1>1, <1>3, FinishEntry
<1>5. outcome'[s] = "no_submit"
  BY <1>1 DEF Inv, TypeOK
<1>6. AgentVerdict(s)' = "no_submit" /\ AgentUsage(s)' = spent'[s]
  BY <1>4, <1>5 DEF AgentVerdict, AgentUsage
<1>7. Agent(s)!Answered
  BY <1>1, <1>2, AnswerCounts DEF Agent!Answered
<1>8. Agent(s)!GiveUp
  BY <1>6, <1>7 DEF Agent!GiveUp
<1> QED  BY <1>8 DEF AgentStep, Agent!Next

(* What a finished task leaves in its entry.                               *)
LEMMA FinishRecords ==
    ASSUME Inv, NEW s \in Specialists, NEW status \in {"ok", "failed", "timed_out"},
           NEW findings \in Submissions \cup {<<>>}, NEW known \in Nat \cup {None},
           Finish(s, status, findings, known)
    PROVE  entry'[s] # None /\ entry'[s].tokens = known
<1>1. PICK e : e = [name |-> s, status |-> status, findings |-> findings, tokens |-> known]
  OBVIOUS
<1>2. e.tokens = known /\ e \in ResultEntry
  BY <1>1 DEF ResultEntry
<1>3. entry \in [Specialists -> ResultEntry \cup {None}]
  BY DEF Inv, TypeOK
<1>4. entry' = [entry EXCEPT ![s] = e]
  BY <1>1 DEF Finish
<1>5. entry'[s] = e
  BY <1>3, <1>4
<1> QED  BY <1>2, <1>5, NoneAssumption

(* How the steps that finish a task without a model answer are seen.       *)
LEMMA EndIsSeen ==
    ASSUME Inv, NEW s \in Specialists, phase[s] \in Running_phases,
           NEW how \in Outcomes, outcome' = [outcome EXCEPT ![s] = how],
           NEW status \in {"ok", "failed", "timed_out"},
           NEW findings \in Submissions \cup {<<>>}, NEW known \in Nat \cup {None},
           Finish(s, status, findings, known), UNCHANGED <<iteration, spent>>
    PROVE  /\ AgentVerdict(s) = None /\ AgentUsage(s) = None
           /\ AgentVerdict(s)' = IF how = "timed_out" THEN None ELSE how
           /\ AgentUsage(s)' = known
           /\ iteration'[s] = iteration[s] /\ spent'[s] = spent[s]
           /\ iteration[s] \in Nat /\ iteration[s] <= MaxIterations[s]
           /\ MaxIterations[s] \in Nat
<1>1. AgentVerdict(s) = None /\ AgentUsage(s) = None
  BY RunningIsSilent DEF Running_phases
<1>2. outcome'[s] = how
  BY DEF Inv, TypeOK
<1>3. entry'[s] # None /\ entry'[s].tokens = known
  BY FinishRecords, Zenon
<1>4. /\ iteration[s] \in Nat /\ iteration[s] <= MaxIterations[s] /\ MaxIterations[s] \in Nat
      /\ iteration'[s] = iteration[s] /\ spent'[s] = spent[s]
  BY MaxIterationsAssumption DEF Inv, TypeOK
<1>5. AgentVerdict(s)' = IF how = "timed_out" THEN None ELSE how
  BY <1>2 DEF AgentVerdict
<1>6. AgentUsage(s)' = known
  BY <1>3 DEF AgentUsage
<1> QED  BY <1>1, <1>4, <1>5, <1>6

LEMMA ConcludeStep ==
    ASSUME Inv, NEW s \in Specialists, Submits(s) \/ Exceeds(s) PROVE AgentStep(s)
<1>1. phase[s] = "tools" /\ UNCHANGED <<iteration, spent>> /\ iteration[s] > 0
      /\ spent[s] \in Nat \cup {None}
  BY DEF Submits, Exceeds, Running, Inv, TypeOK, TasksOK, TaskOK
<1>2. "submitted" \in Outcomes /\ "exceeded" \in Outcomes /\ <<>> \in Submissions \cup {<<>>}
  BY DEF Outcomes
<1>3. CASE Submits(s)
  <2>1. PICK findings \in Submissions : Finish(s, "ok", findings, spent[s])
    BY <1>3 DEF Submits
  <2>2. outcome' = [outcome EXCEPT ![s] = "submitted"]
    BY <1>3 DEF Submits
  <2>3. AgentVerdict(s) = None /\ AgentVerdict(s)' = "submitted" /\ AgentUsage(s)' = spent[s]
    BY <1>1, <1>2, <2>1, <2>2, EndIsSeen DEF Running_phases
  <2>4. Agent(s)!Conclude
    BY <1>1, <2>3 DEF Agent!Conclude
  <2> QED  BY <2>4 DEF AgentStep, Agent!Next
<1>4. CASE Exceeds(s)
  <2>1. Finish(s, "failed", <<>>, spent[s]) /\ outcome' = [outcome EXCEPT ![s] = "exceeded"]
        /\ iteration[s] >= MaxIterations[s]
    BY <1>4 DEF Exceeds
  <2>2. AgentVerdict(s) = None /\ AgentVerdict(s)' = "exceeded" /\ AgentUsage(s)' = spent[s]
        /\ iteration[s] \in Nat /\ iteration[s] <= MaxIterations[s] /\ MaxIterations[s] \in Nat
    BY <1>1, <1>2, <2>1, EndIsSeen DEF Running_phases
  <2>3. iteration[s] = MaxIterations[s]
    BY <2>1, <2>2
  <2>4. Agent(s)!Conclude
    BY <1>1, <2>2, <2>3 DEF Agent!Conclude
  <2> QED  BY <2>4 DEF AgentStep, Agent!Next
<1> QED  BY <1>3, <1>4

LEMMA OutageStep ==
    ASSUME Inv, NEW s \in Specialists, ApiFails(s) PROVE AgentStep(s)
<1>1. /\ phase[s] = "model" /\ UNCHANGED <<iteration, spent>>
      /\ Finish(s, "failed", <<>>, None) /\ outcome' = [outcome EXCEPT ![s] = "api_error"]
  BY DEF ApiFails, Running
<1>2. "api_error" \in Outcomes /\ <<>> \in Submissions \cup {<<>>} /\ None \in Nat \cup {None}
  BY DEF Outcomes
<1>3. /\ AgentVerdict(s) = None /\ AgentUsage(s) = None
      /\ AgentVerdict(s)' = "api_error" /\ AgentUsage(s)' = None
  BY <1>1, <1>2, EndIsSeen DEF Running_phases
<1>4. iteration[s] < MaxIterations[s]
  BY <1>1 DEF Inv, TasksOK, TaskOK
<1>5. Agent(s)!Outage
  BY <1>1, <1>3, <1>4 DEF Agent!Outage
<1> QED  BY <1>5 DEF AgentStep, Agent!Next

LEMMA TimesOutStep ==
    ASSUME Inv, NEW s \in Specialists, TimesOut(s) PROVE AgentStep(s)
<1>1. /\ phase[s] = "cancelling" /\ UNCHANGED <<iteration, spent>>
      /\ Finish(s, "timed_out", <<>>, None) /\ outcome' = [outcome EXCEPT ![s] = "timed_out"]
  BY DEF TimesOut, Running
<1>2. "timed_out" \in Outcomes /\ <<>> \in Submissions \cup {<<>>} /\ None \in Nat \cup {None}
  BY DEF Outcomes
<1>3. Seen(s)' = Seen(s)
  BY <1>1, <1>2, EndIsSeen DEF Running_phases, Seen
<1> QED  BY <1>3, UnseenStep

(* A step that leaves every task alone, or only moves s to another wait.   *)
LEMMA QuietStep ==
    ASSUME NEW s \in Specialists, UNCHANGED <<iteration, spent, outcome, entry>> PROVE AgentStep(s)
<1>1. Seen(s)' = Seen(s)
  BY DEF Seen, AgentVerdict, AgentUsage
<1> QED  BY <1>1, UnseenStep

LEMMA SpecialistStep ==
    ASSUME Inv, NEW s \in Specialists, Specialist(s) PROVE AgentStep(s)
<1>1. CASE KeepsGoing(s) \/ TimeExpires(s) \/ CancellationLost(s)
  BY <1>1, QuietStep DEF KeepsGoing, TimeExpires, CancellationLost
<1>2. CASE BackstopFires(s) \/ Crashes(s)
  BY <1>2, QuietStep DEF BackstopFires, Crashes, Escapes, tasks
<1> QED  BY <1>1, <1>2, InvestigateStep, GiveUpStep, ConcludeStep, OutageStep, TimesOutStep
         DEF Specialist

(* The siblings of the specialist that moves do not.                       *)
LEMMA SiblingsStep ==
    ASSUME Inv, NEW s \in Specialists, Specialist(s), NEW r \in Specialists, r # s
    PROVE  AgentStep(r)
<1>1. CASE TaskChange(s)
  <2>1. Seen(r)' = Seen(r)
    BY <1>1 DEF TaskChange, Seen, AgentVerdict, AgentUsage
  <2> QED  BY <2>1, UnseenStep
<1>2. CASE Escapes
  BY <1>2, QuietStep DEF Escapes, tasks
<1> QED  BY <1>1, <1>2, SpecialistChanges

(* Each specialist keeps the contract of every engine within its own       *)
(* budget, whatever its siblings do.                                       *)
THEOREM SpecialistsKeepTheContract == Spec => SpecialistsKeepContract
<1>1. Init => \A s \in Specialists : Agent(s)!Init
  BY DEF Init, Agent!Init, AgentVerdict, AgentUsage
<1>2. Inv /\ [Next]_vars => [\A s \in Specialists : AgentStep(s)]_vars
  <2> SUFFICES ASSUME Inv, Next, NEW r \in Specialists PROVE AgentStep(r)
    OBVIOUS
  <2>1. CASE \E s \in Specialists : Specialist(s)
    BY <2>1, SpecialistStep, SiblingsStep
  <2>2. CASE UNCHANGED <<iteration, spent, outcome, entry>>
    BY <2>2, QuietStep
  <2>3. Next => (\E s \in Specialists : Specialist(s)) \/ UNCHANGED <<iteration, spent, outcome, entry>>
    BY DEF Next, FetchContext, GithubFails, TriageAndRoute, EndFanOut, SynthesizeAndReturn, Terminated, Escapes,
           tasks, vars
  <2> QED  BY <2>1, <2>2, <2>3
<1> QED  BY <1>1, <1>2, Invariance, PTL DEF Spec, SpecialistsKeepContract
-----------------------------------------------------------------------------
(* How far a run is from its end: the nodes it has still to run, and, for  *)
(* a specialist, the awaits it may still reach and its timeout.            *)
NodesLeft ==
    CASE node = "fetch_context"  -> 4
      [] node = "triage"         -> 3
      [] node = "run_specialist" -> 2
      [] node = "synthesize"     -> 1
      [] OTHER                   -> 0

TimersLeft(s) == IF expired[s] THEN 0 ELSE 1

StagesLeft(s) ==
    CASE phase[s] = "model"      -> 2 * (MaxIterations[s] - iteration[s]) + 2 + TimersLeft(s)
      [] phase[s] = "tools"      -> 2 * (MaxIterations[s] - iteration[s]) + 3 + TimersLeft(s)
      [] phase[s] = "cancelling" -> 1
      [] OTHER                   -> 0

(* A step leads to a later node, or one specialist advances.               *)
Advances(s) ==
    /\ StagesLeft(s)' < StagesLeft(s)
    /\ \A r \in Specialists \ {s} : StagesLeft(r)' = StagesLeft(r)

Closer ==
    \/ NodesLeft' < NodesLeft
    \/ NodesLeft' = NodesLeft /\ \E s \in Specialists : Advances(s)

(* No measure is ever negative, so they cannot fall for ever.              *)
LEMMA MeasuresAreNat == Inv => NodesLeft \in Nat /\ \A s \in Specialists : StagesLeft(s) \in Nat
<1> SUFFICES ASSUME Inv PROVE NodesLeft \in Nat /\ \A s \in Specialists : StagesLeft(s) \in Nat
  OBVIOUS
<1>1. NodesLeft \in Nat
  BY DEF NodesLeft
<1>2. ASSUME NEW s \in Specialists PROVE StagesLeft(s) \in Nat
  <2>1. iteration[s] \in Nat /\ MaxIterations[s] \in Nat /\ iteration[s] <= MaxIterations[s]
    BY MaxIterationsAssumption DEF Inv, TypeOK
  <2> QED  BY <2>1 DEF StagesLeft, TimersLeft
<1> QED  BY <1>1, <1>2

(* The run is over, or at a later node.                                    *)
LEMMA EscapesIsCloser == ASSUME node \in {"fetch_context", "run_specialist"}, Escapes PROVE Closer
  BY DEF Escapes, NodesLeft, Closer, END

(* Every way a specialist goes on leaves it less to do, and its siblings   *)
(* as much.                                                                *)
LEMMA TaskChangeIsCloser ==
    ASSUME Inv, NEW s \in Specialists, Specialist(s), TaskChange(s), ~Escapes
    PROVE  Closer
<1>1. /\ iteration[s] \in Nat /\ MaxIterations[s] \in Nat /\ iteration[s] <= MaxIterations[s]
      /\ iteration'[s] \in Nat
      /\ phase \in [Specialists -> {"idle", "model", "tools", "cancelling", "done"}]
      /\ iteration \in [Specialists -> Nat] /\ expired \in [Specialists -> BOOLEAN]
  BY MaxIterationsAssumption DEF Inv, TypeOK, TaskChange
<1>2. NodesLeft' = NodesLeft
  BY DEF TaskChange, NodesLeft
<1>3. \A r \in Specialists \ {s} : StagesLeft(r)' = StagesLeft(r)
  BY DEF TaskChange, StagesLeft, TimersLeft
<1>4. StagesLeft(s)' < StagesLeft(s)
  <2>1. CASE AsksForTools(s)
    <3>1. phase[s] = "model" /\ phase'[s] = "tools" /\ iteration'[s] = iteration[s] + 1
          /\ expired' = expired
      BY <1>1, <2>1, AnswerCounts DEF AsksForTools
    <3> QED  BY <1>1, <3>1 DEF StagesLeft, TimersLeft
  <2>2. CASE KeepsGoing(s)
    <3>1. phase[s] = "tools" /\ phase'[s] = "model" /\ iteration'[s] = iteration[s]
          /\ expired' = expired
      BY <1>1, <2>2 DEF KeepsGoing, Running
    <3> QED  BY <1>1, <3>1 DEF StagesLeft, TimersLeft
  <2>3. CASE TimeExpires(s)
    <3>1. phase[s] \in {"model", "tools"} /\ phase'[s] = "cancelling"
      BY <1>1, <2>3 DEF TimeExpires, Running
    <3> QED  BY <1>1, <3>1 DEF StagesLeft, TimersLeft
  <2>4. CASE StopsWithoutSubmitting(s) \/ Submits(s) \/ Exceeds(s) \/ ApiFails(s) \/ TimesOut(s)
    <3>1. phase[s] \in {"model", "tools", "cancelling"}
      BY <2>4 DEF StopsWithoutSubmitting, ModelAnswers, Submits, Exceeds, ApiFails, TimesOut, Running
    <3>2. phase'[s] = "done"
      BY <1>1, <2>4 DEF StopsWithoutSubmitting, Submits, Exceeds, ApiFails, TimesOut, Finish
    <3> QED  BY <1>1, <3>1, <3>2 DEF StagesLeft, TimersLeft
  <2>5. CASE CancellationLost(s)
    <3>1. phase[s] = "tools" /\ phase' = phase /\ iteration' = iteration
          /\ ~expired[s] /\ expired'[s]
      BY <1>1, <2>5 DEF CancellationLost, Running
    <3> QED  BY <1>1, <3>1 DEF StagesLeft, TimersLeft
  <2>6. ~BackstopFires(s) /\ ~Crashes(s)
    BY DEF BackstopFires, Crashes
  <2> QED  BY <2>1, <2>2, <2>3, <2>4, <2>5, <2>6 DEF Specialist
<1> QED  BY <1>2, <1>3, <1>4 DEF Advances, Closer

LEMMA StepIsCloser == Inv /\ [Next]_vars => [Closer]_vars
<1> SUFFICES ASSUME Inv, Next, ~UNCHANGED vars PROVE Closer
  OBVIOUS
<1>1. CASE FetchContext \/ TriageAndRoute \/ EndFanOut \/ SynthesizeAndReturn
  BY <1>1 DEF FetchContext, TriageAndRoute, EndFanOut, SynthesizeAndReturn, NodesLeft, Closer, END
<1>2. CASE GithubFails
  BY <1>2, EscapesIsCloser DEF GithubFails
<1>3. CASE \E s \in Specialists : Specialist(s)
  <2>1. PICK s \in Specialists : Specialist(s)
    BY <1>3
  <2>2. node = "run_specialist"
    BY <2>1, SpecialistChanges DEF Specialist, Running, AsksForTools, StopsWithoutSubmitting, ModelAnswers,
       KeepsGoing, Submits, Exceeds, ApiFails, TimeExpires, CancellationLost, TimesOut, BackstopFires, Crashes
  <2> QED  BY <2>1, <2>2, SpecialistChanges, TaskChangeIsCloser, EscapesIsCloser
<1> QED  BY <1>1, <1>2, <1>3 DEF Next, Terminated

(* A run cannot go on for ever, whatever the specialists do: every step    *)
(* leads to a later node or leaves one specialist less to do and none more,*)
(* by measures that cannot fall for ever.  What ReviewEnds adds is that    *)
(* the timeouts make the run take its steps.                               *)
THEOREM RunsAlwaysProgress ==
    Spec => /\ [](NodesLeft \in Nat /\ \A s \in Specialists : StagesLeft(s) \in Nat)
            /\ [][Closer]_vars
<1> QED  BY MeasuresAreNat, StepIsCloser, Invariance, PTL DEF Spec
=============================================================================
