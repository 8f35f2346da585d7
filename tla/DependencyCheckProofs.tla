----------------------- MODULE DependencyCheckProofs ------------------------
(***************************************************************************)
(* The dependency check tool, for every root listing and every answer of   *)
(* the registries. The invariant says where the tool is: which manifests   *)
(* and which declarations of the current one are still to be checked, as   *)
(* the places they have in the root listing, and that the plain pins at    *)
(* the places before have their findings, in order. The version comparison *)
(* is a strict order on dotted-integer versions of any length, and agrees  *)
(* with reading them as the digits of a number.                            *)
(***************************************************************************)
EXTENDS DependencyCheck, TLAPS, WellFoundedInduction

(* Induction over the natural numbers, for a set instead of a predicate.   *)
LEMMA NatInduct ==
    ASSUME NEW S, 0 \in S, \A n \in Nat : n \in S => n + 1 \in S
    PROVE  Nat \subseteq S
<1> SUFFICES ASSUME Nat \ S # {} PROVE FALSE
  OBVIOUS
<1> DEFINE R == {ss \in Nat \X Nat : ss[1] < ss[2]}
<1>1. IsWellFoundedOn(R, Nat)
  BY NatLessThanWellFounded DEF OpToRel
<1> HIDE DEF R
<1>2. PICK x \in Nat \ S : \A y \in Nat \ S : ~(<<y, x>> \in R)
  <2>1. Nat \ S \subseteq Nat
    OBVIOUS
  <2> QED  BY <1>1, <2>1, WFMin
<1>3. x - 1 \in Nat /\ x = (x - 1) + 1 /\ x - 1 < x
  OBVIOUS
<1>4. x - 1 \notin S
  BY <1>3
<1>5. <<x - 1, x>> \in R
  BY <1>3 DEF R
<1> QED  BY <1>2, <1>3, <1>4, <1>5

LEMMA MinIsLeast ==
    ASSUME NEW S, S \subseteq Nat, S # {}
    PROVE  Min(S) \in S /\ \A y \in S : Min(S) <= y
<1> DEFINE R == {ss \in Nat \X Nat : ss[1] < ss[2]}
<1>1. IsWellFoundedOn(R, Nat)
  BY NatLessThanWellFounded DEF OpToRel
<1> HIDE DEF R
<1>2. PICK x \in S : \A y \in S : ~(<<y, x>> \in R)
  BY <1>1, WFMin
<1>3. ASSUME NEW y \in S PROVE x <= y
  <2>1. x \in Nat /\ y \in Nat /\ <<y, x>> \notin R
    BY <1>2
  <2>2. ~(y < x)
    BY <2>1 DEF R
  <2> QED  BY <2>1, <2>2
<1> QED  BY <1>3 DEF Min

LEMMA AppendFacts ==
    ASSUME NEW T, NEW s \in Seq(T), NEW x \in T
    PROVE  /\ Append(s, x) \in Seq(T) /\ Len(s) \in Nat
           /\ DOMAIN s = 1..Len(s) /\ DOMAIN Append(s, x) = 1..(Len(s) + 1)
           /\ Append(s, x)[Len(s) + 1] = x
           /\ \A i \in DOMAIN s : i \in DOMAIN Append(s, x) /\ Append(s, x)[i] = s[i]
           /\ \A i \in DOMAIN Append(s, x) : i \in DOMAIN s \/ i = Len(s) + 1
  OBVIOUS

-----------------------------------------------------------------------------
(* seq lists the values of f at the places of K, in order.                 *)
Lists(seq, K, f) ==
    \E pos \in [1..Len(seq) -> K] :
        /\ \A x \in 1..Len(seq) : seq[x] = f[pos[x]]
        /\ \A x, y \in 1..Len(seq) : x < y => pos[x] < pos[y]
        /\ \A p \in K : \E x \in 1..Len(seq) : pos[x] = p

LEMMA ListsEmpty ==
    ASSUME NEW K, NEW f, Lists(<<>>, K, f)
    PROVE  K = {}
  BY DEF Lists

(* The first of the list is at the least of the places.                    *)
LEMMA ListsStep ==
    ASSUME NEW T, NEW seq \in Seq(T), NEW K, K \subseteq Nat, NEW f, Lists(seq, K, f), seq # <<>>
    PROVE  \E p \in K : /\ Head(seq) = f[p]
                        /\ \A q \in K : p <= q
                        /\ Lists(Tail(seq), {q \in K : q > p}, f)
<1>1. PICK pos \in [1..Len(seq) -> K] :
         /\ \A x \in 1..Len(seq) : seq[x] = f[pos[x]]
         /\ \A x, y \in 1..Len(seq) : x < y => pos[x] < pos[y]
         /\ \A p \in K : \E x \in 1..Len(seq) : pos[x] = p
  BY DEF Lists
<1>2. /\ Len(seq) \in Nat /\ Len(seq) >= 1 /\ Len(Tail(seq)) = Len(seq) - 1
      /\ Head(seq) = seq[1] /\ \A x \in 1..(Len(seq) - 1) : Tail(seq)[x] = seq[x + 1]
  OBVIOUS
<1> DEFINE p == pos[1]
           rest == [x \in 1..(Len(seq) - 1) |-> pos[x + 1]]
<1>3. 1 \in 1..Len(seq) /\ p \in K /\ p \in Nat
  <2>1. 1 \in 1..Len(seq)
    BY <1>2
  <2>2. pos \in [1..Len(seq) -> K]
    BY <1>1
  <2> QED  BY <2>1, <2>2
<1>4. Head(seq) = f[p]
  BY <1>1, <1>2, <1>3
<1>5. \A x \in 1..(Len(seq) - 1) : /\ x + 1 \in 1..Len(seq) /\ 1 < x + 1
                                   /\ pos[x + 1] \in K /\ p < pos[x + 1]
  BY <1>1, <1>2, <1>3
<1>6. \A q \in K : q = p \/ \E x \in 1..(Len(seq) - 1) : pos[x + 1] = q
  <2> TAKE q \in K
  <2>1. PICK x \in 1..Len(seq) : pos[x] = q
    BY <1>1
  <2>2. x = 1 \/ (x - 1 \in 1..(Len(seq) - 1) /\ (x - 1) + 1 = x)
    BY <1>2
  <2> QED  BY <2>1, <2>2
<1>7. \A q \in K : p <= q
  BY <1>3, <1>5, <1>6
<1>8. rest \in [1..Len(Tail(seq)) -> {q \in K : q > p}]
  BY <1>2, <1>5
<1>9. /\ \A x \in 1..Len(Tail(seq)) : Tail(seq)[x] = f[rest[x]]
      /\ \A x, y \in 1..Len(Tail(seq)) : x < y => rest[x] < rest[y]
      /\ \A q \in {r \in K : r > p} : \E x \in 1..Len(Tail(seq)) : rest[x] = q
  <2>1. \A x \in 1..Len(Tail(seq)) : Tail(seq)[x] = f[rest[x]]
    BY <1>1, <1>2, <1>5
  <2>2. \A x, y \in 1..Len(Tail(seq)) : x < y => rest[x] < rest[y]
    <3> TAKE x, y \in 1..Len(Tail(seq))
    <3>1. x < y => x + 1 < y + 1
      BY <1>2
    <3> QED  BY <1>1, <1>2, <1>5, <3>1
  <2>3. \A q \in {r \in K : r > p} : \E x \in 1..Len(Tail(seq)) : rest[x] = q
    BY <1>2, <1>3, <1>6
  <2> QED  BY <2>1, <2>2, <2>3
<1> HIDE DEF rest
<1>10. Lists(Tail(seq), {q \in K : q > p}, f)
  BY <1>8, <1>9 DEF Lists
<1> QED  BY <1>3, <1>4, <1>7, <1>10

(* A list is mapped place by place.                                        *)
LEMMA ListsMap ==
    ASSUME NEW K, NEW f, NEW g, NEW seq, NEW image, Lists(seq, K, f), Len(image) = Len(seq),
           \A x \in 1..Len(seq), p \in K : seq[x] = f[p] => image[x] = g[p]
    PROVE  Lists(image, K, g)
  BY DEF Lists

LEMMA ListsAppend ==
    ASSUME NEW T, NEW seq \in Seq(T), NEW K, K \subseteq Nat, NEW f, Lists(seq, K, f),
           NEW p \in Nat, f[p] \in T, \A q \in K : q < p
    PROVE  Lists(Append(seq, f[p]), K \cup {p}, f)
<1>1. PICK pos \in [1..Len(seq) -> K] :
         /\ \A x \in 1..Len(seq) : seq[x] = f[pos[x]]
         /\ \A x, y \in 1..Len(seq) : x < y => pos[x] < pos[y]
         /\ \A q \in K : \E x \in 1..Len(seq) : pos[x] = q
  BY DEF Lists
<1> DEFINE n == Len(seq)
           s == Append(seq, f[p])
           longer == [x \in 1..(n + 1) |-> IF x = n + 1 THEN p ELSE pos[x]]
<1>2. /\ n \in Nat /\ Len(s) = n + 1 /\ s[n + 1] = f[p]
      /\ \A x \in 1..n : s[x] = seq[x]
  OBVIOUS
<1> HIDE DEF s, n
<1>3. \A x \in 1..(n + 1) : x = n + 1 \/ x \in 1..n
  BY <1>2
<1>4. \A x \in 1..n : pos[x] \in K /\ pos[x] \in Nat /\ pos[x] < p
  BY <1>1 DEF n
<1>5. longer \in [1..Len(s) -> K \cup {p}]
  BY <1>2, <1>3, <1>4
<1>6. \A x \in 1..Len(s) : s[x] = f[longer[x]]
  BY <1>1, <1>2, <1>3 DEF n
<1>7. \A x, y \in 1..Len(s) : x < y => longer[x] < longer[y]
  <2> SUFFICES ASSUME NEW x \in 1..Len(s), NEW y \in 1..Len(s), x < y
               PROVE  longer[x] < longer[y]
    OBVIOUS
  <2>1. x \in 1..n /\ longer[x] = pos[x]
    BY <1>2
  <2>2. CASE y = n + 1
    BY <1>2, <1>4, <2>1, <2>2
  <2>3. CASE y \in 1..n
    BY <1>1, <1>2, <2>1, <2>3 DEF n
  <2> QED  BY <1>2, <1>3, <2>2, <2>3
<1>8. \A q \in K \cup {p} : \E x \in 1..Len(s) : longer[x] = q
  <2> TAKE q \in K \cup {p}
  <2>1. CASE q = p
    BY <1>2, <2>1
  <2>2. CASE q \in K
    <3>1. PICK x \in 1..n : pos[x] = q
      BY <1>1, <2>2 DEF n
    <3>2. x \in 1..(n + 1) /\ x # n + 1
      BY <1>2
    <3> QED  BY <1>2, <3>1, <3>2
  <2> QED  BY <2>1, <2>2
<1> HIDE DEF longer
<1>9. Lists(s, K \cup {p}, f)
  BY <1>5, <1>6, <1>7, <1>8 DEF Lists
<1> QED  BY <1>9 DEF s

(* Among lists the places of the elements that are in the set.             *)
Filters(s, S, f, n) ==
    f = [k \in 0..n |->
           IF k = 0 THEN <<>> ELSE IF s[k] \in S THEN Append(f[k - 1], s[k]) ELSE f[k - 1]]

LEMMA AmongExists ==
    ASSUME NEW s, NEW S
    PROVE  \A n \in Nat : \E f : Filters(s, S, f, n)
<1> DEFINE Step(last, k) == IF s[k] \in S THEN Append(last, s[k]) ELSE last
           I == {n \in Nat : \E f : Filters(s, S, f, n)}
<1>3. \A f, n : Filters(s, S, f, n) <=>
                   f = [k \in 0..n |-> IF k = 0 THEN <<>> ELSE Step(f[k - 1], k)]
  BY DEF Filters
<1>1. 0 \in I
  <2>1. Filters(s, S, [k \in 0..0 |-> <<>>], 0)
    BY DEF Filters
  <2> QED  BY <2>1
<1>2. ASSUME NEW n \in Nat, n \in I PROVE n + 1 \in I
  <2> HIDE DEF Step
  <2>1. PICK f : Filters(s, S, f, n)
    BY <1>2
  <2> DEFINE g == [k \in 0..(n + 1) |-> IF k = n + 1 THEN Step(f[n], n + 1) ELSE f[k]]
  <2>2. ASSUME NEW k \in 0..(n + 1)
        PROVE  g[k] = IF k = 0 THEN <<>> ELSE Step(g[k - 1], k)
    <3>1. CASE k = n + 1
      <4>1. k - 1 = n /\ g[n] = f[n] /\ k # 0
        BY <3>1
      <4> QED  BY <3>1, <4>1
    <3>2. CASE k # n + 1
      <4>1. k \in 0..n /\ (k # 0 => k - 1 \in 0..n /\ k - 1 # n + 1 /\ k - 1 \in 0..(n + 1))
        BY <3>2
      <4>2. g[k] = f[k] /\ f[k] = IF k = 0 THEN <<>> ELSE Step(f[k - 1], k)
        BY <1>3, <2>1, <3>2, <4>1
      <4>3. k # 0 => g[k - 1] = f[k - 1]
        BY <4>1
      <4> QED  BY <4>2, <4>3
    <3> QED  BY <3>1, <3>2
  <2>3. Filters(s, S, g, n + 1)
    BY <1>3, <2>2
  <2> HIDE DEF g
  <2> QED  BY <2>3
<1> HIDE DEF I
<1>4. Nat \subseteq I
  BY <1>1, <1>2, NatInduct
<1> QED  BY <1>4 DEF I

LEMMA AmongLists ==
    ASSUME NEW T, NEW s \in Seq(T), NEW S
    PROVE  Among(s, S) \in Seq(T) /\ Lists(Among(s, S), {p \in DOMAIN s : s[p] \in S}, s)
<1> DEFINE N == Len(s)
           am == CHOOSE f : Filters(s, S, f, N)
           K(n) == {p \in 1..n : s[p] \in S}
           Good(n) == am[n] \in Seq(T) /\ Lists(am[n], K(n), s)
           I == {n \in Nat : n <= N => Good(n)}
<1>1. N \in Nat /\ Among(s, S) = am[N] /\ DOMAIN s = 1..N /\ \A n \in 1..N : s[n] \in T
  BY DEF Among, Filters
<1>2. am = [n \in 0..N |->
         IF n = 0 THEN <<>> ELSE IF s[n] \in S THEN Append(am[n - 1], s[n]) ELSE am[n - 1]]
  <2>1. \E f : Filters(s, S, f, N)
    BY <1>1, AmongExists
  <2>2. Filters(s, S, am, N)
    BY <2>1
  <2> HIDE DEF am, N
  <2> QED  BY <2>2 DEF Filters
<1> HIDE DEF am, N
<1>3. 0 \in I
  <2>1. am[0] = <<>>
    BY <1>1, <1>2
  <2>2. K(0) = {}
    OBVIOUS
  <2>3. Lists(<<>>, {}, s)
    <3>1. [x \in 1..0 |-> 0] \in [1..Len(<<>>) -> {}]
      OBVIOUS
    <3> QED  BY <3>1 DEF Lists
  <2> HIDE DEF K
  <2>4. Good(0)
    <3>1. <<>> \in Seq(T)
      OBVIOUS
    <3> QED  BY <2>1, <2>2, <2>3, <3>1
  <2> HIDE DEF Good
  <2> QED  BY <2>4
<1>4. ASSUME NEW n \in Nat, n \in I PROVE n + 1 \in I
  <2> SUFFICES ASSUME n + 1 <= N PROVE Good(n + 1)
    OBVIOUS
  <2>1. am[n] \in Seq(T) /\ Lists(am[n], K(n), s)
    BY <1>1, <1>4
  <2>2. am[n + 1] = IF s[n + 1] \in S THEN Append(am[n], s[n + 1]) ELSE am[n]
    <3>1. n + 1 \in 0..N /\ n + 1 # 0 /\ (n + 1) - 1 = n
      BY <1>1
    <3> QED  BY <1>2, <3>1
  <2>3. s[n + 1] \in T
    BY <1>1
  <2>4. K(n) \subseteq Nat /\ \A q \in K(n) : q < n + 1
    OBVIOUS
  <2>5. CASE s[n + 1] \in S
    <3>1. K(n + 1) = K(n) \cup {n + 1}
      BY <2>5
    <3> HIDE DEF K
    <3>2. Lists(Append(am[n], s[n + 1]), K(n) \cup {n + 1}, s)
      <4>1. n + 1 \in Nat
        OBVIOUS
      <4> QED  BY <2>1, <2>3, <2>4, <4>1, ListsAppend
    <3>3. Append(am[n], s[n + 1]) \in Seq(T)
      BY <2>1, <2>3
    <3> QED  BY <2>2, <2>5, <3>1, <3>2, <3>3
  <2>6. CASE s[n + 1] \notin S
    <3>1. K(n + 1) = K(n)
      BY <2>6
    <3> HIDE DEF K
    <3> QED  BY <2>1, <2>2, <2>6, <3>1
  <2> QED  BY <2>5, <2>6
<1> HIDE DEF I, Good
<1>5. Nat \subseteq I
  BY <1>3, <1>4, NatInduct
<1>6. Good(N)
  BY <1>1, <1>5 DEF I
<1>7. K(N) = {p \in DOMAIN s : s[p] \in S}
  BY <1>1
<1> QED  BY <1>1, <1>6, <1>7 DEF Good

-----------------------------------------------------------------------------
(* A padded release is a tuple of naturals of the padded length.           *)
LEMMA PadType ==
    ASSUME NEW s \in Seq(Nat), NEW n \in Nat
    PROVE  PadTo(s, n) \in [1..n -> Nat]
  BY DEF PadTo

(* Beyond the longer of two releases, padding changes no comparison: the   *)
(* comparison may be made at any common length.                            *)
LEMMA AnyLength ==
    ASSUME NEW s \in Seq(Nat), NEW t \in Seq(Nat), NEW n \in Nat, Longer(s, t) <= n
    PROVE  NumericLess(s, t) <=> TupleLess(PadTo(s, n), PadTo(t, n), n)
<1> DEFINE m == Longer(s, t)
<1>1. m \in Nat /\ Len(s) \in Nat /\ Len(t) \in Nat /\ Len(s) <= m /\ Len(t) <= m
  BY DEF Longer
<1>2. ASSUME NEW i \in 1..m
      PROVE  PadTo(s, n)[i] = PadTo(s, m)[i] /\ PadTo(t, n)[i] = PadTo(t, m)[i]
  BY <1>1 DEF PadTo
<1>3. ASSUME NEW i \in 1..n, i > m
      PROVE  PadTo(s, n)[i] = 0 /\ PadTo(t, n)[i] = 0
  BY <1>1, <1>3 DEF PadTo
<1>4. ASSUME TupleLess(PadTo(s, m), PadTo(t, m), m)
      PROVE  TupleLess(PadTo(s, n), PadTo(t, n), n)
  <2>1. PICK i \in 1..m : /\ PadTo(s, m)[i] < PadTo(t, m)[i]
                          /\ \A j \in 1..(i - 1) : PadTo(s, m)[j] = PadTo(t, m)[j]
    BY <1>4 DEF TupleLess
  <2>2. i \in 1..n /\ \A j \in 1..(i - 1) : j \in 1..m
    BY <1>1
  <2>3. PadTo(s, n)[i] < PadTo(t, n)[i]
    BY <1>2, <2>1
  <2>4. \A j \in 1..(i - 1) : PadTo(s, n)[j] = PadTo(t, n)[j]
    BY <1>2, <2>1, <2>2
  <2> QED  BY <2>2, <2>3, <2>4 DEF TupleLess
<1>5. ASSUME TupleLess(PadTo(s, n), PadTo(t, n), n)
      PROVE  TupleLess(PadTo(s, m), PadTo(t, m), m)
  <2>1. PICK i \in 1..n : /\ PadTo(s, n)[i] < PadTo(t, n)[i]
                          /\ \A j \in 1..(i - 1) : PadTo(s, n)[j] = PadTo(t, n)[j]
    BY <1>5 DEF TupleLess
  <2>2. i \in 1..m
    BY <1>1, <1>3, <2>1
  <2>3. \A j \in 1..(i - 1) : j \in 1..m
    BY <1>1, <2>2
  <2>4. PadTo(s, m)[i] < PadTo(t, m)[i]
    BY <1>2, <2>1, <2>2
  <2>5. \A j \in 1..(i - 1) : PadTo(s, m)[j] = PadTo(t, m)[j]
    BY <1>2, <2>1, <2>3
  <2> QED  BY <2>2, <2>4, <2>5 DEF TupleLess
<1> QED  BY <1>4, <1>5 DEF NumericLess

(* The order of tuples of one length is strict and transitive.             *)
LEMMA TupleIrreflexive ==
    ASSUME NEW n \in Nat, NEW s \in [1..n -> Nat]
    PROVE  ~TupleLess(s, s, n)
  BY DEF TupleLess

LEMMA TupleTransitive ==
    ASSUME NEW n \in Nat, NEW s \in [1..n -> Nat], NEW t \in [1..n -> Nat],
           NEW u \in [1..n -> Nat], TupleLess(s, t, n), TupleLess(t, u, n)
    PROVE  TupleLess(s, u, n)
<1>1. PICK i \in 1..n : s[i] < t[i] /\ \A j \in 1..(i - 1) : s[j] = t[j]
  BY DEF TupleLess
<1>2. PICK k \in 1..n : t[k] < u[k] /\ \A j \in 1..(k - 1) : t[j] = u[j]
  BY DEF TupleLess
<1> DEFINE h == IF i <= k THEN i ELSE k
<1>3. h \in 1..n /\ h <= i /\ h <= k /\ (h = i \/ h = k)
  OBVIOUS
<1> HIDE DEF h
<1>4. s[h] < u[h]
  BY <1>1, <1>2, <1>3
<1>5. \A j \in 1..(h - 1) : s[j] = u[j]
  BY <1>1, <1>2, <1>3
<1> QED  BY <1>3, <1>4, <1>5 DEF TupleLess

-----------------------------------------------------------------------------
(* The same of releases of any lengths.                                    *)
LEMMA NumericIrreflexive ==
    ASSUME NEW s \in Seq(Nat)
    PROVE  ~NumericLess(s, s)
<1>1. Longer(s, s) \in Nat
  BY DEF Longer
<1> QED  BY <1>1, PadType, TupleIrreflexive DEF NumericLess

LEMMA NumericTransitive ==
    ASSUME NEW s \in Seq(Nat), NEW t \in Seq(Nat), NEW u \in Seq(Nat),
           NumericLess(s, t), NumericLess(t, u)
    PROVE  NumericLess(s, u)
<1> DEFINE n == Len(s) + Len(t) + Len(u)
<1>1. /\ n \in Nat
      /\ Longer(s, t) <= n /\ Longer(t, u) <= n /\ Longer(s, u) <= n
  BY DEF Longer
<1>2. TupleLess(PadTo(s, n), PadTo(t, n), n) /\ TupleLess(PadTo(t, n), PadTo(u, n), n)
  BY <1>1, AnyLength
<1>3. TupleLess(PadTo(s, n), PadTo(u, n), n)
  BY <1>1, <1>2, PadType, TupleTransitive
<1> QED  BY <1>1, <1>3, AnyLength

(* is_outdated: nothing is behind itself, and dotted-integer versions are  *)
(* behind one another along a strict order, whatever their lengths.        *)
THEOREM OutdatedOrder ==
    /\ \A v \in Version : ~is_outdated(v, v)
    /\ \A v, w, x \in Version :
          IsNumeric(v) /\ IsNumeric(w) /\ IsNumeric(x) =>
              /\ is_outdated(v, w) /\ is_outdated(w, x) => is_outdated(v, x)
              /\ ~(is_outdated(v, w) /\ is_outdated(w, v))
<1>1. \A v \in Version : v.release \in Seq(Nat)
  BY DEF Version
<1>2. \A v \in Version : ~is_outdated(v, v)
  BY <1>1, NumericIrreflexive DEF is_outdated
<1>3. ASSUME NEW v \in Version, NEW w \in Version, NEW x \in Version,
             IsNumeric(v), IsNumeric(w), IsNumeric(x),
             is_outdated(v, w), is_outdated(w, x)
      PROVE  is_outdated(v, x)
  BY <1>1, <1>3, NumericTransitive DEF is_outdated
<1> QED  BY <1>2, <1>3

-----------------------------------------------------------------------------
(* What the parsers return.                                                *)
Dependency == [name: Packages, version: Version]

Result ==
    [file: STRING, ecosystem: Ecosystems, package_name: Packages, declared_version: Version,
     latest_version: Version \cup {None}, is_outdated: BOOLEAN]

ReadPlaces(e) == {j \in DOMAIN e.content : IsRead(EcosystemOf[e.name], e.content[j])}

Parsed(e) ==
    [j \in DOMAIN e.content |->
        [name |-> e.content[j].package, version |-> TextOf(EcosystemOf[e.name], e.content[j])]]

LEMMA EcosystemFacts ==
    ASSUME NEW m \in Manifests
    PROVE  EcosystemOf[m] \in Ecosystems
  BY DEF Manifests, EcosystemOf, Ecosystems

LEMMA TextFacts ==
    ASSUME NEW ecosystem \in Ecosystems, NEW d \in Declaration, IsRead(ecosystem, d)
    PROVE  [name |-> d.package, version |-> TextOf(ecosystem, d)] \in Dependency
<1>1. d.package \in Packages /\ d.version \in Version
  BY DEF Declaration
<1>2. d.form \in {"exact", "compatible", "wildcard", "range"}
  BY DEF IsRead, FormsRead, Ecosystems
<1>3. TextOf(ecosystem, d) \in Version
  <2>1. CASE ecosystem = "pypi" /\ d.version.tag \in CutTags
    <3>1. d.version.release \in Seq(Nat) /\ d.version.release # <<>>
      BY <1>1 DEF Version
    <3>2. <<Head(d.version.release)>> \in Seq(Nat) \ {<<>>}
      BY <3>1
    <3>3. Cut(d.version) \in Version
      BY <3>1, <3>2 DEF Cut, Version
    <3> QED  BY <2>1, <3>3 DEF TextOf
  <2>2. CASE ~(ecosystem = "pypi" /\ d.version.tag \in CutTags)
             /\ d.form \in {"exact", "compatible"}
    BY <1>1, <2>2 DEF TextOf
  <2>3. CASE ~(ecosystem = "pypi" /\ d.version.tag \in CutTags)
             /\ d.form \in {"wildcard", "range"}
    <3>1. d.form \in Tags
      BY <2>3, FormsAssumption
    <3>2. TextOf(ecosystem, d) = [d.version EXCEPT !.tag = d.form]
      BY <2>3 DEF TextOf
    <3> QED  BY <1>1, <3>1, <3>2 DEF Version
  <2> QED  BY <1>2, <2>1, <2>2, <2>3
<1> QED  BY <1>1, <1>3 DEF Dependency

LEMMA ParseFacts ==
    ASSUME NEW e \in Entry, IsManifest(e), e.content # Malformed
    PROVE  /\ ParsedContent(e) \in Seq(Dependency)
           /\ Lists(ParsedContent(e), ReadPlaces(e), Parsed(e))
<1> DEFINE content == e.content
           ecosystem == EcosystemOf[e.name]
           read == {d \in ToSet(content) : IsRead(ecosystem, d)}
           kept == Among(content, read)
           image == [i \in DOMAIN kept |->
                        [name |-> kept[i].package, version |-> TextOf(ecosystem, kept[i])]]
<1>1. content \in Seq(Declaration) /\ ecosystem \in Ecosystems
  BY EcosystemFacts DEF Entry, IsManifest
<1>2. ParsedContent(e) = image
  BY DEF ParsedContent, Parse
<1>3. \A j \in DOMAIN content : content[j] \in read <=> IsRead(ecosystem, content[j])
  BY DEF ToSet
<1>4. ReadPlaces(e) = {j \in DOMAIN content : content[j] \in read}
  BY <1>3 DEF ReadPlaces
<1>5. \A j \in DOMAIN content : content[j] \in Declaration
  BY <1>1
<1> HIDE DEF content, ecosystem, read, kept
<1>6. kept \in Seq(Declaration) /\ Lists(kept, ReadPlaces(e), content)
  BY <1>1, <1>4, AmongLists DEF kept
<1>7. DOMAIN kept = 1..Len(kept) /\ Len(kept) \in Nat
  BY <1>6
<1>8. \A x \in 1..Len(kept) : kept[x] \in Declaration /\ IsRead(ecosystem, kept[x])
  <2>1. \A x \in 1..Len(kept) : \E j \in ReadPlaces(e) : kept[x] = content[j]
    BY <1>6 DEF Lists
  <2> QED  BY <1>3, <1>4, <1>5, <2>1
<1>9. \A x \in 1..Len(kept) : [name |-> kept[x].package, version |-> TextOf(ecosystem, kept[x])] \in Dependency
  BY <1>1, <1>8, TextFacts
<1>10. image \in Seq(Dependency) /\ Len(image) = Len(kept)
  BY <1>7, <1>9
<1>11. \A x \in 1..Len(kept), j \in ReadPlaces(e) :
          kept[x] = content[j] => image[x] = Parsed(e)[j]
  BY <1>4, <1>7 DEF Parsed, content, ecosystem
<1> HIDE DEF image
<1>12. Lists(image, ReadPlaces(e), Parsed(e))
  BY <1>6, <1>10, <1>11, ListsMap
<1> QED  BY <1>2, <1>10, <1>12

-----------------------------------------------------------------------------
(* The places whose manifests, or whose pins, come before a point.         *)
ParsedTo(k) == \A i \in ManifestPlaces : i <= k => ~ParserRaises(root[i])

PinsTo(k) == {p \in PinPlaces : p[1] <= k}

PinsUpTo(k, m) == {p \in PinPlaces : p[1] < k \/ (p[1] = k /\ p[2] <= m)}

FindingOK(f) ==
    /\ \E i \in ManifestPlaces :
          /\ f.file = root[i].path
          /\ f.latest_version \in Registry[EcosystemOf[root[i].name]][f.package_name]
    /\ f.is_outdated <=>
          f.latest_version # None /\ is_outdated(f.declared_version, f.latest_version)

Types ==
    /\ root \in Seq(Entry) /\ manifests \in Seq(Entry)
    /\ declared \in Seq(Dependency) /\ findings \in Seq(Result)
    /\ result # "returned" \/ pc = "done"

FindingsOK == \A x \in DOMAIN findings : FindingOK(findings[x])

AtStart == pc = "list_root" => findings = <<>>

AtFetch ==
    pc = "fetch_file" =>
        \E k \in Nat :
            /\ Lists(manifests, {i \in ManifestPlaces : i > k}, root)
            /\ ParsedTo(k)
            /\ Covered(PinsTo(k))

AtLookUp ==
    pc = "look_up" =>
        \E k \in ManifestPlaces, m \in Nat :
            /\ manifests # <<>> /\ Head(manifests) = root[k]
            /\ Lists(Tail(manifests), {i \in ManifestPlaces : i > k}, root)
            /\ ParsedTo(k)
            /\ Covered(PinsUpTo(k, m))
            /\ root[k].content = Malformed => declared = <<>>
            /\ root[k].content # Malformed =>
                  Lists(declared, {j \in ReadPlaces(root[k]) : j > m}, Parsed(root[k]))

Inv == Types /\ FindingsOK /\ AtStart /\ AtFetch /\ AtLookUp /\ PlainPinsAreReported

(* Plain pins are among the declarations read.                             *)
LEMMA PlaceFacts ==
    ASSUME root \in Seq(Entry)
    PROVE  /\ ManifestPlaces \subseteq Nat
           /\ \A i \in ManifestPlaces : root[i] \in Entry /\ IsManifest(root[i]) /\ i >= 1
           /\ \A p \in PinPlaces :
                 /\ p = <<p[1], p[2]>> /\ p[1] \in ManifestPlaces /\ p[2] \in Nat
                 /\ p[2] >= 1 /\ p[2] \in ReadPlaces(root[p[1]])
                 /\ root[p[1]].content # Malformed
                 /\ IsPlainPin(root[p[1]], root[p[1]].content[p[2]])
<1>1. /\ ManifestPlaces \subseteq Nat
      /\ \A i \in ManifestPlaces : root[i] \in Entry /\ IsManifest(root[i]) /\ i >= 1
  BY DEF ManifestPlaces
<1>2. ASSUME NEW i \in ManifestPlaces, root[i].content # Malformed, NEW j \in DOMAIN root[i].content,
             IsPlainPin(root[i], root[i].content[j])
      PROVE  j \in Nat /\ j >= 1 /\ j \in ReadPlaces(root[i])
  <2>1. root[i].content \in Seq(Declaration) /\ root[i].name \in Manifests
    BY <1>1, <1>2 DEF Entry, IsManifest
  <2>2. j \in Nat /\ j >= 1
    BY <2>1
  <2>3. EcosystemOf[root[i].name] \in Ecosystems
    BY <2>1, EcosystemFacts
  <2>4. IsRead(EcosystemOf[root[i].name], root[i].content[j])
    BY <1>2, <2>3 DEF IsPlainPin, IsRead, FormsRead, Ecosystems
  <2> QED  BY <1>2, <2>2, <2>4 DEF ReadPlaces
<1>3. ASSUME NEW p \in PinPlaces
      PROVE  \E i \in ManifestPlaces : \E j \in DOMAIN root[i].content :
                /\ root[i].content # Malformed /\ p = <<i, j>>
                /\ IsPlainPin(root[i], root[i].content[j])
  BY DEF PinPlaces
<1>4. ASSUME NEW p \in PinPlaces
      PROVE  /\ p = <<p[1], p[2]>> /\ p[1] \in ManifestPlaces /\ p[2] \in Nat
             /\ p[2] >= 1 /\ p[2] \in ReadPlaces(root[p[1]])
             /\ root[p[1]].content # Malformed
             /\ IsPlainPin(root[p[1]], root[p[1]].content[p[2]])
  <2>1. PICK i \in ManifestPlaces : \E j \in DOMAIN root[i].content :
                /\ root[i].content # Malformed /\ p = <<i, j>>
                /\ IsPlainPin(root[i], root[i].content[j])
    BY <1>3
  <2>2. PICK j \in DOMAIN root[i].content :
                /\ root[i].content # Malformed /\ p = <<i, j>>
                /\ IsPlainPin(root[i], root[i].content[j])
    BY <2>1
  <2>3. p[1] = i /\ p[2] = j
    BY <2>2
  <2> QED  BY <1>2, <2>2, <2>3
<1> QED  BY <1>1, <1>4

(* The findings fs have, in order, those of the pins.                      *)
CoverOf(fs, pins) ==
    \E at \in [pins -> DOMAIN fs] :
        /\ \A p \in pins : Reports(fs[at[p]], p)
        /\ \A p, q \in pins : Precedes(p, q) => at[p] < at[q]

LEMMA CoverGrows ==
    ASSUME NEW T, NEW fs \in Seq(T), NEW f \in T, NEW pins, CoverOf(fs, pins)
    PROVE  CoverOf(Append(fs, f), pins)
<1>1. PICK at \in [pins -> DOMAIN fs] :
         /\ \A p \in pins : Reports(fs[at[p]], p)
         /\ \A p, q \in pins : Precedes(p, q) => at[p] < at[q]
  BY DEF CoverOf
<1> DEFINE longer == Append(fs, f)
<1>2. \A i \in DOMAIN fs : i \in DOMAIN longer /\ longer[i] = fs[i]
  OBVIOUS
<1> HIDE DEF longer
<1>3. at \in [pins -> DOMAIN longer] /\ \A p \in pins : Reports(longer[at[p]], p)
  BY <1>1, <1>2
<1> QED  BY <1>1, <1>3 DEF CoverOf, longer

LEMMA CoverAdds ==
    ASSUME NEW T, NEW fs \in Seq(T), NEW f \in T, NEW pins, CoverOf(fs, pins),
           NEW p, Reports(f, p), ~Precedes(p, p),
           \A q \in pins : ~Precedes(p, q) /\ q # p
    PROVE  CoverOf(Append(fs, f), pins \cup {p})
<1>1. PICK at \in [pins -> DOMAIN fs] :
         /\ \A q \in pins : Reports(fs[at[q]], q)
         /\ \A q, r \in pins : Precedes(q, r) => at[q] < at[r]
  BY DEF CoverOf
<1> DEFINE longer == Append(fs, f)
           n == Len(fs)
           at2 == [q \in pins \cup {p} |-> IF q = p THEN n + 1 ELSE at[q]]
<1>2. /\ n \in Nat /\ DOMAIN fs = 1..n /\ DOMAIN longer = 1..(n + 1) /\ longer[n + 1] = f
      /\ \A i \in DOMAIN fs : i \in DOMAIN longer /\ longer[i] = fs[i] /\ i < n + 1
  OBVIOUS
<1> HIDE DEF longer, n
<1>3. \A q \in pins : at2[q] = at[q] /\ at[q] \in DOMAIN fs
  BY <1>1
<1>4. at2[p] = n + 1 /\ n + 1 \in DOMAIN longer
  BY <1>2
<1>5. at2 \in [pins \cup {p} -> DOMAIN longer]
  BY <1>2, <1>3, <1>4
<1> HIDE DEF at2
<1>6. \A q \in pins \cup {p} : Reports(longer[at2[q]], q)
  BY <1>1, <1>2, <1>3, <1>4
<1>7. \A q, r \in pins \cup {p} : Precedes(q, r) => at2[q] < at2[r]
  BY <1>1, <1>2, <1>3, <1>4
<1> QED  BY <1>5, <1>6, <1>7 DEF CoverOf, longer

LEMMA AfterBoth ==
    ASSUME NEW S, S \subseteq Nat, NEW m \in Nat, NEW n \in Nat, m < n
    PROVE  {i \in {j \in S : j > m} : i > n} = {i \in S : i > n}
<1>1. \A i \in S : i > n => i > m
  OBVIOUS
<1> QED  BY <1>1

-----------------------------------------------------------------------------
LEMMA RaisesInv ==
    ASSUME Inv, NEW exception, exception # "returned", Raises(exception)
    PROVE  Inv'
<1>1. /\ pc' = "done" /\ result' # "returned"
      /\ UNCHANGED <<root, manifests, declared, findings>>
  BY DEF Raises
<1>2. Types' /\ FindingsOK'
  BY <1>1 DEF Inv, Types, FindingsOK, FindingOK, ManifestPlaces
<1> QED  BY <1>1, <1>2 DEF Inv, AtStart, AtFetch, AtLookUp, PlainPinsAreReported

(* The places, and what is said of them, change only with the findings.    *)
LEMMA PlacesStay ==
    ASSUME root' = root
    PROVE  /\ ManifestPlaces' = ManifestPlaces /\ PinPlaces' = PinPlaces
           /\ \A k : (PinsTo(k)' = PinsTo(k)) /\ (ParsedTo(k)' <=> ParsedTo(k))
           /\ \A k, m : PinsUpTo(k, m)' = PinsUpTo(k, m)
  BY DEF ManifestPlaces, PinPlaces, PinsTo, PinsUpTo, ParsedTo

LEMMA ListRootInv == ASSUME Inv, ListRoot PROVE Inv'
<1>1. /\ pc = "list_root" /\ pc' = "fetch_file" /\ root' = root /\ declared' = declared
      /\ findings' = findings /\ result' = result
      /\ manifests' = Among(root, {e \in ToSet(root) : IsManifest(e)})
  BY DEF ListRoot
<1>2. root \in Seq(Entry) /\ findings = <<>> /\ findings \in Seq(Result)
  BY <1>1 DEF Inv, Types, AtStart
<1>3. {i \in DOMAIN root : root[i] \in {e \in ToSet(root) : IsManifest(e)}} = ManifestPlaces
  BY DEF ToSet, ManifestPlaces
<1>4. manifests' \in Seq(Entry) /\ Lists(manifests', ManifestPlaces, root)
  BY <1>1, <1>2, <1>3, AmongLists
<1>5. ManifestPlaces = {i \in ManifestPlaces : i > 0} /\ ParsedTo(0) /\ PinsTo(0) = {}
  BY <1>2, PlaceFacts DEF ParsedTo, PinsTo
<1>6. Covered({})'
  <2>1. [x \in {} |-> 0] \in [{} -> DOMAIN findings']
    OBVIOUS
  <2> QED  BY <2>1 DEF Covered
<1>7. Types' /\ FindingsOK'
  BY <1>1, <1>4 DEF Inv, Types, FindingsOK, FindingOK, ManifestPlaces
<1>8. AtFetch'
  <2>1. Covered(PinsTo(0))'
    BY <1>1, <1>5, <1>6, PlacesStay
  <2>2. Lists(manifests', {i \in ManifestPlaces' : i > 0}, root') /\ ParsedTo(0)' /\ 0 \in Nat
    BY <1>1, <1>4, <1>5, PlacesStay
  <2> QED  BY <2>1, <2>2 DEF AtFetch
<1>9. AtStart' /\ AtLookUp' /\ PlainPinsAreReported'
  BY <1>1 DEF Inv, Types, AtStart, AtLookUp, PlainPinsAreReported
<1> QED  BY <1>7, <1>8, <1>9 DEF Inv

LEMMA FetchManifestInv == ASSUME Inv, FetchManifest PROVE Inv'
<1>1. CASE ParserRaises(Head(manifests)) /\ Raises("parse_error")
  BY <1>1, RaisesInv
<1>2. CASE /\ ~ParserRaises(Head(manifests))
           /\ pc' = "look_up"
           /\ declared' = ParsedContent(Head(manifests))
           /\ UNCHANGED <<root, manifests, findings, result>>
  <2>1. pc = "fetch_file" /\ manifests # <<>>
    BY DEF FetchManifest
  <2>2. root \in Seq(Entry) /\ manifests \in Seq(Entry) /\ findings \in Seq(Result)
    BY DEF Inv, Types
  <2>3. PICK k \in Nat : /\ Lists(manifests, {i \in ManifestPlaces : i > k}, root)
                         /\ ParsedTo(k)
                         /\ Covered(PinsTo(k))
    BY <2>1 DEF Inv, AtFetch
  <2>4. PICK n \in {i \in ManifestPlaces : i > k} :
           /\ Head(manifests) = root[n]
           /\ \A i \in {j \in ManifestPlaces : j > k} : n <= i
           /\ Lists(Tail(manifests), {i \in {j \in ManifestPlaces : j > k} : i > n}, root)
    <3>1. {i \in ManifestPlaces : i > k} \subseteq Nat
      BY <2>2, PlaceFacts
    <3> QED  BY <2>1, <2>2, <2>3, <3>1, ListsStep
  <2>5. n \in ManifestPlaces /\ n \in Nat /\ n > k /\ \A i \in ManifestPlaces : i \in Nat
    BY <2>2, <2>4, PlaceFacts
  <2>6. {i \in {j \in ManifestPlaces : j > k} : i > n} = {i \in ManifestPlaces : i > n}
    <3>1. ManifestPlaces \subseteq Nat /\ k \in Nat /\ n \in Nat /\ k < n
      BY <2>3, <2>5
    <3> DEFINE S == ManifestPlaces
    <3>2. S \subseteq Nat
      BY <3>1
    <3> HIDE DEF S
    <3>3. \A i \in S : i > n => i > k
      BY <3>1, <3>2
    <3>4. {i \in {j \in S : j > k} : i > n} = {i \in S : i > n}
      BY <3>3
    <3> QED  BY <3>4 DEF S
  <2>7. ParsedTo(n)
    <3> SUFFICES ASSUME NEW i \in ManifestPlaces, i <= n PROVE ~ParserRaises(root[i])
      BY DEF ParsedTo
    <3>1. i <= k \/ i = n
      BY <2>4, <2>5
    <3> QED  BY <1>2, <2>3, <2>4, <3>1 DEF ParsedTo
  <2>8. PinsUpTo(n, 0) = PinsTo(k)
    <3> SUFFICES ASSUME NEW p \in PinPlaces
                 PROVE  (p[1] < n \/ (p[1] = n /\ p[2] <= 0)) <=> p[1] <= k
      BY DEF PinsUpTo, PinsTo
    <3>1. p[1] \in ManifestPlaces /\ p[2] \in Nat /\ p[2] >= 1
      BY <2>2, PlaceFacts
    <3>2. p[1] > k => n <= p[1]
      BY <2>4, <3>1
    <3>3. p[1] \in Nat /\ n \in Nat /\ k \in Nat /\ k < n
      BY <2>3, <2>5, <3>1
    <3>4. ~(p[2] <= 0)
      BY <3>1
    <3>5. p[1] < n <=> p[1] <= k
      BY <3>2, <3>3
    <3> QED  BY <3>4, <3>5
  <2>9. /\ declared' \in Seq(Dependency)
        /\ root[n].content = Malformed => declared' = <<>>
        /\ root[n].content # Malformed =>
              Lists(declared', {j \in ReadPlaces(root[n]) : j > 0}, Parsed(root[n]))
    <3>1. root[n] \in Entry /\ IsManifest(root[n]) /\ declared' = ParsedContent(root[n])
      BY <1>2, <2>2, <2>4, <2>5, PlaceFacts
    <3>2. CASE root[n].content = Malformed
      BY <3>1, <3>2 DEF ParsedContent
    <3>3. CASE root[n].content # Malformed
      <4>1. root[n].content \in Seq(Declaration)
        BY <3>1, <3>3 DEF Entry
      <4>2. {j \in ReadPlaces(root[n]) : j > 0} = ReadPlaces(root[n])
        BY <4>1 DEF ReadPlaces
      <4> QED  BY <3>1, <3>3, <4>2, ParseFacts
    <3> QED  BY <3>2, <3>3
  <2>10. Types' /\ FindingsOK'
    <3>1. pc # "done"
      BY <2>1
    <3>2. result' # "returned" /\ root' \in Seq(Entry) /\ manifests' \in Seq(Entry)
          /\ findings' \in Seq(Result)
      BY <1>2, <3>1 DEF Inv, Types
    <3>3. Types'
      BY <2>9, <3>2 DEF Types
    <3>4. FindingsOK'
      BY <1>2 DEF Inv, FindingsOK, FindingOK, ManifestPlaces
    <3> QED  BY <3>3, <3>4
  <2>11. Covered(PinsUpTo(n, 0))'
    <3>1. Covered(PinsUpTo(n, 0)) /\ PinsUpTo(n, 0)' = PinsUpTo(n, 0)
      BY <1>2, <2>3, <2>8, PlacesStay
    <3> QED  BY <1>2, <3>1 DEF Covered, Reports
  <2>12. AtLookUp'
    <3>1. /\ ManifestPlaces' = ManifestPlaces /\ root' = root /\ manifests' = manifests
          /\ ParsedTo(n)'
      BY <1>2, <2>7, PlacesStay
    <3>2. Lists(Tail(manifests)', {i \in ManifestPlaces : i > n}, root)
      BY <2>4, <2>6, <3>1
    <3> QED  BY <2>1, <2>4, <2>5, <2>9, <2>11, <3>1, <3>2 DEF AtLookUp
  <2> QED  BY <1>2, <2>1, <2>10, <2>12 DEF Inv, Types, AtStart, AtFetch, PlainPinsAreReported
<1> QED  BY <1>1, <1>2 DEF FetchManifest

LEMMA NextManifestInv == ASSUME Inv, NextManifest PROVE Inv'
<1>1. /\ pc = "look_up" /\ declared = <<>> /\ pc' = "fetch_file" /\ manifests' = Tail(manifests)
      /\ UNCHANGED <<root, declared, findings, result>>
  BY DEF NextManifest
<1>2. root \in Seq(Entry) /\ manifests \in Seq(Entry) /\ findings \in Seq(Result)
  BY DEF Inv, Types
<1>3. PICK k \in ManifestPlaces, m \in Nat :
         /\ manifests # <<>> /\ Head(manifests) = root[k]
         /\ Lists(Tail(manifests), {i \in ManifestPlaces : i > k}, root)
         /\ ParsedTo(k)
         /\ Covered(PinsUpTo(k, m))
         /\ root[k].content = Malformed => declared = <<>>
         /\ root[k].content # Malformed =>
               Lists(declared, {j \in ReadPlaces(root[k]) : j > m}, Parsed(root[k]))
  BY <1>1 DEF Inv, AtLookUp
<1>4. PinsUpTo(k, m) = PinsTo(k)
  <2> SUFFICES ASSUME NEW p \in PinPlaces
               PROVE  (p[1] < k \/ (p[1] = k /\ p[2] <= m)) <=> p[1] <= k
    BY DEF PinsUpTo, PinsTo
  <2>1. /\ p[1] \in Nat /\ k \in Nat /\ p[2] \in Nat /\ p[2] \in ReadPlaces(root[p[1]])
        /\ root[p[1]].content # Malformed
    BY <1>2, PlaceFacts
  <2>2. ASSUME p[1] = k PROVE p[2] <= m
    <3>1. Lists(<<>>, {j \in ReadPlaces(root[k]) : j > m}, Parsed(root[k]))
      BY <1>1, <1>3, <2>1, <2>2
    <3>2. {j \in ReadPlaces(root[k]) : j > m} = {}
      BY <3>1, ListsEmpty
    <3> QED  BY <2>1, <2>2, <3>2
  <2> QED  BY <2>1, <2>2
<1>5. Types' /\ FindingsOK'
  BY <1>1, <1>2, <1>3 DEF Inv, Types, FindingsOK, FindingOK, ManifestPlaces
<1>6. Covered(PinsTo(k))'
  <2>1. Covered(PinsTo(k)) /\ PinsTo(k)' = PinsTo(k)
    BY <1>1, <1>3, <1>4, PlacesStay
  <2> QED  BY <1>1, <2>1 DEF Covered, Reports
<1>7. AtFetch'
  <2>1. ManifestPlaces' = ManifestPlaces /\ root' = root /\ ParsedTo(k)' /\ k \in Nat
    BY <1>1, <1>2, <1>3, PlacesStay, PlaceFacts
  <2>2. Lists(manifests', {i \in ManifestPlaces : i > k}, root)
    BY <1>1, <1>3
  <2> QED  BY <1>6, <2>1, <2>2 DEF AtFetch
<1> QED  BY <1>1, <1>5, <1>7 DEF Inv, Types, AtStart, AtLookUp, PlainPinsAreReported

LEMMA ReturnInv == ASSUME Inv, Return PROVE Inv'
<1>1. /\ pc = "fetch_file" /\ manifests = <<>> /\ pc' = "done" /\ result' = "returned"
      /\ UNCHANGED <<root, manifests, declared, findings>>
  BY DEF Return
<1>2. root \in Seq(Entry)
  BY DEF Inv, Types
<1>3. PICK k \in Nat : /\ Lists(manifests, {i \in ManifestPlaces : i > k}, root)
                       /\ ParsedTo(k)
                       /\ Covered(PinsTo(k))
  BY <1>1 DEF Inv, AtFetch
<1>4. {i \in ManifestPlaces : i > k} = {}
  BY <1>1, <1>3, ListsEmpty
<1>5. \A i \in ManifestPlaces : i \in Nat /\ i <= k
  BY <1>2, <1>4, PlaceFacts
<1>6. PinsTo(k) = PinPlaces
  BY <1>2, <1>5, PlaceFacts DEF PinsTo
<1>7. \A i \in ManifestPlaces : ~ParserRaises(root[i])
  BY <1>3, <1>5 DEF ParsedTo
<1>8. Covered(PinPlaces)'
  <2>1. Covered(PinPlaces) /\ PinPlaces' = PinPlaces
    BY <1>1, <1>3, <1>6, PlacesStay
  <2> QED  BY <1>1, <2>1 DEF Covered, Reports
<1>9. PlainPinsAreReported'
  BY <1>1, <1>7, <1>8, PlacesStay DEF PlainPinsAreReported
<1>10. Types' /\ FindingsOK'
  BY <1>1 DEF Inv, Types, FindingsOK, FindingOK, ManifestPlaces
<1> QED  BY <1>1, <1>9, <1>10 DEF Inv, AtStart, AtFetch, AtLookUp

LEMMA LookUpInv == ASSUME Inv, LookUp PROVE Inv'
<1>1. /\ pc = "look_up" /\ declared # <<>> /\ declared' = Tail(declared)
      /\ UNCHANGED <<root, pc, manifests, result>>
  BY DEF LookUp
<1>2. /\ root \in Seq(Entry) /\ manifests \in Seq(Entry) /\ findings \in Seq(Result)
      /\ declared \in Seq(Dependency)
  BY DEF Inv, Types
<1>3. PICK k \in ManifestPlaces, m \in Nat :
         /\ manifests # <<>> /\ Head(manifests) = root[k]
         /\ Lists(Tail(manifests), {i \in ManifestPlaces : i > k}, root)
         /\ ParsedTo(k)
         /\ Covered(PinsUpTo(k, m))
         /\ root[k].content = Malformed => declared = <<>>
         /\ root[k].content # Malformed =>
               Lists(declared, {j \in ReadPlaces(root[k]) : j > m}, Parsed(root[k]))
  BY <1>1 DEF Inv, AtLookUp
<1> DEFINE e == root[k]
<1>4. /\ e \in Entry /\ IsManifest(e) /\ k \in Nat /\ e.content \in Seq(Declaration)
      /\ e.name \in Manifests /\ e.path \in STRING
  <2>1. e \in Entry /\ IsManifest(e) /\ k \in Nat
    BY <1>2, PlaceFacts
  <2> QED  BY <1>1, <1>3, <2>1 DEF Entry, IsManifest
<1>5. PICK j \in {d \in ReadPlaces(e) : d > m} :
         /\ Head(declared) = Parsed(e)[j]
         /\ \A d \in {i \in ReadPlaces(e) : i > m} : j <= d
         /\ Lists(Tail(declared), {d \in {i \in ReadPlaces(e) : i > m} : d > j}, Parsed(e))
  <2>1. {d \in ReadPlaces(e) : d > m} \subseteq Nat
    BY <1>4 DEF ReadPlaces
  <2>2. Lists(declared, {d \in ReadPlaces(e) : d > m}, Parsed(e))
    BY <1>1, <1>3
  <2> HIDE DEF e
  <2> QED  BY <1>1, <1>2, <2>1, <2>2, ListsStep
<1>6. /\ j \in ReadPlaces(e) /\ j \in Nat /\ j > m /\ j \in DOMAIN e.content
      /\ \A i \in ReadPlaces(e) : i \in Nat
  BY <1>4, <1>5 DEF ReadPlaces
<1> DEFINE d == e.content[j]
           dependency == Head(declared)
<1>7. dependency.name = d.package /\ dependency.version = TextOf(EcosystemOf[e.name], d) /\ dependency \in Dependency
  BY <1>1, <1>2, <1>5, <1>6 DEF Parsed
<1>8. PICK latest \in Registry[EcosystemOf[e.name]][dependency.name] :
         findings' = Append(findings, Finding(e, dependency, latest))
  BY <1>3 DEF LookUp
<1>9. latest \in Version \cup {None} /\ EcosystemOf[e.name] \in Ecosystems
  <2>1. EcosystemOf[e.name] \in Ecosystems /\ dependency.name \in Packages
    BY <1>4, <1>7, EcosystemFacts DEF Dependency
  <2>2. Registry[EcosystemOf[e.name]][dependency.name] \in SUBSET (Version \cup {None})
    BY <2>1, RegistryAssumption
  <2> QED  BY <2>1, <2>2
<1> DEFINE f == Finding(e, dependency, latest)
<1>10. /\ f.file = e.path /\ f.package_name = dependency.name
       /\ f.declared_version = dependency.version /\ f.latest_version = latest
  BY DEF Finding
<1>11. f.is_outdated <=> latest # None /\ is_outdated(dependency.version, latest)
  BY DEF Finding
<1>12. f \in Result
  <2>1. (latest # None /\ is_outdated(dependency.version, latest)) \in BOOLEAN
    OBVIOUS
  <2>2. dependency.name \in Packages /\ dependency.version \in Version
    BY <1>7 DEF Dependency
  <2> HIDE DEF dependency, e
  <2> QED  BY <1>4, <1>9, <2>1, <2>2 DEF Finding, Result
<1>13. FindingOK(f)
  BY <1>8, <1>10, <1>11 DEF FindingOK
<1> HIDE DEF f
<1>14. findings' = Append(findings, f)
  BY <1>8 DEF f
<1>15. Types'
  BY <1>1, <1>2, <1>12, <1>14 DEF Inv, Types
<1>16. FindingsOK'
  <2>1. \A x \in DOMAIN findings' : findings'[x] = f \/ \E y \in DOMAIN findings : findings'[x] = findings[y]
    <3> HIDE DEF e
    <3> QED  BY <1>2, <1>12, <1>14, AppendFacts
  <2>2. \A x \in DOMAIN findings' : FindingOK(findings'[x])
    BY <1>13, <2>1 DEF Inv, FindingsOK
  <2> QED  BY <1>1, <2>2 DEF FindingsOK, FindingOK, ManifestPlaces
<1>17. CoverOf(findings', PinsUpTo(k, j))
  <2>1. CoverOf(findings, PinsUpTo(k, m))
    BY <1>3 DEF Covered, CoverOf
  <2>2. \A p \in PinPlaces : /\ p[1] \in Nat /\ p[2] \in Nat /\ p = <<p[1], p[2]>>
                             /\ p[2] \in ReadPlaces(root[p[1]])
                             /\ IsPlainPin(root[p[1]], root[p[1]].content[p[2]])
    BY <1>2, PlaceFacts
  <2>3. \A p \in PinPlaces : p[1] = k => (p[2] <= j <=> p[2] <= m \/ p[2] = j)
    <3> SUFFICES ASSUME NEW p \in PinPlaces, p[1] = k
                 PROVE  p[2] <= j <=> p[2] <= m \/ p[2] = j
      OBVIOUS
    <3>1. p[2] \in ReadPlaces(e) /\ p[2] \in Nat
      BY <2>2
    <3>2. p[2] > m => j <= p[2]
      BY <1>5, <3>1
    <3> QED  BY <1>6, <3>1, <3>2
  <2>4. CASE <<k, j>> \in PinPlaces
    <3> DEFINE pin == <<k, j>>
    <3>1. PinsUpTo(k, j) = PinsUpTo(k, m) \cup {pin}
      BY <1>4, <1>6, <2>2, <2>3, <2>4 DEF PinsUpTo
    <3>2. Reports(f, pin)
      <4>1. IsPlainPin(e, d)
        BY <2>2, <2>4
      <4>2. TextOf(EcosystemOf[e.name], d) = d.version
        BY <4>1 DEF TextOf, IsPlainPin
      <4> QED  BY <1>7, <1>10, <4>2 DEF Reports, f
    <3>3. ~Precedes(pin, pin)
      BY <1>4, <1>6 DEF Precedes
    <3>4. \A q \in PinsUpTo(k, m) : ~Precedes(pin, q) /\ q # pin
      BY <1>4, <1>6, <2>2 DEF Precedes, PinsUpTo
    <3> HIDE DEF pin, e, d, dependency
    <3> QED  BY <1>2, <1>12, <1>14, <2>1, <3>1, <3>2, <3>3, <3>4, CoverAdds
  <2>5. CASE <<k, j>> \notin PinPlaces
    <3>1. PinsUpTo(k, j) = PinsUpTo(k, m)
      BY <1>4, <1>6, <2>2, <2>3, <2>5 DEF PinsUpTo
    <3> HIDE DEF e, d, dependency
    <3> QED  BY <1>2, <1>12, <1>14, <2>1, <3>1, CoverGrows
  <2> QED  BY <2>4, <2>5
<1>18. Covered(PinsUpTo(k, j))'
  <2>1. PinsUpTo(k, j)' = PinsUpTo(k, j)
    BY <1>1, PlacesStay
  <2> QED  BY <1>1, <1>17, <2>1 DEF Covered, CoverOf, Reports
<1>19. AtLookUp'
  <2>1. /\ ManifestPlaces' = ManifestPlaces /\ root' = root /\ manifests' = manifests /\ ParsedTo(k)'
    BY <1>1, <1>3, PlacesStay
  <2>2. {i \in {l \in ReadPlaces(e) : l > m} : i > j} = {i \in ReadPlaces(e) : i > j}
    <3>1. ReadPlaces(e) \subseteq Nat /\ m < j /\ m \in Nat /\ j \in Nat
      BY <1>3, <1>6
    <3> HIDE DEF e
    <3> QED  BY <3>1, AfterBoth
  <2>3. Lists(declared', {i \in ReadPlaces(e) : i > j}, Parsed(e)) /\ e.content # Malformed
    BY <1>1, <1>3, <1>5, <2>2
  <2> QED  BY <1>1, <1>3, <1>6, <1>18, <2>1, <2>3 DEF AtLookUp
<1> QED  BY <1>1, <1>15, <1>16, <1>19 DEF Inv, Types, AtStart, AtFetch, PlainPinsAreReported

-----------------------------------------------------------------------------
LEMMA InitInv == Init => Inv
<1> SUFFICES ASSUME Init PROVE Inv
  OBVIOUS
<1>1. root \in Seq(Entry)
  BY RootsAssumption DEF Init
<1>2. pc = "list_root" /\ manifests = <<>> /\ declared = <<>> /\ findings = <<>> /\ result = None
  BY DEF Init
<1>3. Types
  <2>1. \A T : <<>> \in Seq(T)
    OBVIOUS
  <2> QED  BY <1>1, <1>2, <2>1, ResultAssumption DEF Types
<1>4. FindingsOK
  BY <1>2 DEF FindingsOK
<1> QED  BY <1>2, <1>3, <1>4, ResultAssumption
         DEF Inv, AtStart, AtFetch, AtLookUp, PlainPinsAreReported

LEMMA StutterInv == ASSUME Inv, UNCHANGED vars PROVE Inv'
<1>1. /\ root' = root /\ pc' = pc /\ manifests' = manifests /\ declared' = declared
      /\ findings' = findings /\ result' = result
  BY DEF vars
<1>2. Types' /\ AtStart'
  BY <1>1 DEF Inv, Types, AtStart
<1>3. FindingsOK'
  BY <1>1 DEF Inv, FindingsOK, FindingOK, ManifestPlaces
<1>4. /\ ManifestPlaces' = ManifestPlaces /\ PinPlaces' = PinPlaces
      /\ \A k : (PinsTo(k)' = PinsTo(k)) /\ (ParsedTo(k)' <=> ParsedTo(k))
      /\ \A k, m : PinsUpTo(k, m)' = PinsUpTo(k, m)
  BY <1>1, PlacesStay
<1>5. \A pins : Covered(pins)' <=> Covered(pins)
  BY <1>1 DEF Covered, Reports
<1>6. AtFetch'
  BY <1>1, <1>4, <1>5 DEF Inv, AtFetch
<1>7. AtLookUp'
  BY <1>1, <1>4, <1>5 DEF Inv, AtLookUp
<1>8. PlainPinsAreReported'
  BY <1>1, <1>4, <1>5 DEF Inv, PlainPinsAreReported
<1> QED  BY <1>2, <1>3, <1>6, <1>7, <1>8 DEF Inv

LEMMA StepInv == Inv /\ [Next]_vars => Inv'
<1> SUFFICES ASSUME Inv, [Next]_vars PROVE Inv'
  OBVIOUS
<1>1. CASE ListRoot
  BY <1>1, ListRootInv
<1>2. CASE FetchManifest
  BY <1>2, FetchManifestInv
<1>3. CASE LookUp
  BY <1>3, LookUpInv
<1>4. CASE NextManifest
  BY <1>4, NextManifestInv
<1>5. CASE Return
  BY <1>5, ReturnInv
<1>6. CASE GithubFails
  BY <1>6, RaisesInv DEF GithubFails
<1>7. CASE RegistryFails
  BY <1>7, RaisesInv DEF RegistryFails
<1>8. CASE Terminated \/ UNCHANGED vars
  BY <1>8, StutterInv DEF Terminated
<1> QED  BY <1>1, <1>2, <1>3, <1>4, <1>5, <1>6, <1>7, <1>8 DEF Next

THEOREM Invariance == Spec => []Inv
  BY InitInv, StepInv, PTL DEF Spec

(* When the tool returns, no manifest of the root was malformed for its    *)
(* parser, and every plain pin declared there has a finding of its own     *)
(* that shows it unchanged, in the order of the root and the declarations. *)
THEOREM PlainPinsReachTheList == Spec => []PlainPinsAreReported
<1>1. Inv => PlainPinsAreReported
  BY DEF Inv
<1> QED  BY <1>1, Invariance, PTL

(* A finding names a manifest of the root, and its latest version is what  *)
(* the registry of that manifest's ecosystem answers for the package.      *)
THEOREM FindingsAskTheirRegistry == Spec => []RightRegistry
<1>1. Inv => RightRegistry
  <2> SUFFICES ASSUME Inv, NEW x \in DOMAIN findings
               PROVE  \E e \in ToSet(root) :
                         /\ e.path = findings[x].file /\ e.name \in Manifests
                         /\ findings[x].latest_version
                               \in Registry[EcosystemOf[e.name]][findings[x].package_name]
    BY DEF RightRegistry, ToSet
  <2>1. PICK i \in ManifestPlaces :
           /\ findings[x].file = root[i].path
           /\ findings[x].latest_version
                 \in Registry[EcosystemOf[root[i].name]][findings[x].package_name]
    BY DEF Inv, FindingsOK, FindingOK
  <2>2. i \in DOMAIN root /\ root[i].name \in Manifests
    BY DEF ManifestPlaces, IsManifest
  <2> QED  BY <2>1, <2>2 DEF ToSet
<1> QED  BY <1>1, Invariance, PTL

-----------------------------------------------------------------------------
(* The segments of a version are bounded, so the base of WorthLess exceeds *)
(* each of them.                                                           *)
LEMMA SeqIsBounded ==
    ASSUME NEW s \in Seq(Nat)
    PROVE  \E b \in Nat : \A i \in DOMAIN s : s[i] <= b
<1> DEFINE I == {n \in Nat : n <= Len(s) => \E b \in Nat : \A i \in 1..n : s[i] <= b}
<1>1. 0 \in I
  OBVIOUS
<1>2. ASSUME NEW n \in Nat, n \in I PROVE n + 1 \in I
  <2> SUFFICES ASSUME n + 1 <= Len(s) PROVE \E b \in Nat : \A i \in 1..(n + 1) : s[i] <= b
    OBVIOUS
  <2>1. PICK b \in Nat : \A i \in 1..n : s[i] <= b
    BY <1>2
  <2>2. s[n + 1] \in Nat /\ \A i \in 1..(n + 1) : s[i] \in Nat /\ (i \in 1..n \/ i = n + 1)
    OBVIOUS
  <2>3. \A i \in 1..(n + 1) : s[i] <= b + s[n + 1]
    BY <2>1, <2>2
  <2>4. b + s[n + 1] \in Nat
    BY <2>2
  <2> QED  BY <2>3, <2>4
<1> HIDE DEF I
<1>3. Nat \subseteq I
  BY <1>1, <1>2, NatInduct
<1>4. Len(s) \in Nat /\ DOMAIN s = 1..Len(s)
  OBVIOUS
<1>5. Len(s) \in I
  BY <1>3, <1>4
<1>6. \E b \in Nat : \A i \in 1..Len(s) : s[i] <= b
  BY <1>4, <1>5 DEF I
<1> QED  BY <1>4, <1>6

LEMMA MaxIsGreatest ==
    ASSUME NEW S, S \subseteq Nat, S # {}, NEW b \in Nat, \A x \in S : x <= b
    PROVE  Max(S) \in S /\ \A x \in S : x <= Max(S)
<1> DEFINE U == {u \in Nat : \A x \in S : x <= u}
           m == Min(U)
<1>1. m \in U /\ \A u \in U : m <= u
  <2>1. U \subseteq Nat /\ U # {}
    OBVIOUS
  <2> HIDE DEF U
  <2> QED  BY <2>1, MinIsLeast
<1> HIDE DEF m
<1>2. m \in Nat /\ \A x \in S : x \in Nat /\ x <= m
  BY <1>1
<1>3. m \in S
  <2> SUFFICES ASSUME m \notin S PROVE FALSE
    OBVIOUS
  <2>1. \A x \in S : x < m
    BY <1>2
  <2>2. m # 0
    <3>1. PICK x : x \in S
      OBVIOUS
    <3> QED  BY <1>2, <2>1, <3>1
  <2>3. m - 1 \in U
    BY <1>2, <2>1, <2>2
  <2> QED  BY <1>1, <1>2, <2>3
<1>4. \E x \in S : \A y \in S : x >= y
  BY <1>2, <1>3
<1>5. Max(S) \in S /\ \A y \in S : Max(S) >= y
  BY <1>4 DEF Max
<1> QED  BY <1>2, <1>5

(* Worth is the value, in a base, of the digits of a release.              *)
Horner(s, base, f, n) ==
    f = [k \in 0..n |->
           IF k = 0 THEN 0 ELSE f[k - 1] * base + (IF k \in DOMAIN s THEN s[k] ELSE 0)]

LEMMA HornerExists ==
    ASSUME NEW s, NEW base
    PROVE  \A n \in Nat : \E f : Horner(s, base, f, n)
<1> DEFINE Step(last, k) == last * base + (IF k \in DOMAIN s THEN s[k] ELSE 0)
           I == {n \in Nat : \E f : Horner(s, base, f, n)}
<1>3. \A f, n : Horner(s, base, f, n) <=>
                   f = [k \in 0..n |-> IF k = 0 THEN 0 ELSE Step(f[k - 1], k)]
  BY DEF Horner
<1>1. 0 \in I
  <2>1. Horner(s, base, [k \in 0..0 |-> 0], 0)
    BY DEF Horner
  <2> QED  BY <2>1
<1>2. ASSUME NEW n \in Nat, n \in I PROVE n + 1 \in I
  <2> HIDE DEF Step
  <2>1. PICK f : Horner(s, base, f, n)
    BY <1>2
  <2> DEFINE g == [k \in 0..(n + 1) |-> IF k = n + 1 THEN Step(f[n], n + 1) ELSE f[k]]
  <2>2. ASSUME NEW k \in 0..(n + 1)
        PROVE  g[k] = IF k = 0 THEN 0 ELSE Step(g[k - 1], k)
    <3>1. CASE k = n + 1
      <4>1. k - 1 = n /\ g[n] = f[n] /\ k # 0
        BY <3>1
      <4> QED  BY <3>1, <4>1
    <3>2. CASE k # n + 1
      <4>1. k \in 0..n /\ (k # 0 => k - 1 \in 0..n /\ k - 1 # n + 1 /\ k - 1 \in 0..(n + 1))
        BY <3>2
      <4>2. g[k] = f[k] /\ f[k] = IF k = 0 THEN 0 ELSE Step(f[k - 1], k)
        BY <1>3, <2>1, <3>2, <4>1
      <4>3. k # 0 => g[k - 1] = f[k - 1]
        BY <4>1
      <4> QED  BY <4>2, <4>3
    <3> QED  BY <3>1, <3>2
  <2>3. Horner(s, base, g, n + 1)
    BY <1>3, <2>2
  <2> HIDE DEF g
  <2> QED  BY <2>3
<1> HIDE DEF I
<1>4. Nat \subseteq I
  BY <1>1, <1>2, NatInduct
<1> QED  BY <1>4 DEF I

(* The worth of each prefix of a padded release, from the one before it.   *)
LEMMA WorthUnfolds ==
    ASSUME NEW v \in Version, NEW n \in Nat, NEW base \in Nat
    PROVE  \E f : /\ f[0] = 0 /\ f[n] = Worth(v, n, base)
                  /\ \A k \in 0..(n - 1) :
                        f[k + 1] = f[k] * base + PadTo(v.release, n)[k + 1]
<1> DEFINE s == v.release
           f == CHOOSE g : Horner(s, base, g, n)
<1>1. Worth(v, n, base) = f[n]
  BY DEF Worth, Horner
<1>2. Horner(s, base, f, n)
  <2>1. \E g : Horner(s, base, g, n)
    BY HornerExists
  <2> HIDE DEF s
  <2> QED  BY <2>1
<1> HIDE DEF f, s
<1>3. \A k \in 0..n :
        f[k] = IF k = 0 THEN 0 ELSE f[k - 1] * base + (IF k \in DOMAIN s THEN s[k] ELSE 0)
  BY <1>2 DEF Horner
<1>4. \A k \in 0..(n - 1) : f[k + 1] = f[k] * base + PadTo(s, n)[k + 1]
  <2> TAKE k \in 0..(n - 1)
  <2>1. k + 1 \in 0..n /\ k + 1 # 0 /\ (k + 1) - 1 = k /\ k + 1 \in 1..n
    OBVIOUS
  <2>2. PadTo(s, n)[k + 1] = IF k + 1 \in DOMAIN s THEN s[k + 1] ELSE 0
    BY <2>1 DEF PadTo
  <2>3. f[k + 1] = f[k] * base + (IF k + 1 \in DOMAIN s THEN s[k + 1] ELSE 0)
    BY <1>3, <2>1
  <2> QED  BY <2>2, <2>3
<1>5. f[0] = 0
  BY <1>3
<1> QED  BY <1>1, <1>4, <1>5 DEF s

LEMMA Heavier ==
    ASSUME NEW x \in Nat, NEW y \in Nat, NEW base \in Nat, x < y,
           NEW c \in Nat, NEW d \in Nat, c < base
    PROVE  x * base + c < y * base + d
<1>1. PICK z \in Nat : y = x + 1 + z
  <2>1. y - x - 1 \in Nat /\ y = x + 1 + (y - x - 1)
    OBVIOUS
  <2> QED  BY <2>1
<1>2. y * base = x * base + base + z * base
  BY <1>1
<1>3. x * base \in Nat /\ z * base \in Nat
  OBVIOUS
<1> DEFINE X == x * base
           Z == z * base
<1>4. X \in Nat /\ Z \in Nat
  BY <1>3
<1> HIDE DEF X, Z
<1>5. X + c < X + base + Z + d
  BY <1>4
<1> QED  BY <1>2, <1>5 DEF X, Z

(* Digits below the base are compared like the numbers they write.         *)
LEMMA DigitsCompare ==
    ASSUME NEW n \in Nat, NEW base \in Nat,
           NEW s \in [1..n -> Nat], NEW t \in [1..n -> Nat],
           \A i \in 1..n : s[i] < base /\ t[i] < base,
           NEW f, f[0] = 0, \A k \in 0..(n - 1) : f[k + 1] = f[k] * base + s[k + 1],
           NEW g, g[0] = 0, \A k \in 0..(n - 1) : g[k + 1] = g[k] * base + t[k + 1]
    PROVE  f[n] < g[n] <=> TupleLess(s, t, n)
<1> DEFINE Good(k) == /\ f[k] \in Nat /\ g[k] \in Nat
                      /\ f[k] < g[k] <=> TupleLess(s, t, k)
                      /\ f[k] = g[k] <=> \A i \in 1..k : s[i] = t[i]
           I == {k \in Nat : k <= n => Good(k)}
<1>1. 0 \in I
  BY DEF TupleLess
<1>2. ASSUME NEW k \in Nat, k \in I PROVE k + 1 \in I
  <2> SUFFICES ASSUME k + 1 <= n PROVE Good(k + 1)
    OBVIOUS
  <2> DEFINE x == f[k]
             y == g[k]
             c == s[k + 1]
             d == t[k + 1]
             equal == \A i \in 1..k : s[i] = t[i]
  <2>1. /\ x \in Nat /\ y \in Nat
        /\ x < y <=> TupleLess(s, t, k)
        /\ x = y <=> equal
    BY <1>2
  <2>2. /\ f[k + 1] = x * base + c /\ g[k + 1] = y * base + d
        /\ c \in Nat /\ d \in Nat /\ c < base /\ d < base
    <3>1. k \in 0..(n - 1) /\ k + 1 \in 1..n
      OBVIOUS
    <3> QED  BY <3>1
  <2>3. TupleLess(s, t, k + 1) <=> TupleLess(s, t, k) \/ (equal /\ c < d)
    <3>1. ASSUME TupleLess(s, t, k + 1) PROVE TupleLess(s, t, k) \/ (equal /\ c < d)
      <4>1. PICK i \in 1..(k + 1) : s[i] < t[i] /\ \A j \in 1..(i - 1) : s[j] = t[j]
        BY <3>1 DEF TupleLess
      <4>2. i \in 1..k \/ i = k + 1
        OBVIOUS
      <4> QED  BY <4>1, <4>2 DEF TupleLess
    <3>2. ASSUME TupleLess(s, t, k) PROVE TupleLess(s, t, k + 1)
      BY <3>2 DEF TupleLess
    <3>3. ASSUME equal, c < d PROVE TupleLess(s, t, k + 1)
      <4>1. k + 1 \in 1..(k + 1) /\ (k + 1) - 1 = k
        OBVIOUS
      <4> QED  BY <3>3, <4>1 DEF TupleLess
    <3> QED  BY <3>1, <3>2, <3>3
  <2>4. (\A i \in 1..(k + 1) : s[i] = t[i]) <=> equal /\ c = d
    <3>1. \A i \in 1..(k + 1) : i \in 1..k \/ i = k + 1
      OBVIOUS
    <3>2. k + 1 \in 1..(k + 1) /\ \A i \in 1..k : i \in 1..(k + 1)
      OBVIOUS
    <3> QED  BY <3>1, <3>2
  <2> DEFINE X == x * base + c
             Y == y * base + d
  <2>5. X \in Nat /\ Y \in Nat
    <3>1. \A a, b, e \in Nat : a * b + e \in Nat
      OBVIOUS
    <3> HIDE DEF x, y, c, d
    <3> QED  BY <2>1, <2>2, <3>1
  <2>6. x < y => X < Y
    BY <2>1, <2>2, Heavier
  <2>7. y < x => Y < X
    BY <2>1, <2>2, Heavier
  <2>8. x = y => (X < Y <=> c < d) /\ (X = Y <=> c = d)
    <3> SUFFICES ASSUME x = y PROVE (X < Y <=> c < d) /\ (X = Y <=> c = d)
      OBVIOUS
    <3> DEFINE P == x * base
    <3>1. P \in Nat /\ X = P + c /\ Y = P + d
      BY <2>1
    <3> HIDE DEF P, X, Y, x, y, c, d
    <3> QED  BY <2>2, <3>1
  <2> HIDE DEF X, Y, x, y, c, d, equal
  <2>9. X < Y <=> x < y \/ (x = y /\ c < d)
    BY <2>1, <2>2, <2>5, <2>6, <2>7, <2>8
  <2>10. X = Y <=> x = y /\ c = d
    BY <2>1, <2>2, <2>5, <2>6, <2>7, <2>8
  <2>11. f[k + 1] = X /\ g[k + 1] = Y
    BY <2>2 DEF X, Y
  <2> QED  BY <2>1, <2>3, <2>4, <2>5, <2>9, <2>10, <2>11
<1> HIDE DEF I, Good
<1>3. Nat \subseteq I
  BY <1>1, <1>2, NatInduct
<1>4. Good(n)
  BY <1>3 DEF I
<1> QED  BY <1>4 DEF Good

LEMMA NumericIsWorth ==
    ASSUME NEW v \in Version, NEW w \in Version
    PROVE  /\ NumericLess(v.release, w.release) <=> WorthLess(v, w)
           /\ WorthLess(v, w) \in BOOLEAN
<1> DEFINE s == v.release
           t == w.release
           n == Longer(s, t)
           S == Segments(v) \cup Segments(w)
           base == 1 + Max(S)
<1>1. s \in Seq(Nat) /\ t \in Seq(Nat) /\ s # <<>> /\ n \in Nat
  BY DEF Version, Longer
<1>2. Max(S) \in Nat /\ \A x \in S : x <= Max(S)
  <2>1. PICK b \in Nat : \A i \in DOMAIN s : s[i] <= b
    BY <1>1, SeqIsBounded
  <2>2. PICK c \in Nat : \A i \in DOMAIN t : t[i] <= c
    BY <1>1, SeqIsBounded
  <2>3. /\ \A i \in DOMAIN s : s[i] \in Nat /\ s[i] <= b + c
        /\ \A i \in DOMAIN t : t[i] \in Nat /\ t[i] <= b + c
    BY <1>1, <2>1, <2>2
  <2>4. S \subseteq Nat /\ \A x \in S : x <= b + c
    BY <2>3 DEF Segments
  <2>5. S # {}
    <3>1. 1 \in DOMAIN s
      BY <1>1
    <3> QED  BY <3>1 DEF Segments
  <2>6. b + c \in Nat
    OBVIOUS
  <2> HIDE DEF S
  <2> QED  BY <2>4, <2>5, <2>6, MaxIsGreatest
<1> HIDE DEF n
<1>3. base \in Nat
  BY <1>2
<1>4. PadTo(s, n) \in [1..n -> Nat] /\ PadTo(t, n) \in [1..n -> Nat]
  BY <1>1, PadType
<1>5. \A i \in 1..n : PadTo(s, n)[i] < base /\ PadTo(t, n)[i] < base
  <2> TAKE i \in 1..n
  <2>1. PadTo(s, n)[i] \in S \cup {0} /\ PadTo(t, n)[i] \in S \cup {0}
    BY DEF PadTo, Segments
  <2>2. \A x \in S \cup {0} : x \in Nat => x < base
    BY <1>2
  <2> HIDE DEF S, base
  <2> QED  BY <1>4, <2>1, <2>2
<1> HIDE DEF S, base
<1>6. PICK f : /\ f[0] = 0 /\ f[n] = Worth(v, n, base)
               /\ \A k \in 0..(n - 1) : f[k + 1] = f[k] * base + PadTo(s, n)[k + 1]
  BY <1>1, <1>3, WorthUnfolds
<1>7. PICK g : /\ g[0] = 0 /\ g[n] = Worth(w, n, base)
               /\ \A k \in 0..(n - 1) : g[k + 1] = g[k] * base + PadTo(t, n)[k + 1]
  BY <1>1, <1>3, WorthUnfolds
<1>8. f[n] < g[n] <=> TupleLess(PadTo(s, n), PadTo(t, n), n)
  <2> DEFINE ps == PadTo(s, n)
             pt == PadTo(t, n)
  <2>1. ps \in [1..n -> Nat] /\ pt \in [1..n -> Nat] /\ \A i \in 1..n : ps[i] < base /\ pt[i] < base
    BY <1>4, <1>5
  <2>2. /\ f[0] = 0 /\ \A k \in 0..(n - 1) : f[k + 1] = f[k] * base + ps[k + 1]
        /\ g[0] = 0 /\ \A k \in 0..(n - 1) : g[k + 1] = g[k] * base + pt[k + 1]
    BY <1>6, <1>7
  <2> HIDE DEF ps, pt
  <2>3. f[n] < g[n] <=> TupleLess(ps, pt, n)
    BY <1>1, <1>3, <2>1, <2>2, DigitsCompare
  <2> QED  BY <2>3 DEF ps, pt
<1>9. WorthLess(v, w) = (f[n] < g[n])
  BY <1>6, <1>7 DEF WorthLess, n, S, base
<1>10. NumericLess(s, t) <=> TupleLess(PadTo(s, n), PadTo(t, n), n)
  BY DEF NumericLess, n
<1>11. WorthLess(v, w) \in BOOLEAN
  BY DEF WorthLess
<1> QED  BY <1>8, <1>9, <1>10, <1>11

(* A version is reported as outdated exactly if it is worth less than the  *)
(* latest one, its segments read as the digits of a number; with no latest *)
(* version, or the declared one, nothing is outdated.                      *)
THEOREM OutdatedMeansWorthLess == Spec => []OutdatedIsWorthLess
<1>1. Inv => OutdatedIsWorthLess
  <2> SUFFICES ASSUME Inv, NEW x \in DOMAIN findings
               PROVE  LET f == findings[x]
                      IN  IF f.latest_version \in {None, f.declared_version} THEN ~f.is_outdated
                          ELSE IsNumeric(f.declared_version) /\ IsNumeric(f.latest_version) =>
                                  f.is_outdated = WorthLess(f.declared_version, f.latest_version)
    BY DEF OutdatedIsWorthLess, ToSet
  <2> DEFINE f == findings[x]
             pin == f.declared_version
             latest == f.latest_version
  <2>1. pin \in Version /\ latest \in Version \cup {None} /\ f.is_outdated \in BOOLEAN
    <3>1. f \in Result
      BY DEF Inv, Types
    <3> QED  BY <3>1 DEF Result
  <2>2. f.is_outdated <=> latest # None /\ is_outdated(pin, latest)
    BY DEF Inv, FindingsOK, FindingOK
  <2> HIDE DEF f
  <2>3. latest \in {None, pin} => ~f.is_outdated
    BY <2>1, <2>2, OutdatedOrder
  <2>4. ASSUME latest \notin {None, pin}, IsNumeric(pin), IsNumeric(latest)
        PROVE  f.is_outdated = WorthLess(pin, latest)
    <3>1. f.is_outdated <=> NumericLess(pin.release, latest.release)
      BY <2>2, <2>4 DEF is_outdated
    <3>2. latest \in Version
      BY <2>1, <2>4
    <3>3. /\ NumericLess(pin.release, latest.release) <=> WorthLess(pin, latest)
          /\ WorthLess(pin, latest) \in BOOLEAN
      BY <2>1, <3>2, NumericIsWorth
    <3> QED  BY <2>1, <3>1, <3>3
  <2> QED  BY <2>3, <2>4 DEF f
<1> QED  BY <1>1, Invariance, PTL
=============================================================================
