--------------------------- MODULE ByteCountProofs ---------------------------
(***************************************************************************)
(* What counting bytes has of a sum: the total of nothing, of one more, of   *)
(* two parts, of what is in another order, and along a sequence.             *)
(***************************************************************************)
EXTENDS ByteCount, Integers, Sequences, FiniteSetTheorems, TLAPS

(* A byte is within the length of what it belongs to. *)
LEMMA ByteOf ==
  ASSUME NEW f
  PROVE  \A b : b \in ByteSet(f) <=>
           \E x \in DOMAIN f : \E i \in 1 .. f[x] : b = <<x, i>>
BY DEF ByteSet

(* The bytes of finitely many things are finitely many. *)
LEMMA TotalType ==
  ASSUME NEW D, IsFiniteSet(D), NEW f \in [D -> Nat]
  PROVE  IsFiniteSet(ByteSet(f)) /\ Total(f) \in Nat
<1> DEFINE part == [x \in D |-> {x} \X (1 .. f[x])]
           parts == {{x} \X (1 .. f[x]) : x \in D}
<1>1. part \in Surjection(D, parts)
  <2>1. part \in [D -> parts]
    OBVIOUS
  <2>2. \A S \in parts : \E x \in D : part[x] = S
    OBVIOUS
  <2> HIDE DEF part, parts
  <2> QED
    BY <2>1, <2>2 DEF Surjection
<1>2. IsFiniteSet(parts)
  <2> HIDE DEF part, parts
  <2> QED
    BY <1>1, FS_Surjection
<1>3. ASSUME NEW S \in parts PROVE IsFiniteSet(S)
  <2>1. PICK x \in D : S = {x} \X (1 .. f[x])
    OBVIOUS
  <2>2. f[x] \in Int /\ 1 \in Int
    OBVIOUS
  <2>3. IsFiniteSet(1 .. f[x])
    BY <2>2, FS_Interval
  <2>4. IsFiniteSet({x})
    BY FS_Singleton
  <2> QED
    BY <2>1, <2>3, <2>4, FS_Product
<1>4. IsFiniteSet(UNION parts)
  <2> HIDE DEF parts
  <2> QED
    BY <1>2, <1>3, FS_UNION
<1>5. ByteSet(f) = UNION parts
  BY DEF ByteSet
<1> HIDE DEF parts
<1>6. IsFiniteSet(ByteSet(f))
  BY <1>4, <1>5
<1> QED
  BY <1>6, FS_CardinalityType DEF Total

(* Nothing has no bytes. *)
LEMMA TotalEmpty ==
  ASSUME NEW f, DOMAIN f = {}
  PROVE  Total(f) = 0
<1>1. ByteSet(f) = {}
  BY DEF ByteSet
<1> QED
  BY <1>1, FS_EmptySet DEF Total

(* One thing has the bytes of its length. *)
LEMMA TotalOne ==
  ASSUME NEW x, NEW f \in [{x} -> Nat]
  PROVE  Total(f) = f[x]
<1>1. ByteSet(f) = {x} \X (1 .. f[x])
  BY DEF ByteSet
<1>2. f[x] \in Nat
  OBVIOUS
<1>3. /\ IsFiniteSet(1 .. f[x]) /\ Cardinality(1 .. f[x]) = f[x]
      /\ IsFiniteSet({x}) /\ Cardinality({x}) = 1
  <2>1. \A n \in Nat : IsFiniteSet(1 .. n) /\ Cardinality(1 .. n) = n
    <3> SUFFICES ASSUME NEW n \in Nat PROVE IsFiniteSet(1 .. n) /\ Cardinality(1 .. n) = n
      OBVIOUS
    <3>1. IsFiniteSet(1 .. n) /\ Cardinality(1 .. n) = IF 1 > n THEN 0 ELSE n - 1 + 1
      BY FS_Interval
    <3> QED
      BY <3>1
  <2> QED
    BY <1>2, <2>1, FS_Singleton
<1>4. Cardinality({x} \X (1 .. f[x])) = Cardinality({x}) * Cardinality(1 .. f[x])
  BY <1>3, FS_Product
<1>5. Cardinality({x} \X (1 .. f[x])) = f[x]
  BY <1>2, <1>3, <1>4
<1> QED
  BY <1>1, <1>5 DEF Total

(* Two parts have the bytes of the one and of the other. *)
LEMMA TotalUnion ==
  ASSUME NEW D, IsFiniteSet(D), NEW E, IsFiniteSet(E), D \cap E = {},
         NEW f \in [D \cup E -> Nat], NEW g \in [D -> Nat], NEW h \in [E -> Nat],
         \A x \in D : f[x] = g[x], \A x \in E : f[x] = h[x]
  PROVE  Total(f) = Total(g) + Total(h)
<1>1. ByteSet(f) = ByteSet(g) \cup ByteSet(h)
  <2>1. ASSUME NEW b PROVE b \in ByteSet(f) <=> b \in ByteSet(g) \cup ByteSet(h)
    <3>1. DOMAIN f = D \cup E /\ DOMAIN g = D /\ DOMAIN h = E
      OBVIOUS
    <3>2. b \in ByteSet(f) <=> \E x \in D \cup E : \E i \in 1 .. f[x] : b = <<x, i>>
      BY <3>1, ByteOf
    <3>3. b \in ByteSet(g) <=> \E x \in D : \E i \in 1 .. g[x] : b = <<x, i>>
      BY <3>1, ByteOf
    <3>4. b \in ByteSet(h) <=> \E x \in E : \E i \in 1 .. h[x] : b = <<x, i>>
      BY <3>1, ByteOf
    <3> QED
      BY <3>2, <3>3, <3>4
  <2> QED
    BY <2>1
<1>2. ByteSet(g) \cap ByteSet(h) = {}
  BY ByteOf
<1>3. /\ IsFiniteSet(ByteSet(g)) /\ IsFiniteSet(ByteSet(h))
      /\ Cardinality(ByteSet(g)) \in Nat /\ Cardinality(ByteSet(h)) \in Nat
  BY TotalType DEF Total
<1>4. Cardinality(ByteSet(g) \cap ByteSet(h)) = 0
  BY <1>2, FS_EmptySet
<1>5. Cardinality(ByteSet(f)) =
        Cardinality(ByteSet(g)) + Cardinality(ByteSet(h)) - 0
  BY <1>1, <1>3, <1>4, FS_Union
<1> QED
  BY <1>3, <1>5 DEF Total

(* One thing more adds its length. *)
LEMMA TotalAdd ==
  ASSUME NEW D, IsFiniteSet(D), NEW y, y \notin D,
         NEW f \in [D \cup {y} -> Nat], NEW g \in [D -> Nat],
         \A x \in D : f[x] = g[x]
  PROVE  Total(f) = Total(g) + f[y]
<1> DEFINE h == [x \in {y} |-> f[x]]
<1>1. h \in [{y} -> Nat] /\ h[y] = f[y] /\ IsFiniteSet({y}) /\ D \cap {y} = {}
  BY FS_Singleton
<1>2. Total(h) = f[y]
  <2> HIDE DEF h
  <2> QED BY <1>1, TotalOne
<1>3. \A x \in {y} : f[x] = h[x]
  OBVIOUS
<1> HIDE DEF h
<1>4. Total(f) = Total(g) + Total(h)
  BY <1>1, <1>3, TotalUnion
<1> QED
  BY <1>2, <1>4

(* What is only a part has not more bytes. *)
LEMMA TotalPart ==
  ASSUME NEW D, IsFiniteSet(D), NEW P \in SUBSET D,
         NEW f \in [D -> Nat], NEW g \in [P -> Nat],
         \A x \in P : g[x] = f[x]
  PROVE  Total(g) <= Total(f)
<1>1. IsFiniteSet(ByteSet(f))
  BY TotalType
<1>2. ByteSet(g) \subseteq ByteSet(f)
  BY ByteOf
<1> QED
  BY <1>1, <1>2, FS_Subset DEF Total

(* The total does not depend on what the things are called. *)
LEMMA TotalRenamed ==
  ASSUME NEW D, IsFiniteSet(D), NEW E, NEW b \in Bijection(D, E),
         NEW f \in [D -> Nat], NEW g \in [E -> Nat], \A x \in D : g[b[x]] = f[x]
  PROVE  Total(g) = Total(f)
<1> DEFINE move == [p \in ByteSet(f) |-> <<b[p[1]], p[2]>>]
<1>0. /\ b \in [D -> E] /\ \A y \in E : \E x \in D : b[x] = y
      /\ \A x, y \in D : b[x] = b[y] => x = y
  BY DEF Bijection, Injection, Surjection, IsInjective
<1>1. ASSUME NEW p \in ByteSet(f)
      PROVE  p[1] \in D /\ p[2] \in 1 .. f[p[1]] /\ p = <<p[1], p[2]>>
  <2>1. PICK x \in D : \E i \in 1 .. f[x] : p = <<x, i>>
    BY ByteOf
  <2> QED
    BY <2>1
<1>2. move \in [ByteSet(f) -> ByteSet(g)]
  <2> SUFFICES ASSUME NEW p \in ByteSet(f) PROVE <<b[p[1]], p[2]>> \in ByteSet(g)
    OBVIOUS
  <2>1. b[p[1]] \in DOMAIN g /\ p[2] \in 1 .. g[b[p[1]]]
    BY <1>0, <1>1
  <2> QED
    BY <2>1, ByteOf
<1>3. ASSUME NEW p \in ByteSet(f), NEW q \in ByteSet(f), move[p] = move[q]
      PROVE  p = q
  <2>1. b[p[1]] = b[q[1]] /\ p[2] = q[2]
    BY <1>3
  <2> QED
    BY <1>0, <1>1, <2>1
<1>4. ASSUME NEW q \in ByteSet(g)
      PROVE  \E p \in ByteSet(f) : move[p] = q
  <2>1. PICK y \in E : \E i \in 1 .. g[y] : q = <<y, i>>
    BY ByteOf
  <2>2. PICK i \in 1 .. g[y] : q = <<y, i>>
    BY <2>1
  <2>3. PICK x \in D : b[x] = y
    BY <1>0
  <2>4. <<x, i>> \in ByteSet(f)
    BY <2>3, <2>2, ByteOf
  <2>5. move[<<x, i>>] = q
    BY <2>3, <2>4, <2>2
  <2> QED
    BY <2>4, <2>5
<1>5. move \in Bijection(ByteSet(f), ByteSet(g))
  <2> HIDE DEF move
  <2> QED
    BY <1>2, <1>3, <1>4 DEF Bijection, Injection, Surjection, IsInjective
<1>6. ExistsBijection(ByteSet(f), ByteSet(g))
  <2> HIDE DEF move
  <2> QED
    BY <1>5 DEF ExistsBijection
<1>7. IsFiniteSet(ByteSet(f))
  BY TotalType
<1> QED
  BY <1>6, <1>7, FS_Bijection DEF Total

-----------------------------------------------------------------------------
(* The total along a sequence of things of a set X with lengths.            *)

Along(S, length) == Total([i \in 1 .. Len(S) |-> length[S[i]]])

LEMMA AlongType ==
  ASSUME NEW X, NEW length \in [X -> Nat], NEW S \in Seq(X)
  PROVE  Along(S, length) \in Nat
<1> DEFINE f == [i \in 1 .. Len(S) |-> length[S[i]]]
<1>1. f \in [1 .. Len(S) -> Nat] /\ Len(S) \in Int /\ 1 \in Int
  OBVIOUS
<1>2. IsFiniteSet(1 .. Len(S))
  BY <1>1, FS_Interval
<1> HIDE DEF f
<1>3. Total(f) \in Nat
  BY <1>1, <1>2, TotalType
<1> QED
  BY <1>3 DEF Along, f

LEMMA AlongEmpty ==
  ASSUME NEW length
  PROVE  Along(<<>>, length) = 0
<1> DEFINE f == [i \in 1 .. Len(<<>>) |-> length[<<>>[i]]]
<1>1. DOMAIN f = {}
  OBVIOUS
<1> HIDE DEF f
<1>2. Total(f) = 0
  BY <1>1, TotalEmpty
<1> QED
  BY <1>2 DEF Along, f

LEMMA AlongAppend ==
  ASSUME NEW X, NEW length \in [X -> Nat], NEW S \in Seq(X), NEW x \in X
  PROVE  Along(Append(S, x), length) = Along(S, length) + length[x]
<1> DEFINE n == Len(S)
           f == [i \in 1 .. n |-> length[S[i]]]
           g == [i \in 1 .. n + 1 |-> length[Append(S, x)[i]]]
<1>1. n \in Nat /\ Len(Append(S, x)) = n + 1
  OBVIOUS
<1>2. /\ f \in [1 .. n -> Nat]
      /\ g \in [1 .. n + 1 -> Nat] /\ 1 .. n + 1 = (1 .. n) \cup {n + 1}
      /\ n + 1 \notin 1 .. n
  OBVIOUS
<1>3. \A i \in 1 .. n : g[i] = f[i]
  OBVIOUS
<1>4. g[n + 1] = length[x]
  OBVIOUS
<1>5. IsFiniteSet(1 .. n)
  BY <1>1, FS_Interval
<1>6. Total(g) = Total(f) + g[n + 1]
  <2> DEFINE D == 1 .. n
             y == n + 1
  <2>1. /\ IsFiniteSet(D) /\ y \notin D /\ f \in [D -> Nat]
        /\ \A i \in D : g[i] = f[i]
    BY <1>2, <1>3, <1>5
  <2>2. g \in [D \cup {y} -> Nat]
    <3>1. D \cup {y} = 1 .. n + 1
      BY <1>2
    <3> HIDE DEF D, y, g, n
    <3> QED
      BY <1>2, <3>1
  <2> HIDE DEF f, g, D, y
  <2>3. Total(g) = Total(f) + g[y]
    BY <2>1, <2>2, TotalAdd
  <2> QED
    BY <2>3 DEF y
<1> HIDE DEF f, g, n
<1> QED
  BY <1>1, <1>4, <1>6 DEF Along, f, g, n

LEMMA AlongConcat ==
  ASSUME NEW X, NEW length, NEW S, NEW R,
         length \in [X -> Nat], S \in Seq(X), R \in Seq(X)
  PROVE  Along(S \o R, length) = Along(S, length) + Along(R, length)
<1> DEFINE m == Len(S)
           n == Len(R)
           f == [i \in 1 .. m |-> length[S[i]]]
           g == [i \in 1 .. n |-> length[R[i]]]
           all == [i \in 1 .. m + n |-> length[(S \o R)[i]]]
           shift == [i \in 1 .. n |-> m + i]
           D == 1 .. m
           C == 1 .. n
           E == m + 1 .. m + n
<1>1. m \in Nat /\ n \in Nat /\ Len(S \o R) = m + n
  OBVIOUS
<1>2. f \in [D -> Nat] /\ g \in [C -> Nat]
  OBVIOUS
<1>3. all \in [1 .. m + n -> Nat]
  OBVIOUS
<1>4. \A i \in D : all[i] = f[i]
  OBVIOUS
<1>5. \A i \in 1 .. n : all[m + i] = g[i]
  OBVIOUS
<1>6. /\ Along(S, length) = Total(f) /\ Along(R, length) = Total(g)
      /\ Along(S \o R, length) = Total(all)
  BY <1>1 DEF Along
<1> HIDE DEF f, g, all, m, n
<1>7. /\ D \cup E = 1 .. m + n /\ D \cap E = {}
      /\ \A i \in C : m + i \in E
      /\ \A j \in E : j - m \in C /\ m + (j - m) = j
      /\ \A i, k \in C : m + i = m + k => i = k
  BY <1>1
<1>8. IsFiniteSet(D) /\ IsFiniteSet(C) /\ IsFiniteSet(E)
  <2>1. 1 \in Int /\ m \in Int /\ n \in Int /\ m + 1 \in Int /\ m + n \in Int
    BY <1>1
  <2> QED
    BY ONLY <2>1, FS_Interval
<1>9. all \in [D \cup E -> Nat] /\ \A i \in C : all[shift[i]] = g[i]
  <2>1. \A i \in C : all[shift[i]] = g[i]
    BY <1>5
  <2>2. all \in [D \cup E -> Nat]
    <3> HIDE DEF D, E
    <3> QED BY <1>7, <1>3
  <2> QED
    BY <2>1, <2>2
<1> HIDE DEF E
<1>10. shift \in Bijection(C, E)
  <2>1. shift \in [C -> E]
    BY <1>7
  <2>2. \A i, k \in C : shift[i] = shift[k] => i = k
    BY <1>7
  <2>3. \A j \in E : \E i \in C : shift[i] = j
    BY <1>7
  <2> HIDE DEF shift, C
  <2> QED
    BY <2>1, <2>2, <2>3 DEF Bijection, Injection, Surjection, IsInjective
<1>11. D \cap E = {}
  BY <1>7
<1> HIDE DEF D, C, shift
<1> DEFINE h == [j \in E |-> all[j]]
<1>12. h \in [E -> Nat] /\ \A j \in E : all[j] = h[j]
  BY <1>9
<1>13. \A i \in C : h[shift[i]] = g[i]
  BY <1>9, <1>10 DEF Bijection, Injection
<1> HIDE DEF h
<1>14. Total(h) = Total(g)
  BY ONLY <1>2, <1>8, <1>10, <1>12, <1>13, TotalRenamed
<1>15. Total(all) = Total(f) + Total(h)
  BY ONLY <1>2, <1>4, <1>8, <1>9, <1>11, <1>12, TotalUnion
<1> QED
  BY <1>6, <1>14, <1>15

(* The first and the others. *)
LEMMA AlongTail ==
  ASSUME NEW X, NEW length \in [X -> Nat], NEW S \in Seq(X), S # <<>>
  PROVE  Along(S, length) = length[Head(S)] + Along(Tail(S), length)
<1>1. /\ Head(S) \in X /\ Tail(S) \in Seq(X) /\ S = Append(<<>>, Head(S)) \o Tail(S)
      /\ <<>> \in Seq(X) /\ Append(<<>>, Head(S)) \in Seq(X)
  OBVIOUS
<1> DEFINE first == Append(<<>>, Head(S))
           rest == Tail(S)
<1>2. Along(first, length) = 0 + length[Head(S)]
  BY <1>1, AlongAppend, AlongEmpty
<1>3. length[Head(S)] \in Nat
  BY <1>1
<1>4. first \in Seq(X) /\ rest \in Seq(X) /\ S = first \o rest
  BY <1>1
<1> HIDE DEF first, rest
<1>5. Along(first \o rest, length) = Along(first, length) + Along(rest, length)
  BY <1>4, AlongConcat
<1>6. Along(S, length) = (0 + length[Head(S)]) + Along(rest, length)
  BY <1>2, <1>4, <1>5 DEF first
<1> QED
  BY <1>3, <1>6 DEF rest

=============================================================================
