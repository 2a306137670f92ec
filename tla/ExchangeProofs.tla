---------------------------- MODULE ExchangeProofs ----------------------------
(***************************************************************************)
(* Theorems about Exchange, and about the operators of Serde it is built   *)
(* from: what is marshalled is unmarshalled, for every size of a byte and  *)
(* every argument, result and tree that fits its type.                     *)
(*                                                                         *)
(* What is recursive - integers of n bytes, lists, trees - is proved by    *)
(* looking at a least counterexample (NatLeast, TreesAssumption).          *)
(***************************************************************************)
EXTENDS Exchange, TLAPS, WellFoundedInduction, SequenceTheorems

-----------------------------------------------------------------------------
(* Natural numbers *)

(* A non-empty set of natural numbers has a least one.                     *)
LEMMA NatLeast ==
  ASSUME NEW T \in SUBSET Nat, T # {}
  PROVE  \E n \in T : \A m \in T : n <= m
<1>1. PICK n \in T : \A m \in T : <<m, n>> \notin OpToRel(<, Nat)
  BY NatLessThanWellFounded, WFMin, Zenon
<1>2. \A m \in T : ~ (m < n)
  BY <1>1, Zenon DEF OpToRel
<1> QED
  BY <1>2

(* Induction, for a set in place of a predicate.                           *)
LEMMA NatSteps ==
  ASSUME NEW T, 0 \in T, \A n \in Nat : n \in T => n + 1 \in T
  PROVE  \A n \in Nat : n \in T
<1> SUFFICES ASSUME Nat \ T # {} PROVE FALSE
  OBVIOUS
<1>1. PICK n \in Nat \ T : \A m \in Nat \ T : n <= m
  BY NatLeast
<1>2. n # 0 /\ n - 1 \in Nat
  BY <1>1
<1>3. n - 1 \in T
  BY <1>1, <1>2
<1> QED
  BY <1>1, <1>2, <1>3

(* A function on the natural numbers is defined by its value at 0 and a    *)
(* step, and there is only one such function on each 0..n.                 *)
Iterates(f, a, F, N) == \A k \in N : f[k] = IF k = 0 THEN a ELSE F[<<k, f[k - 1]>>]

LEMMA IterationUnique ==
  ASSUME NEW a, NEW F, NEW m \in Nat, NEW f, NEW g,
         Iterates(f, a, F, 0..m), Iterates(g, a, F, 0..m)
  PROVE  \A k \in 0..m : f[k] = g[k]
<1> DEFINE T == {k \in 0..m : f[k] # g[k]}
<1> SUFFICES ASSUME T # {} PROVE FALSE
  OBVIOUS
<1>1. PICK n \in T : \A k \in T : n <= k
  <2> T \in SUBSET Nat
    OBVIOUS
  <2> HIDE DEF T
  <2> QED BY NatLeast
<1>2. n # 0 /\ n - 1 \in 0..m
  <2>1. f[0] = g[0]
    <3>1. 0 \in 0..m
      OBVIOUS
    <3>2. f[0] = a /\ g[0] = a
      BY <3>1, Zenon DEF Iterates
    <3> QED BY <3>2
  <2> QED BY <1>1, <2>1
<1>3. f[n - 1] = g[n - 1]
  BY <1>1, <1>2
<1>4. f[n] = F[<<n, f[n - 1]>>] /\ g[n] = F[<<n, g[n - 1]>>]
  BY <1>2 DEF Iterates
<1> QED
  BY <1>1, <1>3, <1>4

LEMMA IterationOnNat ==
  ASSUME NEW V, NEW a \in V, NEW F \in [Nat \X V -> V]
  PROVE  \E f \in [Nat -> V] : Iterates(f, a, F, Nat)
<1> DEFINE IsIter(m, f) == Iterates(f, a, F, 0..m)
           T == {m \in Nat : \E f \in [0..m -> V] : IsIter(m, f)}
           it(m) == CHOOSE f \in [0..m -> V] : IsIter(m, f)
<1>1. 0 \in T
  <2>1. [k \in 0..0 |-> a] \in [0..0 -> V] /\ IsIter(0, [k \in 0..0 |-> a])
    BY DEF Iterates
  <2> QED
    BY <2>1
<1>2. ASSUME NEW m \in Nat, m \in T PROVE m + 1 \in T
  <2>1. PICK f \in [0..m -> V] : IsIter(m, f)
    BY <1>2
  <2> DEFINE g == [k \in 0..(m + 1) |-> IF k = m + 1 THEN F[<<m + 1, f[m]>>] ELSE f[k]]
  <2>2. g \in [0..(m + 1) -> V]
    OBVIOUS
  <2>3. \A k \in 0..m : g[k] = f[k]
    OBVIOUS
  <2>4. g[m + 1] = F[<<m + 1, f[m]>>]
    OBVIOUS
  <2> HIDE DEF g
  <2>5. ASSUME NEW k \in 0..m
        PROVE  g[k] = IF k = 0 THEN a ELSE F[<<k, g[k - 1]>>]
    <3>1. f[k] = IF k = 0 THEN a ELSE F[<<k, f[k - 1]>>]
      BY <2>1 DEF Iterates
    <3>2. k # 0 => k - 1 \in 0..m
      OBVIOUS
    <3> QED BY <2>3, <3>1, <3>2
  <2>6. (m + 1) - 1 = m /\ m + 1 # 0 /\ m \in 0..m
    OBVIOUS
  <2>7. g[m + 1] = F[<<m + 1, g[(m + 1) - 1]>>]
    BY <2>3, <2>4, <2>6
  <2>8. \A k \in 0..(m + 1) : k \in 0..m \/ k = m + 1
    OBVIOUS
  <2>9. IsIter(m + 1, g)
    BY <2>5, <2>6, <2>7, <2>8 DEF Iterates
  <2> QED
    BY <2>2, <2>9
<1>3. \A m \in Nat : it(m) \in [0..m -> V] /\ IsIter(m, it(m))
  <2> HIDE DEF T
  <2>1. \A m \in Nat : m \in T
    BY <1>1, <1>2, NatSteps
  <2> QED BY <2>1, Zenon DEF T
<1> DEFINE f == [k \in Nat |-> it(k)[k]]
<1>4. f \in [Nat -> V]
  <2> HIDE DEF it, IsIter
  <2>1. ASSUME NEW k \in Nat PROVE it(k)[k] \in V
    BY <1>3
  <2> QED BY <2>1
<1>5. ASSUME NEW k \in Nat, k # 0 PROVE it(k - 1)[k - 1] = it(k)[k - 1]
  <2> HIDE DEF it
  <2>1. k - 1 \in Nat
    BY <1>5
  <2>2. IsIter(k - 1, it(k - 1)) /\ IsIter(k, it(k))
    BY <1>3, <2>1
  <2>3. IsIter(k - 1, it(k))
    BY <2>1, <2>2 DEF Iterates
  <2>4. \A j \in 0..(k - 1) : it(k - 1)[j] = it(k)[j]
    <3>1. \A g, h : IsIter(k - 1, g) /\ IsIter(k - 1, h) =>
                    \A j \in 0..(k - 1) : g[j] = h[j]
      BY <2>1, IterationUnique
    <3> HIDE DEF IsIter
    <3> QED BY <2>2, <2>3, <3>1
  <2> QED BY <2>1, <2>4
<1>6. ASSUME NEW k \in Nat PROVE f[k] = IF k = 0 THEN a ELSE F[<<k, f[k - 1]>>]
  <2> HIDE DEF it
  <2>1. f[k] = it(k)[k]
    OBVIOUS
  <2>2. k # 0 => f[k - 1] = it(k)[k - 1]
    BY <1>5
  <2>3. it(k)[k] = IF k = 0 THEN a ELSE F[<<k, it(k)[k - 1]>>]
    BY <1>3 DEF Iterates
  <2> QED BY <2>1, <2>2, <2>3
<1>7. Iterates(f, a, F, Nat)
  <2> HIDE DEF f
  <2> QED BY <1>6 DEF Iterates
<1> QED
  BY <1>4, <1>7

LEMMA Iteration ==
  ASSUME NEW V, NEW a \in V, NEW F \in [Nat \X V -> V], NEW n \in Nat
  PROVE  \E f \in [0..n -> V] : Iterates(f, a, F, 0..n)
<1>1. PICK g \in [Nat -> V] : Iterates(g, a, F, Nat)
  BY IterationOnNat, Zenon
<1> DEFINE f == [k \in 0..n |-> g[k]]
<1>2. f \in [0..n -> V]
  OBVIOUS
<1>3. \A k \in 0..n : f[k] = IF k = 0 THEN a ELSE F[<<k, f[k - 1]>>]
  <2>1. \A k \in 0..n : g[k] = IF k = 0 THEN a ELSE F[<<k, g[k - 1]>>]
    BY <1>1 DEF Iterates
  <2>2. \A k \in 0..n : k # 0 => k - 1 \in 0..n
    OBVIOUS
  <2> QED BY <2>1, <2>2
<1> HIDE DEF f
<1> QED
  BY <1>2, <1>3 DEF Iterates

-----------------------------------------------------------------------------
(* Integers in memory *)

(* Scale satisfies its recursive definition.                               *)
LEMMA ScaleDef ==
  /\ Scale \in [Nat -> Nat \ {0}]
  /\ Scale[0] = 1
  /\ \A n \in Nat : Scale[n + 1] = BASE * Scale[n]
<1> DEFINE V == Nat \ {0}
           F == [p \in Nat \X V |-> BASE * p[2]]
           IsScale(f) == f = [n \in Nat |-> IF n = 0 THEN 1 ELSE BASE * f[n - 1]]
<1>1. F \in [Nat \X V -> V]
  <2>1. ASSUME NEW v \in V PROVE BASE * v \in V
    BY SerdeAssumption
  <2> QED BY <2>1
<1>2. PICK f \in [Nat -> V] : Iterates(f, 1, F, Nat)
  <2> HIDE DEF F
  <2>1. 1 \in V
    OBVIOUS
  <2> HIDE DEF V
  <2> QED BY <1>1, <2>1, IterationOnNat, Zenon
<1>3. \A k \in Nat : k # 0 => F[<<k, f[k - 1]>>] = BASE * f[k - 1]
  OBVIOUS
<1>4. IsScale(f)
  <2>1. \A k \in Nat : f[k] = IF k = 0 THEN 1 ELSE BASE * f[k - 1]
    BY <1>2, <1>3 DEF Iterates
  <2> QED BY <2>1
<1>5. IsScale(Scale)
  BY <1>4, Zenon DEF Scale
<1>6. \A k \in Nat : Scale[k] = IF k = 0 THEN 1 ELSE BASE * Scale[k - 1]
  BY <1>5
<1>7. Scale[0] = 1 /\ \A n \in Nat : Scale[n + 1] = BASE * Scale[n]
  BY <1>6
<1>8. \A k \in Nat : Scale[k] \in V
  <2> DEFINE T == {k \in Nat : Scale[k] \in V}
  <2>1. 0 \in T
    BY <1>7
  <2>2. \A n \in Nat : n \in T => n + 1 \in T
    <3>1. ASSUME NEW v \in V PROVE BASE * v \in V
      BY SerdeAssumption
    <3> QED BY <1>7, <3>1
  <2>3. \A n \in Nat : n \in T
    <3> HIDE DEF T
    <3> QED BY <2>1, <2>2, NatSteps
  <2> QED BY <2>3
<1>9. Scale \in [Nat -> V]
  BY <1>5, <1>8
<1> QED
  BY <1>7, <1>9

(* The same steps up to m only.                                            *)
LEMMA IntervalSteps ==
  ASSUME NEW m \in Nat, NEW T, 0 \in T, \A k \in 1..m : k - 1 \in T => k \in T
  PROVE  \A k \in 0..m : k \in T
<1> DEFINE U == {k \in Nat : k <= m => k \in T}
<1>1. 0 \in U
  OBVIOUS
<1>2. ASSUME NEW n \in Nat, n \in U PROVE n + 1 \in U
  <2>1. CASE n + 1 <= m
    <3>1. n + 1 \in 1..m /\ (n + 1) - 1 = n /\ n \in T
      BY <1>2, <2>1
    <3> QED BY <3>1
  <2> QED BY <2>1
<1>3. \A n \in Nat : n \in U
  <2> HIDE DEF U
  <2> QED BY <1>1, <1>2, NatSteps
<1> QED BY <1>3

LEMMA DivMod ==
  ASSUME NEW v \in Int, NEW m \in Nat \ {0}
  PROVE  v \div m \in Int /\ v % m \in 0..(m - 1) /\ v = m * (v \div m) + (v % m)
<1>1. v \div m \in Int
  OBVIOUS
<1>2. v % m \in 0..(m - 1)
  OBVIOUS
<1>3. v = m * (v \div m) + (v % m)
  OBVIOUS
<1> QED BY <1>1, <1>2, <1>3

LEMMA DivModUnique ==
  ASSUME NEW m \in Nat \ {0}, NEW q \in Int, NEW r \in 0..(m - 1)
  PROVE  (m * q + r) \div m = q /\ (m * q + r) % m = r
<1> DEFINE v == m * q + r
           p == v \div m
           s == v % m
<1>1. v \in Int /\ p \in Int /\ s \in 0..(m - 1) /\ v = m * p + s
  OBVIOUS
<1>2. m * (q - p) = s - r
  <2>1. m * q + r = m * p + s
    BY <1>1
  <2>2. m * (q - p) = m * q - m * p
    BY <1>1
  <2> HIDE DEF p, s
  <2> QED BY <1>1, <2>1, <2>2
<1> HIDE DEF p, s
<1>3. q = p
  <2>1. CASE q - p >= 1
    <3>1. m * (q - p) >= m
      BY <1>1, <2>1
    <3> QED BY <1>1, <1>2, <3>1
  <2>2. CASE q - p <= -1
    <3>1. m * (q - p) <= -m
      BY <1>1, <2>2
    <3> QED BY <1>1, <1>2, <3>1
  <2> QED BY <1>1, <2>1, <2>2
<1>4. r = s
  BY <1>1, <1>2, <1>3
<1> QED BY <1>3, <1>4 DEF p, s, v
(* Division by b times p is division by p and then by b.                   *)
LEMMA ModSplit ==
  ASSUME NEW v \in Int, NEW p \in Nat \ {0}, NEW b \in Nat \ {0}
  PROVE  v % (b * p) = (v % p) + ((v \div p) % b) * p
<1> DEFINE q == v \div p
           r == v % p
           k == q \div b
           d == q % b
<1>1. q \in Int /\ r \in 0..(p - 1) /\ v = p * q + r
  BY DivMod
<1>2. k \in Int /\ d \in 0..(b - 1) /\ q = b * k + d
  BY <1>1, DivMod
<1> HIDE DEF q, r, k, d
<1>3. b * p \in Nat \ {0}
  OBVIOUS
<1>4. v = (b * p) * k + (r + d * p)
  BY <1>1, <1>2
<1>5. r + d * p \in 0..(b * p - 1)
  <2>1. d * p <= (b - 1) * p
    BY <1>2
  <2>2. d * p \in Nat
    BY <1>2
  <2> QED BY <1>1, <1>2, <2>1, <2>2
<1>6. v % (b * p) = r + d * p
  BY <1>2, <1>3, <1>4, <1>5, DivModUnique
<1> QED BY <1>6 DEF q, r, k, d

LEMMA BytesType ==
  ASSUME NEW v \in Int, NEW n \in Nat
  PROVE  /\ Bytes(v, n) \in Memory /\ Len(Bytes(v, n)) = n
         /\ \A k \in 1..n : Bytes(v, n)[k] = (v \div Scale[k - 1]) % BASE
<1>1. ASSUME NEW k \in 1..n PROVE (v \div Scale[k - 1]) % BASE \in Byte
  <2>1. k - 1 \in Nat /\ Scale[k - 1] \in Nat \ {0} /\ BASE \in Nat \ {0}
    BY ScaleDef, SerdeAssumption
  <2>2. v \div Scale[k - 1] \in Int
    BY <2>1, DivMod
  <2> QED BY <2>1, <2>2, DivMod DEF Byte
<1>2. Bytes(v, n) \in [1..n -> Byte]
  BY <1>1 DEF Bytes
<1> QED
  BY <1>2 DEF Memory, Bytes

(* Value is the sum that it says.                                          *)
LEMMA ValueSum ==
  ASSUME NEW s \in Memory, NEW T \in [0..Len(s) -> Nat],
         T[0] = 0, \A k \in 1..Len(s) : T[k] = T[k - 1] + s[k] * Scale[k - 1]
  PROVE  Value(s) = T[Len(s)]
<1> DEFINE IsSum(f) == f = [k \in 0..Len(s) |-> IF k = 0 THEN 0 ELSE f[k - 1] + s[k] * Scale[k - 1]]
           g == CHOOSE f : IsSum(f)
<1>1. Len(s) \in Nat
  BY DEF Memory
<1>2. IsSum(T)
  <2>1. \A k \in 0..Len(s) : T[k] = IF k = 0 THEN 0 ELSE T[k - 1] + s[k] * Scale[k - 1]
    BY <1>1
  <2> QED BY <2>1
<1>3. IsSum(g)
  BY <1>2, Zenon
<1> HIDE DEF g
<1>4. \A k \in 0..Len(s) : g[k] = IF k = 0 THEN 0 ELSE g[k - 1] + s[k] * Scale[k - 1]
  BY <1>3
<1> DEFINE U == {k \in 0..Len(s) : g[k] = T[k]}
<1>5. 0 \in U
  BY <1>1, <1>4
<1>6. \A k \in 1..Len(s) : k - 1 \in U => k \in U
  BY <1>1, <1>4
<1>7. \A k \in 0..Len(s) : k \in U
  <2> HIDE DEF U
  <2> QED BY <1>1, <1>5, <1>6, IntervalSteps
<1>8. g[Len(s)] = T[Len(s)]
  BY <1>1, <1>7
<1>9. Value(s) = g[Len(s)]
  BY Zenon DEF Value, g
<1> QED
  BY <1>8, <1>9

(* What is read back from the low n bytes of v: v modulo their scale.      *)
LEMMA ValueOfBytes ==
  ASSUME NEW v \in Int, NEW n \in Nat
  PROVE  Value(Bytes(v, n)) = v % Scale[n]
<1> DEFINE s == Bytes(v, n)
           T == [k \in 0..n |-> v % Scale[k]]
<1>1. s \in Memory /\ Len(s) = n /\ \A k \in 1..n : s[k] = (v \div Scale[k - 1]) % BASE
  BY BytesType
<1>2. \A k \in 0..n : Scale[k] \in Nat \ {0} /\ v % Scale[k] \in Nat
  <2>1. ASSUME NEW k \in 0..n PROVE Scale[k] \in Nat \ {0} /\ v % Scale[k] \in Nat
    <3>1. Scale[k] \in Nat \ {0}
      BY ScaleDef
    <3> QED BY <3>1, DivMod
  <2> QED BY <2>1
<1>3. T \in [0..n -> Nat] /\ T[0] = 0
  BY <1>2, ScaleDef
<1>4. ASSUME NEW k \in 1..n PROVE T[k] = T[k - 1] + s[k] * Scale[k - 1]
  <2>1. k - 1 \in Nat /\ k - 1 \in 0..n /\ k = (k - 1) + 1
    OBVIOUS
  <2>2. Scale[k] = BASE * Scale[k - 1]
    BY <2>1, ScaleDef
  <2>3. v % (BASE * Scale[k - 1]) = (v % Scale[k - 1]) + ((v \div Scale[k - 1]) % BASE) * Scale[k - 1]
    <3>1. Scale[k - 1] \in Nat \ {0} /\ BASE \in Nat \ {0}
      BY <2>1, ScaleDef, SerdeAssumption
    <3> HIDE DEF s, T
    <3> QED BY <3>1, ModSplit, Zenon
  <2>4. T[k] = v % Scale[k] /\ T[k - 1] = v % Scale[k - 1]
    BY <2>1
  <2> QED BY <1>1, <2>2, <2>3, <2>4
<1> HIDE DEF s, T
<1>5. Value(s) = T[n]
  BY <1>1, <1>3, <1>4, ValueSum
<1> QED
  BY <1>5 DEF s, T

LEMMA ValueType ==
  ASSUME NEW s \in Memory
  PROVE  /\ Value(s) \in Nat
         /\ (\A k \in 1..Len(s) : s[k] = 0) => Value(s) = 0
<1> DEFINE F == [p \in Nat \X Nat |-> IF p[1] \in 1..Len(s) THEN p[2] + s[p[1]] * Scale[p[1] - 1] ELSE 0]
<1>1. Len(s) \in Nat
  BY DEF Memory
<1>2. ASSUME NEW k \in 1..Len(s) PROVE s[k] \in Nat /\ Scale[k - 1] \in Nat /\ s[k] * Scale[k - 1] \in Nat
  <2>1. s[k] \in Nat
    BY SerdeAssumption DEF Memory, Byte
  <2>2. Scale[k - 1] \in Nat
    <3>1. k - 1 \in Nat
      BY <1>1
    <3> QED BY <3>1, ScaleDef
  <2> QED BY <2>1, <2>2
<1>3. F \in [Nat \X Nat -> Nat]
  BY <1>2
<1>4. PICK T \in [0..Len(s) -> Nat] : Iterates(T, 0, F, 0..Len(s))
  <2> HIDE DEF F
  <2> QED BY <1>1, <1>3, Iteration, Zenon
<1>5. T[0] = 0 /\ \A k \in 1..Len(s) : T[k] = T[k - 1] + s[k] * Scale[k - 1]
  <2>1. T[0] = 0
    <3> HIDE DEF F
    <3>1. 0 \in 0..Len(s)
      BY <1>1
    <3> QED BY <1>4, <3>1 DEF Iterates
  <2>2. ASSUME NEW k \in 1..Len(s) PROVE T[k] = T[k - 1] + s[k] * Scale[k - 1]
    <3>1. k \in 0..Len(s) /\ k # 0 /\ k - 1 \in 0..Len(s) /\ k \in Nat
      BY <1>1
    <3>2. T[k] = F[<<k, T[k - 1]>>]
      <4> HIDE DEF F
      <4> QED BY <1>4, <3>1 DEF Iterates
    <3>3. T[k - 1] \in Nat
      BY <3>1
    <3> QED BY <3>1, <3>2, <3>3
  <2> QED BY <2>1, <2>2
<1>6. Value(s) \in Nat
  BY <1>1, <1>5, ValueSum
<1>7. ASSUME \A k \in 1..Len(s) : s[k] = 0 PROVE Value(s) = 0
  <2> DEFINE Z == [k \in 0..Len(s) |-> 0]
  <2>1. Z \in [0..Len(s) -> Nat] /\ Z[0] = 0 /\ Z[Len(s)] = 0
    BY <1>1
  <2>2. \A k \in 1..Len(s) : Z[k] = Z[k - 1] + s[k] * Scale[k - 1]
    BY <1>1, <1>2, <1>7
  <2> HIDE DEF Z
  <2> QED BY <2>1, <2>2, ValueSum
<1> QED
  BY <1>6, <1>7

-----------------------------------------------------------------------------
(* What lies where in memory *)

(* The bytes w lie in memory behind the first off.                         *)
At(in, off, w) ==
  off + Len(w) <= Len(in) /\ \A k \in 1..Len(w) : in[off + k] = w[k]

LEMMA AtStart ==
  ASSUME NEW in \in Memory
  PROVE  At(in, 0, in)
BY DEF At, Memory

(* One after the other.                                                    *)
LEMMA AtConcat ==
  ASSUME NEW in \in Memory, NEW off \in Nat, NEW a \in Memory, NEW b \in Memory,
         At(in, off, a \o b)
  PROVE  At(in, off, a) /\ At(in, off + Len(a), b)
<1> DEFINE w == a \o b
<1>1. Len(a) \in Nat /\ Len(b) \in Nat /\ Len(w) = Len(a) + Len(b)
  BY DEF Memory
<1>2. \A k \in 1..Len(a) : w[k] = a[k]
  BY DEF Memory
<1>3. \A k \in 1..Len(b) : w[Len(a) + k] = b[k]
  BY DEF Memory
<1> HIDE DEF w
<1>4. At(in, off, w)
  BY DEF w
<1>5. ASSUME NEW k \in 1..Len(a) PROVE in[off + k] = a[k]
  <2>1. k \in 1..Len(w)
    BY <1>1
  <2> QED BY <1>2, <1>4, <2>1 DEF At
<1>6. ASSUME NEW k \in 1..Len(b) PROVE in[(off + Len(a)) + k] = b[k]
  <2>1. Len(a) + k \in 1..Len(w) /\ (off + Len(a)) + k = off + (Len(a) + k)
    BY <1>1
  <2> QED BY <1>3, <1>4, <2>1 DEF At
<1>7. off + Len(a) <= Len(in) /\ (off + Len(a)) + Len(b) <= Len(in)
  <2>1. Len(in) \in Nat
    BY DEF Memory
  <2> QED BY <1>1, <1>4, <2>1 DEF At
<1> QED
  BY <1>5, <1>6, <1>7 DEF At

LEMMA ReadType ==
  ASSUME NEW in \in Memory, NEW off \in Nat, NEW n \in Nat
  PROVE  /\ mem_read_data(in, off, n) \in Memory
         /\ Len(mem_read_data(in, off, n)) = n
         /\ \A k \in 1..n : mem_read_data(in, off, n)[k] =
                              IF off + k <= Len(in) THEN in[off + k] ELSE NUL
<1>1. ASSUME NEW k \in 1..n
      PROVE  (IF off + k <= Len(in) THEN in[off + k] ELSE NUL) \in Byte
  BY SerdeAssumption DEF Memory, Byte, NUL
<1>2. mem_read_data(in, off, n) \in [1..n -> Byte]
  BY <1>1 DEF mem_read_data
<1> QED
  BY <1>2 DEF mem_read_data, Memory

(* What lies there is read.                                                *)
LEMMA ReadAt ==
  ASSUME NEW in \in Memory, NEW off \in Nat, NEW w \in Memory, At(in, off, w)
  PROVE  mem_read_data(in, off, Len(w)) = w
<1> DEFINE r == mem_read_data(in, off, Len(w))
<1>1. Len(w) \in Nat /\ Len(in) \in Nat
  BY DEF Memory
<1>2. r \in Memory /\ Len(r) = Len(w)
  BY <1>1, ReadType
<1>3. ASSUME NEW k \in 1..Len(w) PROVE r[k] = w[k]
  <2>1. off + k <= Len(in)
    BY <1>1 DEF At
  <2>2. r[k] = in[off + k]
    BY <1>1, <2>1, ReadType
  <2> QED BY <2>2 DEF At
<1> HIDE DEF r
<1>4. r = w
  BY <1>2, <1>3, SeqEqual DEF Memory
<1> QED
  BY <1>4 DEF r

LEMMA UnsignedAt ==
  ASSUME NEW in \in Memory, NEW off \in Nat, NEW n \in Nat, NEW v \in Int,
         At(in, off, Bytes(v, n))
  PROVE  Unsigned(in, off, n) = v % Scale[n]
<1>1. mem_read_data(in, off, n) = Bytes(v, n)
  BY BytesType, ReadAt
<1> QED
  BY <1>1, ValueOfBytes DEF Unsigned

LEMMA UIntAt ==
  ASSUME NEW in \in Memory, NEW off \in Nat, NEW n \in Nat, NEW v \in UInt(n),
         At(in, off, Bytes(v, n))
  PROVE  Unsigned(in, off, n) = v
<1>1. Scale[n] \in Nat \ {0}
  BY ScaleDef
<1>2. v \in Int /\ v \in 0..(Scale[n] - 1) /\ v = Scale[n] * 0 + v
  BY <1>1 DEF UInt
<1>3. v % Scale[n] = v
  BY <1>1, <1>2, DivModUnique
<1> QED
  BY <1>2, <1>3, UnsignedAt

LEMMA SIntAt ==
  ASSUME NEW in \in Memory, NEW off \in Nat, NEW n \in Nat, NEW v \in SInt(n),
         At(in, off, Bytes(v, n))
  PROVE  Signed(in, off, n) = v
<1> DEFINE m == Scale[n]
           u == Unsigned(in, off, n)
<1>1. m \in Nat \ {0}
  BY ScaleDef
<1> HIDE DEF m
<1>2. m \div 2 \in Nat /\ m \div 2 < m
  BY <1>1
<1>3. v \in Int /\ m \div 2 - m <= v /\ v < m \div 2
  BY <1>1, <1>2 DEF SInt, m
<1>4. u = v % m
  BY <1>3, UnsignedAt DEF m
<1>5. CASE v >= 0
  <2>1. v \in 0..(m - 1) /\ v = m * 0 + v
    BY <1>1, <1>2, <1>3, <1>5
  <2>2. v % m = v
    BY <1>1, <2>1, DivModUnique
  <2> QED BY <1>3, <1>4, <2>2 DEF Signed, m
<1>6. CASE v < 0
  <2>1. v + m \in 0..(m - 1) /\ v = m * (-1) + (v + m)
    BY <1>1, <1>2, <1>3, <1>6
  <2>2. v % m = v + m
    <3>1. \A q \in Int, r \in 0..(m - 1) : v = m * q + r => v % m = r
      BY <1>1, DivModUnique
    <3> QED BY <2>1, <3>1
  <2>3. ~ (u < m \div 2) /\ u - m = v
    BY <1>1, <1>2, <1>3, <1>4, <2>2
  <2> QED BY <2>3 DEF Signed, m
<1> QED
  BY <1>3, <1>5, <1>6

LEMMA CStringType ==
  ASSUME NEW s \in String
  PROVE  /\ s \in Memory /\ CString(s) \in Memory
         /\ Len(s) \in Nat /\ Len(CString(s)) = Len(s) + 1 /\ StrLen1(s) = Len(s) + 1
         /\ CString(s)[Len(s) + 1] = NUL
         /\ \A k \in 1..Len(s) : CString(s)[k] = s[k] /\ s[k] # NUL
BY SerdeAssumption DEF String, Memory, CString, StrLen1, Byte, NUL

(* A string ends at its NUL.                                               *)
LEMMA StringIsAt ==
  ASSUME NEW in \in Memory, NEW off \in Nat, NEW s \in String, At(in, off, CString(s))
  PROVE  StringAt(in, off, StrLen1(s)) = s
<1> DEFINE w == CString(s)
           I == {i \in 1..Len(w) : w[i] = NUL}
<1>1. mem_read_data(in, off, StrLen1(s)) = w
  BY CStringType, ReadAt
<1>2. I = {Len(s) + 1}
  BY CStringType
<1>3. Min(I) = Len(s) + 1
  <2> HIDE DEF I
  <2> QED BY <1>2, CStringType DEF Min
<1>4. SelectInSeq(w, LAMBDA b : b = NUL) = Len(s) + 1
  BY <1>2, <1>3 DEF SelectInSeq
<1>5. SubSeq(w, 1, (Len(s) + 1) - 1) = s
  <2>1. SubSeq(w, 1, Len(s)) = s
    <3>1. w \in Seq(Byte) /\ Len(s) \in 0..Len(w)
      BY CStringType DEF Memory
    <3> QED BY <3>1, CStringType, SubSeqProperties, SeqEqual DEF Memory, String
  <2> QED BY <2>1, CStringType
<1> QED
  BY <1>1, <1>4, <1>5 DEF StringAt

-----------------------------------------------------------------------------
(* Calls, frames and responses *)

LEMMA IntTypes ==
  ASSUME NEW n \in Nat
  PROVE  UInt(n) \subseteq Nat /\ SInt(n) \subseteq Int
BY ScaleDef DEF UInt, SInt

LEMMA ConcatType ==
  ASSUME NEW a \in Memory, NEW b \in Memory
  PROVE  a \o b \in Memory /\ Len(a \o b) = Len(a) + Len(b) /\ Len(a) \in Nat
BY DEF Memory

LEMMA IntBytes ==
  /\ \A v \in Int : Int16(v) \in Memory /\ Len(Int16(v)) = 2
  /\ \A v \in Int : Int32(v) \in Memory /\ Len(Int32(v)) = 4
  /\ \A v \in Int : Int64(v) \in Memory /\ Len(Int64(v)) = 8
<1>1. \A v \in Int : Bytes(v, 2) \in Memory /\ Len(Bytes(v, 2)) = 2
  BY BytesType
<1>2. \A v \in Int : Bytes(v, 4) \in Memory /\ Len(Bytes(v, 4)) = 4
  BY BytesType
<1>3. \A v \in Int : Bytes(v, 8) \in Memory /\ Len(Bytes(v, 8)) = 8
  BY BytesType
<1> QED BY <1>1, <1>2, <1>3 DEF Int16, Int32, Int64

(* Two and three fields from the start.                                    *)
LEMMA TwoAt ==
  ASSUME NEW a \in Memory, NEW b \in Memory, NEW in, in = a \o b
  PROVE  /\ in \in Memory /\ Len(in) = Len(a) + Len(b)
         /\ At(in, 0, a) /\ At(in, Len(a), b)
<1>1. in \in Memory /\ Len(in) = Len(a) + Len(b) /\ Len(a) \in Nat
  BY ConcatType
<1>2. At(in, 0, a \o b)
  BY <1>1, AtStart
<1>3. At(in, 0, a) /\ At(in, 0 + Len(a), b)
  BY <1>1, <1>2, AtConcat, Zenon
<1> QED BY <1>1, <1>3

LEMMA ThreeAt ==
  ASSUME NEW a \in Memory, NEW b \in Memory, NEW c \in Memory, NEW in, in = (a \o b) \o c
  PROVE  /\ in \in Memory /\ Len(in) = Len(a) + Len(b) + Len(c)
         /\ At(in, 0, a) /\ At(in, Len(a), b) /\ At(in, Len(a) + Len(b), c)
<1> DEFINE ab == a \o b
<1>1. ab \in Memory /\ Len(ab) = Len(a) + Len(b) /\ Len(a) \in Nat
  BY ConcatType
<1>2. /\ in \in Memory /\ Len(in) = Len(ab) + Len(c)
      /\ At(in, 0, ab) /\ At(in, Len(ab), c)
  <2> HIDE DEF ab
  <2>1. in = ab \o c
    BY DEF ab
  <2> QED BY <1>1, <2>1, TwoAt
<1>3. At(in, 0, a) /\ At(in, 0 + Len(a), b)
  BY <1>2, AtConcat, Zenon
<1> QED BY <1>1, <1>2, <1>3

LEMMA PathPayloadType ==
  ASSUME NEW path \in String
  PROVE  PathPayload(path) \in Memory /\ Len(PathPayload(path)) = 4 + StrLen1(path)
<1>1. StrLen1(path) \in Int /\ CString(path) \in Memory /\ Len(CString(path)) = StrLen1(path)
  BY CStringType
<1>2. /\ Int32(StrLen1(path)) \in Memory /\ Len(Int32(StrLen1(path))) = 4
  BY <1>1, IntBytes
<1>3. /\ PathPayload(path) \in Memory
      /\ Len(PathPayload(path)) = Len(Int32(StrLen1(path))) + Len(CString(path))
  BY <1>1, <1>2, TwoAt, Zenon DEF PathPayload
<1> QED BY <1>1, <1>2, <1>3

LEMMA PathIsAt ==
  ASSUME NEW in \in Memory, NEW off \in Nat, NEW path \in String, StrLen1(path) \in UInt(4),
         At(in, off, PathPayload(path))
  PROVE  PathAt(in, off) = path
<1>1. Int32(StrLen1(path)) \in Memory /\ Len(Int32(StrLen1(path))) = 4 /\ CString(path) \in Memory
  BY CStringType, IntBytes
<1>2. At(in, off, Int32(StrLen1(path))) /\ At(in, off + 4, CString(path))
  BY <1>1, AtConcat DEF PathPayload
<1>3. Unsigned(in, off, 4) = StrLen1(path)
  BY <1>2, UIntAt DEF Int32
<1> QED
  BY <1>2, <1>3, StringIsAt DEF PathAt

LEMMA OpenDecodes ==
  ASSUME NEW path \in String, StrLen1(path) \in UInt(4), NEW flags \in UInt(4), NEW mode \in UInt(2),
         NEW in, in = call_open_marshal(path, flags, mode)
  PROVE  /\ in \in Memory /\ Len(in) = 10 + StrLen1(path)
         /\ call_open_unmarshal(in) =
              [op |-> "open", flags |-> flags, mode |-> mode, path |-> path]
<1> DEFINE a == Int32(flags)
           b == Int16(mode)
           c == PathPayload(path)
<1>1. a \in Memory /\ Len(a) = 4 /\ b \in Memory /\ Len(b) = 2 /\ c \in Memory /\ Len(c) = 4 + StrLen1(path)
  BY IntTypes, IntBytes, PathPayloadType
<1>2. in = (a \o b) \o c
  BY DEF call_open_marshal, OpenFlagsMode
<1> HIDE DEF a, b, c
<1>3. /\ in \in Memory /\ Len(in) = Len(a) + Len(b) + Len(c)
      /\ At(in, 0, a) /\ At(in, Len(a), b) /\ At(in, Len(a) + Len(b), c)
  BY <1>1, <1>2, ThreeAt, Zenon
<1>4. in \in Memory /\ Len(in) = 10 + StrLen1(path)
  BY <1>1, <1>3, CStringType
<1>5. At(in, 6, c) /\ At(in, 0, a) /\ At(in, 4, b)
  BY <1>1, <1>3
<1>6. Unsigned(in, 0, 4) = flags /\ Unsigned(in, 4, 2) = mode
  BY <1>4, <1>5, UIntAt DEF a, b, Int32, Int16
<1>7. PathAt(in, 6) = path
  BY <1>4, <1>5, PathIsAt DEF c
<1> QED
  BY <1>4, <1>6, <1>7 DEF call_open_unmarshal

LEMMA PathDecodes ==
  ASSUME NEW path \in String, StrLen1(path) \in UInt(4),
         NEW in, in = PathPayload(path)
  PROVE  /\ in \in Memory /\ Len(in) = 4 + StrLen1(path)
         /\ call_unlink_unmarshal(in) = [op |-> "unlink", path |-> path]
         /\ call_dirtreenode_unmarshal(in) = [op |-> "getdirtree", path |-> path]
<1>1. in \in Memory /\ Len(in) = 4 + StrLen1(path)
  BY PathPayloadType
<1>2. PathAt(in, 0) = path
  BY <1>1, AtStart, PathIsAt
<1> QED
  BY <1>1, <1>2 DEF call_unlink_unmarshal, call_dirtreenode_unmarshal

LEMMA StatDecodes ==
  ASSUME NEW ver \in SInt(4), NEW path \in String, StrLen1(path) \in UInt(8),
         NEW in, in = call_stat_marshal(ver, path)
  PROVE  /\ in \in Memory /\ Len(in) = 12 + StrLen1(path)
         /\ call_stat_unmarshal(in) = [op |-> "stat", ver |-> ver, path |-> path]
<1> DEFINE a == Int32(ver)
           b == Int64(StrLen1(path))
           c == CString(path)
<1>1. a \in Memory /\ Len(a) = 4 /\ b \in Memory /\ Len(b) = 8 /\ c \in Memory /\ Len(c) = StrLen1(path)
  BY IntTypes, IntBytes, CStringType
<1>2. in = (a \o b) \o c
  BY DEF call_stat_marshal
<1> HIDE DEF a, b, c
<1>3. /\ in \in Memory /\ Len(in) = Len(a) + Len(b) + Len(c)
      /\ At(in, 0, a) /\ At(in, Len(a), b) /\ At(in, Len(a) + Len(b), c)
  BY <1>1, <1>2, ThreeAt, Zenon
<1>4. in \in Memory /\ Len(in) = 12 + StrLen1(path)
  BY <1>1, <1>3, CStringType
<1>5. At(in, 12, c) /\ At(in, 0, a) /\ At(in, 4, b)
  BY <1>1, <1>3
<1>6. Signed(in, 0, 4) = ver
  BY <1>4, <1>5, SIntAt DEF a, Int32
<1>7. Unsigned(in, 4, 8) = StrLen1(path)
  BY <1>4, <1>5, UIntAt DEF b, Int64
<1>8. StringAt(in, 12, Unsigned(in, 4, 8)) = path
  BY <1>4, <1>5, <1>7, StringIsAt DEF c
<1> QED
  BY <1>4, <1>6, <1>8 DEF call_stat_unmarshal

LEMMA CloseDecodes ==
  ASSUME NEW fd \in SInt(4), NEW in, in = call_close_marshal(fd)
  PROVE  /\ in \in Memory /\ Len(in) = 4
         /\ call_close_unmarshal(in) = [op |-> "close", fd |-> fd]
<1>1. in \in Memory /\ Len(in) = 4
  BY IntTypes, BytesType DEF call_close_marshal, Int32
<1>2. Signed(in, 0, 4) = fd
  BY <1>1, AtStart, SIntAt DEF call_close_marshal, Int32
<1> QED
  BY <1>1, <1>2 DEF call_close_unmarshal

LEMMA ReadDecodes ==
  ASSUME NEW fd \in SInt(4), NEW count \in UInt(8), NEW in, in = call_read_marshal(fd, count)
  PROVE  /\ in \in Memory /\ Len(in) = 12
         /\ call_read_unmarshal(in) = [op |-> "read", fd |-> fd, count |-> count]
<1> DEFINE a == Int32(fd)
           b == Int64(count)
<1>1. a \in Memory /\ Len(a) = 4 /\ b \in Memory /\ Len(b) = 8
  BY IntTypes, IntBytes
<1>2. in = a \o b
  BY DEF call_read_marshal
<1> HIDE DEF a, b
<1>3. /\ in \in Memory /\ Len(in) = Len(a) + Len(b)
      /\ At(in, 0, a) /\ At(in, Len(a), b)
  BY <1>1, <1>2, TwoAt, Zenon
<1>4. in \in Memory /\ Len(in) = 12 /\ At(in, 0, a) /\ At(in, 4, b)
  BY <1>1, <1>3
<1>5. Signed(in, 0, 4) = fd /\ Unsigned(in, 4, 8) = count
  BY <1>4, SIntAt, UIntAt DEF a, b, Int32, Int64
<1> QED
  BY <1>4, <1>5 DEF call_read_unmarshal

LEMMA WriteDecodes ==
  ASSUME NEW fd \in SInt(4), NEW buf \in Memory, Len(buf) \in UInt(8),
         NEW in, in = call_write_marshal(fd, buf, Len(buf))
  PROVE  /\ in \in Memory /\ Len(in) = 12 + Len(buf)
         /\ call_write_unmarshal(in) = [op |-> "write", fd |-> fd, count |-> Len(buf), buf |-> buf]
<1> DEFINE a == Int32(fd)
           b == Int64(Len(buf))
<1>1. a \in Memory /\ Len(a) = 4 /\ b \in Memory /\ Len(b) = 8
  BY IntTypes, IntBytes
<1>2. in = (a \o b) \o buf
  BY DEF call_write_marshal
<1> HIDE DEF a, b
<1>3. /\ in \in Memory /\ Len(in) = Len(a) + Len(b) + Len(buf)
      /\ At(in, 0, a) /\ At(in, Len(a), b) /\ At(in, Len(a) + Len(b), buf)
  BY <1>1, <1>2, ThreeAt, Zenon
<1>4. in \in Memory /\ Len(in) = 12 + Len(buf)
  BY <1>1, <1>3, CStringType
<1>5. At(in, 12, buf) /\ At(in, 0, a) /\ At(in, 4, b)
  BY <1>1, <1>3
<1>6. Signed(in, 0, 4) = fd /\ Unsigned(in, 4, 8) = Len(buf)
  BY <1>4, <1>5, SIntAt, UIntAt DEF a, b, Int32, Int64
<1>7. mem_read_data(in, 12, Unsigned(in, 4, 8)) = buf
  BY <1>4, <1>5, <1>6, ReadAt
<1> QED
  BY <1>4, <1>6, <1>7 DEF call_write_unmarshal

LEMMA SeekDecodes ==
  ASSUME NEW fd \in SInt(4), NEW offset \in SInt(8), NEW whence \in SInt(4),
         NEW in, in = call_lseek_marshal(fd, offset, whence)
  PROVE  /\ in \in Memory /\ Len(in) = 16
         /\ call_lseek_unmarshal(in) =
              [op |-> "lseek", fd |-> fd, offset |-> offset, whence |-> whence]
<1> DEFINE a == Int32(fd)
           b == Int64(offset)
           c == Int32(whence)
<1>1. a \in Memory /\ Len(a) = 4 /\ b \in Memory /\ Len(b) = 8 /\ c \in Memory /\ Len(c) = 4
  BY IntTypes, IntBytes
<1>2. in = (a \o b) \o c
  BY DEF call_lseek_marshal
<1> HIDE DEF a, b, c
<1>3. /\ in \in Memory /\ Len(in) = Len(a) + Len(b) + Len(c)
      /\ At(in, 0, a) /\ At(in, Len(a), b) /\ At(in, Len(a) + Len(b), c)
  BY <1>1, <1>2, ThreeAt, Zenon
<1>4. in \in Memory /\ Len(in) = 16
  BY <1>1, <1>3, CStringType
<1>5. At(in, 12, c) /\ At(in, 0, a) /\ At(in, 4, b)
  BY <1>1, <1>3
<1>6. Signed(in, 0, 4) = fd /\ Signed(in, 4, 8) = offset /\ Signed(in, 12, 4) = whence
  BY <1>4, <1>5, SIntAt DEF a, b, c, Int32, Int64
<1> QED
  BY <1>4, <1>6 DEF call_lseek_unmarshal

LEMMA EntriesDecodes ==
  ASSUME NEW fd \in SInt(4), NEW nbytes \in UInt(8), NEW basep \in SInt(8),
         NEW in, in = call_getdirentries_marshal(fd, nbytes, basep)
  PROVE  /\ in \in Memory /\ Len(in) = 20
         /\ call_getdirentries_unmarshal(in) =
              [op |-> "getdirentries", fd |-> fd, basep |-> basep, nbytes |-> nbytes]
<1> DEFINE a == Int32(fd)
           b == Int64(basep)
           c == Int64(nbytes)
<1>1. a \in Memory /\ Len(a) = 4 /\ b \in Memory /\ Len(b) = 8 /\ c \in Memory /\ Len(c) = 8
  BY IntTypes, IntBytes
<1>2. in = (a \o b) \o c
  BY DEF call_getdirentries_marshal
<1> HIDE DEF a, b, c
<1>3. /\ in \in Memory /\ Len(in) = Len(a) + Len(b) + Len(c)
      /\ At(in, 0, a) /\ At(in, Len(a), b) /\ At(in, Len(a) + Len(b), c)
  BY <1>1, <1>2, ThreeAt, Zenon
<1>4. in \in Memory /\ Len(in) = 20
  BY <1>1, <1>3, CStringType
<1>5. At(in, 12, c) /\ At(in, 0, a) /\ At(in, 4, b)
  BY <1>1, <1>3
<1>6. Signed(in, 0, 4) = fd /\ Signed(in, 4, 8) = basep /\ Unsigned(in, 12, 8) = nbytes
  BY <1>4, <1>5, SIntAt, UIntAt DEF a, b, c, Int32, Int64
<1> QED
  BY <1>4, <1>6 DEF call_getdirentries_unmarshal

(* A header of two integers, and what follows.                             *)
LEMMA HeaderAt ==
  ASSUME NEW x \in Int, NEW data \in Memory, Len(data) \in UInt(4),
         NEW in, in = Int32(x) \o Int32(Len(data)) \o data
  PROVE  /\ in \in Memory /\ Len(in) = 8 + Len(data)
         /\ At(in, 0, Int32(x))
         /\ mem_read_data(in, 8, Unsigned(in, 4, 4)) = data
<1> DEFINE a == Int32(x)
           b == Int32(Len(data))
<1>1. a \in Memory /\ Len(a) = 4 /\ b \in Memory /\ Len(b) = 4
  BY IntTypes, IntBytes
<1>2. in = (a \o b) \o data
  OBVIOUS
<1> HIDE DEF a, b
<1>3. /\ in \in Memory /\ Len(in) = Len(a) + Len(b) + Len(data)
      /\ At(in, 0, a) /\ At(in, Len(a), b) /\ At(in, Len(a) + Len(b), data)
  BY <1>1, <1>2, ThreeAt, Zenon
<1>4. in \in Memory /\ Len(in) = 8 + Len(data)
  BY <1>1, <1>3, CStringType
<1>5. At(in, 8, data) /\ At(in, 0, a) /\ At(in, 4, b)
  BY <1>1, <1>3
<1>6. Unsigned(in, 4, 4) = Len(data)
  BY <1>4, <1>5, UIntAt DEF b, Int32
<1> QED
  BY <1>4, <1>5, <1>6, ReadAt DEF a

LEMMA FrameDecodes ==
  ASSUME NEW opcode \in UInt(4), NEW payload \in Memory, Len(payload) \in UInt(4)
  PROVE  /\ read_frame(marshal_frame(opcode, payload)) = [opcode |-> opcode, payload |-> payload]
         /\ Len(marshal_frame(opcode, payload)) = 8 + Len(payload)
<1> DEFINE in == marshal_frame(opcode, payload)
<1>1. /\ in \in Memory /\ Len(in) = 8 + Len(payload) /\ At(in, 0, Int32(opcode))
      /\ mem_read_data(in, 8, Unsigned(in, 4, 4)) = payload
  <2>1. opcode \in Int
    BY IntTypes
  <2> QED BY <2>1, HeaderAt DEF marshal_frame
<1>2. Unsigned(in, 0, 4) = opcode
  BY <1>1, UIntAt DEF Int32
<1> QED
  BY <1>1, <1>2 DEF read_frame

LEMMA ResponseDecodes ==
  ASSUME NEW err_no \in SInt(4), NEW data \in Memory, Len(data) \in UInt(4)
  PROVE  /\ read_resp(marshal_resp(err_no, data)) = [err_no |-> err_no, data |-> data]
         /\ Len(marshal_resp(err_no, data)) = 8 + Len(data)
<1> DEFINE in == marshal_resp(err_no, data)
<1>1. /\ in \in Memory /\ Len(in) = 8 + Len(data) /\ At(in, 0, Int32(err_no))
      /\ mem_read_data(in, 8, Unsigned(in, 4, 4)) = data
  <2>1. err_no \in Int
    BY IntTypes
  <2> QED BY <2>1, HeaderAt DEF marshal_resp
<1>2. Signed(in, 0, 4) = err_no
  BY <1>1, SIntAt DEF Int32
<1> QED
  BY <1>1, <1>2 DEF read_resp

-----------------------------------------------------------------------------
(* Writing trees *)

(* One sequence after another.                                             *)
LEMMA Flattened ==
  ASSUME NEW ss \in Seq(Memory)
  PROVE  \E J \in [0..Len(ss) -> Memory] :
           /\ J[0] = << >>
           /\ \A k \in 1..Len(ss) : J[k] = J[k - 1] \o ss[k]
           /\ FlattenSeq(ss) = J[Len(ss)]
<1> DEFINE n == Len(ss)
           F == [p \in Nat \X Memory |-> IF p[1] \in 1..n THEN p[2] \o ss[p[1]] ELSE << >>]
           IsFlat(f) == f = [i \in 1..n |-> IF i = 1 THEN ss[i] ELSE f[i - 1] \o ss[i]]
           g == CHOOSE f : IsFlat(f)
<1>1. n \in Nat /\ << >> \in Memory /\ \A k \in 1..n : ss[k] \in Memory
  BY DEF Memory
<1>2. F \in [Nat \X Memory -> Memory]
  <2>1. ASSUME NEW k \in 1..n, NEW w \in Memory PROVE w \o ss[k] \in Memory
    BY <1>1, ConcatType
  <2> HIDE DEF n
  <2> QED BY <1>1, <2>1
<1> HIDE DEF n
<1>3. PICK J \in [0..n -> Memory] : Iterates(J, << >>, F, 0..n)
  <2> HIDE DEF F
  <2> QED BY <1>1, <1>2, Iteration, Zenon
<1>4. J[0] = << >>
  <2>1. 0 \in 0..n
    BY <1>1
  <2> HIDE DEF F
  <2> QED BY <1>3, <2>1 DEF Iterates
<1>5. ASSUME NEW k \in 1..n PROVE J[k] = J[k - 1] \o ss[k]
  <2>1. k \in 0..n /\ k # 0 /\ k \in Nat /\ J[k - 1] \in Memory
    BY <1>1
  <2>2. J[k] = F[<<k, J[k - 1]>>]
    <3> HIDE DEF F
    <3> QED BY <1>3, <2>1 DEF Iterates
  <2> QED BY <2>1, <2>2
<1>6. CASE n = 0
  <2>1. ss = << >>
    BY <1>6 DEF n
  <2>2. FlattenSeq(ss) = << >>
    BY <1>6, <2>1 DEF n, FlattenSeq
  <2> QED BY <1>4, <1>5, <1>6, <2>2 DEF n
<1>7. CASE n # 0
  <2> DEFINE K == [i \in 1..n |-> J[i]]
  <2>1. J[1] = ss[1]
    <3>1. 1 \in 1..n /\ 1 - 1 = 0
      BY <1>1, <1>7
    <3>2. J[1] = << >> \o ss[1]
      BY <1>4, <1>5, <3>1
    <3> QED BY <1>1, <3>1, <3>2, ConcatEmptySeq DEF Memory
  <2>2. IsFlat(K)
    <3>1. ASSUME NEW i \in 1..n PROVE K[i] = IF i = 1 THEN ss[i] ELSE K[i - 1] \o ss[i]
      <4>1. K[i] = J[i] /\ (i # 1 => K[i - 1] = J[i - 1])
        BY <1>1
      <4> HIDE DEF K
      <4> QED BY <1>5, <2>1, <4>1
    <3> QED BY <3>1
  <2>3. IsFlat(g)
    BY <2>2, Zenon
  <2> HIDE DEF g
  <2>4. \A i \in 1..n : g[i] = IF i = 1 THEN ss[i] ELSE g[i - 1] \o ss[i]
    BY <2>3
  <2> DEFINE U == {k \in 0..n : k = 0 \/ g[k] = J[k]}
  <2>5. 0 \in U
    BY <1>1
  <2>6. ASSUME NEW k \in 1..n, k - 1 \in U PROVE k \in U
    <3>1. CASE k = 1
      BY <1>1, <2>1, <2>4, <3>1
    <3>2. CASE k # 1
      <4>1. g[k - 1] = J[k - 1]
        BY <2>6, <3>2
      <4>2. g[k] = g[k - 1] \o ss[k] /\ J[k] = J[k - 1] \o ss[k]
        BY <1>5, <2>4, <3>2
      <4>3. k \in 0..n /\ g[k] = J[k]
        BY <1>1, <4>1, <4>2
      <4> QED BY <4>3
    <3> QED BY <3>1, <3>2
  <2>7. n \in U
    <3> HIDE DEF U
    <3>1. \A k \in 1..n : k - 1 \in U => k \in U
      BY <2>6
    <3>2. \A k \in 0..n : k \in U
      BY <1>1, <2>5, <3>1, IntervalSteps
    <3> QED BY <1>1, <3>2
  <2>8. g[n] = J[n]
    BY <1>7, <2>7
  <2>9. FlattenSeq(ss) = g[n]
    BY <1>7, Zenon DEF FlattenSeq, g, n
  <2> QED BY <1>4, <1>5, <2>8, <2>9 DEF n
<1> QED
  BY <1>6, <1>7

LEMMA FlattenedType ==
  ASSUME NEW ss \in Seq(Memory)
  PROVE  FlattenSeq(ss) \in Memory
<1>1. Len(ss) \in 0..Len(ss)
  OBVIOUS
<1> QED
  BY <1>1, Flattened

LEMMA TreeType ==
  ASSUME NEW t \in Trees
  PROVE  /\ t = [name |-> t.name, subdirs |-> t.subdirs]
         /\ t.name \in String /\ t.subdirs \in Seq(Trees)
         /\ StrLen1(t.name) \in UInt(8) /\ Len(t.subdirs) \in UInt(4)
         /\ Len(t.subdirs) \in Nat
         /\ DOMAIN t.subdirs = 1..Len(t.subdirs)
         /\ \A i \in 1..Len(t.subdirs) : t.subdirs[i] \in Trees
<1>1. t \in [name : String, subdirs : Seq(Trees)]
  BY TreesAssumption
<1>2. t = [name |-> t.name, subdirs |-> t.subdirs] /\ t.name \in String /\ t.subdirs \in Seq(Trees)
  BY <1>1
<1>3. StrLen1(t.name) \in UInt(8) /\ Len(t.subdirs) \in UInt(4)
  BY TreesAssumption
<1> QED
  BY <1>2, <1>3

(* Among trees there is one none of whose subdirectories is among them.    *)
LEMMA LeastTree ==
  ASSUME NEW T \in SUBSET Trees, T # {}
  PROVE  \E t \in T : \A i \in 1..Len(t.subdirs) : t.subdirs[i] \in Trees \ T
<1>1. PICK t \in T : \A i \in DOMAIN t.subdirs : t.subdirs[i] \notin T
  BY TreesAssumption
<1> QED
  BY <1>1, TreeType

(* What mem_write_tree writes for a tree before its subdirectories, and    *)
(* for a whole tree when f writes them.                                    *)
TreeHead(t) == Int32(Len(t.subdirs)) \o Int64(StrLen1(t.name)) \o CString(t.name)
TreeBody(f, t) == TreeHead(t) \o FlattenSeq([i \in DOMAIN t.subdirs |-> f[t.subdirs[i]]])

LEMMA TreeHeadType ==
  ASSUME NEW t \in Trees
  PROVE  TreeHead(t) \in Memory /\ Len(TreeHead(t)) = 12 + StrLen1(t.name)
<1> DEFINE a == Int32(Len(t.subdirs))
           b == Int64(StrLen1(t.name))
           c == CString(t.name)
           h == TreeHead(t)
<1>1. a \in Memory /\ Len(a) = 4 /\ b \in Memory /\ Len(b) = 8
      /\ c \in Memory /\ Len(c) = StrLen1(t.name) /\ StrLen1(t.name) \in Nat
  BY TreeType, CStringType, IntBytes
<1>2. h = (a \o b) \o c
  BY DEF TreeHead
<1> HIDE DEF a, b, c, h
<1> DEFINE ab == a \o b
<1>3. ab \in Memory /\ Len(ab) = Len(a) + Len(b)
  BY <1>1, ConcatType, Zenon
<1>4. h = ab \o c
  BY <1>2
<1> HIDE DEF ab
<1>5. h \in Memory /\ Len(h) = Len(ab) + Len(c)
  BY <1>1, <1>3, <1>4, ConcatType, Zenon
<1> QED
  BY <1>1, <1>3, <1>5 DEF h

LEMMA TreeBodyType ==
  ASSUME NEW t \in Trees, NEW f, \A i \in 1..Len(t.subdirs) : f[t.subdirs[i]] \in Memory
  PROVE  /\ [i \in DOMAIN t.subdirs |-> f[t.subdirs[i]]] \in Seq(Memory)
         /\ TreeBody(f, t) \in Memory
<1>1. [i \in DOMAIN t.subdirs |-> f[t.subdirs[i]]] \in Seq(Memory)
  <2>1. DOMAIN t.subdirs = 1..Len(t.subdirs) /\ Len(t.subdirs) \in Nat
    BY TreeType
  <2>2. [i \in DOMAIN t.subdirs |-> f[t.subdirs[i]]] \in [1..Len(t.subdirs) -> Memory]
    BY <2>1
  <2> QED BY <2>1, <2>2
<1>2. FlattenSeq([i \in DOMAIN t.subdirs |-> f[t.subdirs[i]]]) \in Memory
  BY <1>1, FlattenedType
<1> QED
  BY <1>1, <1>2, TreeHeadType, ConcatType DEF TreeBody

LEMMA TreeBodySame ==
  ASSUME NEW t \in Trees, NEW f, NEW g,
         \A i \in 1..Len(t.subdirs) : f[t.subdirs[i]] = g[t.subdirs[i]]
  PROVE  TreeBody(f, t) = TreeBody(g, t)
<1>1. [i \in DOMAIN t.subdirs |-> f[t.subdirs[i]]] = [i \in DOMAIN t.subdirs |-> g[t.subdirs[i]]]
  BY TreeType
<1> QED
  BY <1>1 DEF TreeBody

(* f writes the trees in T, and T holds their subdirectories.              *)
Writes(f, T) ==
  /\ f \in [Trees -> Memory]
  /\ T \subseteq Trees
  /\ \A t \in T : f[t] = TreeBody(f, t) /\ \A i \in 1..Len(t.subdirs) : t.subdirs[i] \in T

LEMMA WritesSame ==
  ASSUME NEW f, NEW g, NEW T, NEW U, Writes(f, T), Writes(g, U)
  PROVE  \A t \in T \cap U : f[t] = g[t]
<1> DEFINE D == {t \in T \cap U : f[t] # g[t]}
<1> SUFFICES ASSUME D # {} PROVE FALSE
  OBVIOUS
<1>1. D \in SUBSET Trees
  BY DEF Writes
<1>2. PICK t \in D : \A i \in 1..Len(t.subdirs) : t.subdirs[i] \in Trees \ D
  <2> HIDE DEF D
  <2> QED BY <1>1, LeastTree
<1>3. \A i \in 1..Len(t.subdirs) : f[t.subdirs[i]] = g[t.subdirs[i]]
  BY <1>2 DEF Writes
<1>4. TreeBody(f, t) = TreeBody(g, t)
  BY <1>1, <1>3, TreeBodySame
<1> QED
  BY <1>2, <1>4 DEF Writes

(* All trees can be written.                                               *)
LEMMA WriterExists == \E f : Writes(f, Trees)
<1> DEFINE W == {t \in Trees : \E T, f : Writes(f, T) /\ t \in T}
           w(t) == CHOOSE f : \E T : Writes(f, T) /\ t \in T
           h == [t \in Trees |-> IF t \in W THEN w(t)[t] ELSE << >>]
<1>1. ASSUME NEW t \in W PROVE \E T : Writes(w(t), T) /\ t \in T
  <2>1. \E f : \E T : Writes(f, T) /\ t \in T
    OBVIOUS
  <2> QED BY <2>1, Zenon
<1>2. h \in [Trees -> Memory]
  <2>1. ASSUME NEW t \in W PROVE w(t)[t] \in Memory
    <3> HIDE DEF w
    <3> QED BY <1>1 DEF Writes
  <2>2. << >> \in Memory
    BY DEF Memory
  <2> HIDE DEF W, w
  <2> QED BY <2>1, <2>2
<1>3. ASSUME NEW T, NEW f, Writes(f, T), NEW t \in T
      PROVE  t \in W /\ h[t] = f[t]
  <2>1. t \in W
    BY <1>3 DEF Writes
  <2>2. PICK U : Writes(w(t), U) /\ t \in U
    BY <1>1, <2>1
  <2>3. w(t)[t] = f[t]
    <3> HIDE DEF w
    <3> QED BY <1>3, <2>2, WritesSame
  <2>4. h[t] = w(t)[t]
    <3> HIDE DEF w
    <3> QED BY <2>1
  <2> QED BY <2>1, <2>3, <2>4
<1> HIDE DEF h
<1>4. Writes(h, W)
  <2>1. ASSUME NEW t \in W
        PROVE  h[t] = TreeBody(h, t) /\ \A i \in 1..Len(t.subdirs) : t.subdirs[i] \in W
    <3>1. PICK T, f : Writes(f, T) /\ t \in T
      OBVIOUS
    <3>2. t \in Trees /\ h[t] = f[t] /\ f[t] = TreeBody(f, t)
      <4>1. h[t] = f[t]
        BY <1>3, <3>1
      <4> QED BY <3>1, <4>1 DEF Writes
    <3>3. \A i \in 1..Len(t.subdirs) : t.subdirs[i] \in T
      BY <3>1 DEF Writes
    <3>4. \A i \in 1..Len(t.subdirs) : t.subdirs[i] \in W /\ h[t.subdirs[i]] = f[t.subdirs[i]]
      <4> HIDE DEF W
      <4> QED BY <1>3, <3>1, <3>3
    <3>5. TreeBody(h, t) = TreeBody(f, t)
      <4> HIDE DEF W
      <4> QED BY <3>2, <3>4, TreeBodySame
    <3> QED BY <3>2, <3>4, <3>5
  <2>2. W \subseteq Trees
    OBVIOUS
  <2> HIDE DEF W
  <2> QED BY <1>2, <2>1, <2>2 DEF Writes
<1>5. Trees \ W = {}
  <2> SUFFICES ASSUME Trees \ W # {} PROVE FALSE
    OBVIOUS
  <2>1. PICK t \in Trees \ W : \A i \in 1..Len(t.subdirs) : t.subdirs[i] \in W
    <3>1. Trees \ W \in SUBSET Trees
      OBVIOUS
    <3>2. PICK t \in Trees \ W : \A i \in 1..Len(t.subdirs) : t.subdirs[i] \in Trees \ (Trees \ W)
      <4> HIDE DEF W
      <4> QED BY <3>1, LeastTree
    <3> HIDE DEF W
    <3> QED BY <3>2
  <2> DEFINE f == [u \in Trees |-> IF u = t THEN TreeBody(h, t) ELSE h[u]]
             T == W \cup {t}
  <2>2. TreeBody(h, t) \in Memory
    <3>1. \A i \in 1..Len(t.subdirs) : h[t.subdirs[i]] \in Memory
      BY <1>2, <2>1
    <3> HIDE DEF W
    <3> QED BY <3>1, TreeBodyType
  <2>3. f \in [Trees -> Memory]
    BY <1>2, <2>2
  <2>4. \A u \in W : f[u] = h[u]
    <3>1. W \subseteq Trees
      OBVIOUS
    <3> HIDE DEF W
    <3> QED BY <2>1, <3>1
  <2>5. f[t] = TreeBody(h, t)
    OBVIOUS
  <2> HIDE DEF f, W
  <2>6. ASSUME NEW u \in T
        PROVE  /\ f[u] = TreeBody(f, u)
               /\ \A i \in 1..Len(u.subdirs) : u.subdirs[i] \in T
    <3>1. u \in Trees
      BY <1>4, <2>1 DEF Writes
    <3>2. \A i \in 1..Len(u.subdirs) : u.subdirs[i] \in W
      BY <1>4, <2>1 DEF Writes
    <3>3. TreeBody(f, u) = TreeBody(h, u)
      BY <2>4, <3>1, <3>2, TreeBodySame
    <3>4. f[u] = TreeBody(h, u)
      <4>1. CASE u = t
        BY <2>5, <4>1
      <4>2. CASE u \in W
        BY <1>4, <2>4, <4>2 DEF Writes
      <4> QED BY <4>1, <4>2
    <3> QED BY <3>2, <3>3, <3>4
  <2>7. Writes(f, T)
    <3>1. T \subseteq Trees
      BY <1>4, <2>1 DEF Writes
    <3> HIDE DEF T
    <3> QED BY <2>3, <2>6, <3>1 DEF Writes
  <2>8. t \in W
    <3>1. t \in T
      OBVIOUS
    <3> HIDE DEF T
    <3> QED BY <2>1, <2>7, <3>1 DEF W
  <2> QED BY <2>1, <2>8
<1>6. W = Trees
  BY <1>5
<1> QED
  <2> HIDE DEF W
  <2> QED BY <1>4, <1>6

(* mem_write_tree satisfies its recursive definition.                      *)
LEMMA WriteTreeDef ==
  /\ mem_write_tree \in [Trees -> Memory]
  /\ \A t \in Trees : mem_write_tree[t] = TreeBody(mem_write_tree, t)
<1> DEFINE IsWriter(f) == f = [t \in Trees |-> TreeBody(f, t)]
<1>1. PICK f : Writes(f, Trees)
  BY WriterExists
<1>2. IsWriter(f)
  BY <1>1 DEF Writes
<1>3. IsWriter(mem_write_tree)
  BY <1>2, Zenon DEF mem_write_tree, TreeBody, TreeHead
<1>4. \A t \in Trees : mem_write_tree[t] = TreeBody(mem_write_tree, t)
  BY <1>3
<1> DEFINE D == {t \in Trees : mem_write_tree[t] \notin Memory}
<1>5. D = {}
  <2> SUFFICES ASSUME D # {} PROVE FALSE
    OBVIOUS
  <2>1. PICK t \in D : \A i \in 1..Len(t.subdirs) : t.subdirs[i] \in Trees \ D
    <3>1. D \in SUBSET Trees
      OBVIOUS
    <3> HIDE DEF D
    <3> QED BY <3>1, LeastTree
  <2>2. t \in Trees /\ \A i \in 1..Len(t.subdirs) : mem_write_tree[t.subdirs[i]] \in Memory
    BY <2>1
  <2>3. TreeBody(mem_write_tree, t) \in Memory
    BY <2>2, TreeBodyType
  <2> QED BY <1>4, <2>1, <2>3
<1>6. mem_write_tree = [t \in Trees |-> TreeBody(mem_write_tree, t)]
  BY <1>3
<1> QED
  BY <1>4, <1>5, <1>6

-----------------------------------------------------------------------------
(* Reading trees *)

(* What mem_read_tree reads at o when g reads the subdirectories: where    *)
(* they begin, and the node.                                               *)
FirstSubdir(in, o) == o + 12 + Unsigned(in, o + 4, 8)
IsNext(next, in, g, o) ==
  next = [i \in 0..Unsigned(in, o, 4) |->
            IF i = 0 THEN FirstSubdir(in, o) ELSE NextSubdir(FirstSubdir(in, o), g[next[i - 1]].off)]
Node(next, in, g, o) ==
  [tree |-> [name |-> StringAt(in, o + 12, Unsigned(in, o + 4, 8)),
             subdirs |-> [i \in 1..Unsigned(in, o, 4) |-> g[next[i - 1]].tree]],
   off |-> next[Unsigned(in, o, 4)]]
NodeAt(in, g, o) == Node(CHOOSE next : IsNext(next, in, g, o), in, g, o)

LEMMA ReadTreeChoice ==
  ASSUME NEW in, NEW off
  PROVE  mem_read_tree(in, off) =
           (CHOOSE read : read = [o \in Nat |-> NodeAt(in, read, o)])[off]
BY Zenon DEF mem_read_tree, NodeAt, Node, IsNext, FirstSubdir

LEMMA UnsignedType ==
  ASSUME NEW in \in Memory, NEW o \in Nat, NEW n \in Nat
  PROVE  /\ Unsigned(in, o, n) \in Nat
         /\ o >= Len(in) => Unsigned(in, o, n) = 0
<1> DEFINE w == mem_read_data(in, o, n)
<1>1. w \in Memory /\ Len(w) = n
  BY ReadType
<1>2. ASSUME o >= Len(in) PROVE \A k \in 1..Len(w) : w[k] = 0
  <2>1. Len(in) \in Nat
    BY DEF Memory
  <2>2. \A k \in 1..n : ~ (o + k <= Len(in))
    BY <1>2, <2>1
  <2>3. \A k \in 1..n : w[k] = IF o + k <= Len(in) THEN in[o + k] ELSE NUL
    BY ReadType
  <2> HIDE DEF w
  <2> QED BY <1>1, <2>2, <2>3 DEF NUL
<1> HIDE DEF w
<1> QED
  BY <1>1, <1>2, ValueType DEF Unsigned, w

LEMMA FirstSubdirType ==
  ASSUME NEW in \in Memory, NEW o \in Nat
  PROVE  FirstSubdir(in, o) \in Nat /\ FirstSubdir(in, o) > o
<1>1. Unsigned(in, o + 4, 8) \in Nat
  BY UnsignedType
<1> QED
  BY <1>1 DEF FirstSubdir

(* The sequence of the offsets is the one that steps as they do.           *)
LEMMA NodeIs ==
  ASSUME NEW in \in Memory, NEW o \in Nat, NEW g, NEW N \in [0..Unsigned(in, o, 4) -> Nat],
         N[0] = FirstSubdir(in, o),
         \A i \in 1..Unsigned(in, o, 4) : N[i] = g[N[i - 1]].off
  PROVE  NodeAt(in, g, o) = Node(N, in, g, o)
<1> DEFINE n == Unsigned(in, o, 4)
           M == CHOOSE next : IsNext(next, in, g, o)
<1>1. n \in Nat
  BY UnsignedType
<1>2. IsNext(N, in, g, o)
  BY <1>1 DEF IsNext, NextSubdir
<1>3. IsNext(M, in, g, o)
  BY <1>2, Zenon
<1> HIDE DEF n, M
<1>4. /\ M = [i \in 0..n |-> IF i = 0 THEN FirstSubdir(in, o) ELSE g[M[i - 1]].off]
  BY <1>3 DEF IsNext, NextSubdir, n
<1> DEFINE U == {k \in 0..n : M[k] = N[k]}
<1>5. 0 \in U
  BY <1>1, <1>4
<1>6. ASSUME NEW k \in 1..n, k - 1 \in U PROVE k \in U
  <2>1. k \in 0..n /\ k # 0
    BY <1>1
  <2>2. M[k] = g[M[k - 1]].off
    BY <1>4, <2>1
  <2>3. N[k] = g[N[k - 1]].off
    BY DEF n
  <2> QED BY <1>6, <2>1, <2>2, <2>3
<1>7. \A k \in 0..n : k \in U
  <2> HIDE DEF U
  <2>1. \A k \in 1..n : k - 1 \in U => k \in U
    BY <1>6
  <2> QED BY <1>1, <1>5, <2>1, IntervalSteps
<1>8. DOMAIN M = 0..n /\ DOMAIN N = 0..n
  BY <1>4 DEF n
<1>9. M = N
  <2>1. \A k \in 0..n : M[k] = N[k]
    BY <1>7
  <2>2. M = [k \in 0..n |-> M[k]]
    BY <1>4
  <2>3. N = [k \in 0..n |-> N[k]]
    BY DEF n
  <2> QED BY <2>1, <2>2, <2>3
<1> QED
  BY <1>9 DEF NodeAt, M

(* g reads forward, from k on.                                             *)
Forward(g, k) == \A o \in Nat : o >= k => g[o].off \in Nat /\ g[o].off > o

LEMMA NextExists ==
  ASSUME NEW in \in Memory, NEW o \in Nat, NEW g, Forward(g, o + 1)
  PROVE  \E N \in [0..Unsigned(in, o, 4) -> {x \in Nat : x > o}] :
           /\ N[0] = FirstSubdir(in, o)
           /\ \A i \in 1..Unsigned(in, o, 4) : N[i] = g[N[i - 1]].off
<1> DEFINE n == Unsigned(in, o, 4)
           V == {x \in Nat : x > o}
           F == [p \in Nat \X V |-> g[p[2]].off]
<1>1. n \in Nat /\ FirstSubdir(in, o) \in V
  BY UnsignedType, FirstSubdirType
<1>2. F \in [Nat \X V -> V]
  <2>1. ASSUME NEW x \in V PROVE g[x].off \in V
    <3>1. x \in Nat /\ x >= o + 1
      OBVIOUS
    <3>2. g[x].off \in Nat /\ g[x].off > x
      BY <3>1 DEF Forward
    <3> QED BY <3>1, <3>2
  <2> HIDE DEF V
  <2> QED BY <2>1
<1> HIDE DEF n, V
<1>3. PICK N \in [0..n -> V] : Iterates(N, FirstSubdir(in, o), F, 0..n)
  <2> HIDE DEF F
  <2> QED BY <1>1, <1>2, Iteration, Zenon
<1>4. N[0] = FirstSubdir(in, o)
  <2>1. 0 \in 0..n
    BY <1>1
  <2> HIDE DEF F
  <2> QED BY <1>3, <2>1 DEF Iterates
<1>5. ASSUME NEW i \in 1..n PROVE N[i] = g[N[i - 1]].off
  <2>1. i \in 0..n /\ i # 0 /\ i \in Nat /\ N[i - 1] \in V
    BY <1>1
  <2>2. N[i] = F[<<i, N[i - 1]>>]
    <3> HIDE DEF F
    <3> QED BY <1>3, <2>1 DEF Iterates
  <2> QED BY <2>1, <2>2
<1> QED
  BY <1>4, <1>5 DEF n, V

(* A node depends on what is read behind it, and ends behind it.           *)
LEMMA NodeLocal ==
  ASSUME NEW in \in Memory, NEW o \in Nat, NEW g, Forward(g, o + 1)
  PROVE  /\ NodeAt(in, g, o).off \in Nat /\ NodeAt(in, g, o).off > o
         /\ \A h : (\A x \in Nat : x > o => h[x] = g[x]) => NodeAt(in, h, o) = NodeAt(in, g, o)
<1> DEFINE n == Unsigned(in, o, 4)
<1>1. n \in Nat
  BY UnsignedType
<1>2. PICK N \in [0..n -> {x \in Nat : x > o}] :
        /\ N[0] = FirstSubdir(in, o)
        /\ \A i \in 1..n : N[i] = g[N[i - 1]].off
  BY NextExists
<1> HIDE DEF n
<1>3. N \in [0..n -> Nat]
  BY <1>2
<1>4. NodeAt(in, g, o) = Node(N, in, g, o)
  BY <1>2, <1>3, NodeIs DEF n
<1>5. NodeAt(in, g, o).off \in Nat /\ NodeAt(in, g, o).off > o
  BY <1>1, <1>2, <1>4 DEF Node, n
<1>6. ASSUME NEW h, \A x \in Nat : x > o => h[x] = g[x]
      PROVE  NodeAt(in, h, o) = NodeAt(in, g, o)
  <2>1. \A i \in 1..n : i - 1 \in 0..n
    BY <1>1
  <2>2. \A i \in 1..n : N[i - 1] \in Nat /\ N[i - 1] > o
    BY <1>2, <2>1
  <2>3. \A i \in 1..n : h[N[i - 1]] = g[N[i - 1]]
    BY <1>6, <2>2
  <2>4. \A i \in 1..n : N[i] = h[N[i - 1]].off
    BY <1>2, <2>3
  <2>5. NodeAt(in, h, o) = Node(N, in, h, o)
    BY <1>2, <1>3, <2>4, NodeIs DEF n
  <2>6. [i \in 1..n |-> h[N[i - 1]].tree] = [i \in 1..n |-> g[N[i - 1]].tree]
    BY <2>3
  <2>7. Node(N, in, h, o) = Node(N, in, g, o)
    BY <2>6 DEF Node, n
  <2> QED BY <1>4, <2>5, <2>7
<1> QED
  BY <1>5, <1>6

(* Behind the end of memory there are empty nodes, whatever g is.          *)
LEMMA NodeBehindEnd ==
  ASSUME NEW in \in Memory, NEW o \in Nat, o >= Len(in), NEW g, NEW h
  PROVE  /\ NodeAt(in, g, o) = NodeAt(in, h, o)
         /\ NodeAt(in, g, o).off \in Nat /\ NodeAt(in, g, o).off > o
<1> DEFINE N == [i \in 0..0 |-> FirstSubdir(in, o)]
<1>1. Unsigned(in, o, 4) = 0
  BY UnsignedType
<1>2. N \in [0..0 -> Nat] /\ N[0] = FirstSubdir(in, o)
  BY FirstSubdirType
<1> HIDE DEF N
<1>3. \A f : NodeAt(in, f, o) = Node(N, in, f, o)
  <2> TAKE f
  <2>1. \A i \in 1..0 : N[i] = f[N[i - 1]].off
    OBVIOUS
  <2> QED BY <1>1, <1>2, <2>1, NodeIs
<1>4. [i \in 1..0 |-> g[N[i - 1]].tree] = [i \in 1..0 |-> h[N[i - 1]].tree]
  OBVIOUS
<1>5. Node(N, in, g, o) = Node(N, in, h, o)
  BY <1>1, <1>4 DEF Node
<1>6. Node(N, in, g, o).off = FirstSubdir(in, o)
  BY <1>1, <1>2 DEF Node
<1> QED
  BY <1>3, <1>5, <1>6, FirstSubdirType

(* g reads every node from k on.                                           *)
Reads(in, g, k) ==
  /\ g = [o \in Nat |-> g[o]]
  /\ \A o \in Nat : o >= k => g[o] = NodeAt(in, g, o)
  /\ Forward(g, k)

LEMMA ReaderExists ==
  ASSUME NEW in \in Memory
  PROVE  \E g : Reads(in, g, 0)
<1> DEFINE K == {k \in Nat : \E g : Reads(in, g, k)}
<1>1. Len(in) \in Nat
  BY DEF Memory
<1>2. Len(in) \in K
  <2> DEFINE g == [o \in Nat |-> NodeAt(in, << >>, o)]
  <2>1. g = [o \in Nat |-> g[o]]
    OBVIOUS
  <2>2. \A o \in Nat : g[o] = NodeAt(in, << >>, o)
    OBVIOUS
  <2> HIDE DEF g
  <2>3. ASSUME NEW o \in Nat, o >= Len(in)
        PROVE  g[o] = NodeAt(in, g, o) /\ g[o].off \in Nat /\ g[o].off > o
    BY <2>2, <2>3, NodeBehindEnd
  <2>4. Reads(in, g, Len(in))
    BY <2>1, <2>3 DEF Reads, Forward
  <2> QED BY <1>1, <2>4
<1>3. PICK k \in K : \A j \in K : k <= j
  <2>1. K \in SUBSET Nat
    OBVIOUS
  <2> HIDE DEF K
  <2> QED BY <1>2, <2>1, NatLeast
<1>4. k = 0
  <2> SUFFICES ASSUME k # 0 PROVE FALSE
    OBVIOUS
  <2>1. k - 1 \in Nat /\ (k - 1) + 1 = k
    OBVIOUS
  <2>2. PICK g : Reads(in, g, k)
    OBVIOUS
  <2> DEFINE h == [o \in Nat |-> IF o = k - 1 THEN NodeAt(in, g, k - 1) ELSE g[o]]
  <2>3. h = [o \in Nat |-> h[o]]
    OBVIOUS
  <2>4. h[k - 1] = NodeAt(in, g, k - 1)
    BY <2>1
  <2>5. \A o \in Nat : o >= k => h[o] = g[o]
    BY <2>1
  <2> HIDE DEF h
  <2>6. NodeAt(in, g, k - 1).off \in Nat /\ NodeAt(in, g, k - 1).off > k - 1
    <3>1. Forward(g, (k - 1) + 1)
      BY <2>1, <2>2 DEF Reads
    <3> QED BY <2>1, <3>1, NodeLocal
  <2>7. ASSUME NEW o \in Nat, o >= k - 1 PROVE NodeAt(in, h, o) = NodeAt(in, g, o)
    <3>1. Forward(g, o + 1)
      BY <2>1, <2>2, <2>7 DEF Reads, Forward
    <3>2. \A x \in Nat : x > o => h[x] = g[x]
      BY <2>1, <2>5, <2>7
    <3> QED BY <3>1, <3>2, NodeLocal
  <2>8. ASSUME NEW o \in Nat, o >= k - 1
        PROVE  h[o] = NodeAt(in, h, o) /\ h[o].off \in Nat /\ h[o].off > o
    <3>1. CASE o = k - 1
      BY <2>4, <2>6, <2>7, <3>1
    <3>2. CASE o >= k
      BY <2>2, <2>5, <2>7, <2>8, <3>2 DEF Reads, Forward
    <3> QED BY <2>1, <2>8, <3>1, <3>2
  <2>9. Reads(in, h, k - 1)
    BY <2>3, <2>8 DEF Reads, Forward
  <2>10. k - 1 \in K
    BY <2>1, <2>9
  <2> QED BY <1>3, <2>1, <2>10
<1> QED
  BY <1>4

(* mem_read_tree satisfies its recursive definition.                       *)
LEMMA ReadTreeDef ==
  ASSUME NEW in \in Memory
  PROVE  \E g : Reads(in, g, 0) /\ \A off \in Nat : mem_read_tree(in, off) = g[off]
<1> DEFINE IsReader(f) == f = [o \in Nat |-> NodeAt(in, f, o)]
           r == CHOOSE f : IsReader(f)
<1>1. PICK g : Reads(in, g, 0)
  BY ReaderExists
<1>2. IsReader(g)
  <2>1. \A o \in Nat : g[o] = NodeAt(in, g, o)
    BY <1>1 DEF Reads
  <2>2. g = [o \in Nat |-> g[o]]
    BY <1>1 DEF Reads
  <2> QED BY <2>1, <2>2
<1>3. IsReader(r)
  BY <1>2, Zenon
<1>4. \A off : mem_read_tree(in, off) = r[off]
  BY ReadTreeChoice, Zenon
<1> HIDE DEF r
<1>5. \A o \in Nat : r[o] = NodeAt(in, r, o)
  BY <1>3
<1> DEFINE D == {o \in Nat : r[o] # g[o]}
           E == {Len(in) - o : o \in D}
<1>6. D = {}
  <2> SUFFICES ASSUME D # {} PROVE FALSE
    OBVIOUS
  <2>1. Len(in) \in Nat
    BY DEF Memory
  <2>2. ASSUME NEW o \in Nat, o >= Len(in) PROVE r[o] = g[o]
    <3>1. NodeAt(in, r, o) = NodeAt(in, g, o)
      BY <2>2, NodeBehindEnd
    <3> QED BY <1>1, <1>5, <3>1 DEF Reads
  <2>3. E \in SUBSET Nat /\ E # {}
    <3>1. \A o \in D : Len(in) - o \in Nat
      BY <2>1, <2>2
    <3> HIDE DEF D
    <3> QED BY <3>1
  <2>4. PICK e \in E : \A f \in E : e <= f
    <3> HIDE DEF E
    <3> QED BY <2>3, NatLeast
  <2>5. PICK o \in D : e = Len(in) - o
    OBVIOUS
  <2>6. \A x \in Nat : x > o => r[x] = g[x]
    <3> SUFFICES ASSUME NEW x \in D, x > o PROVE FALSE
      OBVIOUS
    <3>1. Len(in) - x \in E
      OBVIOUS
    <3>2. e <= Len(in) - x
      <4> HIDE DEF E
      <4> QED BY <2>4, <3>1
    <3> QED BY <2>1, <2>5, <3>2
  <2>7. Forward(g, o + 1)
    BY <1>1 DEF Reads, Forward
  <2>8. NodeAt(in, r, o) = NodeAt(in, g, o)
    BY <2>6, <2>7, NodeLocal
  <2> QED BY <1>1, <1>5, <2>8 DEF Reads
<1> QED
  BY <1>1, <1>4, <1>6

(* A tree that lies in memory is read, with the trees below it.            *)
LEMMA TreeIsAt ==
  ASSUME NEW in \in Memory, NEW g, Reads(in, g, 0)
  PROVE  \A t \in Trees : \A o \in Nat :
           At(in, o, mem_write_tree[t]) =>
             g[o] = [tree |-> t, off |-> o + Len(mem_write_tree[t])]
<1> DEFINE IsRead(t, o) == g[o] = [tree |-> t, off |-> o + Len(mem_write_tree[t])]
           Bad == {t \in Trees : \E o \in Nat : At(in, o, mem_write_tree[t]) /\ ~ IsRead(t, o)}
<1> SUFFICES ASSUME Bad # {} PROVE FALSE
  OBVIOUS
<1>1. PICK t \in Bad : \A i \in 1..Len(t.subdirs) : t.subdirs[i] \in Trees \ Bad
  <2>1. Bad \in SUBSET Trees
    OBVIOUS
  <2> HIDE DEF Bad
  <2> QED BY <2>1, LeastTree
<1>2. PICK o \in Nat : At(in, o, mem_write_tree[t]) /\ ~ IsRead(t, o)
  OBVIOUS
<1> DEFINE n == Len(t.subdirs)
           ss == [i \in DOMAIN t.subdirs |-> mem_write_tree[t.subdirs[i]]]
           first == o + 12 + StrLen1(t.name)
<1>3. t \in Trees /\ n \in Nat /\ n \in UInt(4) /\ DOMAIN t.subdirs = 1..n
  BY TreeType
<1>4. ASSUME NEW i \in 1..n, NEW x \in Nat, At(in, x, ss[i])
      PROVE  g[x] = [tree |-> t.subdirs[i], off |-> x + Len(ss[i])]
  <2>1. ss[i] = mem_write_tree[t.subdirs[i]]
    BY <1>3
  <2>2. t.subdirs[i] \in Trees /\ t.subdirs[i] \notin Bad
    BY <1>1
  <2>3. IsRead(t.subdirs[i], x)
    BY <1>4, <2>1, <2>2
  <2> QED BY <2>1, <2>3
<1>5. ss \in Seq(Memory) /\ Len(ss) = n /\ mem_write_tree[t] = TreeHead(t) \o FlattenSeq(ss)
  <2>1. \A i \in 1..n : mem_write_tree[t.subdirs[i]] \in Memory
    BY <1>3, WriteTreeDef, TreeType
  <2>2. ss \in Seq(Memory)
    BY <1>3, <2>1, TreeBodyType
  <2>3. Len(ss) = n
    BY <1>3
  <2>4. mem_write_tree[t] = TreeBody(mem_write_tree, t)
    BY <1>3, WriteTreeDef
  <2> QED BY <2>2, <2>3, <2>4 DEF TreeBody
<1> HIDE DEF n, ss
<1>6. PICK J \in [0..n -> Memory] :
        /\ J[0] = << >>
        /\ \A k \in 1..n : J[k] = J[k - 1] \o ss[k]
        /\ FlattenSeq(ss) = J[n]
  BY <1>5, Flattened
<1>7. /\ mem_write_tree[t] = TreeHead(t) \o J[n]
      /\ TreeHead(t) \in Memory /\ J[n] \in Memory
      /\ Len(TreeHead(t)) = 12 + StrLen1(t.name) /\ StrLen1(t.name) \in Nat
  <2>1. n \in 0..n
    BY <1>3
  <2>2. StrLen1(t.name) \in Nat
    BY <1>3, TreeType, CStringType
  <2> QED BY <1>3, <1>5, <1>6, <2>1, <2>2, TreeHeadType
<1>8. /\ At(in, o, TreeHead(t)) /\ At(in, first, J[n])
      /\ Len(mem_write_tree[t]) = 12 + StrLen1(t.name) + Len(J[n])
  <2> DEFINE h == TreeHead(t)
             j == J[n]
  <2>1. h \in Memory /\ j \in Memory /\ Len(h) = 12 + StrLen1(t.name) /\ StrLen1(t.name) \in Nat
    BY <1>7
  <2>2. At(in, o, h \o j) /\ mem_write_tree[t] = h \o j
    BY <1>2, <1>7
  <2> HIDE DEF h, j
  <2>3. At(in, o, h) /\ At(in, o + Len(h), j)
    BY <2>1, <2>2, AtConcat, Zenon
  <2>4. Len(h \o j) = Len(h) + Len(j) /\ Len(j) \in Nat
    BY <2>1, ConcatType
  <2>5. o + Len(h) = first
    BY <2>1
  <2> QED BY <2>1, <2>2, <2>3, <2>4, <2>5 DEF h, j
<1>9. /\ Unsigned(in, o, 4) = n
      /\ Unsigned(in, o + 4, 8) = StrLen1(t.name)
      /\ StringAt(in, o + 12, StrLen1(t.name)) = t.name
  <2> DEFINE a == Int32(n)
             b == Int64(StrLen1(t.name))
             c == CString(t.name)
             h == TreeHead(t)
  <2>1. a \in Memory /\ Len(a) = 4 /\ b \in Memory /\ Len(b) = 8 /\ c \in Memory
    BY <1>3, <1>7, TreeType, CStringType, IntBytes
  <2>2. h = (a \o b) \o c
    BY DEF TreeHead, n
  <2>3. At(in, o, h)
    BY <1>8
  <2>4. StrLen1(t.name) \in UInt(8) /\ t.name \in String
    BY <1>3, TreeType
  <2> HIDE DEF a, b, c, h
  <2> DEFINE ab == a \o b
  <2>5. ab \in Memory /\ Len(ab) = Len(a) + Len(b)
    BY <2>1, ConcatType, Zenon
  <2>6. At(in, o, ab \o c)
    BY <2>2, <2>3
  <2>7. At(in, o, a \o b)
    <3>1. At(in, o, ab) /\ At(in, o + Len(ab), c)
      <4> HIDE DEF ab
      <4> QED BY <2>1, <2>5, <2>6, AtConcat, Zenon
    <3> QED BY <3>1
  <2>8. At(in, o + Len(ab), c)
    <3> HIDE DEF ab
    <3> QED BY <2>1, <2>5, <2>6, AtConcat, Zenon
  <2>9. At(in, o, a) /\ At(in, o + Len(a), b)
    BY <2>1, <2>7, AtConcat, Zenon
  <2>10. At(in, o + 12, c) /\ At(in, o + 4, b)
    BY <2>1, <2>5, <2>8, <2>9
  <2>11. Unsigned(in, o, 4) = n
    BY <1>3, <2>9, UIntAt DEF a, Int32
  <2>12. Unsigned(in, o + 4, 8) = StrLen1(t.name)
    BY <2>4, <2>10, UIntAt DEF b, Int64
  <2>13. StringAt(in, o + 12, StrLen1(t.name)) = t.name
    BY <2>4, <2>10, StringIsAt DEF c
  <2> QED BY <2>11, <2>12, <2>13
<1>10. first \in Nat /\ FirstSubdir(in, o) = first
  BY <1>7, <1>9 DEF FirstSubdir
<1> HIDE DEF first
<1>11. ASSUME NEW k \in 1..n, At(in, first, J[k])
       PROVE  /\ At(in, first, J[k - 1]) /\ At(in, first + Len(J[k - 1]), ss[k])
              /\ Len(J[k]) = Len(J[k - 1]) + Len(ss[k]) /\ Len(J[k - 1]) \in Nat
  <2> DEFINE a == J[k - 1]
             b == ss[k]
  <2>1. a \in Memory /\ b \in Memory
    <3>1. k - 1 \in 0..n /\ k \in 1..Len(ss)
      BY <1>3, <1>5
    <3> QED BY <1>5, <1>6, <3>1
  <2>2. J[k] = a \o b /\ At(in, first, a \o b)
    BY <1>6, <1>11
  <2> HIDE DEF a, b
  <2>3. At(in, first, a) /\ At(in, first + Len(a), b)
    BY <1>10, <2>1, <2>2, AtConcat, Zenon
  <2>4. Len(a \o b) = Len(a) + Len(b) /\ Len(a) \in Nat
    BY <2>1, ConcatType
  <2> QED BY <2>2, <2>3, <2>4 DEF a, b
<1>12. \A k \in 0..n : At(in, first, J[k])
  <2> DEFINE U == {k \in 0..n : At(in, first, J[n - k])}
  <2>1. 0 \in U
    BY <1>3, <1>8, <1>10
  <2>2. ASSUME NEW k \in 1..n, k - 1 \in U PROVE k \in U
    <3>1. n - (k - 1) \in 1..n /\ (n - (k - 1)) - 1 = n - k /\ k \in 0..n
      BY <1>3
    <3>2. At(in, first, J[n - (k - 1)])
      BY <2>2
    <3>3. At(in, first, J[n - k])
      BY <1>11, <3>1, <3>2
    <3> QED BY <3>1, <3>3
  <2>3. \A k \in 0..n : k \in U
    <3> HIDE DEF U
    <3>1. \A k \in 1..n : k - 1 \in U => k \in U
      BY <2>2
    <3> QED BY <1>3, <2>1, <3>1, IntervalSteps
  <2> SUFFICES ASSUME NEW k \in 0..n PROVE At(in, first, J[k])
    OBVIOUS
  <2>4. n - k \in 0..n /\ n - (n - k) = k
    BY <1>3
  <2>5. n - k \in U
    <3> HIDE DEF U
    <3> QED BY <2>3, <2>4
  <2> QED BY <2>4, <2>5
<1> DEFINE N == [i \in 0..n |-> first + Len(J[i])]
<1>13. N \in [0..n -> Nat] /\ N[0] = first
  <2>1. \A i \in 0..n : Len(J[i]) \in Nat
    BY <1>6, ConcatType
  <2>2. Len(J[0]) = 0 /\ 0 \in 0..n
    BY <1>3, <1>6
  <2> QED BY <1>10, <2>1, <2>2
<1>14. ASSUME NEW i \in 1..n
       PROVE  g[N[i - 1]] = [tree |-> t.subdirs[i], off |-> N[i]]
  <2>1. i \in 0..n /\ i - 1 \in 0..n
    BY <1>3
  <2>2. /\ At(in, first + Len(J[i - 1]), ss[i])
        /\ Len(J[i]) = Len(J[i - 1]) + Len(ss[i]) /\ Len(J[i - 1]) \in Nat
    BY <1>11, <1>12, <2>1
  <2>3. N[i - 1] = first + Len(J[i - 1]) /\ N[i] = first + Len(J[i])
    BY <2>1
  <2>4. ss[i] \in Memory /\ Len(ss[i]) \in Nat
    BY <1>5, ConcatType
  <2> HIDE DEF N
  <2>5. N[i - 1] \in Nat /\ At(in, N[i - 1], ss[i])
    BY <1>10, <2>2, <2>3
  <2>6. g[N[i - 1]] = [tree |-> t.subdirs[i], off |-> N[i - 1] + Len(ss[i])]
    BY <1>4, <2>5
  <2>7. N[i - 1] + Len(ss[i]) = N[i]
    <3> DEFINE a == Len(J[i - 1])
               b == Len(ss[i])
    <3>1. a \in Nat /\ b \in Nat /\ N[i - 1] = first + a /\ N[i] = first + (a + b)
      BY <2>2, <2>3, <2>4
    <3> HIDE DEF a, b
    <3>2. N[i - 1] + b = N[i]
      BY <1>10, <3>1
    <3> QED BY <3>2 DEF b
  <2> QED BY <2>6, <2>7
<1>15. N[n] = o + Len(mem_write_tree[t])
  <2>1. n \in 0..n /\ Len(J[n]) \in Nat
    BY <1>3, <1>7, ConcatType
  <2>2. N[n] = first + Len(J[n])
    BY <2>1
  <2> HIDE DEF N
  <2> QED BY <1>7, <1>8, <2>1, <2>2 DEF first
<1> HIDE DEF N
<1>16. g[o] = Node(N, in, g, o)
  <2>1. ASSUME NEW i \in 1..n PROVE N[i] = g[N[i - 1]].off
    <3>1. g[N[i - 1]] = [tree |-> t.subdirs[i], off |-> N[i]]
      BY <1>14
    <3> QED BY <3>1
  <2>2. NodeAt(in, g, o) = Node(N, in, g, o)
    BY <1>9, <1>10, <1>13, <2>1, NodeIs
  <2> QED BY <2>2 DEF Reads
<1>17. [i \in 1..n |-> g[N[i - 1]].tree] = t.subdirs
  <2>1. ASSUME NEW i \in 1..n PROVE g[N[i - 1]].tree = t.subdirs[i]
    <3>1. g[N[i - 1]] = [tree |-> t.subdirs[i], off |-> N[i]]
      BY <1>14
    <3> QED BY <3>1
  <2>2. t.subdirs = [i \in 1..n |-> t.subdirs[i]]
    <3>1. t.subdirs \in Seq(Trees) /\ DOMAIN t.subdirs = 1..n
      BY <1>3, TreeType
    <3> DEFINE s == t.subdirs
    <3>2. s \in Seq(Trees) /\ DOMAIN s = 1..n
      BY <3>1
    <3> HIDE DEF s
    <3>3. s = [i \in 1..n |-> s[i]]
      <4>1. s \in [1..Len(s) -> Trees] /\ DOMAIN s = 1..Len(s)
        BY <3>2
      <4>2. s = [i \in DOMAIN s |-> s[i]]
        BY <4>1
      <4> QED BY <3>2, <4>2
    <3> QED BY <3>3 DEF s
  <2> QED BY <2>1, <2>2
<1>18. Node(N, in, g, o) = [tree |-> [name |-> t.name, subdirs |-> t.subdirs],
                            off |-> o + Len(mem_write_tree[t])]
  BY <1>9, <1>15, <1>17 DEF Node
<1>19. t = [name |-> t.name, subdirs |-> t.subdirs]
  BY <1>3, TreeType
<1> QED
  BY <1>2, <1>16, <1>18, <1>19

(* mem_read_tree reads back the tree that mem_write_tree wrote, node for   *)
(* node, and ends where the writing ended.                                 *)
THEOREM TreesReadBack ==
  \A tree \in Trees :
    mem_read_tree(mem_write_tree[tree], 0) = [tree |-> tree, off |-> Len(mem_write_tree[tree])]
<1> TAKE tree \in Trees
<1> DEFINE in == mem_write_tree[tree]
<1>1. in \in Memory
  BY WriteTreeDef
<1>2. At(in, 0, in) /\ Len(in) \in Nat
  BY <1>1, AtStart DEF Memory
<1> HIDE DEF in
<1>3. PICK g : Reads(in, g, 0) /\ \A off \in Nat : mem_read_tree(in, off) = g[off]
  BY <1>1, ReadTreeDef
<1>4. g[0] = [tree |-> tree, off |-> 0 + Len(in)]
  BY <1>1, <1>2, <1>3, TreeIsAt DEF in
<1>5. mem_read_tree(in, 0) = [tree |-> tree, off |-> Len(in)]
  BY <1>2, <1>3, <1>4
<1> QED
  BY <1>5 DEF in

-----------------------------------------------------------------------------
(* Calls *)

(* Widths.                                                                 *)
LEMMA Widths ==
  /\ 0..15 \subseteq UInt(4) /\ 0 \in UInt(2)
  /\ UInt(4) \subseteq UInt(8) /\ UInt(4) \subseteq SInt(8)
  /\ \A v \in UInt(4) : \A w \in 0..v : w \in UInt(4)
  /\ {-1, 0} \subseteq SInt(4) /\ {-1, 0} \subseteq SInt(8)
<1>1. \A n \in Nat : Scale[n] \in Nat \ {0} /\ Scale[n + 1] >= 2 * Scale[n]
  <2>1. ASSUME NEW n \in Nat PROVE Scale[n] \in Nat \ {0} /\ Scale[n + 1] >= 2 * Scale[n]
    <3> DEFINE v == Scale[n]
    <3>1. v \in Nat \ {0} /\ Scale[n + 1] = BASE * v
      BY ScaleDef
    <3> HIDE DEF v
    <3>2. BASE * v >= 2 * v
      <4>1. BASE - 2 \in Nat /\ v \in Nat
        BY <3>1, SerdeAssumption
      <4>2. (BASE - 2) * v >= 0 /\ (BASE - 2) * v = BASE * v - 2 * v
        BY <4>1, SerdeAssumption
      <4>3. BASE * v \in Int
        BY <4>1, SerdeAssumption
      <4> QED BY <4>1, <4>2, <4>3
    <3> QED BY <3>1, <3>2 DEF v
  <2> QED BY <2>1
<1>2. /\ Scale[0] = 1 /\ Scale[1] >= 2 * Scale[0] /\ Scale[2] >= 2 * Scale[1]
      /\ Scale[3] >= 2 * Scale[2] /\ Scale[4] >= 2 * Scale[3]
  <2>1. Scale[0 + 1] >= 2 * Scale[0] /\ Scale[1 + 1] >= 2 * Scale[1]
    BY <1>1
  <2>2. Scale[2 + 1] >= 2 * Scale[2] /\ Scale[3 + 1] >= 2 * Scale[3]
    BY <1>1
  <2> QED BY <2>1, <2>2, ScaleDef
<1>3. /\ Scale[5] >= 2 * Scale[4] /\ Scale[6] >= 2 * Scale[5]
      /\ Scale[7] >= 2 * Scale[6] /\ Scale[8] >= 2 * Scale[7]
  <2>1. Scale[4 + 1] >= 2 * Scale[4] /\ Scale[5 + 1] >= 2 * Scale[5]
    BY <1>1
  <2>2. Scale[6 + 1] >= 2 * Scale[6] /\ Scale[7 + 1] >= 2 * Scale[7]
    BY <1>1
  <2> QED BY <2>1, <2>2
<1>4. /\ Scale[2] \in Nat /\ Scale[4] \in Nat /\ Scale[8] \in Nat
      /\ Scale[2] >= 1 /\ Scale[4] >= 16 /\ Scale[8] >= 16 * Scale[4]
  <2>1. \A n \in 0..8 : Scale[n] \in Nat
    BY <1>1
  <2> QED BY <1>2, <1>3, <2>1
<1> QED
  BY <1>4 DEF UInt, SInt

(* A call has the arguments of its type.                                   *)
LEMMA CallTypes ==
  ASSUME NEW c \in Calls
  PROVE  /\ c.op \in DOMAIN Opcode
         /\ c.op = "open" => c \in [op : {"open"}, path : String, flags : UInt(4), mode : UInt(2)]
         /\ c.op = "close" => c \in [op : {"close"}, fd : SInt(4)]
         /\ c.op = "write" => c \in [op : {"write"}, fd : SInt(4), buf : Memory, count : UInt(8)]
         /\ c.op = "read" => c \in [op : {"read"}, fd : SInt(4), count : UInt(8)]
         /\ c.op = "lseek" => c \in [op : {"lseek"}, fd : SInt(4), offset : SInt(8), whence : SInt(4)]
         /\ c.op = "stat" => c \in [op : {"stat"}, ver : SInt(4), path : String]
         /\ c.op = "unlink" => c \in [op : {"unlink", "getdirtree"}, path : String]
         /\ c.op = "getdirtree" => c \in [op : {"unlink", "getdirtree"}, path : String]
         /\ c.op = "getdirentries" =>
              c \in [op : {"getdirentries"}, fd : SInt(4), nbytes : UInt(8), basep : SInt(8)]
<1>1. c \in Call
  BY CallsAssumption
<1> QED
  BY <1>1 DEF Call, Opcode

(* The payload of a call, and how the server reads the call from its frame. *)
Carried(c, len) ==
  /\ Payload(c) \in Memory /\ Len(Payload(c)) = len /\ len \in UInt(4)
  /\ Request([opcode |-> Opcode[c.op], payload |-> Payload(c)]) = Meant(c)

LEMMA OpenCarried ==
  ASSUME NEW c \in Calls, c.op = "open"
  PROVE  Carried(c, 10 + StrLen1(c.path))
<1> DEFINE in == Payload(c)
<1>1. c \in [op : {"open"}, path : String, flags : UInt(4), mode : UInt(2)]
  BY CallTypes
<1>2. StrLen1(c.path) \in Nat /\ StrLen1(c.path) + 18 \in UInt(4)
  <2>1. "path" \in DOMAIN c /\ c.path \in String
    BY <1>1
  <2> QED BY <2>1, SizesAssumption, CStringType
<1>3. StrLen1(c.path) \in UInt(4) /\ 10 + StrLen1(c.path) \in UInt(4)
  BY <1>2, Widths, IntTypes
<1>4. OpenMode(c) \in UInt(2)
  BY <1>1, Widths DEF OpenMode
<1>5. in = call_open_marshal(c.path, c.flags, OpenMode(c))
  BY <1>1 DEF Payload
<1>6. /\ in \in Memory /\ Len(in) = 10 + StrLen1(c.path)
      /\ call_open_unmarshal(in) =
           [op |-> "open", flags |-> c.flags, mode |-> OpenMode(c), path |-> c.path]
  BY <1>1, <1>3, <1>4, <1>5, OpenDecodes
<1> HIDE DEF in
<1>7. Request([opcode |-> Opcode[c.op], payload |-> in]) = call_open_unmarshal(in)
  BY DEF Request, Opcode
<1>8. Meant(c) = [op |-> "open", flags |-> c.flags, mode |-> OpenMode(c), path |-> c.path]
  BY <1>1 DEF Meant
<1> QED
  BY <1>3, <1>6, <1>7, <1>8 DEF Carried, in

LEMMA PathCarried ==
  ASSUME NEW c \in Calls, c.op \in {"unlink", "getdirtree"}
  PROVE  Carried(c, 4 + StrLen1(c.path))
<1> DEFINE in == Payload(c)
<1>1. c \in [op : {"unlink", "getdirtree"}, path : String]
  BY CallTypes
<1>2. StrLen1(c.path) \in Nat /\ StrLen1(c.path) + 18 \in UInt(4)
  <2>1. "path" \in DOMAIN c /\ c.path \in String
    BY <1>1
  <2> QED BY <2>1, SizesAssumption, CStringType
<1>3. StrLen1(c.path) \in UInt(4) /\ 4 + StrLen1(c.path) \in UInt(4)
  BY <1>2, Widths, IntTypes
<1>5. in = PathPayload(c.path)
  BY <1>1 DEF Payload, call_unlink_marshal, call_dirtreenode_marshal
<1>6. /\ in \in Memory /\ Len(in) = 4 + StrLen1(c.path)
      /\ call_unlink_unmarshal(in) = [op |-> "unlink", path |-> c.path]
      /\ call_dirtreenode_unmarshal(in) = [op |-> "getdirtree", path |-> c.path]
  BY <1>1, <1>3, <1>5, PathDecodes
<1> HIDE DEF in
<1>7. Request([opcode |-> Opcode[c.op], payload |-> in]) = [op |-> c.op, path |-> c.path]
  <2>1. CASE c.op = "unlink"
    BY <2>1, <1>6 DEF Request, Opcode
  <2>2. CASE c.op = "getdirtree"
    BY <2>2, <1>6 DEF Request, Opcode
  <2> QED BY <2>1, <2>2
<1>8. Meant(c) = [op |-> c.op, path |-> c.path]
  BY <1>1 DEF Meant
<1> QED
  BY <1>3, <1>6, <1>7, <1>8 DEF Carried, in

LEMMA StatCarried ==
  ASSUME NEW c \in Calls, c.op = "stat"
  PROVE  Carried(c, 12 + StrLen1(c.path))
<1> DEFINE in == Payload(c)
<1>1. c \in [op : {"stat"}, ver : SInt(4), path : String]
  BY CallTypes
<1>2. StrLen1(c.path) \in Nat /\ StrLen1(c.path) + 18 \in UInt(4)
  <2>1. "path" \in DOMAIN c /\ c.path \in String
    BY <1>1
  <2> QED BY <2>1, SizesAssumption, CStringType
<1>3. StrLen1(c.path) \in UInt(8) /\ 12 + StrLen1(c.path) \in UInt(4)
  BY <1>2, Widths, IntTypes
<1>5. in = call_stat_marshal(c.ver, c.path)
  BY <1>1 DEF Payload
<1>6. /\ in \in Memory /\ Len(in) = 12 + StrLen1(c.path)
      /\ call_stat_unmarshal(in) = [op |-> "stat", ver |-> c.ver, path |-> c.path]
  BY <1>1, <1>3, <1>5, StatDecodes
<1> HIDE DEF in
<1>7. Request([opcode |-> Opcode[c.op], payload |-> in]) = call_stat_unmarshal(in)
  BY DEF Request, Opcode
<1>8. Meant(c) = [op |-> "stat", ver |-> c.ver, path |-> c.path]
  BY <1>1 DEF Meant
<1> QED
  BY <1>3, <1>6, <1>7, <1>8 DEF Carried, in

LEMMA FdSizes == {4, 12, 16, 20} \subseteq UInt(4)
<1>1. BUFFERLEN \in UInt(4) /\ BUFFERLEN \in Nat /\ 28 <= BUFFERLEN
  BY SizesAssumption, IntTypes
<1>2. {4, 12, 16, 20} \subseteq 0..BUFFERLEN
  BY <1>1
<1> QED
  BY <1>1, <1>2, Widths

LEMMA CloseCarried ==
  ASSUME NEW c \in Calls, c.op = "close"
  PROVE  Carried(c, 4)
<1> DEFINE in == Payload(c)
<1>1. c \in [op : {"close"}, fd : SInt(4)]
  BY CallTypes
<1>2. in = call_close_marshal(c.fd)
  BY <1>1 DEF Payload
<1>3. in \in Memory /\ Len(in) = 4 /\ call_close_unmarshal(in) = [op |-> "close", fd |-> c.fd]
  BY <1>1, <1>2, CloseDecodes
<1> HIDE DEF in
<1>4. Request([opcode |-> Opcode[c.op], payload |-> in]) = WithFd(call_close_unmarshal(in))
  BY DEF Request, Opcode
<1>5. Meant(c) = WithFd([op |-> "close", fd |-> c.fd])
  BY <1>1 DEF Meant, WithFd, unpack_fd
<1> QED
  BY <1>3, <1>4, <1>5, FdSizes DEF Carried, in

LEMMA ReadCarried ==
  ASSUME NEW c \in Calls, c.op = "read"
  PROVE  Carried(c, 12)
<1> DEFINE in == Payload(c)
<1>1. c \in [op : {"read"}, fd : SInt(4), count : UInt(8)]
  BY CallTypes
<1>2. in = call_read_marshal(c.fd, c.count)
  BY <1>1 DEF Payload
<1>3. /\ in \in Memory /\ Len(in) = 12
      /\ call_read_unmarshal(in) = [op |-> "read", fd |-> c.fd, count |-> c.count]
  BY <1>1, <1>2, ReadDecodes
<1> HIDE DEF in
<1>4. Request([opcode |-> Opcode[c.op], payload |-> in]) = WithFd(call_read_unmarshal(in))
  BY DEF Request, Opcode
<1>5. Meant(c) = WithFd([op |-> "read", fd |-> c.fd, count |-> c.count])
  BY <1>1 DEF Meant, WithFd, unpack_fd
<1> QED
  BY <1>3, <1>4, <1>5, FdSizes DEF Carried, in

LEMMA WriteCarried ==
  ASSUME NEW c \in Calls, c.op = "write"
  PROVE  Carried(c, 12 + c.count) /\ c.count \in UInt(4) /\ c.count \in Nat
<1> DEFINE in == Payload(c)
<1>1. c \in [op : {"write"}, fd : SInt(4), buf : Memory, count : UInt(8)]
  BY CallTypes
<1>2. c.count = Len(c.buf) /\ c.count \in Nat /\ c.count + 20 \in UInt(4)
  BY <1>1, CallsAssumption, SizesAssumption DEF Memory
<1>3. c.count \in UInt(4) /\ 12 + c.count \in UInt(4)
  <2>1. c.count \in 0..(c.count + 20) /\ 12 + c.count \in 0..(c.count + 20)
    BY <1>2
  <2> QED BY <1>2, <2>1, Widths
<1>4. in = call_write_marshal(c.fd, c.buf, Len(c.buf))
  BY <1>1, <1>2 DEF Payload
<1>5. /\ in \in Memory /\ Len(in) = 12 + c.count
      /\ call_write_unmarshal(in) = [op |-> "write", fd |-> c.fd, count |-> c.count, buf |-> c.buf]
  BY <1>1, <1>2, <1>4, WriteDecodes
<1> HIDE DEF in
<1>6. Request([opcode |-> Opcode[c.op], payload |-> in]) = WithFd(call_write_unmarshal(in))
  BY DEF Request, Opcode
<1>7. Meant(c) = WithFd([op |-> "write", fd |-> c.fd, count |-> c.count, buf |-> c.buf])
  BY <1>1 DEF Meant, WithFd, unpack_fd
<1> QED
  BY <1>2, <1>3, <1>5, <1>6, <1>7 DEF Carried, in

LEMMA SeekCarried ==
  ASSUME NEW c \in Calls, c.op = "lseek"
  PROVE  Carried(c, 16)
<1> DEFINE in == Payload(c)
<1>1. c \in [op : {"lseek"}, fd : SInt(4), offset : SInt(8), whence : SInt(4)]
  BY CallTypes
<1>2. in = call_lseek_marshal(c.fd, c.offset, c.whence)
  BY <1>1 DEF Payload
<1>3. /\ in \in Memory /\ Len(in) = 16
      /\ call_lseek_unmarshal(in) =
           [op |-> "lseek", fd |-> c.fd, offset |-> c.offset, whence |-> c.whence]
  BY <1>1, <1>2, SeekDecodes
<1> HIDE DEF in
<1>4. Request([opcode |-> Opcode[c.op], payload |-> in]) = WithFd(call_lseek_unmarshal(in))
  BY DEF Request, Opcode
<1>5. Meant(c) = WithFd([op |-> "lseek", fd |-> c.fd, offset |-> c.offset, whence |-> c.whence])
  BY <1>1 DEF Meant, WithFd, unpack_fd
<1> QED
  BY <1>3, <1>4, <1>5, FdSizes DEF Carried, in

LEMMA EntriesCarried ==
  ASSUME NEW c \in Calls, c.op = "getdirentries"
  PROVE  Carried(c, 20)
<1> DEFINE in == Payload(c)
<1>1. c \in [op : {"getdirentries"}, fd : SInt(4), nbytes : UInt(8), basep : SInt(8)]
  BY CallTypes
<1>2. in = call_getdirentries_marshal(c.fd, c.nbytes, c.basep)
  BY <1>1 DEF Payload
<1>3. /\ in \in Memory /\ Len(in) = 20
      /\ call_getdirentries_unmarshal(in) =
           [op |-> "getdirentries", fd |-> c.fd, basep |-> c.basep, nbytes |-> c.nbytes]
  BY <1>1, <1>2, EntriesDecodes
<1> HIDE DEF in
<1>4. Request([opcode |-> Opcode[c.op], payload |-> in]) = WithFd(call_getdirentries_unmarshal(in))
  BY DEF Request, Opcode
<1>5. Meant(c) =
        WithFd([op |-> "getdirentries", fd |-> c.fd, basep |-> c.basep, nbytes |-> c.nbytes])
  BY <1>1 DEF Meant, WithFd, unpack_fd
<1> QED
  BY <1>3, <1>4, <1>5, FdSizes DEF Carried, in

(* For each call, the length of its payload; the server reads the call     *)
(* that is meant, and nothing is written past a buffer but as              *)
(* WithinBuffers says.                                                     *)
LEMMA CallCarried ==
  ASSUME NEW c \in Calls
  PROVE  /\ Opcode[c.op] \in UInt(4)
         /\ \E len : Carried(c, len)
         /\ Past("payload", Payload(c), PayloadSize(c)) # {} => TooLong(c)
         /\ Len(Payload(c)) + 8 > FrameSize(c) => TooLong(c) \/ c.op = "write"
<1> DEFINE Fits(len) ==
      /\ Carried(c, len)
      /\ len > PayloadSize(c) => TooLong(c)
      /\ len + 8 > FrameSize(c) => TooLong(c) \/ c.op = "write"
<1>1. c.op \in DOMAIN Opcode /\ BUFFERLEN \in Nat
  BY CallTypes, SizesAssumption, IntTypes
<1>2. Opcode[c.op] \in 0..15
  BY <1>1 DEF Opcode
<1>3. \E len : Fits(len)
  <2>1. CASE c.op = "open"
    <3>1. StrLen1(c.path) \in Nat
      BY <2>1, CallTypes, CStringType
    <3>2. Fits(10 + StrLen1(c.path))
      BY <2>1, <3>1, <1>1, OpenCarried DEF PayloadSize, FrameSize, TooLong, Around
    <3> QED BY <3>2
  <2>2. CASE c.op \in {"unlink", "getdirtree"}
    <3>1. StrLen1(c.path) \in Nat
      BY <2>2, CallTypes, CStringType
    <3>2. Fits(4 + StrLen1(c.path))
      BY <2>2, <3>1, <1>1, PathCarried DEF PayloadSize, FrameSize, TooLong, Around
    <3> QED BY <3>2
  <2>3. CASE c.op = "stat"
    <3>1. StrLen1(c.path) \in Nat
      BY <2>3, CallTypes, CStringType
    <3>2. Fits(12 + StrLen1(c.path))
      BY <2>3, <3>1, <1>1, StatCarried DEF PayloadSize, FrameSize, TooLong, Around
    <3> QED BY <3>2
  <2>4. CASE c.op = "write"
    <3>1. Fits(12 + c.count)
      BY <2>4, WriteCarried DEF PayloadSize, FrameSize
    <3> QED BY <3>1
  <2>5. CASE c.op = "close"
    <3>1. Fits(4)
      BY <2>5, <1>1, CloseCarried, SizesAssumption DEF PayloadSize, FrameSize
    <3> QED BY <3>1
  <2>6. CASE c.op = "read"
    <3>1. Fits(12)
      BY <2>6, <1>1, ReadCarried, SizesAssumption DEF PayloadSize, FrameSize
    <3> QED BY <3>1
  <2>7. CASE c.op = "lseek"
    <3>1. Fits(16)
      BY <2>7, <1>1, SeekCarried, SizesAssumption DEF PayloadSize, FrameSize
    <3> QED BY <3>1
  <2>8. CASE c.op = "getdirentries"
    <3>1. Fits(20)
      BY <2>8, <1>1, EntriesCarried, SizesAssumption DEF PayloadSize, FrameSize
    <3> QED BY <3>1
  <2> QED BY <1>1, <2>1, <2>2, <2>3, <2>4, <2>5, <2>6, <2>7, <2>8 DEF Opcode
<1>4. PICK len : Fits(len)
  BY <1>3
<1>5. /\ Carried(c, len) /\ Len(Payload(c)) = len
      /\ len > PayloadSize(c) => TooLong(c)
      /\ len + 8 > FrameSize(c) => TooLong(c) \/ c.op = "write"
  BY <1>4 DEF Carried
<1> QED
  BY <1>2, <1>5, Widths DEF Past

-----------------------------------------------------------------------------
(* Results *)

LEMMA MeantTypes ==
  ASSUME NEW c \in Calls
  PROVE  /\ Meant(c).op = c.op
         /\ c.op = "write" => Meant(c).count = c.count
         /\ c.op = "getdirentries" => Meant(c).basep \in SInt(8)
BY CallTypes DEF Meant

LEMMA ContentsTypes ==
  ASSUME NEW s \in Contents \cup {Stat}
  PROVE  /\ s \in Memory /\ Len(s) \in Nat /\ Len(s) \in SInt(8)
         /\ \A n \in 0..16 : n + Len(s) \in UInt(4)
<1>1. s \in Memory /\ Len(s) \in Nat /\ Len(s) + 16 \in UInt(4)
  BY ResultsAssumption, SizesAssumption DEF Memory
<1>2. ASSUME NEW n \in 0..16 PROVE n + Len(s) \in UInt(4)
  <2>1. n + Len(s) \in 0..(Len(s) + 16)
    BY <1>1
  <2> QED BY <1>1, <2>1, Widths
<1>3. 0 + Len(s) \in UInt(4)
  BY <1>2
<1> QED
  BY <1>1, <1>2, <1>3, Widths

(* One number is read back.                                                *)
LEMMA NumbersAre ==
  /\ \A v \in SInt(4) :
       Int32(v) \in Memory /\ Len(Int32(v)) = 4 /\ Signed(Int32(v), 0, 4) = v
  /\ \A v \in SInt(8) :
       Int64(v) \in Memory /\ Len(Int64(v)) = 8 /\ Signed(Int64(v), 0, 8) = v
<1>1. ASSUME NEW v \in SInt(4)
      PROVE  Int32(v) \in Memory /\ Len(Int32(v)) = 4 /\ Signed(Int32(v), 0, 4) = v
  <2>1. Int32(v) \in Memory /\ Len(Int32(v)) = 4
    BY IntTypes, IntBytes
  <2> QED BY <2>1, AtStart, SIntAt DEF Int32
<1>2. ASSUME NEW v \in SInt(8)
      PROVE  Int64(v) \in Memory /\ Len(Int64(v)) = 8 /\ Signed(Int64(v), 0, 8) = v
  <2>1. Int64(v) \in Memory /\ Len(Int64(v)) = 8
    BY IntTypes, IntBytes
  <2> QED BY <2>1, AtStart, SIntAt DEF Int64
<1> QED
  BY <1>1, <1>2

(* What the caller gets of a result, and when the answer is too long for   *)
(* the server's buffer.                                                    *)
Got(op, o) ==
  IF op = "getdirtree" /\ o.r < 0 THEN [r |-> 0, out |-> Uninitialised]
  ELSE [r |-> IF op = "open" /\ o.r >= 0 THEN o.r + FD_OFFSET ELSE o.r, out |-> o.out]
TooMuch(op, o) ==
  \/ op = "read" /\ o.r = -1
  \/ op = "getdirentries" /\ o.r > MAXMSGLEN - 16
  \/ op = "getdirtree" /\ Len(mem_write_tree[o.out]) > MAXTREESIZE

Answered(op, o) ==
  /\ Answer(op, o) \in Memory /\ Len(Answer(op, o)) \in UInt(4)
  /\ Returned(op, Answer(op, o)) = Got(op, o)
  /\ Len(Answer(op, o)) > AnswerSize(op, o) => TooMuch(op, o)

LEMMA NumberAnswered ==
  ASSUME NEW c \in Calls, NEW o \in Results(Meant(c)),
         c.op \in {"open", "close", "unlink", "write", "lseek"}
  PROVE  Answered(c.op, o)
<1>1. Meant(c).op = c.op
  BY MeantTypes
<1>2. 4 \in UInt(4) /\ 8 \in UInt(4) /\ MAXMSGLEN \in Nat /\ 16 <= MAXMSGLEN
  BY Widths, SizesAssumption
<1>3. CASE c.op = "open"
  <2>1. o = [r |-> -1, out |-> Nothing] \/ o \in [r : Fds, out : {Nothing}]
    BY <1>1, <1>3 DEF Results, Failure
  <2> DEFINE v == pack_fd(o.r)
  <2>2. v \in SInt(4) /\ Got(c.op, o) = [r |-> v, out |-> Nothing]
    <3>1. CASE o = [r |-> -1, out |-> Nothing]
      <4>1. o.r = -1 /\ o.out = Nothing /\ v = -1
        BY <3>1 DEF pack_fd
      <4> QED BY <1>3, <4>1, Widths DEF Got
    <3>2. CASE o \in [r : Fds, out : {Nothing}]
      <4>1. o.r \in Nat /\ o.r + FD_OFFSET \in SInt(4) /\ o.out = Nothing
        BY <3>2, ResultsAssumption
      <4>2. v = o.r + FD_OFFSET
        BY <4>1, ResultsAssumption DEF pack_fd
      <4> QED BY <1>3, <4>1, <4>2 DEF Got
    <3> QED BY <2>1, <3>1, <3>2
  <2>3. Answer(c.op, o) = Int32(v)
    BY <1>3 DEF Answer
  <2> HIDE DEF v
  <2>4. Returned(c.op, Int32(v)) = [r |-> v, out |-> Nothing]
    BY <1>3, <2>2, NumbersAre DEF Returned
  <2>5. AnswerSize(c.op, o) = 4 /\ Len(Int32(v)) = 4 /\ Int32(v) \in Memory
    BY <1>3, <2>2, NumbersAre DEF AnswerSize
  <2> QED BY <1>2, <2>2, <2>3, <2>4, <2>5 DEF Answered
<1>4. CASE c.op \in {"close", "unlink"}
  <2>1. o.r \in {-1, 0} /\ o = [r |-> o.r, out |-> Nothing]
    BY <1>1, <1>4 DEF Results, Failure
  <2>2. Answer(c.op, o) = Int32(o.r) /\ o.r \in SInt(4)
    BY <1>4, <2>1, Widths DEF Answer
  <2>3. Returned(c.op, Int32(o.r)) = [r |-> o.r, out |-> Nothing]
    BY <1>4, <2>2, NumbersAre DEF Returned
  <2>4. AnswerSize(c.op, o) \in {4, MAXMSGLEN}
    BY <1>4 DEF AnswerSize
  <2>5. Len(Int32(o.r)) = 4 /\ Int32(o.r) \in Memory /\ Got(c.op, o) = [r |-> o.r, out |-> Nothing]
    BY <1>4, <2>1, <2>2, NumbersAre DEF Got
  <2> QED BY <1>2, <2>2, <2>3, <2>4, <2>5 DEF Answered
<1>5. CASE c.op \in {"write", "lseek"}
  <2>1. o.r \in SInt(8) /\ o = [r |-> o.r, out |-> Nothing]
    <3>1. CASE c.op = "write"
      <4>1. c.count \in SInt(8) /\ Meant(c).count = c.count
        BY <3>1, WriteCarried, MeantTypes, Widths
      <4>2. o.r \in {-1, 0, c.count} /\ o = [r |-> o.r, out |-> Nothing]
        BY <1>1, <3>1, <4>1 DEF Results, Failure
      <4> QED BY <4>1, <4>2, Widths
    <3>2. CASE c.op = "lseek"
      <4>1. o.r \in Positions \cup {-1} /\ o = [r |-> o.r, out |-> Nothing]
        BY <1>1, <3>2 DEF Results, Failure
      <4> QED BY <4>1, Widths, ResultsAssumption
    <3> QED BY <1>5, <3>1, <3>2
  <2>2. Answer(c.op, o) = Int64(o.r)
    BY <1>5 DEF Answer
  <2>3. Returned(c.op, Int64(o.r)) = [r |-> o.r, out |-> Nothing]
    BY <1>5, <2>1, NumbersAre DEF Returned
  <2>4. AnswerSize(c.op, o) = 8
    BY <1>5 DEF AnswerSize
  <2>5. Len(Int64(o.r)) = 8 /\ Int64(o.r) \in Memory /\ Got(c.op, o) = [r |-> o.r, out |-> Nothing]
    BY <1>5, <2>1, NumbersAre DEF Got
  <2> QED BY <1>2, <2>2, <2>3, <2>4, <2>5 DEF Answered
<1> QED
  BY <1>3, <1>4, <1>5

LEMMA ReadAnswered ==
  ASSUME NEW c \in Calls, NEW o \in Results(Meant(c)), c.op = "read"
  PROVE  Answered(c.op, o)
<1>1. /\ o = [r |-> o.r, out |-> o.out]
      /\ \/ o.r = -1 /\ o.out = << >>
         \/ o.out \in Contents /\ o.r = Len(o.out)
  BY MeantTypes DEF Results, Failure, Nothing
<1> DEFINE a == Int64(o.r)
           b == o.out
           in == a \o b
<1>2. /\ b \in Memory /\ Len(b) \in Nat /\ 8 + Len(b) \in UInt(4) /\ o.r \in SInt(8)
      /\ Len(b) = IF o.r > 0 THEN o.r ELSE 0
      /\ o.r = -1 \/ o.r = Len(b)
  <2>1. CASE o.r = -1 /\ b = << >>
    BY <2>1, Widths DEF Memory
  <2>2. CASE b \in Contents /\ o.r = Len(b)
    BY <2>2, ContentsTypes
  <2> QED BY <1>1, <2>1, <2>2
<1>3. a \in Memory /\ Len(a) = 8 /\ Answer(c.op, o) = in
  BY <1>2, NumbersAre DEF Answer
<1>4. o = [r |-> o.r, out |-> b]
  BY <1>1
<1> HIDE DEF a, b
<1>5. in \in Memory /\ Len(in) = Len(a) + Len(b) /\ At(in, 0, a) /\ At(in, Len(a), b)
  BY <1>2, <1>3, TwoAt, Zenon
<1> HIDE DEF in
<1>6. in \in Memory /\ Len(in) = 8 + Len(b) /\ At(in, 0, a) /\ At(in, 8, b)
  BY <1>3, <1>5
<1>7. Signed(in, 0, 8) = o.r
  BY <1>2, <1>6, SIntAt DEF a, Int64
<1>8. mem_read_data(in, 8, Len(b)) = b
  BY <1>2, <1>6, ReadAt
<1>9. Returned(c.op, in) = [r |-> o.r, out |-> b]
  BY <1>2, <1>7, <1>8 DEF Returned
<1>10. Len(in) > AnswerSize(c.op, o) => o.r = -1
  BY <1>2, <1>6 DEF AnswerSize
<1>11. Got(c.op, o) = [r |-> o.r, out |-> b]
  BY <1>4 DEF Got
<1> QED
  BY <1>2, <1>3, <1>6, <1>9, <1>10, <1>11 DEF Answered, TooMuch

LEMMA StatAnswered ==
  ASSUME NEW c \in Calls, NEW o \in Results(Meant(c)), c.op = "stat"
  PROVE  Answered(c.op, o)
<1>1. /\ o = [r |-> o.r, out |-> o.out]
      /\ \/ o.r = -1 /\ o.out = << >>
         \/ o.r = 0 /\ o.out = Stat
  BY MeantTypes DEF Results, Failure, Nothing
<1> DEFINE a == Int32(o.r)
           b == o.out
           in == a \o b
<1>2. /\ b \in Memory /\ Len(b) \in Nat /\ 4 + Len(b) \in UInt(4) /\ o.r \in SInt(4)
      /\ Len(b) = IF o.r >= 0 THEN Len(Stat) ELSE 0
      /\ 4 + Len(b) <= MAXMSGLEN /\ MAXMSGLEN \in Nat
  <2>1. CASE o.r = -1 /\ b = << >>
    BY <2>1, Widths, SizesAssumption DEF Memory
  <2>2. CASE o.r = 0 /\ b = Stat
    <3>1. b \in Memory /\ Len(b) \in Nat /\ 4 + Len(b) \in UInt(4)
      BY <2>2, ContentsTypes
    <3> QED BY <2>2, <3>1, Widths, SizesAssumption
  <2> QED BY <1>1, <2>1, <2>2
<1>3. a \in Memory /\ Len(a) = 4 /\ Answer(c.op, o) = in
  BY <1>2, NumbersAre DEF Answer
<1>4. o = [r |-> o.r, out |-> b]
  BY <1>1
<1> HIDE DEF a, b
<1>5. in \in Memory /\ Len(in) = Len(a) + Len(b) /\ At(in, 0, a) /\ At(in, Len(a), b)
  BY <1>2, <1>3, TwoAt, Zenon
<1> HIDE DEF in
<1>6. in \in Memory /\ Len(in) = 4 + Len(b) /\ At(in, 0, a) /\ At(in, 4, b)
  BY <1>3, <1>5
<1>7. Signed(in, 0, 4) = o.r
  BY <1>2, <1>6, SIntAt DEF a, Int32
<1>8. mem_read_data(in, 4, Len(b)) = b
  BY <1>2, <1>6, ReadAt
<1>9. Returned(c.op, in) = [r |-> o.r, out |-> b]
  BY <1>2, <1>7, <1>8 DEF Returned
<1>10. AnswerSize(c.op, o) = MAXMSGLEN
  BY DEF AnswerSize
<1>11. Got(c.op, o) = [r |-> o.r, out |-> b]
  BY <1>4 DEF Got
<1>12. Len(in) \in UInt(4) /\ ~ (Len(in) > MAXMSGLEN)
  BY <1>2, <1>6
<1> QED
  BY <1>3, <1>6, <1>9, <1>10, <1>11, <1>12 DEF Answered

LEMMA EntriesAnswered ==
  ASSUME NEW c \in Calls, NEW o \in Results(Meant(c)), c.op = "getdirentries"
  PROVE  Answered(c.op, o)
<1>1. /\ o = [r |-> o.r, out |-> [pos |-> o.out.pos, data |-> o.out.data]]
      /\ \/ o.r = -1 /\ o.out.pos = Meant(c).basep /\ o.out.data = << >>
         \/ o.out.pos \in Positions /\ o.out.data \in Contents /\ o.r = Len(o.out.data)
  BY MeantTypes DEF Results, Failure, Nothing
<1> DEFINE a == Int64(o.r)
           p == Int64(o.out.pos)
           b == o.out.data
           in == (a \o p) \o b
<1>2. /\ b \in Memory /\ Len(b) \in Nat /\ 16 + Len(b) \in UInt(4)
      /\ o.r \in SInt(8) /\ o.out.pos \in SInt(8)
      /\ Len(b) = IF o.r > 0 THEN o.r ELSE 0
      /\ o.r = -1 \/ o.r = Len(b)
  <2>1. CASE o.r = -1 /\ o.out.pos = Meant(c).basep /\ b = << >>
    <3>1. 16 \in UInt(4)
      BY FdSizes
    <3> QED BY <2>1, <3>1, Widths, MeantTypes DEF Memory
  <2>2. CASE o.out.pos \in Positions /\ b \in Contents /\ o.r = Len(b)
    <3>1. b \in Memory /\ Len(b) \in Nat /\ 16 + Len(b) \in UInt(4) /\ Len(b) \in SInt(8)
      BY <2>2, ContentsTypes
    <3>2. o.out.pos \in SInt(8)
      BY <2>2, ResultsAssumption
    <3> HIDE DEF b
    <3> QED BY <2>2, <3>1, <3>2
  <2> QED BY <1>1, <2>1, <2>2
<1>3. /\ a \in Memory /\ Len(a) = 8 /\ p \in Memory /\ Len(p) = 8
      /\ Answer(c.op, o) = in
  BY <1>2, NumbersAre DEF Answer
<1>4. o.out = [pos |-> o.out.pos, data |-> b]
  BY <1>1
<1> HIDE DEF a, b, p
<1>5. /\ in \in Memory /\ Len(in) = Len(a) + Len(p) + Len(b)
      /\ At(in, 0, a) /\ At(in, Len(a), p) /\ At(in, Len(a) + Len(p), b)
  BY <1>2, <1>3, ThreeAt, Zenon
<1> HIDE DEF in
<1>6. in \in Memory /\ Len(in) = 16 + Len(b) /\ At(in, 0, a) /\ At(in, 8, p) /\ At(in, 16, b)
  BY <1>2, <1>3, <1>5
<1>7. Signed(in, 0, 8) = o.r /\ Signed(in, 8, 8) = o.out.pos
  BY <1>2, <1>6, SIntAt DEF a, p, Int64
<1>8. mem_read_data(in, 16, Len(b)) = b
  BY <1>2, <1>6, ReadAt
<1>9. Returned(c.op, in) = [r |-> o.r, out |-> [pos |-> o.out.pos, data |-> b]]
  BY <1>2, <1>7, <1>8 DEF Returned
<1>10. AnswerSize(c.op, o) = MAXMSGLEN /\ MAXMSGLEN \in Nat /\ 16 <= MAXMSGLEN
  BY SizesAssumption DEF AnswerSize
<1>11. Got(c.op, o) = [r |-> o.r, out |-> [pos |-> o.out.pos, data |-> b]]
  BY <1>4 DEF Got
<1>12. Len(in) > MAXMSGLEN => o.r > MAXMSGLEN - 16
  BY <1>2, <1>6, <1>10
<1> QED
  BY <1>2, <1>3, <1>6, <1>9, <1>10, <1>11, <1>12 DEF Answered, TooMuch

(* A tree is never written as nothing, which stands for a failure.         *)
LEMMA TreeNotEmpty ==
  ASSUME NEW tree \in Trees
  PROVE  mem_write_tree[tree] # << >>
<1> DEFINE in == mem_write_tree[tree]
           h == TreeHead(tree)
           j == FlattenSeq([i \in DOMAIN tree.subdirs |-> mem_write_tree[tree.subdirs[i]]])
<1>1. /\ in = TreeBody(mem_write_tree, tree)
      /\ \A i \in 1..Len(tree.subdirs) : mem_write_tree[tree.subdirs[i]] \in Memory
  BY WriteTreeDef, TreeType
<1>2. h \in Memory /\ Len(h) = 12 + StrLen1(tree.name) /\ StrLen1(tree.name) \in Nat
  BY TreeHeadType, TreeType, CStringType
<1>3. j \in Memory
  BY <1>1, TreeBodyType, FlattenedType
<1>4. in = h \o j
  BY <1>1 DEF TreeBody
<1> HIDE DEF h, j, in
<1>5. Len(in) > 0
  BY <1>2, <1>3, <1>4 DEF Memory
<1>6. in # << >>
  BY <1>5
<1> QED
  BY <1>6 DEF in

LEMMA TreeAnswered ==
  ASSUME NEW c \in Calls, NEW o \in Results(Meant(c)), c.op = "getdirtree"
  PROVE  Answered(c.op, o)
<1>1. /\ o = [r |-> o.r, out |-> o.out]
      /\ \/ o.r = -1 /\ o.out = << >>
         \/ o.r = 0 /\ o.out \in Trees
  BY MeantTypes DEF Results, Failure, Nothing
<1>2. MAXTREESIZE \in Nat /\ AnswerSize(c.op, o) = MAXTREESIZE
  BY SizesAssumption DEF AnswerSize
<1>4. CASE o.r = -1 /\ o.out = << >>
  <2>1. Answer(c.op, o) = << >>
    BY <1>4 DEF Answer
  <2>2. << >> \in Memory /\ Len(<< >>) = 0 /\ 0 \in UInt(4)
    BY Widths DEF Memory
  <2>3. Returned(c.op, << >>) = [r |-> 0, out |-> Uninitialised]
    BY DEF Returned
  <2>4. Got(c.op, o) = [r |-> 0, out |-> Uninitialised]
    BY <1>4 DEF Got
  <2> QED BY <1>2, <2>1, <2>2, <2>3, <2>4 DEF Answered
<1>5. CASE o.r = 0 /\ o.out \in Trees
  <2> DEFINE in == mem_write_tree[o.out]
  <2>1. Answer(c.op, o) = in /\ in \in Memory /\ Len(in) \in UInt(4)
    BY <1>5, WriteTreeDef, SizesAssumption DEF Answer
  <2>2. in # << >>
    BY <1>5, TreeNotEmpty
  <2>3. mem_read_tree(in, 0).tree = o.out
    <3>1. mem_read_tree(in, 0) = [tree |-> o.out, off |-> Len(in)]
      BY <1>5, TreesReadBack
    <3> QED BY <3>1
  <2> HIDE DEF in
  <2>4. Returned(c.op, in) = [r |-> 0, out |-> o.out]
    BY <2>2, <2>3 DEF Returned
  <2>5. Returned(c.op, in) = Got(c.op, o)
    BY <1>1, <1>5, <2>4 DEF Got
  <2>6. Len(in) > MAXTREESIZE => TooMuch(c.op, o)
    BY <1>5 DEF TooMuch, in
  <2> QED BY <1>2, <2>1, <2>5, <2>6 DEF Answered
<1> QED
  BY <1>1, <1>4, <1>5

LEMMA CallAnswered ==
  ASSUME NEW c \in Calls, NEW o \in Results(Meant(c))
  PROVE  Answered(c.op, o)
BY CallTypes, NumberAnswered, ReadAnswered, StatAnswered, EntriesAnswered, TreeAnswered DEF Opcode

(* The library takes errno over exactly when the system call failed.       *)
LEMMA FailedAnswered ==
  ASSUME NEW c \in Calls, NEW o \in Results(Meant(c))
  PROVE  Failed(c.op, Answer(c.op, o), Got(c.op, o)) <=> o.r < 0
<1>1. Meant(c).op = c.op /\ c.op \in DOMAIN Opcode
  BY MeantTypes, CallTypes
<1>2. CASE c.op = "getdirtree"
  <2>1. o.r = -1 \/ (o.r = 0 /\ o.out \in Trees)
    BY <1>1, <1>2 DEF Results, Failure
  <2> QED BY <1>2, <2>1, TreeNotEmpty DEF Failed, Answer
<1>3. CASE c.op = "open"
  <2>1. o.r = -1 \/ o.r \in Nat
    BY <1>1, <1>3, ResultsAssumption DEF Results, Failure
  <2> QED BY <1>3, <2>1, ResultsAssumption DEF Failed, Got
<1>4. CASE c.op \notin {"getdirtree", "open"}
  BY <1>4 DEF Failed, Got
<1> QED
  BY <1>2, <1>3, <1>4

(* The server's copy of a path has room for every path that fits BUFFERLEN *)
(* with its frame.                                                         *)
LEMMA PathCopied ==
  ASSUME NEW c \in Calls
  PROVE  /\ PathBuffer(Meant(c)) \subseteq {"path"}
         /\ PathBuffer(Meant(c)) # {} => TooLong(c)
<1>1. PathBuffer(Meant(c)) \subseteq {"path"}
  BY DEF PathBuffer, Past
<1>2. ASSUME PathBuffer(Meant(c)) # {} PROVE TooLong(c)
  <2>1. "path" \in DOMAIN Meant(c) /\ Len(CString(Meant(c).path)) > MAXMSGLEN
    BY <1>2 DEF PathBuffer, Past
  <2>2. c.op \in DOMAIN Around /\ Meant(c).path = c.path /\ c.path \in String
    BY <2>1, CallTypes DEF Meant, Around, Opcode
  <2>3. Len(CString(c.path)) = StrLen1(c.path) /\ StrLen1(c.path) \in Nat
    BY <2>2, CStringType
  <2>4. Around[c.op] \in Nat
    BY <2>2 DEF Around
  <2>5. BUFFERLEN \in Nat /\ MAXMSGLEN \in Nat /\ BUFFERLEN <= MAXMSGLEN
    BY SizesAssumption, IntTypes
  <2>6. StrLen1(c.path) + Around[c.op] > BUFFERLEN
    BY <2>1, <2>2, <2>3, <2>4, <2>5
  <2> QED BY <2>2, <2>6 DEF TooLong
<1> QED
  BY <1>1, <1>2

-----------------------------------------------------------------------------
(* The invariant *)

(* UnderWay says what is on the wire; with it, each step of a call is      *)
(* decided by that call alone.                                             *)
Inv == UnderWay /\ CallerGets /\ WithinBuffers

LEMMA SendKeeps ==
  ASSUME Inv, NEW c \in Calls, Send(c)
  PROVE  Inv'
<1> USE DEF Send
<1>1. UnderWay'
  BY DEF UnderWay, None
<1>2. CallerGets'
  BY DEF CallerGets
<1>3. WithinBuffers'
  <2>1. Opcode[c.op] \in UInt(4) /\ Len(marshal_frame(Opcode[c.op], Payload(c))) = 8 + Len(Payload(c))
    <3>1. PICK len : Carried(c, len)
      BY CallCarried
    <3>2. Payload(c) \in Memory /\ Len(Payload(c)) \in UInt(4)
      BY <3>1 DEF Carried
    <3> QED BY <3>2, CallCarried, FrameDecodes
  <2>2. Len(Payload(c)) \in Nat
    <3>1. PICK len : Carried(c, len)
      BY CallCarried
    <3> QED BY <3>1 DEF Carried, Memory
  <2>3. "payload" \in over' => TooLong(c)
    BY CallCarried DEF Past
  <2>4. "frame" \in over' => TooLong(c) \/ c.op = "write"
    BY <2>1, <2>2, CallCarried DEF Past
  <2>5. "path" \notin over' /\ "answer" \notin over' /\ "response" \notin over'
    BY DEF Past
  <2>6. call' = c
    OBVIOUS
  <2> QED BY <2>3, <2>4, <2>5, <2>6 DEF WithinBuffers, TooLong
<1> QED
  BY <1>1, <1>2, <1>3 DEF Inv

LEMMA HandleKeeps ==
  ASSUME Inv, Handle
  PROVE  Inv'
<1>1. /\ call \in Calls /\ ret = None /\ phase = "requested"
      /\ wire = marshal_frame(Opcode[call.op], Payload(call))
  BY DEF Inv, UnderWay, Handle
<1>2. Request(read_frame(wire)) = Meant(call) /\ Meant(call).op = call.op
  <2>1. PICK len : Carried(call, len)
    BY <1>1, CallCarried
  <2>2. Payload(call) \in Memory /\ Len(Payload(call)) \in UInt(4)
    BY <2>1 DEF Carried
  <2>3. read_frame(wire) = [opcode |-> Opcode[call.op], payload |-> Payload(call)]
    BY <1>1, <2>2, CallCarried, FrameDecodes
  <2> QED BY <1>1, <2>1, <2>3, MeantTypes DEF Carried
<1>3. PICK o \in Results(Meant(call)), e \in Errnos :
        /\ executed' = [op |-> call.op, call |-> Meant(call), result |-> o, errno |-> e]
        /\ wire' = marshal_resp(e, Answer(call.op, o))
        /\ over' = over \cup PathBuffer(Meant(call))
                        \cup Past("answer", Answer(call.op, o), AnswerSize(call.op, o))
                        \cup Past("response", wire', Len(Answer(call.op, o)) + 16)
  BY <1>2 DEF Handle, SavedErrno
<1>4. phase' = "answered" /\ call' = call /\ ret' = None
  BY <1>1 DEF Handle
<1>5. executed' # None
  <2>1. executed'.op \in DOMAIN Opcode
    BY <1>1, <1>3, CallTypes
  <2> QED BY <2>1 DEF None, Opcode
<1>6. UnderWay'
  <2>1. executed'.errno = e /\ executed'.result = o
    BY <1>3
  <2>2. wire' = marshal_resp(executed'.errno, Answer(call'.op, executed'.result))
    BY <1>3, <1>4, <2>1
  <2>3. executed' \in [op : {call.op}, call : {Meant(call)},
                       result : Results(Meant(call)), errno : Errnos]
    BY <1>3
  <2> QED BY <1>1, <1>4, <1>5, <2>2, <2>3 DEF UnderWay
<1>7. CallerGets'
  BY <1>4 DEF CallerGets
<1>8. WithinBuffers'
  <2>1. Answered(call.op, o) /\ e \in SInt(4)
    BY <1>1, CallAnswered, ResultsAssumption
  <2>2. /\ Answer(call.op, o) \in Memory /\ Len(Answer(call.op, o)) \in UInt(4)
        /\ Len(Answer(call.op, o)) \in Nat
    BY <2>1 DEF Answered, Memory
  <2>3. Len(wire') = 8 + Len(Answer(call.op, o))
    BY <1>3, <2>1, <2>2, ResponseDecodes
  <2>4. Past("response", wire', Len(Answer(call.op, o)) + 16) = {}
    BY <2>2, <2>3 DEF Past
  <2>5. Past("answer", Answer(call.op, o), AnswerSize(call.op, o)) # {} => TooMuch(call.op, o)
    BY <2>1 DEF Answered, Past
  <2>6. executed'.op = call.op /\ executed'.result = o
    BY <1>3
  <2>12. /\ PathBuffer(Meant(call)) \subseteq {"path"}
         /\ PathBuffer(Meant(call)) # {} => TooLong(call)
    BY <1>1, PathCopied
  <2>13. "path" \in over' => TooLong(call)
    BY <1>3, <2>4, <2>12 DEF Inv, WithinBuffers, Past
  <2>7. "payload" \in over' => TooLong(call)
    BY <1>3, <2>4, <2>12 DEF Inv, WithinBuffers, Past
  <2>8. "frame" \in over' => TooLong(call) \/ call.op = "write"
    BY <1>3, <2>4, <2>12 DEF Inv, WithinBuffers, Past
  <2>9. "response" \notin over'
    BY <1>3, <2>4, <2>12 DEF Inv, WithinBuffers, Past
  <2>10. "answer" \notin over
    BY <1>1 DEF Inv, WithinBuffers, UnderWay, None
  <2>11. "answer" \in over' => TooMuch(call.op, o)
    BY <1>3, <2>4, <2>5, <2>10, <2>12 DEF Past
  <2> QED BY <1>4, <2>6, <2>7, <2>8, <2>9, <2>11, <2>13 DEF WithinBuffers, TooMuch, TooLong
<1> QED
  BY <1>6, <1>7, <1>8 DEF Inv

LEMMA ReceiveKeeps ==
  ASSUME Inv, Receive
  PROVE  Inv'
<1> DEFINE o == executed.result
           e == executed.errno
<1>1. /\ phase = "answered" /\ executed # None /\ call \in Calls
      /\ o \in Results(Meant(call)) /\ e \in Errnos
      /\ wire = marshal_resp(e, Answer(call.op, o))
  BY DEF Inv, UnderWay, Receive
<1>2. Answered(call.op, o) /\ e \in SInt(4)
  BY <1>1, CallAnswered, ResultsAssumption
<1>3. read_resp(wire) = [err_no |-> e, data |-> Answer(call.op, o)]
  BY <1>1, <1>2, ResponseDecodes DEF Answered
<1>4. /\ ret' = Got(call.op, o)
      /\ errno' = IF Failed(call.op, Answer(call.op, o), Got(call.op, o)) THEN e ELSE errno
  BY <1>2, <1>3 DEF Receive, Answered
<1>5. phase' = "idle" /\ UNCHANGED <<call, executed, over>>
  BY DEF Receive
<1>6. UnderWay'
  BY <1>5 DEF Inv, UnderWay
<1>7. CallerGets'
  <2>1. o.r < 0 => errno' = e
    BY <1>1, <1>4, FailedAnswered
  <2> QED BY <1>4, <1>5, <2>1 DEF CallerGets, Got
<1>8. WithinBuffers'
  BY <1>5 DEF Inv, WithinBuffers, TooLong
<1> QED
  BY <1>6, <1>7, <1>8 DEF Inv

LEMMA InvHolds == Spec => []Inv
<1>1. Init => Inv
  BY DEF Init, Inv, UnderWay, CallerGets, WithinBuffers
<1>2. ASSUME Inv, [Next]_vars PROVE Inv'
  <2>1. CASE \E c \in Calls : Send(c)
    BY <1>2, <2>1, SendKeeps
  <2>2. CASE Handle
    BY <1>2, <2>2, HandleKeeps
  <2>3. CASE Receive
    BY <1>2, <2>3, ReceiveKeeps
  <2>4. CASE Abort
    BY <1>2, <2>4 DEF Abort, Inv, UnderWay, CallerGets, WithinBuffers, TooLong
  <2>5. CASE UNCHANGED vars
    BY <1>2, <2>5 DEF vars, Inv, UnderWay, CallerGets, WithinBuffers, TooLong
  <2> QED BY <1>2, <2>1, <2>2, <2>3, <2>4, <2>5 DEF Next
<1> QED
  BY <1>1, <1>2, PTL DEF Spec

(* The message under way is the call the program made, then the answer to  *)
(* exactly that call, with the errno that goes with it (send_request of    *)
(* mylib.c, handle_session of server.c).                                   *)
THEOREM OneCallUnderWay == Spec => []UnderWay
BY InvHolds, PTL DEF Inv

(* The server does the call that the program made, with every argument as  *)
(* it was given and the descriptor as it was given out, for every call     *)
(* whose arguments have the types of mylib.c.                              *)
THEOREM ServerDecodesCalls == Spec => []ServerDecodes
<1>1. Inv => ServerDecodes
  BY DEF Inv, UnderWay, ServerDecodes
<1> QED
  BY <1>1, InvHolds, PTL

(* The program gets what the system call returned, bytes, position or tree *)
(* with it, and after a failure the errno of that system call - but after  *)
(* a getdirtree that failed a root that was never filled in, and not NULL  *)
(* (mylib.c 532-552).                                                      *)
THEOREM CallersGetResults == Spec => []CallerGets
BY InvHolds, PTL DEF Inv

(* The payload, the frame, the server's copy of the path, the answer and   *)
(* the response are written past their buffers only in the named cases: a  *)
(* path too long for BUFFERLEN, the frame of a write, the answer to a      *)
(* failed read, and entries or a tree too large for the server's buffers.  *)
THEOREM BuffersSuffice == Spec => []WithinBuffers
BY InvHolds, PTL DEF Inv
=============================================================================
