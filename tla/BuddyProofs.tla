----------------------------- MODULE BuddyProofs -----------------------------
(***************************************************************************)
(* The buddy system keeps HeapSound, LostOnlyWhole and MinOrderFits, for   *)
(* every order of the heap, every size of the stack and every request.     *)
(* The shell frees what it allocated last, so that the merging of a block  *)
(* undoes the splitting it came from.  As in HeapProofs the proof keeps    *)
(* the states the heap was in when the blocks that are out were allocated. *)
(***************************************************************************)
EXTENDS Buddy, SequenceTheorems, FiniteSetTheorems, WellFoundedInduction, TLAPS

-----------------------------------------------------------------------------
(* Induction over a set of numbers, and recursion along a function.        *)

LEMMA StrongSetInduction ==
  ASSUME NEW T, \A n \in Nat : (\A m \in Nat : m < n => m \in T) => n \in T
  PROVE  Nat \subseteq T
  <1> DEFINE R == Nat \ T
  <1>1. R # {} => \E n \in R : \A m \in R : ~ (<<m, n>> \in OpToRel(<, Nat))
    BY WFMin, NatLessThanWellFounded
  <1>2. R # {} => \E n \in R : \A m \in R : ~ (m < n)
    BY <1>1 DEF OpToRel
  <1> QED
    BY <1>2

LEMMA SetInduction ==
  ASSUME NEW T, 0 \in T, \A n \in Nat : n \in T => n + 1 \in T
  PROVE  Nat \subseteq T
  <1>1. ASSUME NEW n \in Nat, \A m \in Nat : m < n => m \in T
        PROVE  n \in T
    <2>1. CASE n = 0
      BY <2>1
    <2>2. CASE n # 0
      <3>1. n - 1 \in Nat /\ n - 1 < n /\ (n - 1) + 1 = n
        BY <2>2
      <3> QED
        BY <1>1, <3>1
    <2> QED
      BY <2>1, <2>2
  <1> QED
    BY <1>1, StrongSetInduction

(* The values up to n that start with a and go on with F.                  *)
Begins(g, n, S, a, F) ==
  g \in [0 .. n -> S] /\ g[0] = a /\ \A k \in 1 .. n : g[k] = F[g[k - 1]]

LEMMA BeginningsAgree ==
  ASSUME NEW S, NEW a \in S, NEW F \in [S -> S], NEW n \in Nat, NEW m \in Nat,
         NEW g, NEW h, Begins(g, n, S, a, F), Begins(h, m, S, a, F)
  PROVE  \A k \in Nat : k <= n /\ k <= m => g[k] = h[k]
  <1> DEFINE T == {k \in Nat : k <= n /\ k <= m => g[k] = h[k]}
  <1>1. 0 \in T
    BY DEF Begins
  <1>2. ASSUME NEW k \in Nat, k \in T
        PROVE  k + 1 \in T
    <2> SUFFICES ASSUME k + 1 <= n, k + 1 <= m
                 PROVE  g[k + 1] = h[k + 1]
      OBVIOUS
    <2>1. g[k] = h[k] /\ (k + 1) - 1 = k /\ k + 1 \in 1 .. n /\ k + 1 \in 1 .. m
      BY <1>2
    <2> QED
      BY <2>1 DEF Begins
  <1>3. Nat \subseteq T
    BY <1>1, <1>2, SetInduction
  <1> QED
    BY <1>3

LEMMA BeginningsExist ==
  ASSUME NEW S, NEW a \in S, NEW F \in [S -> S]
  PROVE  \A n \in Nat : \E g : Begins(g, n, S, a, F)
  <1> DEFINE T == {n \in Nat : \E g : Begins(g, n, S, a, F)}
  <1>1. 0 \in T
    <2>1. Begins([k \in 0 .. 0 |-> a], 0, S, a, F)
      BY DEF Begins
    <2> QED
      BY <2>1
  <1>2. ASSUME NEW n \in Nat, n \in T
        PROVE  n + 1 \in T
    <2>1. PICK g : Begins(g, n, S, a, F)
      BY <1>2
    <2> DEFINE h == [k \in 0 .. n + 1 |-> IF k = n + 1 THEN F[g[n]] ELSE g[k]]
    <2>2. g[n] \in S /\ F[g[n]] \in S /\ \A k \in 0 .. n : g[k] \in S
      BY <2>1 DEF Begins
    <2>3. h \in [0 .. n + 1 -> S]
      BY <2>2
    <2>4. h[0] = a
      BY <2>1 DEF Begins
    <2>5. ASSUME NEW k \in 1 .. n + 1
          PROVE  h[k] = F[h[k - 1]]
      <3>1. k - 1 \in 0 .. n /\ h[k - 1] = g[k - 1]
        OBVIOUS
      <3>2. CASE k = n + 1
        BY <3>1, <3>2
      <3>3. CASE k # n + 1
        BY <2>1, <3>1, <3>3 DEF Begins
      <3> QED
        BY <3>2, <3>3
    <2>6. Begins(h, n + 1, S, a, F)
      BY <2>3, <2>4, <2>5 DEF Begins
    <2> QED
      BY <2>6
  <1>3. Nat \subseteq T
    BY <1>1, <1>2, SetInduction
  <1> QED
    BY <1>3

Repeats(f, S, a, F) ==
  f \in [Nat -> S] /\ f[0] = a /\ \A n \in Nat \ {0} : f[n] = F[f[n - 1]]

LEMMA RecursionExists ==
  ASSUME NEW S, NEW a \in S, NEW F \in [S -> S]
  PROVE  \E f : Repeats(f, S, a, F)
  <1> DEFINE G(n) == CHOOSE g : Begins(g, n, S, a, F)
             f == [n \in Nat |-> G(n)[n]]
  <1>1. ASSUME NEW n \in Nat
        PROVE  Begins(G(n), n, S, a, F)
    BY BeginningsExist
  <1>2. \A n \in Nat : f[n] = G(n)[n]
    OBVIOUS
  <1> HIDE DEF G
  <1>3. f \in [Nat -> S]
    BY <1>1 DEF Begins
  <1> HIDE DEF f
  <1>4. f[0] = a
    BY <1>1, <1>2 DEF Begins
  <1>5. ASSUME NEW n \in Nat \ {0}
        PROVE  f[n] = F[f[n - 1]]
    <2>1. n - 1 \in Nat /\ n - 1 <= n /\ n \in 1 .. n
      OBVIOUS
    <2>2. G(n)[n - 1] = G(n - 1)[n - 1]
      BY <1>1, <2>1, BeginningsAgree
    <2> QED
      BY <1>1, <1>2, <2>1, <2>2 DEF Begins
  <1> QED
    BY <1>3, <1>4, <1>5 DEF Repeats

-----------------------------------------------------------------------------
(* Powers of two, aligned blocks and their buddies.                        *)

LEMMA Pow2Recursion ==
  /\ Pow2 \in [Nat -> Nat]
  /\ Pow2[0] = 1
  /\ \A k \in Nat : Pow2[k + 1] = 2 * Pow2[k]
  <1> DEFINE F == [x \in Nat |-> 2 * x]
             Step(f) == [k \in Nat |-> IF k = 0 THEN 1 ELSE 2 * f[k - 1]]
  <1>1. F \in [Nat -> Nat] /\ \A x \in Nat : F[x] = 2 * x
    OBVIOUS
  <1> HIDE DEF F
  <1>2. PICK f : Repeats(f, Nat, 1, F)
    BY <1>1, RecursionExists
  <1>3. f = Step(f)
    <2>1. \A n \in Nat \ {0} : n - 1 \in Nat /\ f[n] = 2 * f[n - 1]
      BY <1>1, <1>2 DEF Repeats
    <2>2. f \in [Nat -> Nat] /\ f[0] = 1
      BY <1>2 DEF Repeats
    <2> QED
      BY <2>1, <2>2
  <1>4. Pow2 = Step(Pow2)
    BY <1>3 DEF Pow2
  <1>5. \A k \in Nat : Pow2[k] = IF k = 0 THEN 1 ELSE 2 * Pow2[k - 1]
    BY <1>4
  <1>6. \A k \in Nat : Pow2[k + 1] = 2 * Pow2[k]
    <2> TAKE k \in Nat
    <2>1. k + 1 \in Nat /\ k + 1 # 0 /\ (k + 1) - 1 = k
      OBVIOUS
    <2> QED
      BY <1>5, <2>1
  <1> DEFINE T == {k \in Nat : Pow2[k] \in Nat}
  <1>7. Nat \subseteq T
    <2>1. 0 \in T
      BY <1>5
    <2>2. \A k \in Nat : k \in T => k + 1 \in T
      BY <1>6
    <2> QED
      BY <2>1, <2>2, SetInduction
  <1>8. Pow2 \in [Nat -> Nat]
    BY <1>4, <1>7
  <1> QED
    BY <1>5, <1>6, <1>8

LEMMA Pow2Grows ==
  /\ \A k \in Nat : Pow2[k] \in Nat \ {0}
  /\ \A j, k \in Nat : j < k => Pow2[j] + Pow2[j] <= Pow2[k]
  /\ \A j, k \in Nat : j <= k => Pow2[j] <= Pow2[k]
  <1> DEFINE T == {k \in Nat : Pow2[k] # 0 /\ \A j \in Nat : j < k => Pow2[j] + Pow2[j] <= Pow2[k]}
  <1>1. 0 \in T
    BY Pow2Recursion
  <1>2. ASSUME NEW k \in Nat, k \in T
        PROVE  k + 1 \in T
    <2>1. Pow2[k + 1] = 2 * Pow2[k] /\ Pow2[k] \in Nat \ {0} /\ Pow2[k + 1] \in Nat
      BY <1>2, Pow2Recursion
    <2>2. ASSUME NEW j \in Nat, j < k + 1
          PROVE  Pow2[j] + Pow2[j] <= Pow2[k + 1]
      <3>1. CASE j = k
        BY <2>1, <3>1
      <3>2. CASE j < k
        <4>1. Pow2[j] + Pow2[j] <= Pow2[k] /\ Pow2[j] \in Nat
          BY <1>2, <3>2, Pow2Recursion
        <4> QED
          BY <2>1, <4>1
      <3> QED
        BY <2>2, <3>1, <3>2
    <2> QED
      BY <2>1, <2>2
  <1>3. Nat \subseteq T
    BY <1>1, <1>2, SetInduction
  <1>4. \A k \in Nat : Pow2[k] \in Nat \ {0}
    BY <1>3, Pow2Recursion
  <1>5. \A j, k \in Nat : j < k => Pow2[j] + Pow2[j] <= Pow2[k]
    BY <1>3
  <1>6. ASSUME NEW j \in Nat, NEW k \in Nat, j <= k
        PROVE  Pow2[j] <= Pow2[k]
    <2>1. CASE j = k
      BY <1>4, <2>1
    <2>2. CASE j < k
      BY <1>4, <1>5, <2>2
    <2> QED
      BY <1>6, <2>1, <2>2
  <1> QED
    BY <1>4, <1>5, <1>6

Aligned(p, k) == \E q \in Nat : p = q * Pow2[k]

LEMMA AlignedRemainder ==
  ASSUME NEW p, NEW k \in Nat, Aligned(p, k)
  PROVE  p \in Nat /\ p % Pow2[k] = 0
  <1>1. PICK q \in Nat : p = q * Pow2[k]
    BY DEF Aligned
  <1>2. Pow2[k] \in Nat \ {0}
    BY Pow2Grows
  <1>3. ASSUME NEW t \in Nat \ {0}
        PROVE  q * t \in Nat /\ (q * t) % t = 0
    OBVIOUS
  <1> QED
    BY <1>1, <1>2, <1>3

(* A block is aligned to the sizes of its parts too, and so is a right half. *)
LEMMA AlignedBelow ==
  ASSUME NEW p, NEW k \in Nat, Aligned(p, k)
  PROVE  \A j \in Nat : j <= k => Aligned(p, j)
  <1> DEFINE T == {n \in Nat : n <= k => Aligned(p, k - n)}
  <1>1. 0 \in T
    OBVIOUS
  <1>2. ASSUME NEW n \in Nat, n \in T
        PROVE  n + 1 \in T
    <2> SUFFICES ASSUME n + 1 <= k
                 PROVE  Aligned(p, k - (n + 1))
      OBVIOUS
    <2> DEFINE j == k - (n + 1)
    <2>1. j \in Nat /\ j + 1 = k - n
      OBVIOUS
    <2>2. PICK q \in Nat : p = q * Pow2[j + 1]
      BY <1>2, <2>1 DEF Aligned
    <2> HIDE DEF j
    <2>3. Pow2[j + 1] = 2 * Pow2[j] /\ Pow2[j] \in Nat
      BY <2>1, Pow2Recursion
    <2>4. ASSUME NEW t \in Nat
          PROVE  q * (2 * t) = (2 * q) * t
      OBVIOUS
    <2>5. p = (2 * q) * Pow2[j] /\ 2 * q \in Nat
      BY <2>2, <2>3, <2>4
    <2> QED
      BY <2>5 DEF Aligned, j
  <1>3. Nat \subseteq T
    BY <1>1, <1>2, SetInduction
  <1>4. ASSUME NEW j \in Nat, j <= k
        PROVE  Aligned(p, j)
    <2>1. k - j \in Nat /\ k - j <= k /\ k - (k - j) = j
      BY <1>4
    <2> QED
      BY <1>3, <2>1
  <1> QED
    BY <1>4

(* The two halves of a block of order k + 1 are each other's buddies.      *)
LEMMA BuddyOfHalf ==
  ASSUME NEW p, NEW k \in Nat, NEW t \in Nat, k < t, Aligned(p, t)
  PROVE  /\ get_buddy(p, k) = p + Pow2[k]
         /\ get_buddy(p + Pow2[k], k) = p
         /\ Aligned(p + Pow2[k], k)
  <1>1. PICK q \in Nat : p = q * Pow2[k + 1]
    <2>1. k + 1 \in Nat /\ k + 1 <= t
      OBVIOUS
    <2>2. Aligned(p, k + 1)
      BY <2>1, AlignedBelow
    <2> QED
      BY <2>2 DEF Aligned
  <1>2. Pow2[k + 1] = 2 * Pow2[k] /\ Pow2[k] \in Nat \ {0}
    BY Pow2Recursion, Pow2Grows
  <1>3. ASSUME NEW s \in Nat \ {0}
        PROVE  /\ ((q * (2 * s)) \div s) % 2 = 0
               /\ ((q * (2 * s) + s) \div s) % 2 # 0
               /\ q * (2 * s) + s = (2 * q + 1) * s
               /\ q * (2 * s) \in Nat
    <2>1. q * (2 * s) = (2 * q) * s /\ q * (2 * s) + s = (2 * q + 1) * s
      OBVIOUS
    <2>2. \A m \in Nat : (m * s) \div s = m
      OBVIOUS
    <2>3. 2 * q \in Nat /\ 2 * q + 1 \in Nat
      OBVIOUS
    <2>4. (q * (2 * s)) \div s = 2 * q /\ (q * (2 * s) + s) \div s = 2 * q + 1
      BY <2>1, <2>2, <2>3
    <2>5. (2 * q) % 2 = 0 /\ (2 * q + 1) % 2 = 1
      OBVIOUS
    <2> QED
      BY <2>1, <2>4, <2>5
  <1>4. /\ (p \div Pow2[k]) % 2 = 0 /\ ((p + Pow2[k]) \div Pow2[k]) % 2 # 0
        /\ p + Pow2[k] = (2 * q + 1) * Pow2[k] /\ p \in Nat
    BY <1>1, <1>2, <1>3
  <1>5. 2 * q + 1 \in Nat /\ (p + Pow2[k]) - Pow2[k] = p
    BY <1>2, <1>4
  <1> QED
    BY <1>4, <1>5 DEF get_buddy, Aligned

-----------------------------------------------------------------------------
(* get_min_order.                                                          *)

(* r is the number of binary digits of m.                                  *)
Digits(m, r) ==
  r \in Nat /\ m < Pow2[r] /\ (r > 0 => Pow2[r - 1] <= m)

LEMMA DigitsOfHalf ==
  ASSUME NEW m \in Nat \ {0}, NEW r, Digits(m \div 2, r)
  PROVE  m \div 2 \in Nat /\ m \div 2 < m /\ Digits(m, r + 1)
  <1> DEFINE h == m \div 2
  <1>1. h \in Nat /\ h < m /\ 2 * h <= m /\ m < 2 * h + 2
    OBVIOUS
  <1>2. r \in Nat /\ h < Pow2[r] /\ (r > 0 => Pow2[r - 1] <= h)
    BY DEF Digits
  <1> HIDE DEF h
  <1>3. Pow2[r] \in Nat /\ Pow2[r + 1] = 2 * Pow2[r] /\ (r + 1) - 1 = r
    BY <1>2, Pow2Recursion
  <1>4. m < Pow2[r + 1]
    BY <1>1, <1>2, <1>3
  <1>5. Pow2[r] <= m
    <2>1. CASE r = 0
      BY <1>1, <2>1, Pow2Recursion
    <2>2. CASE r # 0
      <3>1. r - 1 \in Nat /\ (r - 1) + 1 = r /\ Pow2[r - 1] <= h
        BY <1>2, <2>2
      <3>2. Pow2[r] = 2 * Pow2[r - 1] /\ Pow2[r - 1] \in Nat
        BY <3>1, Pow2Recursion
      <3> QED
        BY <1>1, <3>1, <3>2
    <2> QED
      BY <2>1, <2>2
  <1>6. Digits(m, r + 1)
    BY <1>2, <1>3, <1>4, <1>5 DEF Digits
  <1> QED
    BY <1>1, <1>6 DEF h

LEMMA DigitsUnique ==
  ASSUME NEW m \in Nat, NEW r, NEW s, Digits(m, r), Digits(m, s)
  PROVE  r = s
  <1>1. ASSUME NEW a, NEW b, Digits(m, a), Digits(m, b), a < b
        PROVE  FALSE
    <2>1. a \in Nat /\ b - 1 \in Nat /\ a <= b - 1 /\ m < Pow2[a] /\ Pow2[b - 1] <= m
      BY <1>1 DEF Digits
    <2>2. Pow2[a] <= Pow2[b - 1] /\ Pow2[a] \in Nat /\ Pow2[b - 1] \in Nat
      BY <2>1, Pow2Grows
    <2> QED
      BY <2>1, <2>2
  <1>2. r \in Nat /\ s \in Nat
    BY DEF Digits
  <1> QED
    BY <1>1, <1>2

LEMMA ShiftsCountDigits ==
  \A m \in Nat : Digits(m, Shifts[m])
  <1> DEFINE Step(f) == [m \in Nat |-> IF m = 0 THEN 0 ELSE 1 + f[m \div 2]]
             g == [m \in Nat |-> CHOOSE r : Digits(m, r)]
  <1>1. Digits(0, 0)
    BY Pow2Recursion DEF Digits
  <1> DEFINE T == {m \in Nat : \E r : Digits(m, r)}
  <1>2. Nat \subseteq T
    <2>1. ASSUME NEW n \in Nat, \A m \in Nat : m < n => m \in T
          PROVE  n \in T
      <3>1. CASE n = 0
        BY <1>1, <3>1
      <3>2. CASE n # 0
        <4>1. n \div 2 \in Nat /\ n \div 2 < n
          BY <3>2
        <4>2. PICK r : Digits(n \div 2, r)
          BY <2>1, <4>1
        <4>3. Digits(n, r + 1)
          BY <3>2, <4>2, DigitsOfHalf
        <4> QED
          BY <4>3
      <3> QED
        BY <3>1, <3>2
    <2> QED
      BY <2>1, StrongSetInduction
  <1>3. \A m \in Nat : Digits(m, g[m])
    BY <1>2
  <1> HIDE DEF T
  <1>4. g = Step(g)
    <2>1. g[0] = 0
      BY <1>1, <1>3, DigitsUnique
    <2>2. ASSUME NEW m \in Nat \ {0}
          PROVE  g[m] = 1 + g[m \div 2]
      <3>1. m \div 2 \in Nat
        OBVIOUS
      <3>2. Digits(m \div 2, g[m \div 2]) /\ Digits(m, g[m])
        BY <1>3, <3>1
      <3>3. Digits(m, g[m \div 2] + 1)
        BY <3>2, DigitsOfHalf
      <3>4. g[m] = g[m \div 2] + 1 /\ g[m \div 2] \in Nat
        BY <3>2, <3>3, DigitsUnique DEF Digits
      <3> QED
        BY <3>4
    <2> QED
      BY <2>1, <2>2
  <1>5. Shifts = Step(Shifts)
    BY <1>4 DEF Shifts
  <1>6. \A m \in Nat : Shifts[m] = IF m = 0 THEN 0 ELSE 1 + Shifts[m \div 2]
    BY <1>5
  <1> DEFINE U == {m \in Nat : Digits(m, Shifts[m])}
  <1>7. ASSUME NEW n \in Nat, \A m \in Nat : m < n => m \in U
        PROVE  n \in U
    <2>1. CASE n = 0
      BY <1>1, <1>6, <2>1
    <2>2. CASE n # 0
      <3>1. n \div 2 \in Nat /\ n \div 2 < n
        BY <2>2
      <3>2. Digits(n \div 2, Shifts[n \div 2])
        BY <1>7, <3>1
      <3>3. Digits(n, Shifts[n \div 2] + 1) /\ Shifts[n \div 2] \in Nat
        BY <2>2, <3>2, DigitsOfHalf DEF Digits
      <3>4. Shifts[n] = Shifts[n \div 2] + 1
        BY <1>6, <2>2, <3>3
      <3> QED
        BY <3>3, <3>4
    <2> QED
      BY <2>1, <2>2
  <1>8. Nat \subseteq U
    BY <1>7, StrongSetInduction
  <1> QED
    BY <1>8

LEMMA MinOrderProperties ==
  ASSUME NEW n \in Nat
  PROVE  /\ get_min_order(n) \in Nat
         /\ Pow2[get_min_order(n)] >= n
         /\ get_min_order(n) > 0 => Pow2[get_min_order(n) - 1] < n
  <1>1. CASE n = 0
    BY <1>1, Pow2Recursion DEF get_min_order
  <1>2. CASE n # 0
    <2>1. n - 1 \in Nat /\ get_min_order(n) = Shifts[n - 1]
      BY <1>2 DEF get_min_order
    <2>2. Digits(n - 1, Shifts[n - 1])
      BY <2>1, ShiftsCountDigits
    <2> DEFINE r == Shifts[n - 1]
    <2>3. r \in Nat /\ n - 1 < Pow2[r] /\ (r > 0 => Pow2[r - 1] <= n - 1)
      BY <2>2 DEF Digits
    <2> HIDE DEF r
    <2>4. Pow2[r] \in Nat /\ (r > 0 => r - 1 \in Nat /\ Pow2[r - 1] \in Nat)
      BY <2>3, Pow2Recursion
    <2>5. Pow2[r] >= n /\ (r > 0 => Pow2[r - 1] < n)
      BY <2>3, <2>4
    <2> QED
      BY <2>1, <2>3, <2>5 DEF r
  <1> QED
    BY <1>1, <1>2

-----------------------------------------------------------------------------
(* The heap at one moment.                                                 *)

HeapState ==
  [order : [Page -> Order \cup {-1}],
   status : [Page -> {ALLOCATED, NOT_ALLOCATED, BELONG_LARGER_BLOCK}],
   list : [Order -> Page \cup {NULL}]]

Now == [order |-> order, status |-> status, list |-> free_list]

(* The pages from p on are a block of order k, which is marked st.         *)
IsBlock(s, p, k, st) ==
  /\ p \in Page /\ k \in Order /\ Aligned(p, k) /\ Pages(p, k) \subseteq Page
  /\ s.order[p] = k /\ s.status[p] = st
  /\ \A x \in Pages(p, k) :
       x # p => s.order[x] = -1 /\ s.status[x] = BELONG_LARGER_BLOCK

(* The buddy of a free block begins with an allocated one: it was split,   *)
(* and its first part is still out.                                        *)
BuddyOut(s, p, k) ==
  get_buddy(p, k) \in Page /\ s.status[get_buddy(p, k)] = ALLOCATED

FreeGood(s) ==
  \A k \in Order : s.list[k] # NULL =>
    /\ IsBlock(s, s.list[k], k, NOT_ALLOCATED)
    /\ k # HEAP_ORDER_MAX => BuddyOut(s, s.list[k], k)

(* The first n entries of the stack A.                                     *)
Some(A, i) == A[i].page # NULL

StackGood(s, A, n) ==
  \A i \in 1 .. n : Some(A, i) => IsBlock(s, A[i].page, A[i].order, ALLOCATED)

OwnedFree(s, x) == \E k \in Order : s.list[k] # NULL /\ x \in Pages(s.list[k], k)
OwnedOut(A, n, x) ==
  \E i \in 1 .. n : Some(A, i) /\ x \in Pages(A[i].page, A[i].order)

Covered(s, A, n) == \A x \in Page : OwnedFree(s, x) \/ OwnedOut(A, n, x)

Lost(s, A, n) ==
  /\ \A k \in Order : s.list[k] = NULL
  /\ \A i \in 1 .. n : ~ Some(A, i)
  /\ s.order[0] = HEAP_ORDER_MAX /\ s.status[0] = NOT_ALLOCATED

Good(s, A, n) ==
  FreeGood(s) /\ StackGood(s, A, n) /\ (Covered(s, A, n) \/ Lost(s, A, n))

(* s is B after the free block p of order t has been taken off its list    *)
(* and split down to order j; its first part is marked st.                 *)
Right(p, i) == p + Pow2[i]

Took(B, s, p, t, j, st) ==
  /\ t \in Order /\ j \in Nat /\ j <= t
  /\ B.list[t] = p /\ p # NULL /\ \A i \in j .. t - 1 : B.list[i] = NULL
  /\ s.order[p] = j /\ s.status[p] = st
  /\ \A i \in j .. t - 1 :
       s.order[Right(p, i)] = i /\ s.status[Right(p, i)] = NOT_ALLOCATED
  /\ \A x \in Page : x # p /\ (\A i \in j .. t - 1 : x # Right(p, i)) =>
       s.order[x] = B.order[x] /\ s.status[x] = B.status[x]
  /\ \A k \in Order : s.list[k] =
       IF k = t THEN NULL ELSE IF k \in j .. t - 1 THEN Right(p, k) ELSE B.list[k]

LEMMA Constants ==
  /\ HEAP_ORDER_MAX \in Nat \ {0} /\ Order = 0 .. HEAP_ORDER_MAX
  /\ PAGE_NUM \in Nat \ {0} /\ PAGE_NUM = Pow2[HEAP_ORDER_MAX]
  /\ Page = 0 .. PAGE_NUM - 1 /\ NULL = -1
  /\ ALLOCATED # NOT_ALLOCATED /\ ALLOCATED # BELONG_LARGER_BLOCK
  /\ NOT_ALLOCATED # BELONG_LARGER_BLOCK
  <1>1. HEAP_ORDER_MAX \in Nat \ {0} /\ PAGE_NUM = Pow2[HEAP_ORDER_MAX]
    BY HeapAssumption DEF PAGE_NUM
  <1>2. PAGE_NUM \in Nat \ {0}
    BY <1>1, Pow2Grows
  <1> QED
    BY <1>1, <1>2
    DEF Order, Page, NULL, ALLOCATED, NOT_ALLOCATED, BELONG_LARGER_BLOCK

LEMMA PagesOf ==
  ASSUME NEW p \in Nat, NEW k \in Nat
  PROVE  /\ Pages(p, k) = {x \in Nat : p <= x /\ x < p + Pow2[k]}
         /\ p \in Pages(p, k)
  <1>1. Pow2[k] \in Nat \ {0}
    BY Pow2Grows
  <1>2. ASSUME NEW m \in Nat \ {0}
        PROVE  p .. p + m - 1 = {x \in Nat : p <= x /\ x < p + m} /\ p \in p .. p + m - 1
    OBVIOUS
  <1> QED
    BY <1>1, <1>2 DEF Pages

(* Two blocks have no page in common.                                      *)
LEMMA BlocksApart ==
  ASSUME NEW s, NEW p, NEW k, NEW a, NEW q, NEW l, NEW b,
         IsBlock(s, p, k, a), IsBlock(s, q, l, b), p # q,
         a # BELONG_LARGER_BLOCK, b # BELONG_LARGER_BLOCK
  PROVE  \A x \in Pages(p, k) : x \notin Pages(q, l)
  <1>1. p \in Nat /\ q \in Nat /\ k \in Nat /\ l \in Nat
    BY Constants DEF IsBlock
  <1>2. q \notin Pages(p, k) /\ p \notin Pages(q, l)
    BY DEF IsBlock
  <1>3. ~ (p <= q /\ q < p + Pow2[k]) /\ ~ (q <= p /\ p < q + Pow2[l])
    BY <1>1, <1>2, PagesOf
  <1>4. Pow2[k] \in Nat /\ Pow2[l] \in Nat
    BY <1>1, Pow2Grows
  <1>5. ASSUME NEW x \in Nat, p <= x, x < p + Pow2[k], q <= x, x < q + Pow2[l]
        PROVE  FALSE
    BY <1>1, <1>3, <1>4, <1>5
  <1> QED
    BY <1>1, <1>5, PagesOf

(* The right halves that splitting makes.                                  *)
LEMMA RightHalf ==
  ASSUME NEW p \in Nat, NEW t \in Nat, NEW i \in Nat, i < t
  PROVE  /\ Right(p, i) \in Nat /\ Right(p, i) # p
         /\ Right(p, i) \in Pages(p, t)
         /\ Pages(Right(p, i), i) \subseteq Pages(p, t)
         /\ p \notin Pages(Right(p, i), i)
         /\ Pages(p, i) \subseteq Pages(p, t)
         /\ Right(p, i) \notin Pages(p, i)
  <1>1. Pow2[i] \in Nat \ {0} /\ Pow2[t] \in Nat /\ Pow2[i] + Pow2[i] <= Pow2[t]
    BY Pow2Grows
  <1>2. Right(p, i) = p + Pow2[i] /\ Right(p, i) \in Nat
    BY <1>1 DEF Right
  <1>3. /\ Pages(p, t) = {x \in Nat : p <= x /\ x < p + Pow2[t]}
        /\ Pages(p, i) = {x \in Nat : p <= x /\ x < p + Pow2[i]}
        /\ Pages(Right(p, i), i) = {x \in Nat : Right(p, i) <= x /\ x < Right(p, i) + Pow2[i]}
    BY <1>2, PagesOf
  <1> QED
    BY <1>1, <1>2, <1>3

LEMMA RightHalvesApart ==
  ASSUME NEW p \in Nat, NEW i \in Nat, NEW l \in Nat, i # l
  PROVE  /\ Right(p, i) # Right(p, l)
         /\ Right(p, l) \notin Pages(Right(p, i), i)
  <1>1. Pow2[i] \in Nat \ {0} /\ Pow2[l] \in Nat \ {0}
        /\ (i < l => Pow2[i] + Pow2[i] <= Pow2[l])
        /\ (l < i => Pow2[l] + Pow2[l] <= Pow2[i])
    BY Pow2Grows
  <1>2. Right(p, i) = p + Pow2[i] /\ Right(p, l) = p + Pow2[l] /\ Right(p, i) \in Nat
    BY <1>1 DEF Right
  <1>3. Pages(Right(p, i), i) = {x \in Nat : Right(p, i) <= x /\ x < Right(p, i) + Pow2[i]}
    BY <1>2, PagesOf
  <1> QED
    BY <1>1, <1>2, <1>3

-----------------------------------------------------------------------------
(* An allocation keeps the heap good.                                      *)

LEMMA TookFacts ==
  ASSUME NEW B, NEW s, NEW p, NEW t, NEW j, NEW st,
         FreeGood(B), Took(B, s, p, t, j, st)
  PROVE  /\ IsBlock(B, p, t, NOT_ALLOCATED) /\ p \in Page /\ p \in Nat /\ t \in Nat
         /\ t # HEAP_ORDER_MAX => BuddyOut(B, p, t)
         /\ \A i \in j .. t - 1 :
              /\ i \in Nat /\ i \in Order /\ i < t /\ Right(p, i) \in Page /\ Right(p, i) # p
              /\ B.status[Right(p, i)] = BELONG_LARGER_BLOCK
              /\ B.order[Right(p, i)] = -1
  <1>1. t \in Order /\ j \in Nat /\ B.list[t] = p /\ p # NULL
    BY DEF Took
  <1>2. IsBlock(B, p, t, NOT_ALLOCATED) /\ (t # HEAP_ORDER_MAX => BuddyOut(B, p, t))
    BY <1>1 DEF FreeGood
  <1>3. p \in Page /\ p \in Nat /\ t \in Nat
    BY <1>1, <1>2, Constants DEF IsBlock
  <1>4. ASSUME NEW i \in j .. t - 1
        PROVE  /\ i \in Nat /\ i \in Order /\ i < t /\ Right(p, i) \in Page /\ Right(p, i) # p
               /\ B.status[Right(p, i)] = BELONG_LARGER_BLOCK
               /\ B.order[Right(p, i)] = -1
    <2>1. i \in Nat /\ i \in Order /\ i < t
      BY <1>1, <1>3, Constants
    <2>2. Right(p, i) \in Pages(p, t) /\ Right(p, i) # p
      BY <1>3, <2>1, RightHalf
    <2> QED
      BY <1>2, <2>1, <2>2 DEF IsBlock
  <1> QED
    BY <1>2, <1>3, <1>4

LEMMA OtherBlockKept ==
  ASSUME NEW B, NEW s, NEW p, NEW t, NEW j, NEW st,
         FreeGood(B), Took(B, s, p, t, j, st),
         NEW q, NEW k, NEW a, IsBlock(B, q, k, a), q # p, a # BELONG_LARGER_BLOCK
  PROVE  IsBlock(s, q, k, a)
  <1>1. IsBlock(B, p, t, NOT_ALLOCATED) /\ p \in Nat /\ t \in Nat
    BY TookFacts
  <1>2. \A x \in Pages(q, k) : x \notin Pages(p, t)
    BY <1>1, BlocksApart, Constants
  <1>3. \A i \in j .. t - 1 : Right(p, i) \in Pages(p, t)
    <2>1. \A i \in j .. t - 1 : i \in Nat /\ i < t
      BY TookFacts
    <2> QED
      BY <1>1, <2>1, RightHalf
  <1>4. p \in Pages(p, t)
    BY <1>1, PagesOf
  <1>5. \A x \in Pages(q, k) : s.order[x] = B.order[x] /\ s.status[x] = B.status[x]
    <2>1. \A x \in Pages(q, k) : x \in Page /\ x # p /\ \A i \in j .. t - 1 : x # Right(p, i)
      BY <1>2, <1>3, <1>4 DEF IsBlock
    <2> QED
      BY <2>1 DEF Took
  <1>6. q \in Pages(q, k)
    <2>1. q \in Nat /\ k \in Nat
      BY Constants DEF IsBlock
    <2> QED
      BY <2>1, PagesOf
  <1> QED
    BY <1>5, <1>6 DEF IsBlock

(* The buddies that were allocated still are.                              *)
LEMMA OutKept ==
  ASSUME NEW B, NEW s, NEW p, NEW t, NEW j, NEW st,
         FreeGood(B), Took(B, s, p, t, j, st), NEW q, NEW k, BuddyOut(B, q, k)
  PROVE  BuddyOut(s, q, k)
  <1> DEFINE b == get_buddy(q, k)
  <1>1. b \in Page /\ B.status[b] = ALLOCATED
    BY DEF BuddyOut
  <1>2. b # p /\ \A i \in j .. t - 1 : b # Right(p, i)
    BY <1>1, TookFacts, Constants DEF IsBlock
  <1>3. s.status[b] = B.status[b]
    BY <1>1, <1>2 DEF Took
  <1> QED
    BY <1>1, <1>3 DEF BuddyOut

(* The right halves are good free blocks, next to an allocated first part. *)
LEMMA RightHalvesGood ==
  ASSUME NEW B, NEW s, NEW p, NEW t, NEW j,
         FreeGood(B), Took(B, s, p, t, j, ALLOCATED), NEW i \in j .. t - 1
  PROVE  IsBlock(s, Right(p, i), i, NOT_ALLOCATED) /\ BuddyOut(s, Right(p, i), i)
  <1>1. /\ IsBlock(B, p, t, NOT_ALLOCATED) /\ p \in Page /\ p \in Nat /\ t \in Nat
        /\ \A l \in j .. t - 1 : l \in Nat /\ l < t
        /\ i \in Nat /\ i \in Order /\ i < t /\ Right(p, i) \in Page
    BY TookFacts
  <1>2. /\ get_buddy(p, i) = Right(p, i) /\ get_buddy(Right(p, i), i) = p
        /\ Aligned(Right(p, i), i)
    BY <1>1, BuddyOfHalf DEF IsBlock, Right
  <1>3. Pages(Right(p, i), i) \subseteq Pages(p, t) /\ p \notin Pages(Right(p, i), i)
    BY <1>1, RightHalf
  <1>4. ASSUME NEW x \in Pages(Right(p, i), i), x # Right(p, i)
        PROVE  s.order[x] = -1 /\ s.status[x] = BELONG_LARGER_BLOCK
    <2>1. x # p /\ x \in Page
      BY <1>1, <1>3 DEF IsBlock
    <2>2. \A l \in j .. t - 1 : x # Right(p, l)
      BY <1>1, <1>4, RightHalvesApart
    <2>3. s.order[x] = B.order[x] /\ s.status[x] = B.status[x]
      BY <2>1, <2>2 DEF Took
    <2> QED
      BY <1>1, <1>3, <2>1, <2>3 DEF IsBlock
  <1>5. s.order[Right(p, i)] = i /\ s.status[Right(p, i)] = NOT_ALLOCATED
    BY DEF Took
  <1>6. IsBlock(s, Right(p, i), i, NOT_ALLOCATED)
    <2>1. Pages(Right(p, i), i) \subseteq Page
      BY <1>1, <1>3 DEF IsBlock
    <2> QED
      BY <1>1, <1>2, <1>4, <1>5, <2>1 DEF IsBlock
  <1>7. BuddyOut(s, Right(p, i), i)
    BY <1>1, <1>2 DEF BuddyOut, Took
  <1> QED
    BY <1>6, <1>7

(* And so is the first part.                                               *)
LEMMA FirstPartGood ==
  ASSUME NEW B, NEW s, NEW p, NEW t, NEW j, NEW st,
         FreeGood(B), Took(B, s, p, t, j, st)
  PROVE  IsBlock(s, p, j, st) /\ j \in Order
  <1>1. /\ IsBlock(B, p, t, NOT_ALLOCATED) /\ p \in Page /\ p \in Nat /\ t \in Nat
        /\ \A l \in j .. t - 1 : l \in Nat /\ l < t
    BY TookFacts
  <1>2. j \in Nat /\ j <= t /\ j \in Order /\ s.order[p] = j /\ s.status[p] = st
    BY Constants DEF Took
  <1>3. Pages(p, j) \subseteq Pages(p, t)
    <2>1. CASE j = t
      BY <2>1
    <2>2. CASE j # t
      BY <1>1, <1>2, <2>2, RightHalf
    <2> QED
      BY <2>1, <2>2
  <1>4. ASSUME NEW x \in Pages(p, j), x # p
        PROVE  s.order[x] = -1 /\ s.status[x] = BELONG_LARGER_BLOCK
    <2>1. x \in Page /\ x \in Pages(p, t)
      BY <1>1, <1>3 DEF IsBlock
    <2>2. ASSUME NEW l \in j .. t - 1
          PROVE  x # Right(p, l)
      <3>1. l \in Nat /\ Pow2[j] <= Pow2[l] /\ Pow2[j] \in Nat /\ Pow2[l] \in Nat
        BY <1>1, <1>2, Pow2Grows
      <3>2. x < p + Pow2[j] /\ x \in Nat
        BY <1>1, <1>2, PagesOf
      <3> QED
        BY <1>1, <3>1, <3>2 DEF Right
    <2>3. s.order[x] = B.order[x] /\ s.status[x] = B.status[x]
      BY <1>4, <2>1, <2>2 DEF Took
    <2> QED
      BY <1>1, <1>4, <2>1, <2>3 DEF IsBlock
  <1>5. Aligned(p, j) /\ Pages(p, j) \subseteq Page
    BY <1>1, <1>2, <1>3, AlignedBelow DEF IsBlock
  <1> QED
    BY <1>1, <1>2, <1>4, <1>5 DEF IsBlock

(* First part and right halves together are the block.                     *)
LEMMA PartsCover ==
  ASSUME NEW p \in Nat, NEW j \in Nat, NEW t \in Nat, j <= t
  PROVE  \A x \in Pages(p, t) :
           x \in Pages(p, j) \/ \E i \in j .. t - 1 : x \in Pages(Right(p, i), i)
  <1> DEFINE Parts(x, u) ==
               x \in Pages(p, j) \/ \E i \in j .. u - 1 : x \in Pages(Right(p, i), i)
             T == {d \in Nat : \A x \in Pages(p, j + d) : Parts(x, j + d)}
  <1>1. 0 \in T
    OBVIOUS
  <1>2. ASSUME NEW d \in Nat, d \in T
        PROVE  d + 1 \in T
    <2> SUFFICES ASSUME NEW x \in Pages(p, j + (d + 1))
                 PROVE  Parts(x, j + (d + 1))
      OBVIOUS
    <2> DEFINE u == j + d
    <2>1. u \in Nat /\ j + (d + 1) = u + 1 /\ u \in j .. (u + 1) - 1
          /\ j .. u - 1 \subseteq j .. (u + 1) - 1
      OBVIOUS
    <2>2. \A y \in Pages(p, u) : Parts(y, u)
      BY <1>2
    <2> HIDE DEF u
    <2>3. Pow2[u + 1] = 2 * Pow2[u] /\ Pow2[u] \in Nat /\ Right(p, u) = p + Pow2[u]
      BY <2>1, Pow2Recursion DEF Right
    <2>4. x \in Nat /\ p <= x /\ x < p + Pow2[u + 1]
      BY <2>1, PagesOf
    <2>5. x \in Pages(p, u) \/ x \in Pages(Right(p, u), u)
      <3>1. CASE x < p + Pow2[u]
        BY <2>1, <2>4, <3>1, PagesOf
      <3>2. CASE ~ (x < p + Pow2[u])
        <4>1. Right(p, u) \in Nat /\ Right(p, u) <= x /\ x < Right(p, u) + Pow2[u]
          BY <2>3, <2>4, <3>2
        <4> QED
          BY <2>1, <2>4, <4>1, PagesOf
      <3> QED
        BY <3>1, <3>2
    <2>6. CASE x \in Pages(p, u)
      BY <2>1, <2>2, <2>6
    <2>7. CASE x \in Pages(Right(p, u), u)
      BY <2>1, <2>7
    <2> QED
      BY <2>5, <2>6, <2>7
  <1>3. Nat \subseteq T
    BY <1>1, <1>2, SetInduction
  <1>4. t - j \in Nat /\ j + (t - j) = t
    OBVIOUS
  <1> QED
    BY <1>3, <1>4

(* A is C with one entry behind its first n.                               *)
Longer(C, A, n, e) == C[n + 1] = e /\ \A i \in 1 .. n : C[i] = A[i]

LEMMA TookKeepsFree ==
  ASSUME NEW B, NEW s, NEW p, NEW t, NEW j,
         FreeGood(B), Took(B, s, p, t, j, ALLOCATED)
  PROVE  FreeGood(s)
  <1>1. IsBlock(B, p, t, NOT_ALLOCATED) /\ t \in Order
    <2>1. IsBlock(B, p, t, NOT_ALLOCATED)
      BY TookFacts
    <2> QED
      BY <2>1 DEF IsBlock
  <1>2. ASSUME NEW k \in Order, s.list[k] # NULL
        PROVE  /\ IsBlock(s, s.list[k], k, NOT_ALLOCATED)
               /\ k # HEAP_ORDER_MAX => BuddyOut(s, s.list[k], k)
    <2>1. s.list[k] = IF k = t THEN NULL ELSE IF k \in j .. t - 1 THEN Right(p, k) ELSE B.list[k]
      BY DEF Took
    <2>2. CASE k \in j .. t - 1
      <3>1. s.list[k] = Right(p, k)
        BY <1>2, <2>1, <2>2
      <3> QED
        BY <2>2, <3>1, RightHalvesGood
    <2>3. CASE k \notin j .. t - 1
      <3>1. s.list[k] = B.list[k] /\ k # t /\ B.list[k] # NULL
        BY <1>2, <2>1, <2>3
      <3>2. IsBlock(B, B.list[k], k, NOT_ALLOCATED)
            /\ (k # HEAP_ORDER_MAX => BuddyOut(B, B.list[k], k))
        BY <3>1 DEF FreeGood
      <3>3. B.list[k] # p
        BY <1>1, <3>1, <3>2 DEF IsBlock
      <3> QED
        BY <3>1, <3>2, <3>3, OtherBlockKept, OutKept, Constants
    <2> QED
      BY <2>2, <2>3
  <1> QED
    BY <1>2 DEF FreeGood

LEMMA TookKeepsGood ==
  ASSUME NEW B, NEW s, NEW p, NEW t, NEW j, NEW A, NEW n \in Nat, NEW C,
         Good(B, A, n), Took(B, s, p, t, j, ALLOCATED),
         Longer(C, A, n, [page |-> p, order |-> j])
  PROVE  Good(s, C, n + 1)
  <1>1. FreeGood(B) /\ StackGood(B, A, n) /\ (Covered(B, A, n) \/ Lost(B, A, n))
    BY DEF Good
  <1>2. /\ IsBlock(B, p, t, NOT_ALLOCATED) /\ p \in Page /\ p \in Nat /\ t \in Nat
        /\ t \in Order /\ j \in Nat /\ j <= t /\ B.list[t] = p /\ p # NULL
        /\ \A i \in j .. t - 1 : B.list[i] = NULL /\ i \in Order
    <2>1. /\ IsBlock(B, p, t, NOT_ALLOCATED) /\ p \in Page /\ p \in Nat /\ t \in Nat
          /\ \A i \in j .. t - 1 : i \in Order
      BY <1>1, TookFacts
    <2>2. /\ t \in Order /\ j \in Nat /\ j <= t /\ B.list[t] = p /\ p # NULL
          /\ \A i \in j .. t - 1 : B.list[i] = NULL
      BY DEF Took
    <2> QED
      BY <2>1, <2>2
  <1>3. FreeGood(s)
    BY <1>1, TookKeepsFree
  <1>4. C[n + 1].page = p /\ C[n + 1].order = j /\ \A i \in 1 .. n : C[i] = A[i]
    BY DEF Longer
  <1>5. StackGood(s, C, n + 1)
    <2> SUFFICES ASSUME NEW i \in 1 .. n + 1, Some(C, i)
                 PROVE  IsBlock(s, C[i].page, C[i].order, ALLOCATED)
      BY DEF StackGood
    <2>1. CASE i = n + 1
      BY <1>1, <1>4, <2>1, FirstPartGood
    <2>2. CASE i # n + 1
      <3>1. i \in 1 .. n /\ C[i] = A[i] /\ Some(A, i)
        BY <1>4, <2>2 DEF Some
      <3>2. IsBlock(B, A[i].page, A[i].order, ALLOCATED)
        BY <1>1, <3>1 DEF StackGood
      <3>3. A[i].page # p
        BY <1>2, <3>2, Constants DEF IsBlock
      <3> QED
        BY <1>1, <3>1, <3>2, <3>3, OtherBlockKept, Constants
    <2> QED
      BY <2>1, <2>2
  <1>6. Covered(B, A, n)
    BY <1>1, <1>2 DEF Lost
  <1>7. ASSUME NEW x \in Page
        PROVE  OwnedFree(s, x) \/ OwnedOut(C, n + 1, x)
    <2>1. CASE OwnedOut(A, n, x)
      <3>1. PICK i \in 1 .. n : Some(A, i) /\ x \in Pages(A[i].page, A[i].order)
        BY <2>1 DEF OwnedOut
      <3>2. i \in 1 .. n + 1 /\ C[i] = A[i]
        BY <1>4, <3>1
      <3> QED
        BY <3>1, <3>2 DEF OwnedOut, Some
    <2>2. CASE OwnedFree(B, x)
      <3>1. PICK k \in Order : B.list[k] # NULL /\ x \in Pages(B.list[k], k)
        BY <2>2 DEF OwnedFree
      <3>2. s.list[k] = IF k = t THEN NULL ELSE IF k \in j .. t - 1 THEN Right(p, k) ELSE B.list[k]
        BY DEF Took
      <3>3. CASE k # t
        <4>1. s.list[k] = B.list[k]
          BY <1>2, <3>1, <3>2, <3>3
        <4> QED
          BY <3>1, <4>1 DEF OwnedFree
      <3>4. CASE k = t
        <4>1. x \in Pages(p, j) \/ \E i \in j .. t - 1 : x \in Pages(Right(p, i), i)
          BY <1>2, <3>1, <3>4, PartsCover
        <4>2. CASE x \in Pages(p, j)
          <5>1. n + 1 \in 1 .. n + 1 /\ Some(C, n + 1)
            BY <1>2, <1>4 DEF Some
          <5> QED
            BY <1>4, <4>2, <5>1 DEF OwnedOut
        <4>3. ASSUME NEW i \in j .. t - 1, x \in Pages(Right(p, i), i)
              PROVE  OwnedFree(s, x)
          <5>1. i \in Order /\ i # t /\ s.list[i] = Right(p, i)
            BY <1>2 DEF Took
          <5>2. Right(p, i) \in Page
            BY <1>1, TookFacts
          <5>3. Right(p, i) # NULL
            BY <5>2, Constants
          <5> QED
            BY <4>3, <5>1, <5>3 DEF OwnedFree
        <4> QED
          BY <4>1, <4>2, <4>3
      <3> QED
        BY <3>3, <3>4
    <2> QED
      BY <1>6, <2>1, <2>2 DEF Covered
  <1> QED
    BY <1>3, <1>5, <1>7 DEF Good, Covered

(* A request that fails keeps it too.                                      *)
LEMMA NothingKeepsGood ==
  ASSUME NEW B, NEW A, NEW n \in Nat, NEW C, NEW e,
         Good(B, A, n), Longer(C, A, n, e), e.page = NULL
  PROVE  Good(B, C, n + 1)
  <1>1. ~ Some(C, n + 1) /\ \A i \in 1 .. n : C[i] = A[i] /\ (Some(C, i) <=> Some(A, i))
    BY DEF Longer, Some
  <1>2. \A i \in 1 .. n + 1 : i = n + 1 \/ i \in 1 .. n
    OBVIOUS
  <1>3. \A i \in 1 .. n : i \in 1 .. n + 1
    OBVIOUS
  <1>4. StackGood(B, A, n) => StackGood(B, C, n + 1)
    BY <1>1, <1>2 DEF StackGood
  <1>5. Covered(B, A, n) => Covered(B, C, n + 1)
    BY <1>1, <1>3 DEF Covered, OwnedOut, Some
  <1>6. Lost(B, A, n) => Lost(B, C, n + 1)
    BY <1>1, <1>2 DEF Lost
  <1> QED
    BY <1>4, <1>5, <1>6 DEF Good

LEMMA GoodForPrefix ==
  ASSUME NEW B, NEW A, NEW n \in Nat, NEW C, Good(B, A, n), \A i \in 1 .. n : C[i] = A[i]
  PROVE  Good(B, C, n)
  <1>1. StackGood(B, A, n) => StackGood(B, C, n)
    BY DEF StackGood, Some
  <1>2. Covered(B, A, n) => Covered(B, C, n)
    BY DEF Covered, OwnedOut, Some
  <1>3. Lost(B, A, n) => Lost(B, C, n)
    BY DEF Lost, Some
  <1> QED
    BY <1>1, <1>2, <1>3 DEF Good

-----------------------------------------------------------------------------
(* What the steps do to a block that has been taken.                       *)

Heap(o, st, l) == [order |-> o, status |-> st, list |-> l]

LEMMA TakeHead ==
  ASSUME NEW B \in HeapState, FreeGood(B), NEW t \in Order, B.list[t] # NULL
  PROVE  Took(B, Heap(B.order, B.status, [B.list EXCEPT ![t] = NULL]),
              B.list[t], t, t, NOT_ALLOCATED)
  <1>1. IsBlock(B, B.list[t], t, NOT_ALLOCATED)
    BY DEF FreeGood
  <1>2. B.order[B.list[t]] = t /\ B.status[B.list[t]] = NOT_ALLOCATED
    BY <1>1 DEF IsBlock
  <1>3. t \in Nat /\ t <= t /\ \A i \in t .. t - 1 : FALSE
    BY Constants
  <1>4. \A k \in Order : [B.list EXCEPT ![t] = NULL][k] = IF k = t THEN NULL ELSE B.list[k]
    BY DEF HeapState
  <1> QED
    BY <1>2, <1>3, <1>4 DEF Took, Heap

LEMMA Mark ==
  ASSUME NEW B, NEW s \in HeapState, NEW p, NEW t, NEW j, NEW st, NEW mark,
         FreeGood(B), Took(B, s, p, t, j, st)
  PROVE  Took(B, Heap(s.order, [s.status EXCEPT ![p] = mark], s.list), p, t, j, mark)
  <1>1. p \in Page /\ \A i \in j .. t - 1 : Right(p, i) # p /\ Right(p, i) \in Page
    BY TookFacts
  <1>2. \A x \in Page : [s.status EXCEPT ![p] = mark][x] = IF x = p THEN mark ELSE s.status[x]
    BY DEF HeapState
  <1>3. [s.status EXCEPT ![p] = mark][p] = mark
    BY <1>1, <1>2
  <1>4. \A i \in j .. t - 1 :
          [s.status EXCEPT ![p] = mark][Right(p, i)] = s.status[Right(p, i)]
    BY <1>1, <1>2
  <1> QED
    BY <1>2, <1>3, <1>4 DEF Took, Heap

LEMMA SplitOnce ==
  ASSUME NEW B, NEW s \in HeapState, NEW p, NEW t, NEW j,
         FreeGood(B), Took(B, s, p, t, j, NOT_ALLOCATED), j > 0, B.list[j - 1] = NULL
  PROVE  /\ Right(p, j - 1) \in Page /\ Right(p, j - 1) # p /\ j - 1 \in Order
         /\ s.list[j - 1] = NULL
         /\ Took(B,
                 Heap([s.order EXCEPT ![p] = j - 1, ![Right(p, j - 1)] = j - 1],
                      [s.status EXCEPT ![p] = NOT_ALLOCATED,
                                       ![Right(p, j - 1)] = NOT_ALLOCATED],
                      [s.list EXCEPT ![j - 1] = Right(p, j - 1)]),
                 p, t, j - 1, NOT_ALLOCATED)
  <1> DEFINE k == j - 1
             r == Right(p, k)
             o == [s.order EXCEPT ![p] = k, ![r] = k]
             m == [s.status EXCEPT ![p] = NOT_ALLOCATED, ![r] = NOT_ALLOCATED]
             l == [s.list EXCEPT ![k] = r]
  <1>1. /\ IsBlock(B, p, t, NOT_ALLOCATED) /\ p \in Page /\ p \in Nat /\ t \in Nat
        /\ \A i \in j .. t - 1 : i \in Nat /\ Right(p, i) \in Page /\ Right(p, i) # p
    BY TookFacts
  <1>2. /\ t \in Order /\ j \in Nat /\ j <= t /\ B.list[t] = p /\ p # NULL
        /\ \A i \in j .. t - 1 : B.list[i] = NULL
    BY DEF Took
  <1>3. /\ k \in Nat /\ k < t /\ k <= t /\ k \in Order /\ k # t /\ k \notin j .. t - 1
        /\ k .. t - 1 = (j .. t - 1) \cup {k}
    BY <1>2, Constants
  <1>4. r \in Page /\ r # p
    <2>1. r # p /\ r \in Pages(p, t)
      BY <1>1, <1>3, RightHalf
    <2> QED
      BY <1>1, <2>1 DEF IsBlock
  <1>5. \A i \in j .. t - 1 : Right(p, i) # r
    BY <1>1, <1>3, RightHalvesApart
  <1>6. s.list[k] = NULL
    BY <1>3 DEF Took
  <1> HIDE DEF k, r
  <1>7. \A x \in Page : /\ o[x] = IF x = p \/ x = r THEN k ELSE s.order[x]
                        /\ m[x] = IF x = p \/ x = r THEN NOT_ALLOCATED ELSE s.status[x]
    BY <1>4 DEF HeapState
  <1>8. \A i \in Order : l[i] = IF i = k THEN r ELSE s.list[i]
    BY DEF HeapState
  <1> HIDE DEF o, m, l
  <1> DEFINE u == Heap(o, m, l)
  <1>9. \A i \in k .. t - 1 : u.order[Right(p, i)] = i /\ u.status[Right(p, i)] = NOT_ALLOCATED
    <2> SUFFICES ASSUME NEW i \in k .. t - 1
                 PROVE  o[Right(p, i)] = i /\ m[Right(p, i)] = NOT_ALLOCATED
      BY DEF Heap
    <2>1. CASE i = k
      BY <1>4, <1>7, <2>1 DEF r
    <2>2. CASE i \in j .. t - 1
      <3>1. s.order[Right(p, i)] = i /\ s.status[Right(p, i)] = NOT_ALLOCATED
        BY <2>2 DEF Took
      <3> QED
        BY <1>1, <1>5, <1>7, <2>2, <3>1
    <2> QED
      BY <1>3, <2>1, <2>2
  <1>10. \A x \in Page : x # p /\ (\A i \in k .. t - 1 : x # Right(p, i)) =>
           u.order[x] = B.order[x] /\ u.status[x] = B.status[x]
    <2> SUFFICES ASSUME NEW x \in Page, x # p, \A i \in k .. t - 1 : x # Right(p, i)
                 PROVE  o[x] = B.order[x] /\ m[x] = B.status[x]
      BY DEF Heap
    <2>1. x # r /\ \A i \in j .. t - 1 : x # Right(p, i)
      BY <1>3 DEF r
    <2>2. s.order[x] = B.order[x] /\ s.status[x] = B.status[x]
      BY <2>1 DEF Took
    <2> QED
      BY <1>7, <2>1, <2>2
  <1>11. \A i \in Order : u.list[i] =
           IF i = t THEN NULL ELSE IF i \in k .. t - 1 THEN Right(p, i) ELSE B.list[i]
    <2> SUFFICES ASSUME NEW i \in Order
                 PROVE  l[i] = IF i = t THEN NULL
                               ELSE IF i \in k .. t - 1 THEN Right(p, i) ELSE B.list[i]
      BY DEF Heap
    <2>1. s.list[i] = IF i = t THEN NULL ELSE IF i \in j .. t - 1 THEN Right(p, i) ELSE B.list[i]
      BY DEF Took
    <2> QED
      BY <1>3, <1>8, <2>1 DEF r
  <1>12. u.order[p] = k /\ u.status[p] = NOT_ALLOCATED
    BY <1>1, <1>7 DEF Heap
  <1>13. \A i \in k .. t - 1 : B.list[i] = NULL
    BY <1>2, <1>3 DEF k
  <1> HIDE DEF u
  <1>14. Took(B, u, p, t, k, NOT_ALLOCATED)
    BY <1>2, <1>3, <1>9, <1>10, <1>11, <1>12, <1>13 DEF Took
  <1> QED
    BY <1>3, <1>4, <1>6, <1>14 DEF k, r, o, m, l, u

(* The buddy of a part is free as long as the block is not whole again.    *)
LEMMA BuddyOfPart ==
  ASSUME NEW B, NEW s, NEW p, NEW t, NEW j,
         FreeGood(B), Took(B, s, p, t, j, NOT_ALLOCATED), s \in HeapState
  PROVE  /\ j < t => /\ get_buddy(p, j) = Right(p, j) /\ p < Right(p, j)
                     /\ Right(p, j) \in Page /\ j # HEAP_ORDER_MAX /\ j + 1 \in Order
                     /\ s.order[Right(p, j)] = j /\ s.list[j] = Right(p, j)
                     /\ s.status[Right(p, j)] = NOT_ALLOCATED
         /\ j = t => \/ j = HEAP_ORDER_MAX
                     \/ s.status[get_buddy(p, j)] # NOT_ALLOCATED
  <1>1. /\ IsBlock(B, p, t, NOT_ALLOCATED) /\ p \in Nat /\ t \in Nat
        /\ \A i \in j .. t - 1 : Right(p, i) \in Page
    BY TookFacts
  <1>2. j \in Nat /\ t \in Order
    BY DEF Took
  <1>3. ASSUME j < t
        PROVE  /\ get_buddy(p, j) = Right(p, j) /\ p < Right(p, j)
               /\ Right(p, j) \in Page /\ j # HEAP_ORDER_MAX /\ j + 1 \in Order
               /\ s.order[Right(p, j)] = j /\ s.list[j] = Right(p, j)
               /\ s.status[Right(p, j)] = NOT_ALLOCATED
    <2>1. j \in j .. t - 1 /\ j \in Order /\ j # t /\ j # HEAP_ORDER_MAX /\ j + 1 \in Order
      BY <1>1, <1>2, <1>3, Constants
    <2>2. get_buddy(p, j) = Right(p, j)
      BY <1>1, <1>2, <1>3, BuddyOfHalf DEF IsBlock, Right
    <2>3. p < Right(p, j)
      <3>1. Pow2[j] \in Nat \ {0}
        BY <1>2, Pow2Grows
      <3> QED
        BY <1>1, <3>1 DEF Right
    <2>4. s.order[Right(p, j)] = j /\ s.status[Right(p, j)] = NOT_ALLOCATED
      BY <2>1 DEF Took
    <2>5. s.list[j] = Right(p, j)
      BY <2>1 DEF Took
    <2> QED
      BY <1>1, <2>1, <2>2, <2>3, <2>4, <2>5
  <1>4. ASSUME j = t, j # HEAP_ORDER_MAX
        PROVE  s.status[get_buddy(p, j)] # NOT_ALLOCATED
    <2>1. BuddyOut(B, p, t)
      BY <1>4, TookFacts
    <2>2. BuddyOut(s, p, t)
      BY <2>1, OutKept
    <2> QED
      BY <1>4, <2>2, Constants DEF BuddyOut
  <1> QED
    BY <1>3, <1>4

LEMMA MergeOnce ==
  ASSUME NEW B, NEW s \in HeapState, NEW p, NEW t, NEW j,
         FreeGood(B), Took(B, s, p, t, j, NOT_ALLOCATED), j < t
  PROVE  Took(B,
              Heap([s.order EXCEPT ![p] = j + 1, ![Right(p, j)] = -1],
                   [s.status EXCEPT ![p] = NOT_ALLOCATED,
                                    ![Right(p, j)] = BELONG_LARGER_BLOCK],
                   [s.list EXCEPT ![j] = NULL]),
              p, t, j + 1, NOT_ALLOCATED)
  <1> DEFINE k == j + 1
             r == Right(p, j)
             o == [s.order EXCEPT ![p] = k, ![r] = -1]
             m == [s.status EXCEPT ![p] = NOT_ALLOCATED, ![r] = BELONG_LARGER_BLOCK]
             l == [s.list EXCEPT ![j] = NULL]
             u == Heap(o, m, l)
  <1>1. /\ IsBlock(B, p, t, NOT_ALLOCATED) /\ p \in Page /\ p \in Nat /\ t \in Nat
        /\ \A i \in j .. t - 1 : /\ i \in Nat /\ Right(p, i) \in Page /\ Right(p, i) # p
                                 /\ B.status[Right(p, i)] = BELONG_LARGER_BLOCK
                                 /\ B.order[Right(p, i)] = -1
    BY TookFacts
  <1>2. /\ t \in Order /\ j \in Nat /\ j <= t /\ B.list[t] = p /\ p # NULL
        /\ \A i \in j .. t - 1 : B.list[i] = NULL
    BY DEF Took
  <1>3. /\ k \in Nat /\ k <= t /\ j \in Order /\ j # t /\ j \in j .. t - 1
        /\ j .. t - 1 = (k .. t - 1) \cup {j} /\ j \notin k .. t - 1
    BY <1>1, <1>2, Constants
  <1>4. /\ r \in Page /\ r # p /\ B.status[r] = BELONG_LARGER_BLOCK /\ B.order[r] = -1
    BY <1>1, <1>3
  <1>5. \A i \in k .. t - 1 : Right(p, i) # r
    BY <1>1, <1>3, RightHalvesApart
  <1> HIDE DEF k, r
  <1>6. \A x \in Page :
          /\ o[x] = IF x = r THEN -1 ELSE IF x = p THEN k ELSE s.order[x]
          /\ m[x] = IF x = r THEN BELONG_LARGER_BLOCK
                    ELSE IF x = p THEN NOT_ALLOCATED ELSE s.status[x]
    BY <1>4 DEF HeapState
  <1>7. \A i \in Order : l[i] = IF i = j THEN NULL ELSE s.list[i]
    BY DEF HeapState
  <1> HIDE DEF o, m, l
  <1>8. \A i \in k .. t - 1 : u.order[Right(p, i)] = i /\ u.status[Right(p, i)] = NOT_ALLOCATED
    <2> SUFFICES ASSUME NEW i \in k .. t - 1
                 PROVE  o[Right(p, i)] = i /\ m[Right(p, i)] = NOT_ALLOCATED
      BY DEF Heap
    <2>1. i \in j .. t - 1
      BY <1>3
    <2>2. s.order[Right(p, i)] = i /\ s.status[Right(p, i)] = NOT_ALLOCATED
      BY <2>1 DEF Took
    <2> QED
      BY <1>1, <1>5, <1>6, <2>1, <2>2
  <1>9. \A x \in Page : x # p /\ (\A i \in k .. t - 1 : x # Right(p, i)) =>
          u.order[x] = B.order[x] /\ u.status[x] = B.status[x]
    <2> SUFFICES ASSUME NEW x \in Page, x # p, \A i \in k .. t - 1 : x # Right(p, i)
                 PROVE  o[x] = B.order[x] /\ m[x] = B.status[x]
      BY DEF Heap
    <2>1. CASE x = r
      BY <1>4, <1>6, <2>1
    <2>2. CASE x # r
      <3>1. \A i \in j .. t - 1 : x # Right(p, i)
        BY <1>3, <2>2 DEF r
      <3>2. s.order[x] = B.order[x] /\ s.status[x] = B.status[x]
        BY <3>1 DEF Took
      <3> QED
        BY <1>6, <2>2, <3>2
    <2> QED
      BY <2>1, <2>2
  <1>10. \A i \in Order : u.list[i] =
           IF i = t THEN NULL ELSE IF i \in k .. t - 1 THEN Right(p, i) ELSE B.list[i]
    <2> SUFFICES ASSUME NEW i \in Order
                 PROVE  l[i] = IF i = t THEN NULL
                               ELSE IF i \in k .. t - 1 THEN Right(p, i) ELSE B.list[i]
      BY DEF Heap
    <2>1. s.list[i] = IF i = t THEN NULL ELSE IF i \in j .. t - 1 THEN Right(p, i) ELSE B.list[i]
      BY DEF Took
    <2> QED
      BY <1>2, <1>3, <1>7, <2>1
  <1>11. u.order[p] = k /\ u.status[p] = NOT_ALLOCATED
    BY <1>1, <1>4, <1>6 DEF Heap
  <1>12. \A i \in k .. t - 1 : B.list[i] = NULL
    BY <1>2, <1>3
  <1> HIDE DEF u
  <1>13. Took(B, u, p, t, k, NOT_ALLOCATED)
    BY <1>2, <1>3, <1>8, <1>9, <1>10, <1>11, <1>12 DEF Took
  <1> QED
    BY <1>13 DEF k, r, o, m, l, u

(* When the block is whole again and is put back, nothing has happened.    *)
LEMMA PutBackWhole ==
  ASSUME NEW B \in HeapState, NEW s \in HeapState, NEW p, NEW t,
         FreeGood(B), Took(B, s, p, t, t, NOT_ALLOCATED)
  PROVE  /\ s.list[t] = NULL
         /\ B = Heap(s.order, s.status, [s.list EXCEPT ![t] = p])
  <1>1. IsBlock(B, p, t, NOT_ALLOCATED) /\ p \in Page /\ t \in Nat /\ t \in Order
    <2>1. IsBlock(B, p, t, NOT_ALLOCATED) /\ p \in Page /\ t \in Nat
      BY TookFacts
    <2> QED
      BY <2>1 DEF IsBlock
  <1>2. \A i \in t .. t - 1 : FALSE
    BY <1>1
  <1>3. \A x \in Page : s.order[x] = B.order[x] /\ s.status[x] = B.status[x]
    <2> SUFFICES ASSUME NEW x \in Page
                 PROVE  s.order[x] = B.order[x] /\ s.status[x] = B.status[x]
      OBVIOUS
    <2>1. CASE x = p
      BY <1>1, <2>1 DEF Took, IsBlock
    <2>2. CASE x # p
      BY <1>2, <2>2 DEF Took
    <2> QED
      BY <2>1, <2>2
  <1>4. \A k \in Order : s.list[k] = IF k = t THEN NULL ELSE B.list[k]
    BY <1>2 DEF Took
  <1>5. B.list[t] = p
    BY DEF Took
  <1>6. s.order = B.order /\ s.status = B.status
    BY <1>3 DEF HeapState
  <1>7. [s.list EXCEPT ![t] = p] = B.list
    BY <1>1, <1>4, <1>5 DEF HeapState
  <1>8. B = [order |-> B.order, status |-> B.status, list |-> B.list]
    BY DEF HeapState
  <1> QED
    BY <1>1, <1>4, <1>6, <1>7, <1>8 DEF Heap

(* The block of the whole heap, given back: the heap is lost.              *)
LEMMA WholeIsLost ==
  ASSUME NEW B, NEW s, NEW p, NEW t, NEW A, NEW n \in Nat,
         Good(B, A, n), Took(B, s, p, t, HEAP_ORDER_MAX, NOT_ALLOCATED)
  PROVE  Lost(s, A, n)
  <1>1. FreeGood(B) /\ StackGood(B, A, n)
    BY DEF Good
  <1>2. IsBlock(B, p, t, NOT_ALLOCATED) /\ p \in Nat /\ t \in Nat /\ p \in Page
    BY <1>1, TookFacts
  <1>3. t = HEAP_ORDER_MAX
    BY <1>2, Constants DEF Took
  <1>4. p = 0 /\ \A x \in Page : x \in Pages(p, t)
    <2>1. Pages(p, t) = {x \in Nat : p <= x /\ x < p + PAGE_NUM}
      <3>1. Pow2[t] = PAGE_NUM
        BY <1>3, Constants
      <3>2. Pages(p, t) = {x \in Nat : p <= x /\ x < p + Pow2[t]}
        BY <1>2, PagesOf
      <3> QED
        BY <3>1, <3>2
    <2>2. p + PAGE_NUM - 1 \in Pages(p, t)
      BY <1>2, <2>1, Constants
    <2>3. p + PAGE_NUM - 1 \in Page
      BY <1>2, <2>2 DEF IsBlock
    <2>4. p = 0
      BY <1>2, <2>3, Constants
    <2> QED
      BY <2>1, <2>4, Constants
  <1>5. ASSUME NEW q, NEW k, NEW a, IsBlock(B, q, k, a), a # BELONG_LARGER_BLOCK
        PROVE  q = p /\ k = t /\ a = NOT_ALLOCATED
    BY <1>2, <1>4, <1>5 DEF IsBlock
  <1>6. ASSUME NEW k \in Order
        PROVE  s.list[k] = NULL
    <2>1. s.list[k] = IF k = t THEN NULL ELSE B.list[k]
      <3>1. \A i \in HEAP_ORDER_MAX .. t - 1 : FALSE
        BY <1>3, Constants
      <3> QED
        BY <3>1 DEF Took
    <2>2. CASE k # t
      <3>1. B.list[k] # NULL => IsBlock(B, B.list[k], k, NOT_ALLOCATED)
        BY <1>1 DEF FreeGood
      <3> QED
        BY <1>5, <2>1, <2>2, <3>1, Constants
    <2> QED
      BY <2>1, <2>2
  <1>7. \A i \in 1 .. n : ~ Some(A, i)
    BY <1>1, <1>5, Constants DEF StackGood
  <1>8. s.order[0] = HEAP_ORDER_MAX /\ s.status[0] = NOT_ALLOCATED
    BY <1>4 DEF Took
  <1> QED
    BY <1>6, <1>7, <1>8 DEF Lost

-----------------------------------------------------------------------------
(* The inductive invariant: h[i] is the heap when the shell had i entries  *)
(* on its stack, and what the functions do now starts from the last one.   *)

History(h, A) ==
  /\ h \in [0 .. Len(A) -> HeapState]
  /\ \A i \in 0 .. Len(A) : Good(h[i], A, i)
  /\ \A i \in 1 .. Len(A) :
       IF A[i].page = NULL THEN h[i] = h[i - 1]
       ELSE \E t : Took(h[i - 1], h[i], A[i].page, t, A[i].order, ALLOCATED)

Doing(B) ==
  /\ pc = "shell" => B = Now
  /\ pc = "split" => \E t :
       /\ Took(B, Now, block, t, target_order, NOT_ALLOCATED)
       /\ min_order <= target_order
       /\ \A i \in min_order .. t - 1 : B.list[i] = NULL
  /\ pc = "push" =>
       /\ target_order = min_order
       /\ \E t : Took(B, Now, block, t, min_order, ALLOCATED)
  /\ pc = "merge" => \E t : Took(B, Now, block, t, order[block], NOT_ALLOCATED)

Remembers == \E h : History(h, my_stack) /\ Doing(h[Len(my_stack)])

AllAlone == \A x \in Page : next[x] = NULL
OrderKnown == pc \in {"split", "push"} => min_order = get_min_order(required_pages)

IInv == TypeOK /\ AllAlone /\ OrderKnown /\ Remembers

(* A heap with no entries behind it, and one whose pages are all lost.     *)
LEMMA HistoryOfOne ==
  ASSUME NEW B \in HeapState, Good(B, <<>>, 0)
  PROVE  History([i \in 0 .. 0 |-> B], <<>>)
  <1>1. Len(<<>>) = 0 /\ 0 .. 0 = {0} /\ 1 .. 0 = {}
    OBVIOUS
  <1> QED
    BY <1>1 DEF History

LEMMA HistoryOfLoss ==
  ASSUME NEW B \in HeapState, NEW S, NEW A \in Seq(S), Lost(B, A, Len(A))
  PROVE  History([i \in 0 .. Len(A) |-> B], A)
  <1>1. Len(A) \in Nat
    OBVIOUS
  <1>2. FreeGood(B) /\ \A i \in 1 .. Len(A) : ~ Some(A, i)
    BY DEF Lost, FreeGood
  <1>3. ASSUME NEW i \in 0 .. Len(A)
        PROVE  Good(B, A, i)
    <2>1. \A l \in 1 .. i : l \in 1 .. Len(A)
      BY <1>1
    <2> QED
      BY <1>2, <2>1 DEF Good, StackGood, Lost
  <1> DEFINE h == [i \in 0 .. Len(A) |-> B]
  <1>4. \A i \in 1 .. Len(A) : i \in 0 .. Len(A) /\ i - 1 \in 0 .. Len(A)
    BY <1>1
  <1>5. h \in [0 .. Len(A) -> HeapState] /\ \A i \in 0 .. Len(A) : h[i] = B
    OBVIOUS
  <1> HIDE DEF h
  <1>6. \A i \in 1 .. Len(A) : A[i].page = NULL /\ h[i] = h[i - 1]
    BY <1>2, <1>4, <1>5 DEF Some
  <1>7. History(h, A)
    BY <1>3, <1>5, <1>6 DEF History
  <1> QED
    BY <1>7 DEF h

LEMMA HistoryGrows ==
  ASSUME NEW S, NEW A \in Seq(S), NEW e \in S, NEW h, History(h, A),
         NEW B \in HeapState, Good(B, Append(A, e), Len(A) + 1),
         IF e.page = NULL THEN B = h[Len(A)]
         ELSE \E t : Took(h[Len(A)], B, e.page, t, e.order, ALLOCATED)
  PROVE  \E g : History(g, Append(A, e)) /\ g[Len(Append(A, e))] = B
  <1> DEFINE C == Append(A, e)
             n == Len(A)
             g == [i \in 0 .. n + 1 |-> IF i = n + 1 THEN B ELSE h[i]]
  <1>1. n \in Nat /\ Len(C) = n + 1 /\ C[n + 1] = e /\ \A i \in 1 .. n : C[i] = A[i]
    OBVIOUS
  <1>2. h \in [0 .. n -> HeapState] /\ \A i \in 0 .. n : Good(h[i], A, i)
    BY DEF History
  <1>3. \A i \in 1 .. n : IF A[i].page = NULL THEN h[i] = h[i - 1]
                          ELSE \E t : Took(h[i - 1], h[i], A[i].page, t, A[i].order, ALLOCATED)
    BY DEF History
  <1>4. /\ IF e.page = NULL THEN B = h[n]
           ELSE \E t : Took(h[n], B, e.page, t, e.order, ALLOCATED)
        /\ Good(B, C, n + 1)
    OBVIOUS
  <1> HIDE DEF C, n
  <1>5. g \in [0 .. n + 1 -> HeapState]
    BY <1>1, <1>2
  <1>6. g[n + 1] = B /\ \A i \in 0 .. n : g[i] = h[i]
    BY <1>1
  <1> HIDE DEF g
  <1>7. ASSUME NEW i \in 0 .. n + 1
        PROVE  Good(g[i], C, i)
    <2>1. CASE i = n + 1
      BY <1>4, <1>6, <2>1
    <2>2. CASE i # n + 1
      <3>1. i \in Nat /\ i \in 0 .. n /\ \A l \in 1 .. i : C[l] = A[l]
        BY <1>1, <2>2
      <3> QED
        BY <1>2, <1>6, <3>1, GoodForPrefix
    <2> QED
      BY <2>1, <2>2
  <1>8. ASSUME NEW i \in 1 .. n + 1
        PROVE  IF C[i].page = NULL THEN g[i] = g[i - 1]
               ELSE \E t : Took(g[i - 1], g[i], C[i].page, t, C[i].order, ALLOCATED)
    <2>1. i - 1 \in 0 .. n
      BY <1>1
    <2>2. CASE i = n + 1
      <3>1. g[i] = B /\ g[i - 1] = h[n] /\ C[i] = e
        BY <1>1, <1>6, <2>1, <2>2
      <3> QED
        BY <1>4, <3>1
    <2>3. CASE i # n + 1
      <3>1. i \in 0 .. n /\ i \in 1 .. n
        BY <1>1, <2>3
      <3>2. g[i] = h[i] /\ g[i - 1] = h[i - 1] /\ C[i] = A[i]
        BY <1>1, <1>6, <2>1, <3>1
      <3> QED
        BY <1>3, <3>1, <3>2
    <2> QED
      BY <2>2, <2>3
  <1>9. History(g, C) /\ g[Len(C)] = B
    BY <1>1, <1>5, <1>6, <1>7, <1>8 DEF History
  <1> QED
    BY <1>9 DEF C

LEMMA HistoryShrinks ==
  ASSUME NEW S, NEW A \in Seq(S), A # <<>>, NEW h, History(h, A)
  PROVE  LET n == Len(Front(A))
         IN  /\ n \in Nat /\ Len(A) = n + 1 /\ Front(A) \in Seq(S)
             /\ Last(A) = A[n + 1] /\ Last(A) \in S
             /\ \A i \in 1 .. n : Front(A)[i] = A[i]
             /\ h[n] \in HeapState /\ Good(h[n], Front(A), n)
             /\ IF Last(A).page = NULL THEN h[n + 1] = h[n]
                ELSE \E t : Took(h[n], h[n + 1], Last(A).page, t, Last(A).order, ALLOCATED)
             /\ \E g : History(g, Front(A)) /\ g[n] = h[n]
  <1> DEFINE C == Front(A)
             n == Len(C)
             g == [i \in 0 .. n |-> h[i]]
  <1>1. /\ n \in Nat /\ Len(A) = n + 1 /\ C \in Seq(S)
        /\ Last(A) = A[n + 1] /\ Last(A) \in S
        /\ \A i \in 1 .. n : C[i] = A[i]
    <2>1. Len(A) \in Nat \ {0}
      OBVIOUS
    <2>2. C = [i \in 1 .. Len(A) - 1 |-> A[i]]
      BY <2>1 DEF Front
    <2>3. C \in Seq(S) /\ Len(C) = Len(A) - 1 /\ \A i \in 1 .. Len(A) - 1 : C[i] = A[i]
      BY <2>1, <2>2
    <2>4. Last(A) = A[Len(A)] /\ A[Len(A)] \in S
      BY <2>1 DEF Last
    <2> QED
      BY <2>1, <2>3, <2>4
  <1>2. h \in [0 .. n + 1 -> HeapState] /\ \A i \in 0 .. n + 1 : Good(h[i], A, i)
    BY <1>1 DEF History
  <1>3. \A i \in 1 .. n + 1 :
          IF A[i].page = NULL THEN h[i] = h[i - 1]
          ELSE \E t : Took(h[i - 1], h[i], A[i].page, t, A[i].order, ALLOCATED)
    BY <1>1 DEF History
  <1>4. IF Last(A).page = NULL THEN h[n + 1] = h[n]
        ELSE \E t : Took(h[n], h[n + 1], Last(A).page, t, Last(A).order, ALLOCATED)
    <2>1. n + 1 \in 1 .. n + 1 /\ (n + 1) - 1 = n
      BY <1>1
    <2> QED
      BY <1>1, <1>3, <2>1
  <1> HIDE DEF C, n
  <1>5. g \in [0 .. n -> HeapState] /\ \A i \in 0 .. n : g[i] = h[i]
    BY <1>1, <1>2
  <1> HIDE DEF g
  <1>6. ASSUME NEW i \in 0 .. n
        PROVE  Good(g[i], C, i) /\ Good(h[i], C, i)
    <2>1. i \in Nat /\ i \in 0 .. n + 1 /\ \A l \in 1 .. i : C[l] = A[l]
      BY <1>1
    <2> QED
      BY <1>2, <1>5, <2>1, GoodForPrefix
  <1>7. ASSUME NEW i \in 1 .. n
        PROVE  IF C[i].page = NULL THEN g[i] = g[i - 1]
               ELSE \E t : Took(g[i - 1], g[i], C[i].page, t, C[i].order, ALLOCATED)
    <2>1. i \in 1 .. n + 1 /\ i \in 0 .. n /\ i - 1 \in 0 .. n
      BY <1>1
    <2>2. g[i] = h[i] /\ g[i - 1] = h[i - 1] /\ C[i] = A[i]
      BY <1>1, <1>5, <2>1
    <2> QED
      BY <1>3, <2>1, <2>2
  <1>8. n = Len(C)
    BY DEF n
  <1>9. History(g, C)
    BY <1>5, <1>6, <1>7, <1>8 DEF History
  <1>10. n \in 0 .. n /\ n \in 0 .. n + 1
    BY <1>1
  <1>11. g[n] = h[n] /\ h[n] \in HeapState /\ Good(h[n], C, n)
    BY <1>2, <1>5, <1>6, <1>10
  <1> QED
    BY <1>1, <1>4, <1>9, <1>11 DEF C, n

LEMMA NowTyped ==
  ASSUME TypeOK
  PROVE  Now \in HeapState
  BY DEF TypeOK, Now, HeapState

LEMMA NowTypedNext ==
  ASSUME TypeOK'
  PROVE  Now' \in HeapState
  BY DEF TypeOK, Now, HeapState

LEMMA InitIInv ==
  ASSUME Init
  PROVE  IInv
  <1>1. TypeOK
    <2>1. 0 \in Page /\ 0 \in Order /\ HEAP_ORDER_MAX \in Order /\ 0 \in 0 .. MaxRequest
      BY Constants, RequestAssumption
    <2>2. <<>> \in Seq([page : Page \cup {NULL}, order : Order]) /\ Len(<<>>) = 0
          /\ 0 <= STACK_CAPACITY
      BY StackAssumption
    <2> QED
      BY <2>1, <2>2 DEF Init, TypeOK
  <1>2. AllAlone /\ OrderKnown
    BY DEF Init, AllAlone, OrderKnown
  <1>3. HEAP_ORDER_MAX \in Order /\ HEAP_ORDER_MAX \in Nat /\ 0 \in Page /\ 0 # NULL
        /\ \A k \in Order : free_list[k] = IF k = HEAP_ORDER_MAX THEN 0 ELSE NULL
    BY Constants DEF Init
  <1>4. Pages(0, HEAP_ORDER_MAX) = Page
    <2>1. 0 + Pow2[HEAP_ORDER_MAX] - 1 = PAGE_NUM - 1
      BY Constants
    <2> QED
      BY <2>1 DEF Pages, Page
  <1>5. Aligned(0, HEAP_ORDER_MAX)
    <2>1. Pow2[HEAP_ORDER_MAX] \in Nat
      BY <1>3, Pow2Grows
    <2>2. 0 = 0 * Pow2[HEAP_ORDER_MAX]
      BY <2>1
    <2> QED
      BY <2>2 DEF Aligned
  <1>6. IsBlock(Now, 0, HEAP_ORDER_MAX, NOT_ALLOCATED)
    BY <1>3, <1>4, <1>5 DEF IsBlock, Now, Init
  <1>7. FreeGood(Now)
    BY <1>3, <1>6 DEF FreeGood, Now
  <1>8. Covered(Now, <<>>, 0)
    BY <1>3, <1>4 DEF Covered, OwnedFree, Now
  <1>9. StackGood(Now, <<>>, 0)
    BY DEF StackGood
  <1>10. Good(Now, <<>>, 0)
    BY <1>7, <1>8, <1>9 DEF Good
  <1>11. History([i \in 0 .. 0 |-> Now], my_stack) /\ Len(my_stack) = 0 /\ pc = "shell"
    BY <1>1, <1>10, NowTyped, HistoryOfOne DEF Init
  <1>12. Doing(Now) /\ [i \in 0 .. 0 |-> Now][0] = Now
    BY <1>11 DEF Doing
  <1>13. Remembers
    <2> DEFINE h == [i \in 0 .. 0 |-> Now]
    <2>1. History(h, my_stack) /\ h[Len(my_stack)] = Now
      BY <1>11
    <2> HIDE DEF h
    <2> QED
      BY <1>12, <2>1 DEF Remembers
  <1> QED
    BY <1>1, <1>2, <1>13 DEF IInv

-----------------------------------------------------------------------------
(* alloc_block.                                                            *)

(* The newest of the remembered heaps.                                     *)
LEMMA Newest ==
  ASSUME TypeOK, NEW h, History(h, my_stack)
  PROVE  /\ Len(my_stack) \in Nat
         /\ h[Len(my_stack)] \in HeapState
         /\ Good(h[Len(my_stack)], my_stack, Len(my_stack))
         /\ FreeGood(h[Len(my_stack)])
  <1>1. Len(my_stack) \in Nat /\ Len(my_stack) \in 0 .. Len(my_stack)
    BY DEF TypeOK
  <1>2. h[Len(my_stack)] \in HeapState /\ Good(h[Len(my_stack)], my_stack, Len(my_stack))
    BY <1>1 DEF History
  <1> QED
    BY <1>1, <1>2 DEF Good

(* A step that leaves the stack alone keeps the history.                   *)
LEMMA SameHistory ==
  ASSUME NEW h, History(h, my_stack), my_stack' = my_stack,
         Doing(h[Len(my_stack)])'
  PROVE  Remembers'
  BY DEF Remembers

LEMMA TakeKeeps ==
  ASSUME IInv, pc = "shell", NEW n \in 0 .. MaxRequest, TakeBlock(n, get_min_order(n))
  PROVE  IInv'
  <1>1. TypeOK /\ AllAlone /\ Now \in HeapState
    BY NowTyped DEF IInv
  <1>2. PICK h : History(h, my_stack) /\ Doing(h[Len(my_stack)])
    BY DEF IInv, Remembers
  <1>3. h[Len(my_stack)] = Now /\ FreeGood(Now)
    BY <1>1, <1>2, Newest DEF Doing
  <1> DEFINE k == get_min_order(n)
  <1>4. k \in Nat
    <2>1. n \in Nat
      BY RequestAssumption
    <2> QED
      BY <2>1, MinOrderProperties
  <1>5. PICK t \in Order :
          /\ FirstNonEmpty(k, t)
          /\ pc' = "split"
          /\ block' = free_list[t]
          /\ target_order' = t /\ min_order' = k /\ required_pages' = n
          /\ next' = [next EXCEPT ![free_list[t]] = NULL]
          /\ free_list' = [free_list EXCEPT ![t] = next'[free_list[t]]]
          /\ UNCHANGED <<order, status, my_stack>>
    BY DEF TakeBlock
  <1>6. k <= t /\ free_list[t] # NULL /\ \A i \in k .. t - 1 : free_list[i] = NULL
    BY <1>5 DEF FirstNonEmpty
  <1>7. k \in Order /\ free_list[t] \in Page
    BY <1>1, <1>4, <1>6, Constants DEF TypeOK
  <1>8. next' = next /\ free_list' = [free_list EXCEPT ![t] = NULL]
    <2>1. next[free_list[t]] = NULL
      BY <1>1, <1>7 DEF AllAlone
    <2> QED
      BY <1>1, <1>5, <1>7, <2>1 DEF TypeOK
  <1> HIDE DEF k
  <1>9. TypeOK'
    BY <1>1, <1>5, <1>7, <1>8 DEF TypeOK
  <1>10. AllAlone'
    BY <1>1, <1>8 DEF AllAlone
  <1>11. OrderKnown'
    BY <1>5 DEF OrderKnown, k
  <1>12. Now' = Heap(Now.order, Now.status, [Now.list EXCEPT ![t] = NULL])
    BY <1>5, <1>8 DEF Now, Heap
  <1>13. Took(Now, Now', free_list[t], t, t, NOT_ALLOCATED)
    <2>1. Now.list[t] # NULL /\ Now.list[t] = free_list[t]
      BY <1>6 DEF Now
    <2> QED
      BY <1>1, <1>3, <1>12, <2>1, TakeHead
  <1>14. \A i \in min_order' .. t - 1 : Now.list[i] = NULL
    BY <1>5, <1>6 DEF Now
  <1>15. Doing(h[Len(my_stack)])'
    <2>1. h[Len(my_stack')] = Now
      BY <1>3, <1>5
    <2>2. Took(Now, Now', block', t, target_order', NOT_ALLOCATED) /\ min_order' <= target_order'
      BY <1>5, <1>6, <1>13
    <2> QED
      BY <1>5, <1>14, <2>1, <2>2 DEF Doing
  <1>16. Remembers'
    BY <1>2, <1>5, <1>15, SameHistory
  <1> QED
    BY <1>9, <1>10, <1>11, <1>16 DEF IInv

LEMMA NoBlockKeeps ==
  ASSUME IInv, pc = "shell", NEW k, NoBlock(k)
  PROVE  IInv'
  <1>1. TypeOK /\ AllAlone /\ Now \in HeapState
    BY NowTyped DEF IInv
  <1>2. PICK h : History(h, my_stack) /\ Doing(h[Len(my_stack)])
    BY DEF IInv, Remembers
  <1> DEFINE e == [page |-> NULL, order |-> 0]
             S == [page : Page \cup {NULL}, order : Order]
  <1>3. UNCHANGED <<order, status, next, free_list, pc, block, target_order, min_order, required_pages>>
    BY DEF NoBlock, array, locals, request
  <1>4. my_stack' = IF Len(my_stack) = STACK_CAPACITY THEN my_stack ELSE Append(my_stack, e)
    BY DEF NoBlock, stack_push
  <1>5. e \in S /\ e.page = NULL
    BY Constants
  <1>6. my_stack \in Seq(S) /\ Len(my_stack) <= STACK_CAPACITY
    BY <1>1 DEF TypeOK
  <1>7. h[Len(my_stack)] = Now /\ Good(Now, my_stack, Len(my_stack))
    BY <1>1, <1>2, Newest DEF Doing
  <1> HIDE DEF e, S
  <1>8. my_stack' \in Seq(S) /\ Len(my_stack') <= STACK_CAPACITY
    <2>1. /\ Append(my_stack, e) \in Seq(S) /\ Len(Append(my_stack, e)) = Len(my_stack) + 1
          /\ Len(my_stack) \in Nat
      BY <1>5, <1>6
    <2> QED
      BY <1>4, <1>6, <2>1, StackAssumption
  <1>9. TypeOK'
    BY <1>1, <1>3, <1>8 DEF TypeOK, S
  <1>10. AllAlone' /\ OrderKnown' /\ Now' = Now
    BY <1>1, <1>3 DEF IInv, AllAlone, OrderKnown, Now
  <1>11. Remembers'
    <2>1. CASE Len(my_stack) = STACK_CAPACITY
      <3>1. my_stack' = my_stack
        BY <1>4, <2>1
      <3> QED
        BY <1>2, <1>3, <1>7, <1>10, <3>1 DEF Remembers, Doing
    <2>2. CASE Len(my_stack) # STACK_CAPACITY
      <3>1. my_stack' = Append(my_stack, e) /\ Len(my_stack) \in Nat
        BY <1>4, <1>6, <2>2
      <3>2. Longer(my_stack', my_stack, Len(my_stack), e)
        BY <1>5, <1>6, <3>1 DEF Longer
      <3>3. Good(Now, Append(my_stack, e), Len(my_stack) + 1)
        BY <1>5, <1>7, <3>1, <3>2, NothingKeepsGood
      <3>4. PICK g : History(g, my_stack') /\ g[Len(my_stack')] = Now
        BY <1>1, <1>2, <1>5, <1>6, <1>7, <3>1, <3>3, HistoryGrows
      <3> QED
        BY <1>3, <1>10, <3>4 DEF Remembers, Doing
    <2> QED
      BY <2>1, <2>2
  <1> QED
    BY <1>9, <1>10, <1>11 DEF IInv

LEMMA SplitKeeps ==
  ASSUME IInv, split_block
  PROVE  IInv'
  <1>1. TypeOK /\ AllAlone /\ Now \in HeapState
    BY NowTyped DEF IInv
  <1>2. PICK h : History(h, my_stack) /\ Doing(h[Len(my_stack)])
    BY DEF IInv, Remembers
  <1> DEFINE B == h[Len(my_stack)]
  <1>3. B \in HeapState /\ FreeGood(B)
    BY <1>1, <1>2, Newest
  <1>4. pc = "split" /\ target_order > min_order
    BY DEF split_block
  <1>5. PICK t : /\ Took(B, Now, block, t, target_order, NOT_ALLOCATED)
                 /\ min_order <= target_order
                 /\ \A i \in min_order .. t - 1 : B.list[i] = NULL
    BY <1>2, <1>4 DEF Doing
  <1>6. Now.order = order /\ Now.status = status /\ Now.list = free_list
    BY DEF Now
  <1> DEFINE j == target_order
             k == j - 1
             r == Right(block, k)
  <1>7. order[block] = j /\ t \in Order /\ j \in Nat /\ j <= t /\ min_order \in Nat /\ min_order <= k
    BY <1>1, <1>4, <1>5, <1>6, Constants DEF Took, TypeOK
  <1>8. j > 0 /\ B.list[k] = NULL
    <2>1. k \in min_order .. t - 1
      BY <1>7, Constants
    <2> QED
      BY <1>5, <1>7, <2>1
  <1> HIDE DEF B
  <1>9. /\ r \in Page /\ r # block /\ k \in Order /\ free_list[k] = NULL
        /\ Took(B,
                Heap([order EXCEPT ![block] = k, ![r] = k],
                     [status EXCEPT ![block] = NOT_ALLOCATED, ![r] = NOT_ALLOCATED],
                     [free_list EXCEPT ![k] = r]),
                block, t, k, NOT_ALLOCATED)
    BY <1>1, <1>3, <1>5, <1>6, <1>8, SplitOnce
  <1>10. /\ order' = [order EXCEPT ![block] = k, ![r] = k]
         /\ status' = [status EXCEPT ![block] = NOT_ALLOCATED, ![r] = NOT_ALLOCATED]
         /\ next' = [next EXCEPT ![block] = NULL, ![r] = free_list[k]]
         /\ free_list' = [free_list EXCEPT ![k] = r]
         /\ target_order' = k
         /\ UNCHANGED <<pc, block, required_pages, min_order, my_stack>>
    BY <1>7 DEF split_block, request, Right
  <1> HIDE DEF k, r
  <1>11. TypeOK'
    BY <1>1, <1>9, <1>10, Constants DEF TypeOK, NOT_ALLOCATED
  <1>12. AllAlone'
    <2>1. \A x \in Page : next'[x] = NULL
      BY <1>1, <1>9, <1>10 DEF AllAlone, TypeOK
    <2> QED
      BY <2>1 DEF AllAlone
  <1>13. OrderKnown'
    BY <1>10 DEF IInv, OrderKnown
  <1>14. Took(B, Now', block', t, target_order', NOT_ALLOCATED)
    <2>1. Now' = Heap(order', status', free_list')
      BY DEF Now, Heap
    <2> QED
      BY <1>9, <1>10, <2>1
  <1>15. min_order' <= target_order' /\ \A i \in min_order' .. t - 1 : B.list[i] = NULL
    BY <1>5, <1>7, <1>10 DEF k
  <1>16. Remembers'
    <2>1. h[Len(my_stack')] = B
      BY <1>10 DEF B
    <2> QED
      BY <1>2, <1>4, <1>10, <1>14, <1>15, <2>1 DEF Remembers, Doing
  <1> QED
    BY <1>11, <1>12, <1>13, <1>16 DEF IInv

LEMMA GrantKeeps ==
  ASSUME IInv, Grant
  PROVE  IInv'
  <1>1. TypeOK /\ AllAlone /\ Now \in HeapState
    BY NowTyped DEF IInv
  <1>2. PICK h : History(h, my_stack) /\ Doing(h[Len(my_stack)])
    BY DEF IInv, Remembers
  <1> DEFINE B == h[Len(my_stack)]
  <1>3. B \in HeapState /\ FreeGood(B)
    BY <1>1, <1>2, Newest
  <1>4. /\ pc = "split" /\ target_order = min_order /\ pc' = "push"
        /\ status' = [status EXCEPT ![block] = ALLOCATED]
        /\ UNCHANGED <<order, next, free_list, block, target_order, required_pages, min_order, my_stack>>
    BY DEF Grant, locals, request
  <1>5. PICK t : Took(B, Now, block, t, target_order, NOT_ALLOCATED)
    BY <1>2, <1>4 DEF Doing
  <1> HIDE DEF B
  <1>6. Took(B, Heap(Now.order, [Now.status EXCEPT ![block] = ALLOCATED], Now.list),
             block, t, target_order, ALLOCATED)
    BY <1>1, <1>3, <1>5, Mark
  <1>7. Now' = Heap(Now.order, [Now.status EXCEPT ![block] = ALLOCATED], Now.list)
    BY <1>4 DEF Now, Heap
  <1>8. TypeOK'
    BY <1>1, <1>4 DEF TypeOK
  <1>9. AllAlone' /\ OrderKnown'
    BY <1>4 DEF IInv, AllAlone, OrderKnown
  <1>10. Remembers'
    <2>1. h[Len(my_stack')] = B
      BY <1>4 DEF B
    <2>2. Took(B, Now', block', t, min_order', ALLOCATED) /\ target_order' = min_order'
      BY <1>4, <1>6, <1>7
    <2> QED
      BY <1>2, <1>4, <2>1, <2>2 DEF Remembers, Doing
  <1> QED
    BY <1>8, <1>9, <1>10 DEF IInv

-----------------------------------------------------------------------------
(* free_block, and the shell.                                              *)

(* free accepts a block that was taken from the newest remembered heap.    *)
LEMMA FreeKeeps ==
  ASSUME TypeOK, AllAlone, NEW p, free(p),
         my_stack' \in Seq([page : Page \cup {NULL}, order : Order]),
         Len(my_stack') <= STACK_CAPACITY,
         NEW h, History(h, my_stack'), NEW t, NEW j,
         Took(h[Len(my_stack')], Now, p, t, j, ALLOCATED)
  PROVE  IInv'
  <1> DEFINE n == Len(my_stack')
             B == h[n]
  <1>1. n \in Nat /\ n \in 0 .. n
    OBVIOUS
  <1>2. B \in HeapState /\ Good(B, my_stack', n) /\ FreeGood(B)
    BY <1>1 DEF History, Good
  <1>3. Now \in HeapState
    BY NowTyped
  <1> HIDE DEF B, n
  <1>4. Took(B, Now, p, t, j, ALLOCATED)
    BY DEF B, n
  <1>5. p \in Page /\ j \in Order /\ order[p] = j /\ status[p] = ALLOCATED
    <2>1. p \in Page
      BY <1>2, <1>4, TookFacts
    <2>2. IsBlock(Now, p, j, ALLOCATED)
      BY <1>2, <1>4, FirstPartGood
    <2> QED
      BY <2>1, <2>2 DEF IsBlock, Now
  <1>6. /\ status' = [status EXCEPT ![p] = NOT_ALLOCATED] /\ block' = p
        /\ pc' = IF j = HEAP_ORDER_MAX THEN "shell" ELSE "merge"
        /\ UNCHANGED <<order, next, free_list, target_order, required_pages, min_order>>
    BY <1>5 DEF free, request
  <1>7. TypeOK'
    BY <1>5, <1>6 DEF TypeOK
  <1>8. AllAlone' /\ OrderKnown'
    BY <1>6 DEF AllAlone, OrderKnown
  <1>9. Took(B, Now', p, t, j, NOT_ALLOCATED)
    <2>1. Now' = Heap(Now.order, [Now.status EXCEPT ![p] = NOT_ALLOCATED], Now.list)
      BY <1>6 DEF Now, Heap
    <2> QED
      BY <1>2, <1>3, <1>4, <2>1, Mark
  <1>10. Remembers'
    <2>1. CASE j # HEAP_ORDER_MAX
      <3>1. Took(B, Now', block', t, order'[block'], NOT_ALLOCATED) /\ pc' = "merge"
        BY <1>5, <1>6, <1>9, <2>1
      <3>2. h[Len(my_stack')] = B
        BY DEF B, n
      <3> QED
        BY <3>1, <3>2 DEF Remembers, Doing
    <2>2. CASE j = HEAP_ORDER_MAX
      <3>1. Lost(Now', my_stack', n)
        BY <1>1, <1>2, <1>9, <2>2, WholeIsLost
      <3>2. Now' \in HeapState
        BY <1>7, NowTypedNext
      <3> DEFINE g == [i \in 0 .. n |-> Now']
      <3>3. History(g, my_stack')
        BY <3>1, <3>2, HistoryOfLoss DEF n
      <3>4. g[Len(my_stack')] = Now'
        BY <1>1 DEF n
      <3> HIDE DEF g
      <3>5. pc' = "shell"
        BY <1>6, <2>2
      <3> QED
        BY <3>3, <3>4, <3>5 DEF Remembers, Doing
    <2> QED
      BY <2>1, <2>2
  <1> QED
    BY <1>7, <1>8, <1>10 DEF IInv

LEMMA PushKeeps ==
  ASSUME IInv, Push
  PROVE  IInv'
  <1>1. TypeOK /\ AllAlone /\ Now \in HeapState
    BY NowTyped DEF IInv
  <1>2. PICK h : History(h, my_stack) /\ Doing(h[Len(my_stack)])
    BY DEF IInv, Remembers
  <1> DEFINE B == h[Len(my_stack)]
             S == [page : Page \cup {NULL}, order : Order]
             e == [page |-> block, order |-> min_order]
  <1>3. B \in HeapState /\ Good(B, my_stack, Len(my_stack)) /\ FreeGood(B)
    BY <1>1, <1>2, Newest
  <1>4. PICK t : Took(B, Now, block, t, min_order, ALLOCATED)
    BY <1>2 DEF Push, Doing
  <1>5. my_stack \in Seq(S) /\ Len(my_stack) <= STACK_CAPACITY /\ Len(my_stack) \in Nat
    BY <1>1 DEF TypeOK
  <1>6. e \in S /\ e.page = block /\ e.order = min_order /\ e.page # NULL
    BY <1>1, Constants DEF TypeOK
  <1>7. my_stack' = IF Len(my_stack) = STACK_CAPACITY THEN my_stack ELSE Append(my_stack, e)
    BY DEF Push, stack_push
  <1>8. CASE Len(my_stack) = STACK_CAPACITY
    <2>1. my_stack' = my_stack /\ free(block)
      BY <1>7, <1>8 DEF Push
    <2>2. Took(h[Len(my_stack')], Now, block, t, min_order, ALLOCATED) /\ History(h, my_stack')
      BY <1>2, <1>4, <2>1
    <2>3. my_stack' \in Seq(S) /\ Len(my_stack') <= STACK_CAPACITY
      BY <1>5, <2>1
    <2> QED
      BY <1>1, <2>1, <2>2, <2>3, FreeKeeps
  <1>9. CASE Len(my_stack) # STACK_CAPACITY
    <2>1. /\ my_stack' = Append(my_stack, e) /\ pc' = "shell"
          /\ UNCHANGED <<order, status, next, free_list, block, target_order, min_order, required_pages>>
      BY <1>7, <1>9 DEF Push, array, locals, request
    <2>2. my_stack' \in Seq(S) /\ Len(my_stack') <= STACK_CAPACITY
      <3>1. /\ Append(my_stack, e) \in Seq(S) /\ Len(Append(my_stack, e)) = Len(my_stack) + 1
        BY <1>5, <1>6
      <3> QED
        BY <1>5, <1>9, <2>1, <3>1, StackAssumption
    <2>3. TypeOK'
      BY <1>1, <2>1, <2>2 DEF TypeOK
    <2>4. AllAlone' /\ OrderKnown' /\ Now' = Now
      BY <1>1, <2>1 DEF AllAlone, OrderKnown, Now
    <2>5. Longer(Append(my_stack, e), my_stack, Len(my_stack), e)
      BY <1>5, <1>6 DEF Longer
    <2>6. Good(Now, Append(my_stack, e), Len(my_stack) + 1)
      BY <1>3, <1>4, <1>5, <2>5, TookKeepsGood
    <2>7. \E u : Took(h[Len(my_stack)], Now, e.page, u, e.order, ALLOCATED)
      BY <1>4, <1>6
    <2> HIDE DEF S, e, B
    <2>8. PICK g : History(g, my_stack') /\ g[Len(my_stack')] = Now
      BY <1>1, <1>2, <1>5, <1>6, <2>1, <2>6, <2>7, HistoryGrows
    <2>9. Remembers'
      BY <2>1, <2>4, <2>8 DEF Remembers, Doing
    <2> QED
      BY <2>3, <2>4, <2>9 DEF IInv
  <1> QED
    BY <1>8, <1>9

LEMMA PopKeeps ==
  ASSUME IInv, Pop
  PROVE  IInv'
  <1>1. TypeOK /\ AllAlone /\ Now \in HeapState
    BY NowTyped DEF IInv
  <1>2. PICK h : History(h, my_stack) /\ Doing(h[Len(my_stack)])
    BY DEF IInv, Remembers
  <1> DEFINE S == [page : Page \cup {NULL}, order : Order]
             n == Len(Front(my_stack))
  <1>3. my_stack \in Seq(S) /\ Len(my_stack) <= STACK_CAPACITY
    BY <1>1 DEF TypeOK
  <1>4. /\ pc = "shell" /\ my_stack # <<>> /\ my_stack' = Front(my_stack)
        /\ IF Last(my_stack).page = NULL THEN UNCHANGED <<array, free_list, pc, locals>>
           ELSE free(Last(my_stack).page)
    BY DEF Pop
  <1>5. h[Len(my_stack)] = Now
    BY <1>2, <1>4 DEF Doing
  <1> HIDE DEF S
  <1>6. /\ n \in Nat /\ Len(my_stack) = n + 1 /\ Front(my_stack) \in Seq(S)
        /\ IF Last(my_stack).page = NULL THEN h[n + 1] = h[n]
           ELSE \E t : Took(h[n], h[n + 1], Last(my_stack).page, t, Last(my_stack).order, ALLOCATED)
        /\ \E g : History(g, Front(my_stack)) /\ g[n] = h[n]
    BY <1>2, <1>3, <1>4, HistoryShrinks
  <1>7. PICK g : History(g, my_stack') /\ g[n] = h[n]
    BY <1>4, <1>6
  <1>8. my_stack' \in Seq(S) /\ Len(my_stack') <= STACK_CAPACITY /\ Len(my_stack') = n
    BY <1>3, <1>4, <1>6, StackAssumption
  <1> HIDE DEF n
  <1>9. CASE Last(my_stack).page = NULL
    <2>1. UNCHANGED <<order, status, next, free_list, pc, block, target_order, min_order, required_pages>>
      BY <1>4, <1>9 DEF array, locals, request
    <2>2. TypeOK'
      BY <1>1, <1>8, <2>1 DEF TypeOK, S
    <2>3. AllAlone' /\ OrderKnown' /\ Now' = Now
      BY <1>1, <2>1 DEF IInv, AllAlone, OrderKnown, Now
    <2>4. g[Len(my_stack')] = Now'
      BY <1>5, <1>6, <1>7, <1>8, <1>9, <2>3
    <2>5. Remembers'
      BY <1>4, <1>7, <2>1, <2>4 DEF Remembers, Doing
    <2> QED
      BY <2>2, <2>3, <2>5 DEF IInv
  <1>10. CASE Last(my_stack).page # NULL
    <2>1. free(Last(my_stack).page)
      BY <1>4, <1>10
    <2>2. PICK t : Took(h[n], Now, Last(my_stack).page, t, Last(my_stack).order, ALLOCATED)
      BY <1>5, <1>6, <1>10
    <2>3. Took(g[Len(my_stack')], Now, Last(my_stack).page, t, Last(my_stack).order, ALLOCATED)
      BY <1>7, <1>8, <2>2
    <2> QED
      BY <1>1, <1>7, <1>8, <2>1, <2>3, FreeKeeps DEF S
  <1> QED
    BY <1>9, <1>10

(* A round of merging: the buddy is the head of its list, and its right    *)
(* half, so that the block grows where it is.                              *)
LEMMA MergeKeeps ==
  ASSUME IInv, Merge
  PROVE  IInv'
  <1>1. TypeOK /\ AllAlone /\ Now \in HeapState
    BY NowTyped DEF IInv
  <1>2. PICK h : History(h, my_stack) /\ Doing(h[Len(my_stack)])
    BY DEF IInv, Remembers
  <1> DEFINE B == h[Len(my_stack)]
             j == order[block]
             r == Right(block, j)
  <1>3. B \in HeapState /\ FreeGood(B)
    BY <1>1, <1>2, Newest
  <1>4. pc = "merge" /\ j # HEAP_ORDER_MAX /\ status[get_buddy(block, j)] = NOT_ALLOCATED
    BY DEF Merge, MergesBuddy, Buddy
  <1>5. PICK t : Took(B, Now, block, t, j, NOT_ALLOCATED)
    BY <1>2, <1>4 DEF Doing
  <1>6. Now.order = order /\ Now.status = status /\ Now.list = free_list
    BY DEF Now
  <1> HIDE DEF B
  <1>7. j \in Nat /\ t \in Nat /\ j <= t /\ j < t
    <2>1. j \in Nat /\ t \in Nat /\ j <= t
      BY <1>5, Constants DEF Took
    <2>2. j # t
      BY <1>1, <1>3, <1>4, <1>5, <1>6, BuddyOfPart
    <2> QED
      BY <2>1, <2>2
  <1>8. /\ get_buddy(block, j) = r /\ block < r /\ r \in Page /\ j + 1 \in Order
        /\ order[r] = j /\ free_list[j] = r
    BY <1>1, <1>3, <1>5, <1>6, <1>7, BuddyOfPart
  <1>9. block \in Page /\ block # r /\ j \in Order
    BY <1>1, <1>7, <1>8, Constants DEF TypeOK
  <1>10. remove_free_list(r) => /\ free_list' = [free_list EXCEPT ![j] = next[r]]
                                /\ next' = [next EXCEPT ![r] = NULL]
    BY <1>8 DEF remove_free_list
  <1>11. /\ order' = [order EXCEPT ![block] = j + 1, ![r] = -1]
         /\ status' = [status EXCEPT ![block] = NOT_ALLOCATED, ![r] = BELONG_LARGER_BLOCK]
         /\ free_list' = [free_list EXCEPT ![j] = NULL]
         /\ next' = [next EXCEPT ![r] = NULL]
         /\ block' = block
         /\ UNCHANGED <<pc, target_order, required_pages, min_order, my_stack>>
    <2>1. Buddy = r
      BY <1>8 DEF Buddy
    <2>2. next[r] = NULL
      BY <1>1, <1>8 DEF AllAlone
    <2>3. /\ remove_free_list(r)
          /\ order' = [order EXCEPT ![block] = j + 1, ![r] = -1]
          /\ status' = [status EXCEPT ![block] = NOT_ALLOCATED, ![r] = BELONG_LARGER_BLOCK]
          /\ block' = block
          /\ UNCHANGED <<pc, target_order, required_pages, min_order, my_stack>>
      BY <1>8, <2>1 DEF Merge, request
    <2> QED
      BY <1>10, <2>2, <2>3
  <1>12. Took(B,
              Heap([order EXCEPT ![block] = j + 1, ![r] = -1],
                   [status EXCEPT ![block] = NOT_ALLOCATED, ![r] = BELONG_LARGER_BLOCK],
                   [free_list EXCEPT ![j] = NULL]),
              block, t, j + 1, NOT_ALLOCATED)
    BY <1>1, <1>3, <1>5, <1>6, <1>7, MergeOnce
  <1> HIDE DEF r, j
  <1>13. TypeOK'
    BY <1>1, <1>8, <1>9, <1>11 DEF TypeOK
  <1>14. AllAlone'
    <2>1. \A x \in Page : next'[x] = NULL
      BY <1>1, <1>8, <1>11 DEF AllAlone, TypeOK
    <2> QED
      BY <2>1 DEF AllAlone
  <1>15. OrderKnown'
    BY <1>4, <1>11 DEF OrderKnown
  <1>16. Took(B, Now', block', t, order'[block'], NOT_ALLOCATED)
    <2>1. Now' = Heap(order', status', free_list')
      BY DEF Now, Heap
    <2>2. order'[block'] = j + 1
      BY <1>1, <1>9, <1>11 DEF TypeOK
    <2> QED
      BY <1>11, <1>12, <2>1, <2>2
  <1>17. Remembers'
    <2>1. h[Len(my_stack')] = B
      BY <1>11 DEF B
    <2> QED
      BY <1>2, <1>4, <1>11, <1>16, <2>1 DEF Remembers, Doing
  <1> QED
    BY <1>13, <1>14, <1>15, <1>17 DEF IInv

(* The block is put back when it is whole again.                           *)
LEMMA PutBackKeeps ==
  ASSUME IInv, PutBack
  PROVE  IInv'
  <1>1. TypeOK /\ AllAlone /\ Now \in HeapState
    BY NowTyped DEF IInv
  <1>2. PICK h : History(h, my_stack) /\ Doing(h[Len(my_stack)])
    BY DEF IInv, Remembers
  <1> DEFINE B == h[Len(my_stack)]
             j == order[block]
  <1>3. B \in HeapState /\ FreeGood(B)
    BY <1>1, <1>2, Newest
  <1>4. /\ pc = "merge" /\ pc' = "shell"
        /\ j = HEAP_ORDER_MAX \/ status[get_buddy(block, j)] # NOT_ALLOCATED
        /\ next' = [next EXCEPT ![block] = free_list[j]]
        /\ free_list' = [free_list EXCEPT ![j] = block]
        /\ UNCHANGED <<order, status, block, target_order, required_pages, min_order, my_stack>>
    BY DEF PutBack, MergesBuddy, Buddy, locals, request
  <1>5. PICK t : Took(B, Now, block, t, j, NOT_ALLOCATED)
    BY <1>2, <1>4 DEF Doing
  <1>6. Now.order = order /\ Now.status = status /\ Now.list = free_list
    BY DEF Now
  <1> HIDE DEF B, j
  <1>7. j = t /\ t \in Order
    <2>1. j \in Nat /\ t \in Nat /\ j <= t /\ t \in Order
      BY <1>5, Constants DEF Took
    <2>2. ~ (j < t)
      BY <1>1, <1>3, <1>4, <1>5, <1>6, BuddyOfPart
    <2> QED
      BY <2>1, <2>2
  <1>8. free_list[t] = NULL /\ B = Heap(order, status, [free_list EXCEPT ![t] = block])
    BY <1>1, <1>3, <1>5, <1>6, <1>7, PutBackWhole
  <1>9. block \in Page
    BY <1>1 DEF TypeOK
  <1>10. TypeOK'
    BY <1>1, <1>4, <1>7, <1>8, <1>9 DEF TypeOK
  <1>11. AllAlone'
    <2>1. \A x \in Page : next'[x] = NULL
      BY <1>1, <1>4, <1>7, <1>8 DEF AllAlone, TypeOK
    <2> QED
      BY <2>1 DEF AllAlone
  <1>12. OrderKnown'
    BY <1>4 DEF OrderKnown
  <1>13. Now' = B
    BY <1>4, <1>7, <1>8 DEF Now, Heap
  <1>14. Remembers'
    <2>1. h[Len(my_stack')] = Now'
      BY <1>4, <1>13 DEF B
    <2> QED
      BY <1>2, <1>4, <2>1 DEF Remembers, Doing
  <1> QED
    BY <1>10, <1>11, <1>12, <1>14 DEF IInv

LEMMA NextKeeps ==
  ASSUME IInv, [Next]_vars
  PROVE  IInv'
  <1>1. CASE alloc_block
    <2>1. PICK n \in 0 .. MaxRequest :
            pc = "shell" /\ (TakeBlock(n, get_min_order(n)) \/ NoBlock(get_min_order(n)))
      BY <1>1 DEF alloc_block
    <2> QED
      BY <2>1, TakeKeeps, NoBlockKeeps
  <1>2. CASE UNCHANGED vars
    BY <1>2
    DEF vars, array, locals, request, IInv, TypeOK, AllAlone, OrderKnown,
        Remembers, Doing, Now
  <1> QED
    BY <1>1, <1>2, SplitKeeps, GrantKeeps, PushKeeps, PopKeeps, MergeKeeps, PutBackKeeps
    DEF Next

LEMMA Inductive == Spec => []IInv
  <1>1. Init => IInv
    BY InitIInv
  <1>2. IInv /\ [Next]_vars => IInv'
    BY NextKeeps
  <1> QED
    BY <1>1, <1>2, PTL DEF Spec

-----------------------------------------------------------------------------
(* The properties.                                                         *)

(* A list has at most one block.                                           *)
LEMMA OneListed ==
  ASSUME TypeOK, AllAlone, NEW k \in Order
  PROVE  Node(k)[PAGE_NUM] = NULL /\ Listed(k) = {free_list[k]} \ {NULL}
  <1> DEFINE After(f, n) == IF n = 0 THEN free_list[k]
                            ELSE IF f[n - 1] = NULL THEN NULL ELSE next[f[n - 1]]
             Step(f) == [n \in 0 .. PAGE_NUM |-> After(f, n)]
             g == [n \in 0 .. PAGE_NUM |-> IF n = 0 THEN free_list[k] ELSE NULL]
  <1>1. PAGE_NUM \in Nat \ {0} /\ 0 \in 0 .. PAGE_NUM
        /\ \A n \in 1 .. PAGE_NUM : n - 1 \in 0 .. PAGE_NUM /\ n # 0
    BY Constants
  <1>2. free_list[k] \in Page \cup {NULL} /\ \A x \in Page : next[x] = NULL
    BY DEF TypeOK, AllAlone
  <1>3. g = Step(g)
    <2>1. ASSUME NEW n \in 0 .. PAGE_NUM
          PROVE  g[n] = After(g, n)
      <3>1. CASE n = 0
        BY <3>1
      <3>2. CASE n # 0
        <4>1. n - 1 \in 0 .. PAGE_NUM /\ g[n] = NULL
          BY <1>1, <3>2
        <4>2. g[n - 1] = NULL \/ g[n - 1] = free_list[k]
          BY <4>1
        <4> QED
          BY <1>2, <3>2, <4>1, <4>2
      <3> QED
        BY <3>1, <3>2
    <2> QED
      BY <2>1
  <1>4. Node(k) = Step(Node(k))
    BY <1>3 DEF Node
  <1> DEFINE f == Node(k)
  <1>5. \A n \in 0 .. PAGE_NUM : f[n] = After(f, n)
    BY <1>4
  <1>6. DOMAIN f = 0 .. PAGE_NUM
    BY <1>4
  <1> HIDE DEF f
  <1>7. f[0] = free_list[k]
    BY <1>1, <1>5
  <1> DEFINE T == {n \in Nat : n > 0 /\ n <= PAGE_NUM => f[n] = NULL}
  <1>8. Nat \subseteq T
    <2>1. 0 \in T
      OBVIOUS
    <2>2. ASSUME NEW n \in Nat, n \in T
          PROVE  n + 1 \in T
      <3> SUFFICES ASSUME n + 1 <= PAGE_NUM
                   PROVE  f[n + 1] = NULL
        OBVIOUS
      <3>1. n + 1 \in 0 .. PAGE_NUM /\ n + 1 # 0 /\ (n + 1) - 1 = n
        BY <1>1
      <3>2. f[n] = NULL \/ f[n] = free_list[k]
        BY <1>1, <1>7, <2>2
      <3>3. f[n + 1] = IF f[n] = NULL THEN NULL ELSE next[f[n]]
        BY <1>5, <3>1
      <3> QED
        BY <1>2, <3>2, <3>3
    <2> QED
      BY <2>1, <2>2, SetInduction
  <1>9. \A n \in 1 .. PAGE_NUM : f[n] = NULL
    BY <1>8
  <1>10. f[PAGE_NUM] = NULL
    BY <1>1, <1>9
  <1>11. Range(f) \ {NULL} = {free_list[k]} \ {NULL}
    <2>1. \A n \in 0 .. PAGE_NUM : n = 0 \/ n \in 1 .. PAGE_NUM
      BY <1>1
    <2>2. Range(f) = {f[n] : n \in 0 .. PAGE_NUM}
      BY <1>6 DEF Range
    <2> QED
      BY <1>1, <1>7, <1>9, <2>1, <2>2
  <1> QED
    BY <1>10, <1>11 DEF f, Listed

(* At the prompt: the blocks the shell holds and those that are free.      *)
LEMMA AtPrompt ==
  ASSUME IInv, pc = "shell"
  PROVE  /\ FreeGood(Now)
         /\ Good(Now, my_stack, Len(my_stack))
         /\ \A k \in Order : Listed(k) = {free_list[k]} \ {NULL}
         /\ \A k \in Order : \A q \in Listed(k) : IsBlock(Now, q, k, NOT_ALLOCATED)
         /\ \A b \in Held : IsBlock(Now, b.page, b.order, ALLOCATED)
  <1>1. TypeOK /\ AllAlone
    BY DEF IInv
  <1>2. PICK h : History(h, my_stack) /\ Doing(h[Len(my_stack)])
    BY DEF IInv, Remembers
  <1>3. Good(Now, my_stack, Len(my_stack)) /\ FreeGood(Now)
    BY <1>1, <1>2, Newest DEF Doing
  <1>4. \A k \in Order : Listed(k) = {free_list[k]} \ {NULL}
    BY <1>1, OneListed
  <1>5. \A k \in Order : \A q \in Listed(k) : IsBlock(Now, q, k, NOT_ALLOCATED)
    BY <1>3, <1>4 DEF FreeGood, Now
  <1>6. ASSUME NEW b \in Held
        PROVE  IsBlock(Now, b.page, b.order, ALLOCATED)
    <2>1. PICK i \in DOMAIN my_stack : my_stack[i].page # NULL /\ b = my_stack[i]
      BY DEF Held
    <2>2. i \in 1 .. Len(my_stack)
      BY <1>1 DEF TypeOK
    <2> QED
      BY <1>3, <2>1, <2>2 DEF Good, StackGood, Some
  <1> QED
    BY <1>3, <1>4, <1>5, <1>6

LEMMA HeadersFit ==
  ASSUME IInv
  PROVE  HeadersAgree
  <1> SUFFICES ASSUME pc = "shell"
               PROVE  /\ \A k \in Order : \A p \in Listed(k) :
                           order[p] = k /\ status[p] = NOT_ALLOCATED /\ p % Pow2[k] = 0
                      /\ \A b \in Held : order[b.page] = b.order /\ status[b.page] = ALLOCATED
                      /\ \A k \in Order : Node(k)[PAGE_NUM] = NULL
    BY DEF HeadersAgree
  <1>1. ASSUME NEW k \in Order, NEW p \in Listed(k)
        PROVE  order[p] = k /\ status[p] = NOT_ALLOCATED /\ p % Pow2[k] = 0
    <2>1. IsBlock(Now, p, k, NOT_ALLOCATED)
      BY AtPrompt
    <2>2. k \in Nat /\ Aligned(p, k)
      BY <2>1, Constants DEF IsBlock
    <2> QED
      BY <2>1, <2>2, AlignedRemainder DEF IsBlock, Now
  <1>2. \A b \in Held : order[b.page] = b.order /\ status[b.page] = ALLOCATED
    BY AtPrompt DEF IsBlock, Now
  <1>3. \A k \in Order : Node(k)[PAGE_NUM] = NULL
    BY OneListed DEF IInv
  <1> QED
    BY <1>1, <1>2, <1>3

LEMMA BuddiesMerged ==
  ASSUME IInv
  PROVE  Coalesced
  <1> SUFFICES ASSUME pc = "shell", NEW k \in Order \ {HEAP_ORDER_MAX}, NEW p \in Listed(k),
                      get_buddy(p, k) \in Listed(k)
               PROVE  FALSE
    BY DEF Coalesced
  <1>1. p = free_list[k] /\ p # NULL /\ IsBlock(Now, get_buddy(p, k), k, NOT_ALLOCATED)
    BY AtPrompt
  <1>2. BuddyOut(Now, p, k)
    <2>1. FreeGood(Now) /\ Now.list[k] = p
      BY <1>1, AtPrompt DEF Now
    <2> QED
      BY <1>1, <2>1 DEF FreeGood
  <1> QED
    BY <1>1, <1>2, Constants DEF IsBlock, BuddyOut

LEMMA NothingBehind ==
  ASSUME IInv
  PROVE  NothingCutOff
  BY DEF IInv, TypeOK, AllAlone, NothingCutOff

LEMMA AtMostOne ==
  ASSUME NEW S, \A a, b \in S : a = b
  PROVE  Cardinality(S) <= 1
  <1>1. CASE S = {}
    BY <1>1, FS_EmptySet
  <1>2. CASE S # {}
    <2>1. PICK a \in S : TRUE
      BY <1>2
    <2>2. S = {a}
      BY <2>1
    <2> QED
      BY <2>2, FS_Singleton
  <1> QED
    BY <1>1, <1>2

LEMMA NoPageTwice ==
  ASSUME IInv
  PROVE  OneOwner
  <1> SUFFICES ASSUME pc = "shell", NEW p \in Page
               PROVE  \A a, b \in Owners(p) : a = b
    BY AtMostOne DEF OneOwner
  <1> DEFINE MarkOf(w) == IF w = "held" THEN ALLOCATED ELSE NOT_ALLOCATED
  <1>1. ASSUME NEW a \in Owners(p)
        PROVE  \E w \in {"held", "free"}, q \in Page, k \in Order :
                 a = <<w, q, k>> /\ IsBlock(Now, q, k, MarkOf(w)) /\ p \in Pages(q, k)
    <2>1. CASE \E b \in Held : p \in Pages(b.page, b.order) /\ a = <<"held", b.page, b.order>>
      <3>1. PICK b \in Held : p \in Pages(b.page, b.order) /\ a = <<"held", b.page, b.order>>
        BY <2>1
      <3>2. IsBlock(Now, b.page, b.order, ALLOCATED)
        BY AtPrompt
      <3>3. b.page \in Page /\ b.order \in Order
        BY <3>2 DEF IsBlock
      <3> QED
        BY <3>1, <3>2, <3>3
    <2>2. CASE \E k \in Order : \E q \in Listed(k) : p \in Pages(q, k) /\ a = <<"free", q, k>>
      <3>1. PICK k \in Order : \E q \in Listed(k) : p \in Pages(q, k) /\ a = <<"free", q, k>>
        BY <2>2
      <3> PICK q \in Listed(k) : p \in Pages(q, k) /\ a = <<"free", q, k>>
        BY <3>1
      <3>2. IsBlock(Now, q, k, NOT_ALLOCATED)
        BY AtPrompt
      <3>3. q \in Page
        BY <3>2 DEF IsBlock
      <3> QED
        BY <3>1, <3>2, <3>3
    <2> QED
      BY <2>1, <2>2 DEF Owners
  <1> SUFFICES ASSUME NEW a \in Owners(p), NEW b \in Owners(p)
               PROVE  a = b
    OBVIOUS
  <1>2. PICK w \in {"held", "free"}, q \in Page, k \in Order :
          a = <<w, q, k>> /\ IsBlock(Now, q, k, MarkOf(w)) /\ p \in Pages(q, k)
    BY <1>1
  <1>3. PICK v \in {"held", "free"}, r \in Page, l \in Order :
          b = <<v, r, l>> /\ IsBlock(Now, r, l, MarkOf(v)) /\ p \in Pages(r, l)
    BY <1>1
  <1>4. q = r
    <2>1. MarkOf(w) # BELONG_LARGER_BLOCK /\ MarkOf(v) # BELONG_LARGER_BLOCK
      BY Constants
    <2> QED
      BY <1>2, <1>3, <2>1, BlocksApart
  <1>5. k = l /\ w = v
    BY <1>2, <1>3, <1>4, Constants DEF IsBlock
  <1> QED
    BY <1>2, <1>3, <1>4, <1>5

LEMMA Sound == IInv => HeapSound
  BY HeadersFit, BuddiesMerged, NothingBehind, NoPageTwice DEF HeapSound, IInv

LEMMA LostTogether ==
  ASSUME IInv
  PROVE  LostOnlyWhole
  <1> SUFFICES ASSUME pc = "shell"
               PROVE  \/ \A p \in Page : Owners(p) # {}
                      \/ order[0] = HEAP_ORDER_MAX /\ status[0] = NOT_ALLOCATED
    BY DEF LostOnlyWhole
  <1>1. \/ Covered(Now, my_stack, Len(my_stack))
        \/ Lost(Now, my_stack, Len(my_stack))
    BY AtPrompt DEF Good
  <1>2. CASE Lost(Now, my_stack, Len(my_stack))
    BY <1>2 DEF Lost, Now
  <1>3. CASE Covered(Now, my_stack, Len(my_stack))
    <2> SUFFICES ASSUME NEW x \in Page
                 PROVE  \E a : a \in Owners(x)
      OBVIOUS
    <2>1. CASE OwnedFree(Now, x)
      <3>1. PICK k \in Order : free_list[k] # NULL /\ x \in Pages(free_list[k], k)
        BY <2>1 DEF OwnedFree, Now
      <3>2. free_list[k] \in Listed(k)
        BY <3>1, AtPrompt
      <3>3. <<"free", free_list[k], k>> \in Owners(x)
        BY <3>1, <3>2 DEF Owners
      <3> QED
        BY <3>3
    <2>2. CASE OwnedOut(my_stack, Len(my_stack), x)
      <3>1. PICK i \in 1 .. Len(my_stack) :
              my_stack[i].page # NULL /\ x \in Pages(my_stack[i].page, my_stack[i].order)
        BY <2>2 DEF OwnedOut, Some
      <3>2. i \in DOMAIN my_stack
        BY <3>1 DEF IInv, TypeOK
      <3> DEFINE b == my_stack[i]
      <3>3. b \in Held
        BY <3>1, <3>2 DEF Held
      <3> HIDE DEF b
      <3>4. x \in Pages(b.page, b.order)
        BY <3>1 DEF b
      <3>5. <<"held", b.page, b.order>> \in Owners(x)
        BY <3>3, <3>4 DEF Owners
      <3> QED
        BY <3>5
    <2> QED
      BY <1>3, <2>1, <2>2 DEF Covered
  <1> QED
    BY <1>1, <1>2, <1>3

LEMMA OrderIsLeast ==
  ASSUME IInv
  PROVE  MinOrderFits
  <1> SUFFICES ASSUME pc \in {"split", "push"}
               PROVE  /\ Pow2[min_order] >= required_pages
                      /\ min_order > 0 => Pow2[min_order - 1] < required_pages
    BY DEF MinOrderFits
  <1>1. min_order = get_min_order(required_pages) /\ required_pages \in Nat
    BY RequestAssumption DEF IInv, OrderKnown, TypeOK
  <1> QED
    BY <1>1, MinOrderProperties

(* At the prompt no page is given out twice or given out and free, the     *)
(* headers agree with the lists and the shell's stack, so that no block is *)
(* refused when it is given back, all buddies that can be merged are, and  *)
(* alloc_block never cuts a list off: for a client that frees what it got  *)
(* last, alloc_block and free_block are right whatever the requests.       *)
THEOREM HeapStaysSound == Spec => []HeapSound
  <1>1. IInv => HeapSound
    BY Sound
  <1> QED
    BY <1>1, Inductive, PTL

(* No page is ever lost by a split, a merge, a failed request or a full    *)
(* stack; only the block of the whole heap, once it is freed, is in no     *)
(* list (free_block, which does not put it back).                          *)
THEOREM PagesLostAtOnce == Spec => []LostOnlyWhole
  <1>1. IInv => LostOnlyWhole
    BY LostTogether
  <1> QED
    BY <1>1, Inductive, PTL

(* The order get_min_order finds by shifting is the least whose blocks     *)
(* hold the pages asked for.                                               *)
THEOREM OrderFits == Spec => []MinOrderFits
  <1>1. IInv => MinOrderFits
    BY OrderIsLeast
  <1> QED
    BY <1>1, Inductive, PTL

=============================================================================
