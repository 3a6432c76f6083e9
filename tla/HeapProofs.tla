------------------------------ MODULE HeapProofs ------------------------------
(***************************************************************************)
(* malloc and free keep PoolsExact and BlocksGivenBackInOrder, for every   *)
(* choice of pools, page size, requests and stack.  The shell frees what   *)
(* it allocated last, so that each free undoes the malloc it belongs to.   *)
(* The proof keeps, beside the outstanding addresses, the states the pools *)
(* were in when each of them was allocated: a free goes back to the last   *)
(* of these states, or runs into the missing page.                         *)
(***************************************************************************)
EXTENDS Heap, SequenceTheorems, TLAPS

-----------------------------------------------------------------------------
(* Numbers and constants.                                                  *)

LEMMA ChunksInPage ==
  ASSUME NEW i \in Pool
  PROVE  Chunks(i) \in Nat /\ 2 <= Chunks(i) /\ Chunks(i) <= PAGE_SIZE
  <1>1. pool_size_class[i] \in Nat \ {0} /\ 2 * pool_size_class[i] <= PAGE_SIZE
        /\ PAGE_SIZE \in Nat
    BY PoolAssumption, SizeAssumption
  <1>2. ASSUME NEW c \in Nat \ {0}, NEW m \in Nat, 2 * c <= m
        PROVE  m \div c \in Nat /\ 2 <= m \div c /\ m \div c <= m
    BY <1>2, SMTT(30)
  <1> QED
    BY <1>1, <1>2 DEF Chunks

LEMMA NullIsNoAddress == NULL \notin Address
  BY DEF NULL, Address

LEMMA BlockIsNoPool == POOL_ID_MAX \notin Pool /\ \A i \in Pool : i \in Nat
  BY PoolAssumption DEF POOL_ID_MAX, Pool

-----------------------------------------------------------------------------
(* The pools and the buddy system at one moment, and the addresses that    *)
(* are out.                                                                *)

PoolState == [total : [Pool -> Nat], lists : [Pool -> Seq(Chunk)], granted : Seq(Block)]

Now == [total |-> chunk_total, lists |-> free_list, granted |-> granted]

Out == IF pc = "push" THEN Append(my_stack, result) ELSE my_stack

Addresses == Seq(Address \cup {NULL})

(* What malloc makes of p when it returns a.                               *)
TakesChunk(p, q, a) == \E i \in Pool :
  /\ a \in Address /\ a.pool_id = i /\ p.lists[i] # <<>> /\ a.chunk = Head(p.lists[i])
  /\ q = [total |-> [p.total EXCEPT ![i] = @ - 1],
          lists |-> [p.lists EXCEPT ![i] = Tail(@)],
          granted |-> p.granted]

TakesPage(p, q, a) == \E i \in Pool, b \in Block :
  /\ a \in Address /\ a.pool_id = i /\ p.lists[i] = <<>> /\ b \notin Range(p.granted)
  /\ a.chunk = <<b, Chunks(i) - 1>>
  /\ q = [total |-> [p.total EXCEPT ![i] = Chunks(i) - 1],
          lists |-> [p.lists EXCEPT ![i] =
                      [j \in 1 .. Chunks(i) - 1 |-> <<b, Chunks(i) - 1 - j>>]],
          granted |-> Append(p.granted, b)]

TakesBlock(p, q, a) == \E b \in Block :
  /\ a \in Address /\ a.pool_id = POOL_ID_MAX /\ b \notin Range(p.granted)
  /\ a.chunk = <<b, 0>>
  /\ q = [total |-> p.total, lists |-> p.lists, granted |-> Append(p.granted, b)]

TakesNothing(p, q, a) == a = NULL /\ q = p

Took(p, q, a) ==
  TakesChunk(p, q, a) \/ TakesPage(p, q, a) \/ TakesBlock(p, q, a) \/ TakesNothing(p, q, a)

(* The k-th of the addresses A is one.                                     *)
Some(A, k) == A[k] # NULL

(* The counts are right, and no memory is used twice: not by two of the    *)
(* first n of the addresses A, nor by one of them and a free list, nor by  *)
(* two pools.                                                              *)
Counted(p) == \A i \in Pool : p.total[i] = Len(p.lists[i]) /\ p.total[i] < Chunks(i)

Apart(A, n) ==
  /\ \A s, t \in 1 .. n : s # t /\ Some(A, s) /\ Some(A, t) => A[s].chunk # A[t].chunk
  /\ \A s, t \in 1 .. n : Some(A, s) /\ Some(A, t) /\ A[s].chunk[1] = A[t].chunk[1] =>
       A[s].pool_id = A[t].pool_id

ListsApart(p) ==
  /\ \A i \in Pool : \A k, l \in 1 .. Len(p.lists[i]) :
       p.lists[i][k] = p.lists[i][l] => k = l
  /\ \A i, j \in Pool :
       \A k \in 1 .. Len(p.lists[i]), l \in 1 .. Len(p.lists[j]) :
         p.lists[i][k][1] = p.lists[j][l][1] => i = j

ListsFree(p, A, n) ==
  \A i \in Pool : \A k \in 1 .. Len(p.lists[i]), s \in 1 .. n :
    Some(A, s) => /\ A[s].chunk # p.lists[i][k]
                  /\ A[s].chunk[1] = p.lists[i][k][1] => A[s].pool_id = i

AllGranted(p, A, n) ==
  /\ \A s \in 1 .. n : Some(A, s) => A[s].chunk[1] \in Range(p.granted)
  /\ \A i \in Pool : \A k \in 1 .. Len(p.lists[i]) : p.lists[i][k][1] \in Range(p.granted)

Good(p, A, n) ==
  Counted(p) /\ Apart(A, n) /\ ListsApart(p) /\ ListsFree(p, A, n) /\ AllGranted(p, A, n)

-----------------------------------------------------------------------------
(* malloc keeps the pools good.                                            *)

(* B is A with a behind its first n addresses.                             *)
Longer(B, A, n, a) == B[n + 1] = a /\ \A k \in 1 .. n : B[k] = A[k]

LEMMA RangeOfAppend ==
  ASSUME NEW g \in Seq(Block), NEW b \in Block
  PROVE  /\ Append(g, b) \in Seq(Block)
         /\ \A x : x \in Range(Append(g, b)) <=> x \in Range(g) \/ x = b
  <1>1. Len(Append(g, b)) = Len(g) + 1 /\ Append(g, b)[Len(g) + 1] = b
        /\ Append(g, b) \in Seq(Block)
        /\ \A k \in 1 .. Len(g) : Append(g, b)[k] = g[k]
    OBVIOUS
  <1>2. Len(g) \in Nat /\ DOMAIN g = 1 .. Len(g)
        /\ DOMAIN Append(g, b) = 1 .. Len(g) + 1
    BY <1>1
  <1>3. \A k : k \in 1 .. Len(g) + 1 <=> k \in 1 .. Len(g) \/ k = Len(g) + 1
    BY <1>2
  <1> DEFINE n == Len(g)
             h == Append(g, b)
  <1> HIDE DEF n, h
  <1>4. \A x : x \in Range(h) <=> \E k \in 1 .. n + 1 : h[k] = x
    BY <1>2 DEF Range, n, h
  <1>5. \A x : x \in Range(g) <=> \E k \in 1 .. n : g[k] = x
    BY <1>2 DEF Range, n
  <1>6. h[n + 1] = b /\ (\A k \in 1 .. n : h[k] = g[k])
        /\ \A k : k \in 1 .. n + 1 <=> k \in 1 .. n \/ k = n + 1
    BY <1>1, <1>3 DEF n, h
  <1>7. \A x : x \in Range(h) <=> x \in Range(g) \/ x = b
    BY <1>4, <1>5, <1>6
  <1> QED
    BY <1>1, <1>7 DEF h

LEMMA ChunkKeepsGood ==
  ASSUME NEW p \in PoolState, NEW A, NEW n \in Nat, NEW a, NEW q, NEW B,
         Good(p, A, n), TakesChunk(p, q, a), Longer(B, A, n, a)
  PROVE  q \in PoolState /\ Good(q, B, n + 1)
  <1>1. PICK i \in Pool :
          /\ a \in Address /\ a.pool_id = i /\ p.lists[i] # <<>>
          /\ a.chunk = Head(p.lists[i])
          /\ q = [total |-> [p.total EXCEPT ![i] = @ - 1],
                  lists |-> [p.lists EXCEPT ![i] = Tail(@)],
                  granted |-> p.granted]
    BY DEF TakesChunk
  <1> DEFINE L == p.lists[i]
  <1>2. /\ p.total \in [Pool -> Nat] /\ p.lists \in [Pool -> Seq(Chunk)]
        /\ p.granted \in Seq(Block)
    BY DEF PoolState
  <1>3. L \in Seq(Chunk) /\ Len(L) \in Nat /\ Len(L) > 0 /\ a.chunk = L[1]
        /\ a # NULL
    BY <1>1, <1>2, NullIsNoAddress
  <1>4. Tail(L) \in Seq(Chunk) /\ Len(Tail(L)) = Len(L) - 1
        /\ \A k \in 1 .. Len(L) - 1 : Tail(L)[k] = L[k + 1]
    BY <1>3
  <1>5. /\ q.granted = p.granted
        /\ q.total[i] = p.total[i] - 1 /\ q.lists[i] = Tail(L)
        /\ \A j \in Pool : j # i => q.total[j] = p.total[j] /\ q.lists[j] = p.lists[j]
    BY <1>1, <1>2
  <1>6. p.total[i] = Len(L) /\ p.total[i] < Chunks(i)
    BY DEF Good, Counted
  <1>7. q \in PoolState
    <2>1. [p.total EXCEPT ![i] = @ - 1] \in [Pool -> Nat]
      BY <1>2, <1>3, <1>6
    <2>2. [p.lists EXCEPT ![i] = Tail(@)] \in [Pool -> Seq(Chunk)]
      BY <1>2, <1>4
    <2> QED
      BY <1>1, <1>2, <2>1, <2>2 DEF PoolState
  <1>8. Counted(q)
    <2>1. q.total[i] = Len(q.lists[i]) /\ q.total[i] < Chunks(i)
      BY <1>3, <1>4, <1>5, <1>6, ChunksInPage
    <2> QED
      BY <1>5, <2>1 DEF Good, Counted
  (* A chunk of a list was in the list before, one place further back in i. *)
  <1> DEFINE At(j, k) == IF j = i THEN k + 1 ELSE k
  <1>9. ASSUME NEW j \in Pool, NEW k \in 1 .. Len(q.lists[j])
        PROVE  At(j, k) \in 1 .. Len(p.lists[j])
               /\ q.lists[j][k] = p.lists[j][At(j, k)]
               /\ ~ (j = i /\ At(j, k) = 1)
    <2>1. CASE j = i
      <3>1. k \in 1 .. Len(L) - 1
        BY <1>4, <1>5, <2>1
      <3>2. Tail(L)[k] = L[k + 1] /\ k + 1 \in 1 .. Len(L) /\ k + 1 # 1
        BY <1>3, <1>4, <3>1
      <3> QED
        BY <1>5, <2>1, <3>2
    <2>2. CASE j # i
      BY <1>5, <2>2
    <2> QED
      BY <2>1, <2>2
  <1>10. 1 \in 1 .. Len(L)
    BY <1>3
  <1>11. ListsApart(q)
    <2>1. ASSUME NEW j \in Pool, NEW k \in 1 .. Len(q.lists[j]),
                 NEW l \in 1 .. Len(q.lists[j]), q.lists[j][k] = q.lists[j][l]
          PROVE  k = l
      <3>1. At(j, k) = At(j, l)
        <4> DEFINE x == At(j, k)
                   y == At(j, l)
        <4>1. x \in 1 .. Len(p.lists[j]) /\ q.lists[j][k] = p.lists[j][x]
          BY <1>9
        <4>2. y \in 1 .. Len(p.lists[j]) /\ q.lists[j][l] = p.lists[j][y]
          BY <1>9
        <4> HIDE DEF x, y
        <4>3. x = y
          BY <2>1, <4>1, <4>2 DEF Good, ListsApart
        <4> QED
          BY <4>3 DEF x, y
      <3>2. Len(q.lists[j]) \in Nat
        BY <1>7 DEF PoolState
      <3> QED
        BY <3>1, <3>2
    <2>2. ASSUME NEW j \in Pool, NEW m \in Pool, NEW k \in 1 .. Len(q.lists[j]),
                 NEW l \in 1 .. Len(q.lists[m]), q.lists[j][k][1] = q.lists[m][l][1]
          PROVE  j = m
      <3> DEFINE x == At(j, k)
                 y == At(m, l)
      <3>1. x \in 1 .. Len(p.lists[j]) /\ q.lists[j][k] = p.lists[j][x]
        BY <1>9
      <3>2. y \in 1 .. Len(p.lists[m]) /\ q.lists[m][l] = p.lists[m][y]
        BY <1>9
      <3> HIDE DEF x, y
      <3> QED
        BY <2>2, <3>1, <3>2 DEF Good, ListsApart
    <2> QED
      BY <2>1, <2>2 DEF ListsApart
  <1> HIDE DEF At
  <1>12. \A s : s \in 1 .. n + 1 <=> s \in 1 .. n \/ s = n + 1
    OBVIOUS
  <1>13. \A s \in 1 .. n : Some(B, s) = Some(A, s) /\ B[s] = A[s]
    BY DEF Longer, Some
  <1>14. B[n + 1] = a /\ Some(B, n + 1)
    BY <1>3 DEF Longer, Some
  <1>15. \A s \in 1 .. n : Some(A, s) =>
           /\ A[s].chunk # a.chunk
           /\ A[s].chunk[1] = a.chunk[1] => A[s].pool_id = a.pool_id
    BY <1>1, <1>3, <1>10 DEF Good, ListsFree
  <1>16. Apart(B, n + 1)
    <2>1. ASSUME NEW s \in 1 .. n + 1, NEW t \in 1 .. n + 1, Some(B, s), Some(B, t)
          PROVE  /\ s # t => B[s].chunk # B[t].chunk
                 /\ B[s].chunk[1] = B[t].chunk[1] => B[s].pool_id = B[t].pool_id
      <3>1. CASE s = n + 1 /\ t = n + 1
        BY <3>1
      <3>2. CASE s \in 1 .. n /\ t \in 1 .. n
        BY <1>13, <2>1, <3>2 DEF Good, Apart
      <3>3. CASE s = n + 1 /\ t \in 1 .. n
        BY <1>13, <1>14, <1>15, <2>1, <3>3
      <3>4. CASE s \in 1 .. n /\ t = n + 1
        BY <1>13, <1>14, <1>15, <2>1, <3>4
      <3> QED
        BY <1>12, <3>1, <3>2, <3>3, <3>4
    <2> QED
      BY <2>1 DEF Apart
  <1>17. ListsFree(q, B, n + 1)
    <2> SUFFICES ASSUME NEW j \in Pool, NEW k \in 1 .. Len(q.lists[j]),
                        NEW s \in 1 .. n + 1, Some(B, s)
                 PROVE  /\ B[s].chunk # q.lists[j][k]
                        /\ B[s].chunk[1] = q.lists[j][k][1] => B[s].pool_id = j
      BY DEF ListsFree
    <2> DEFINE l == At(j, k)
    <2>1. l \in 1 .. Len(p.lists[j]) /\ q.lists[j][k] = p.lists[j][l]
          /\ ~ (j = i /\ l = 1)
      BY <1>9
    <2> HIDE DEF l
    <2>2. CASE s \in 1 .. n
      BY <1>13, <2>1, <2>2 DEF Good, ListsFree
    <2>3. CASE s = n + 1
      <3>1. CASE j = i
        <4>1. l \in 1 .. Len(L) /\ q.lists[j][k] = L[l] /\ l # 1
          BY <2>1, <3>1
        <4>2. L[1] # L[l]
          BY <1>10, <4>1 DEF Good, ListsApart
        <4>3. B[s].chunk = L[1] /\ B[s].pool_id = j
          BY <1>1, <1>3, <1>14, <2>3, <3>1
        <4> QED
          BY <4>1, <4>2, <4>3
      <3>2. CASE j # i
        <4>1. L[1][1] # p.lists[j][l][1]
          BY <1>10, <2>1, <3>2 DEF Good, ListsApart
        <4>2. B[s].chunk = L[1]
          BY <1>3, <1>14, <2>3
        <4> QED
          BY <2>1, <4>1, <4>2
      <3> QED
        BY <3>1, <3>2
    <2> QED
      BY <1>12, <2>2, <2>3
  <1>18. AllGranted(q, B, n + 1)
    <2>1. ASSUME NEW s \in 1 .. n + 1, Some(B, s)
          PROVE  B[s].chunk[1] \in Range(q.granted)
      <3>1. CASE s \in 1 .. n
        BY <1>5, <1>13, <2>1, <3>1 DEF Good, AllGranted
      <3>2. CASE s = n + 1
        BY <1>3, <1>5, <1>10, <1>14, <3>2 DEF Good, AllGranted
      <3> QED
        BY <1>12, <3>1, <3>2
    <2>2. \A j \in Pool : \A k \in 1 .. Len(q.lists[j]) :
            q.lists[j][k][1] \in Range(q.granted)
      BY <1>5, <1>9 DEF Good, AllGranted
    <2> QED
      BY <2>1, <2>2 DEF AllGranted
  <1> QED
    BY <1>7, <1>8, <1>11, <1>16, <1>17, <1>18 DEF Good

(* A chunk of a page that was not granted shares it with nobody.           *)
LEMMA FreshKeepsApart ==
  ASSUME NEW p, NEW A, NEW n \in Nat, NEW a, NEW B, NEW b,
         Good(p, A, n), Longer(B, A, n, a), a # NULL,
         a.chunk[1] = b, b \notin Range(p.granted)
  PROVE  /\ Apart(B, n + 1)
         /\ \A s : s \in 1 .. n + 1 <=> s \in 1 .. n \/ s = n + 1
         /\ \A s \in 1 .. n : Some(B, s) = Some(A, s) /\ B[s] = A[s]
         /\ B[n + 1] = a /\ Some(B, n + 1)
         /\ \A s \in 1 .. n : Some(B, s) => B[s].chunk[1] # b
         /\ \A i \in Pool : \A k \in 1 .. Len(p.lists[i]) : p.lists[i][k][1] # b
  <1>1. \A s : s \in 1 .. n + 1 <=> s \in 1 .. n \/ s = n + 1
    OBVIOUS
  <1>2. \A s \in 1 .. n : Some(B, s) = Some(A, s) /\ B[s] = A[s]
    BY DEF Longer, Some
  <1>3. B[n + 1] = a /\ Some(B, n + 1)
    BY DEF Longer, Some
  <1>4. \A s \in 1 .. n : Some(B, s) => B[s].chunk[1] # b
    BY <1>2 DEF Good, AllGranted
  <1>5. \A i \in Pool : \A k \in 1 .. Len(p.lists[i]) : p.lists[i][k][1] # b
    BY DEF Good, AllGranted
  <1>6. ASSUME NEW s \in 1 .. n + 1, NEW t \in 1 .. n + 1, Some(B, s), Some(B, t)
        PROVE  /\ s # t => B[s].chunk # B[t].chunk
               /\ B[s].chunk[1] = B[t].chunk[1] => B[s].pool_id = B[t].pool_id
    <2>1. CASE s = n + 1 /\ t = n + 1
      BY <2>1
    <2>2. CASE s \in 1 .. n /\ t \in 1 .. n
      BY <1>2, <1>6, <2>2 DEF Good, Apart
    <2>3. CASE s = n + 1 /\ t \in 1 .. n
      BY <1>3, <1>4, <1>6, <2>3
    <2>4. CASE s \in 1 .. n /\ t = n + 1
      BY <1>3, <1>4, <1>6, <2>4
    <2> QED
      BY <1>1, <2>1, <2>2, <2>3, <2>4
  <1> QED
    BY <1>1, <1>2, <1>3, <1>4, <1>5, <1>6 DEF Apart

LEMMA BlockKeepsGood ==
  ASSUME NEW p \in PoolState, NEW A, NEW n \in Nat, NEW a, NEW q, NEW B,
         Good(p, A, n), TakesBlock(p, q, a), Longer(B, A, n, a)
  PROVE  q \in PoolState /\ Good(q, B, n + 1)
  <1>1. PICK b \in Block :
          /\ a \in Address /\ a.pool_id = POOL_ID_MAX /\ b \notin Range(p.granted)
          /\ a.chunk = <<b, 0>>
          /\ q = [total |-> p.total, lists |-> p.lists, granted |-> Append(p.granted, b)]
    BY DEF TakesBlock
  <1>2. /\ p.total \in [Pool -> Nat] /\ p.lists \in [Pool -> Seq(Chunk)]
        /\ p.granted \in Seq(Block)
    BY DEF PoolState
  <1>3. a # NULL /\ a.chunk[1] = b
    BY <1>1, NullIsNoAddress
  <1>4. q.total = p.total /\ q.lists = p.lists /\ q.granted = Append(p.granted, b)
    BY <1>1
  <1>5. /\ Append(p.granted, b) \in Seq(Block)
        /\ \A x : x \in Range(q.granted) <=> x \in Range(p.granted) \/ x = b
    BY <1>2, <1>4, RangeOfAppend
  <1>6. /\ Apart(B, n + 1)
        /\ \A s : s \in 1 .. n + 1 <=> s \in 1 .. n \/ s = n + 1
        /\ \A s \in 1 .. n : Some(B, s) = Some(A, s) /\ B[s] = A[s]
        /\ B[n + 1] = a /\ Some(B, n + 1)
        /\ \A s \in 1 .. n : Some(B, s) => B[s].chunk[1] # b
        /\ \A i \in Pool : \A k \in 1 .. Len(p.lists[i]) : p.lists[i][k][1] # b
    BY <1>1, <1>3, FreshKeepsApart
  <1>7. Counted(q) /\ ListsApart(q)
    <2>1. Counted(p) /\ ListsApart(p)
      BY DEF Good
    <2>2. Counted(q)
      BY <1>4, <2>1 DEF Counted
    <2>3. ListsApart(q)
      BY <1>4, <2>1 DEF ListsApart
    <2> QED
      BY <2>2, <2>3
  <1>8. ListsFree(q, B, n + 1)
    BY <1>3, <1>4, <1>6 DEF Good, ListsFree
  <1>9. AllGranted(q, B, n + 1)
    BY <1>3, <1>4, <1>5, <1>6 DEF Good, AllGranted
  <1>10. q \in PoolState
    BY <1>1, <1>2, <1>5 DEF PoolState
  <1> QED
    BY <1>6, <1>7, <1>8, <1>9, <1>10 DEF Good

LEMMA PageKeepsGood ==
  ASSUME NEW p \in PoolState, NEW A, NEW n \in Nat, NEW a, NEW q, NEW B,
         Good(p, A, n), TakesPage(p, q, a), Longer(B, A, n, a)
  PROVE  q \in PoolState /\ Good(q, B, n + 1)
  <1>1. PICK i \in Pool, b \in Block :
          /\ a \in Address /\ a.pool_id = i /\ p.lists[i] = <<>> /\ b \notin Range(p.granted)
          /\ a.chunk = <<b, Chunks(i) - 1>>
          /\ q = [total |-> [p.total EXCEPT ![i] = Chunks(i) - 1],
                  lists |-> [p.lists EXCEPT ![i] =
                              [j \in 1 .. Chunks(i) - 1 |-> <<b, Chunks(i) - 1 - j>>]],
                  granted |-> Append(p.granted, b)]
    BY DEF TakesPage
  <1> DEFINE last == Chunks(i) - 1
             fresh == [j \in 1 .. last |-> <<b, last - j>>]
  <1>2. /\ p.total \in [Pool -> Nat] /\ p.lists \in [Pool -> Seq(Chunk)]
        /\ p.granted \in Seq(Block)
    BY DEF PoolState
  <1>3. last \in Nat /\ last < Chunks(i) /\ last <= PAGE_SIZE /\ PAGE_SIZE \in Nat
    BY ChunksInPage, SizeAssumption
  <1>4. fresh \in Seq(Chunk) /\ Len(fresh) = last
    <2>1. \A j \in 1 .. last : <<b, last - j>> \in Chunk
      BY <1>3 DEF Chunk
    <2> QED
      BY <1>3, <2>1
  <1>5. a # NULL /\ a.chunk[1] = b /\ a.chunk[2] = last
    BY <1>1, NullIsNoAddress
  <1>6. /\ q.granted = Append(p.granted, b)
        /\ q.total[i] = last /\ q.lists[i] = fresh
        /\ \A j \in Pool : j # i => q.total[j] = p.total[j] /\ q.lists[j] = p.lists[j]
    BY <1>1, <1>2
  <1>7. /\ Append(p.granted, b) \in Seq(Block)
        /\ \A x : x \in Range(q.granted) <=> x \in Range(p.granted) \/ x = b
    BY <1>2, <1>6, RangeOfAppend
  <1>8. /\ Apart(B, n + 1)
        /\ \A s : s \in 1 .. n + 1 <=> s \in 1 .. n \/ s = n + 1
        /\ \A s \in 1 .. n : Some(B, s) = Some(A, s) /\ B[s] = A[s]
        /\ B[n + 1] = a /\ Some(B, n + 1)
        /\ \A s \in 1 .. n : Some(B, s) => B[s].chunk[1] # b
        /\ \A j \in Pool : \A k \in 1 .. Len(p.lists[j]) : p.lists[j][k][1] # b
    <2>1. a # NULL /\ a.chunk[1] = b /\ b \notin Range(p.granted)
      BY <1>1, <1>5
    <2> HIDE <1>1
    <2> QED
      BY <2>1, FreshKeepsApart
  <1>9. q \in PoolState
    <2>1. [p.total EXCEPT ![i] = last] \in [Pool -> Nat]
      BY <1>2, <1>3
    <2>2. [p.lists EXCEPT ![i] = fresh] \in [Pool -> Seq(Chunk)]
      BY <1>2, <1>4
    <2> QED
      BY <1>1, <1>7, <2>1, <2>2 DEF PoolState
  <1>10. \A k \in 1 .. last : fresh[k] = <<b, last - k>> /\ fresh[k][1] = b
                              /\ fresh[k][2] = last - k /\ last - k # last
    BY <1>3
  <1>11. \A k, l \in 1 .. last : fresh[k] = fresh[l] => k = l
    <2> SUFFICES ASSUME NEW k \in 1 .. last, NEW l \in 1 .. last, fresh[k] = fresh[l]
                 PROVE  k = l
      OBVIOUS
    <2>1. last - k = last - l
      BY <1>10
    <2> HIDE DEF last
    <2> QED
      BY <1>3, <2>1
  <1>12. ASSUME NEW k \in 1 .. last PROVE a.chunk # fresh[k]
    <2>1. fresh[k][2] # a.chunk[2]
      BY <1>5, <1>10
    <2> QED
      BY <2>1
  <1> HIDE DEF last, fresh
  <1>13. Counted(q)
    BY <1>3, <1>4, <1>6 DEF Good, Counted
  <1>14. ListsApart(q)
    <2>1. ASSUME NEW j \in Pool, NEW k \in 1 .. Len(q.lists[j]),
                 NEW l \in 1 .. Len(q.lists[j]), q.lists[j][k] = q.lists[j][l]
          PROVE  k = l
      <3>1. CASE j = i
        BY <1>4, <1>6, <1>11, <2>1, <3>1
      <3>2. CASE j # i
        BY <1>6, <2>1, <3>2 DEF Good, ListsApart
      <3> QED
        BY <3>1, <3>2
    <2>2. ASSUME NEW j \in Pool, NEW m \in Pool, NEW k \in 1 .. Len(q.lists[j]),
                 NEW l \in 1 .. Len(q.lists[m]), q.lists[j][k][1] = q.lists[m][l][1]
          PROVE  j = m
      <3>1. CASE j # i /\ m # i
        <4>1. q.lists[j] = p.lists[j] /\ q.lists[m] = p.lists[m]
          BY <1>6, <3>1
        <4> QED
          BY <2>2, <4>1 DEF Good, ListsApart
      <3>2. CASE j = i /\ m # i
        <4>1. q.lists[m][l][1] # b
          BY <1>6, <1>8, <3>2
        <4>2. q.lists[j][k][1] = b
          BY <1>4, <1>6, <1>10, <3>2
        <4> QED
          BY <2>2, <4>1, <4>2
      <3>3. CASE j # i /\ m = i
        <4>1. q.lists[j][k][1] # b
          BY <1>6, <1>8, <3>3
        <4>2. q.lists[m][l][1] = b
          BY <1>4, <1>6, <1>10, <3>3
        <4> QED
          BY <2>2, <4>1, <4>2
      <3> QED
        BY <3>1, <3>2, <3>3
    <2> QED
      BY <2>1, <2>2 DEF ListsApart
  <1>15. ListsFree(q, B, n + 1)
    <2> SUFFICES ASSUME NEW j \in Pool, NEW k \in 1 .. Len(q.lists[j]),
                        NEW s \in 1 .. n + 1, Some(B, s)
                 PROVE  /\ B[s].chunk # q.lists[j][k]
                        /\ B[s].chunk[1] = q.lists[j][k][1] => B[s].pool_id = j
      BY DEF ListsFree
    <2>1. CASE s \in 1 .. n /\ j # i
      <3>1. B[s] = A[s] /\ Some(A, s) /\ q.lists[j] = p.lists[j]
        BY <1>6, <1>8, <2>1
      <3> QED
        BY <2>1, <3>1 DEF Good, ListsFree
    <2>2. CASE s \in 1 .. n /\ j = i
      BY <1>4, <1>6, <1>8, <1>10, <2>2
    <2>3. CASE s = n + 1 /\ j # i
      <3>1. q.lists[j] = p.lists[j] /\ B[s].chunk[1] = b
        BY <1>5, <1>6, <1>8, <2>3
      <3>2. q.lists[j][k][1] # b
        BY <1>8, <3>1
      <3> QED
        BY <3>1, <3>2
    <2>4. CASE s = n + 1 /\ j = i
      BY <1>1, <1>4, <1>6, <1>8, <1>12, <2>4
    <2> QED
      BY <1>8, <2>1, <2>2, <2>3, <2>4
  <1>16. AllGranted(q, B, n + 1)
    <2>1. \A s \in 1 .. n + 1 : Some(B, s) => B[s].chunk[1] \in Range(q.granted)
      BY <1>5, <1>7, <1>8 DEF Good, AllGranted
    <2>2. ASSUME NEW j \in Pool, NEW k \in 1 .. Len(q.lists[j])
          PROVE  q.lists[j][k][1] \in Range(q.granted)
      <3>1. CASE j = i
        BY <1>4, <1>6, <1>7, <1>10, <3>1
      <3>2. CASE j # i
        BY <1>6, <1>7, <3>2 DEF Good, AllGranted
      <3> QED
        BY <3>1, <3>2
    <2> QED
      BY <2>1, <2>2 DEF AllGranted
  <1> QED
    BY <1>8, <1>9, <1>13, <1>14, <1>15, <1>16 DEF Good

(* Whatever malloc does.                                                   *)
LEMMA MallocKeepsGood ==
  ASSUME NEW p \in PoolState, NEW A, NEW n \in Nat, NEW a, NEW q, NEW B,
         Good(p, A, n), Took(p, q, a), Longer(B, A, n, a)
  PROVE  q \in PoolState /\ Good(q, B, n + 1)
  <1>1. CASE TakesNothing(p, q, a)
    <2>1. q = p /\ ~ Some(B, n + 1)
      BY <1>1 DEF TakesNothing, Longer, Some
    <2>2. \A s \in 1 .. n + 1 : Some(B, s) => s \in 1 .. n /\ Some(A, s) /\ B[s] = A[s]
      <3>1. \A s \in 1 .. n + 1 : s \in 1 .. n \/ s = n + 1
        OBVIOUS
      <3> QED
        BY <2>1, <3>1 DEF Longer, Some
    <2>3. Apart(B, n + 1)
      BY <2>1, <2>2 DEF Good, Apart
    <2>4. ListsFree(q, B, n + 1)
      BY <2>1, <2>2 DEF Good, ListsFree
    <2>5. AllGranted(q, B, n + 1)
      BY <2>1, <2>2 DEF Good, AllGranted
    <2> QED
      BY <2>1, <2>3, <2>4, <2>5 DEF Good
  <1> QED
    BY <1>1, ChunkKeepsGood, PageKeepsGood, BlockKeepsGood DEF Took

-----------------------------------------------------------------------------
(* The history: H[k] is the state in which the k-th of the addresses A was *)
(* allocated, the last of H the present one.                               *)

(* The k-th address was the first chunk of a new page of pool i.           *)
FirstOfPage(H, A, k, i) == Some(A, k) /\ A[k].pool_id = i /\ H[k].lists[i] = <<>>

(* start_addr, unless it is null, is the last page of the pool.            *)
LastPage(H, A, k, i) ==
  FirstOfPage(H, A, k, i) /\ \A l \in k + 1 .. Len(A) : ~ FirstOfPage(H, A, l, i)

PagesKnown(H, A, start) == \A i \in Pool :
  \/ start[i] = <<>>
  \/ \E k \in 1 .. Len(A) : LastPage(H, A, k, i) /\ start[i] = <<A[k].chunk[1]>>

History(H, A, p, start) ==
  /\ A \in Addresses /\ H \in Seq(PoolState) /\ Len(H) = Len(A) + 1
  /\ H[1].granted = <<>> /\ H[Len(A) + 1] = p
  /\ \A k \in 1 .. Len(A) : Took(H[k], H[k + 1], A[k])
  /\ \A k \in 1 .. Len(A) + 1 : Good(H[k], A, k - 1)
  /\ PagesKnown(H, A, start)

LEMMA GoodForPrefix ==
  ASSUME NEW p, NEW A, NEW B, NEW n \in Nat, Good(p, A, n),
         \A k \in 1 .. n : B[k] = A[k]
  PROVE  Good(p, B, n)
  <1>1. \A k \in 1 .. n : Some(B, k) = Some(A, k) /\ B[k] = A[k]
    BY DEF Some
  <1>2. Apart(B, n)
    BY <1>1 DEF Good, Apart
  <1>3. ListsFree(p, B, n)
    BY <1>1 DEF Good, ListsFree
  <1>4. AllGranted(p, B, n)
    BY <1>1 DEF Good, AllGranted
  <1> QED
    BY <1>2, <1>3, <1>4 DEF Good

(* An allocation lengthens the history.                                    *)
LEMMA HistoryGrows ==
  ASSUME NEW H, NEW A, NEW p, NEW start, History(H, A, p, start),
         NEW q, NEW a \in Address \cup {NULL}, Took(p, q, a), NEW start2,
         \A i \in Pool : start2[i] =
           IF a # NULL /\ a.pool_id = i /\ p.lists[i] = <<>> THEN <<a.chunk[1]>>
           ELSE start[i]
  PROVE  History(Append(H, q), Append(A, a), q, start2)
  <1> DEFINE n == Len(A)
             B == Append(A, a)
             G == Append(H, q)
  <1>1. /\ A \in Addresses /\ H \in Seq(PoolState) /\ n \in Nat /\ Len(H) = n + 1
        /\ H[n + 1] = p
    BY DEF History, Addresses
  <1>2. p \in PoolState /\ Good(p, A, n)
    BY <1>1 DEF History
  <1>3. B \in Addresses /\ Len(B) = n + 1 /\ B[n + 1] = a /\ \A k \in 1 .. n : B[k] = A[k]
    BY <1>1 DEF Addresses
  <1>4. Longer(B, A, n, a)
    BY <1>3 DEF Longer
  <1> HIDE DEF n, B
  <1>5. q \in PoolState /\ Good(q, B, n + 1)
    BY <1>1, <1>2, <1>4, MallocKeepsGood
  <1>6. /\ G \in Seq(PoolState) /\ Len(G) = n + 2 /\ G[n + 2] = q
        /\ \A k \in 1 .. n + 1 : G[k] = H[k]
    BY <1>1, <1>5
  <1> HIDE DEF G
  <1>7. G[1].granted = <<>>
    BY <1>1, <1>6 DEF History
  <1>8. ASSUME NEW k \in 1 .. n + 1 PROVE Took(G[k], G[k + 1], B[k])
    <2>1. CASE k = n + 1
      <3>1. G[k] = p /\ G[k + 1] = q /\ B[k] = a
        BY <1>1, <1>3, <1>6, <2>1
      <3> QED
        BY <3>1
    <2>2. CASE k \in 1 .. n
      <3>1. G[k] = H[k] /\ G[k + 1] = H[k + 1] /\ B[k] = A[k]
        BY <1>1, <1>3, <1>6, <2>2
      <3>2. Took(H[k], H[k + 1], A[k])
        BY <2>2 DEF History, n
      <3> QED
        BY <3>1, <3>2
    <2> QED
      BY <1>1, <2>1, <2>2
  <1>9. ASSUME NEW k \in 1 .. n + 2 PROVE Good(G[k], B, k - 1)
    <2>1. CASE k = n + 2
      BY <1>1, <1>5, <1>6, <2>1
    <2>2. CASE k \in 1 .. n + 1
      <3>1. Good(H[k], A, k - 1) /\ k - 1 \in Nat /\ k - 1 <= n
        BY <1>1, <2>2 DEF History, n
      <3>2. \A j \in 1 .. k - 1 : B[j] = A[j]
        BY <1>1, <1>3, <3>1
      <3>3. Good(H[k], B, k - 1)
        BY <3>1, <3>2, GoodForPrefix
      <3> QED
        BY <1>6, <2>2, <3>3
    <2> QED
      BY <1>1, <2>1, <2>2
  <1>10. ASSUME NEW i \in Pool
         PROVE  \/ start2[i] = <<>>
                \/ \E k \in 1 .. n + 1 : LastPage(G, B, k, i) /\ start2[i] = <<B[k].chunk[1]>>
    <2>1. FirstOfPage(G, B, n + 1, i) <=> a # NULL /\ a.pool_id = i /\ p.lists[i] = <<>>
      BY <1>1, <1>3, <1>6 DEF FirstOfPage, Some
    <2>2. ASSUME NEW k \in 1 .. n
          PROVE  FirstOfPage(G, B, k, i) <=> FirstOfPage(H, A, k, i)
      BY <1>1, <1>3, <1>6 DEF FirstOfPage, Some
    <2>3. CASE FirstOfPage(G, B, n + 1, i)
      <3>1. LastPage(G, B, n + 1, i)
        BY <1>1, <1>3, <2>3 DEF LastPage
      <3>2. start2[i] = <<B[n + 1].chunk[1]>>
        BY <1>3, <2>1, <2>3
      <3>3. n + 1 \in 1 .. n + 1
        BY <1>1
      <3> QED
        BY <3>1, <3>2, <3>3
    <2>4. CASE ~ FirstOfPage(G, B, n + 1, i)
      <3>1. start2[i] = start[i]
        BY <2>1, <2>4
      <3>2. CASE start[i] # <<>>
        <4>1. PICK k \in 1 .. n : LastPage(H, A, k, i) /\ start[i] = <<A[k].chunk[1]>>
          BY <3>2 DEF History, PagesKnown, n
        <4>2. \A l \in k + 1 .. n + 1 : ~ FirstOfPage(G, B, l, i)
          <5>1. \A l \in k + 1 .. n : ~ FirstOfPage(H, A, l, i)
            BY <4>1 DEF LastPage, n
          <5>2. \A l \in k + 1 .. n + 1 : l = n + 1 \/ (l \in k + 1 .. n /\ l \in 1 .. n)
            BY <1>1
          <5> QED
            BY <2>2, <2>4, <5>1, <5>2
        <4>3. FirstOfPage(G, B, k, i)
          BY <2>2, <4>1 DEF LastPage
        <4>4. k \in 1 .. n + 1 /\ B[k] = A[k]
          BY <1>1, <1>3
        <4> QED
          BY <1>3, <3>1, <4>1, <4>2, <4>3, <4>4 DEF LastPage
      <3> QED
        BY <3>1, <3>2
    <2> QED
      BY <2>3, <2>4
  <1>11. PagesKnown(G, B, start2)
    BY <1>3, <1>10 DEF PagesKnown
  <1>12. Len(B) = n + 1 /\ Len(B) + 1 = n + 2 /\ Len(G) = Len(B) + 1
    BY <1>1, <1>3, <1>6
  <1>13. History(G, B, q, start2)
    BY <1>3, <1>6, <1>7, <1>8, <1>9, <1>11, <1>12 DEF History
  <1> QED
    BY <1>13 DEF G, B

(* The last allocation undone shortens it.                                 *)
LEMMA HistoryShrinks ==
  ASSUME NEW H, NEW A, NEW p, NEW start, NEW a, NEW start2,
         A \in Addresses, History(H, Append(A, a), p, start), a \in Address \cup {NULL},
         \A i \in Pool : start2[i] =
           IF a # NULL /\ a.pool_id = i /\ H[Len(A) + 1].lists[i] = <<>> THEN <<>>
           ELSE start[i]
  PROVE  History(SubSeq(H, 1, Len(A) + 1), A, H[Len(A) + 1], start2)
  <1> DEFINE n == Len(A)
             B == Append(A, a)
             G == SubSeq(H, 1, n + 1)
  <1>1. B \in Addresses /\ n \in Nat /\ Len(B) = n + 1 /\ B[n + 1] = a
        /\ \A k \in 1 .. n : B[k] = A[k]
    BY DEF Addresses
  <1>2. H \in Seq(PoolState) /\ Len(H) = n + 2
    BY <1>1 DEF History
  <1>3. G \in Seq(PoolState) /\ Len(G) = n + 1 /\ \A k \in 1 .. n + 1 : G[k] = H[k]
    BY <1>1, <1>2
  <1>4. /\ H[1].granted = <<>>
        /\ \A k \in 1 .. n + 1 : Took(H[k], H[k + 1], B[k])
        /\ \A k \in 1 .. n + 2 : Good(H[k], B, k - 1)
        /\ PagesKnown(H, B, start)
    BY <1>1 DEF History
  <1> HIDE DEF n, B, G
  <1>5. G[1].granted = <<>> /\ G[n + 1] = H[n + 1]
    BY <1>1, <1>3, <1>4
  <1>6. ASSUME NEW k \in 1 .. n PROVE Took(G[k], G[k + 1], A[k])
    <2>1. k \in 1 .. n + 1 /\ G[k] = H[k] /\ G[k + 1] = H[k + 1] /\ B[k] = A[k]
      BY <1>1, <1>3
    <2> QED
      BY <1>4, <2>1
  <1>7. ASSUME NEW k \in 1 .. n + 1 PROVE Good(G[k], A, k - 1)
    <2>1. k \in 1 .. n + 2 /\ k - 1 \in Nat /\ \A j \in 1 .. k - 1 : A[j] = B[j]
      BY <1>1
    <2>2. Good(H[k], B, k - 1)
      BY <1>4, <2>1
    <2>3. Good(H[k], A, k - 1)
      BY <2>1, <2>2, GoodForPrefix
    <2> QED
      BY <1>3, <2>3
  <1>8. ASSUME NEW i \in Pool
        PROVE  \/ start2[i] = <<>>
               \/ \E k \in 1 .. n : LastPage(G, A, k, i) /\ start2[i] = <<A[k].chunk[1]>>
    <2>1. FirstOfPage(H, B, n + 1, i) <=> a # NULL /\ a.pool_id = i /\ H[n + 1].lists[i] = <<>>
      BY <1>1 DEF FirstOfPage, Some
    <2>2. ASSUME NEW k \in 1 .. n
          PROVE  FirstOfPage(G, A, k, i) <=> FirstOfPage(H, B, k, i)
      BY <1>1, <1>3 DEF FirstOfPage, Some
    <2>3. CASE FirstOfPage(H, B, n + 1, i)
      BY <2>1, <2>3 DEF n
    <2>4. CASE ~ FirstOfPage(H, B, n + 1, i) /\ start[i] # <<>>
      <3>1. start2[i] = start[i]
        BY <2>1, <2>4 DEF n
      <3>2. PICK k \in 1 .. n + 1 : LastPage(H, B, k, i) /\ start[i] = <<B[k].chunk[1]>>
        BY <1>1, <1>4, <2>4 DEF PagesKnown
      <3>3. k # n + 1
        BY <2>4, <3>2 DEF LastPage
      <3>4. k \in 1 .. n /\ B[k] = A[k]
        BY <1>1, <3>3
      <3>5. \A l \in k + 1 .. n : ~ FirstOfPage(G, A, l, i)
        <4>1. \A l \in k + 1 .. n + 1 : ~ FirstOfPage(H, B, l, i)
          BY <1>1, <3>2 DEF LastPage
        <4>2. \A l \in k + 1 .. n : l \in k + 1 .. n + 1 /\ l \in 1 .. n
          BY <1>1
        <4> QED
          BY <2>2, <4>1, <4>2
      <3>6. LastPage(G, A, k, i)
        BY <2>2, <3>2, <3>4, <3>5 DEF LastPage, n
      <3> QED
        BY <3>1, <3>2, <3>4, <3>6
    <2>5. CASE ~ FirstOfPage(H, B, n + 1, i) /\ start[i] = <<>>
      BY <2>1, <2>5 DEF n
    <2> QED
      BY <2>3, <2>4, <2>5
  <1>9. PagesKnown(G, A, start2)
    BY <1>8 DEF PagesKnown, n
  <1>10. History(G, A, H[n + 1], start2)
    BY <1>3, <1>5, <1>6, <1>7, <1>9 DEF History, n
  <1> QED
    BY <1>10 DEF G, n

-----------------------------------------------------------------------------
(* The actions.                                                            *)

StartTyped ==
  /\ start_addr \in [Pool -> Seq(Block)] /\ \A i \in Pool : Len(start_addr[i]) <= 1

LEMMA MallocTakes ==
  ASSUME Now \in PoolState, StartTyped, NEW size \in Requests, malloc(size)
  PROVE  /\ StartTyped' /\ result' \in Address \cup {NULL}
         /\ Took(Now, Now', result')
         /\ pc' = "push" /\ my_stack' = my_stack
         /\ \A i \in Pool : start_addr'[i] =
              IF result' # NULL /\ result'.pool_id = i /\ free_list[i] = <<>>
                THEN <<result'.chunk[1]>> ELSE start_addr[i]
         /\ \A b \in Range(granted) : b \in Range(granted')
  <1>1. /\ chunk_total \in [Pool -> Nat] /\ free_list \in [Pool -> Seq(Chunk)]
        /\ granted \in Seq(Block) /\ start_addr \in [Pool -> Seq(Block)]
        /\ \A i \in Pool : Len(start_addr[i]) <= 1
    BY DEF StartTyped, PoolState, Now
  <1>2. Now.total = chunk_total /\ Now.lists = free_list /\ Now.granted = granted
        /\ Now' = [total |-> chunk_total', lists |-> free_list', granted |-> granted']
    BY DEF Now
  <1>3. ASSUME NEW i \in Pool, PoolFor(size, i), FromFreeList(i, size)
        PROVE  /\ result' \in Address /\ TakesChunk(Now, Now', result')
               /\ result'.pool_id = i /\ free_list[i] # <<>>
               /\ UNCHANGED <<start_addr, granted, my_stack>> /\ pc' = "push"
    <2>1. Head(free_list[i]) \in Chunk /\ free_list[i] # <<>>
      BY <1>1, <1>3 DEF FromFreeList
    <2>2. result' = [chunk |-> Head(free_list[i]), pool_id |-> i, size |-> size]
      BY <1>3 DEF FromFreeList, Returns
    <2>3. result' \in Address /\ result'.pool_id = i /\ result'.chunk = Head(free_list[i])
      BY <2>1, <2>2 DEF Address
    <2>4. TakesChunk(Now, Now', result')
      BY <1>2, <1>3, <2>1, <2>3 DEF FromFreeList, TakesChunk
    <2> QED
      BY <1>3, <2>1, <2>3, <2>4 DEF FromFreeList, Returns
  <1>4. ASSUME NEW i \in Pool, PoolFor(size, i), FromNewPage(i, size)
        PROVE  /\ result' \in Address /\ TakesPage(Now, Now', result')
               /\ result'.pool_id = i /\ free_list[i] = <<>>
               /\ result'.chunk[1] \in Block
               /\ start_addr' = [start_addr EXCEPT ![i] = <<result'.chunk[1]>>]
               /\ granted' = Append(granted, result'.chunk[1])
               /\ my_stack' = my_stack /\ pc' = "push"
    <2>1. PICK b \in Ungranted :
            /\ granted' = Append(granted, b)
            /\ free_list' = [free_list EXCEPT ![i] =
                 [j \in 1 .. Chunks(i) - 1 |-> <<b, Chunks(i) - 1 - j>>]]
            /\ start_addr' = [start_addr EXCEPT ![i] = <<b>>]
            /\ Returns(<<b, Chunks(i) - 1>>, i, size)
      BY <1>4 DEF FromNewPage
    <2>2. b \in Block /\ b \notin Range(granted)
      BY <2>1 DEF Ungranted
    <2>3. <<b, Chunks(i) - 1>> \in Chunk
      BY <2>2, ChunksInPage, SizeAssumption DEF Chunk
    <2>4. result' = [chunk |-> <<b, Chunks(i) - 1>>, pool_id |-> i, size |-> size]
      BY <2>1 DEF Returns
    <2>5. result' \in Address /\ result'.pool_id = i
          /\ result'.chunk = <<b, Chunks(i) - 1>> /\ result'.chunk[1] = b
      BY <2>3, <2>4 DEF Address
    <2>6. TakesPage(Now, Now', result')
      <3>1. chunk_total' = [chunk_total EXCEPT ![i] = Chunks(i) - 1] /\ free_list[i] = <<>>
        BY <1>4 DEF FromNewPage
      <3> QED
        BY <1>2, <2>1, <2>2, <2>5, <3>1 DEF TakesPage
    <2> QED
      BY <1>4, <2>1, <2>2, <2>5, <2>6 DEF FromNewPage, Returns
  <1>5. ASSUME FromBuddy(size)
        PROVE  /\ result' \in Address /\ TakesBlock(Now, Now', result')
               /\ result'.pool_id = POOL_ID_MAX
               /\ \E b \in Block : granted' = Append(granted, b)
               /\ UNCHANGED <<pools, my_stack>> /\ pc' = "push"
    <2>1. PICK b \in Ungranted : granted' = Append(granted, b)
                                 /\ Returns(<<b, 0>>, POOL_ID_MAX, size)
      BY <1>5 DEF FromBuddy
    <2>2. b \in Block /\ b \notin Range(granted)
      BY <2>1 DEF Ungranted
    <2>3. result' = [chunk |-> <<b, 0>>, pool_id |-> POOL_ID_MAX, size |-> size]
      BY <2>1 DEF Returns
    <2>4. result' \in Address /\ result'.pool_id = POOL_ID_MAX /\ result'.chunk = <<b, 0>>
      BY <2>2, <2>3, SizeAssumption DEF Address, Chunk
    <2>5. UNCHANGED pools
      BY <1>5 DEF FromBuddy
    <2>6. TakesBlock(Now, Now', result')
      BY <1>2, <2>1, <2>2, <2>4, <2>5 DEF TakesBlock, pools
    <2> QED
      BY <2>1, <2>2, <2>4, <2>5, <2>6 DEF Returns
  <1>6. ASSUME NoMemory(size)
        PROVE  /\ result' = NULL /\ TakesNothing(Now, Now', result')
               /\ UNCHANGED <<pools, granted, my_stack>> /\ pc' = "push"
    BY <1>2, <1>6 DEF NoMemory, pools, TakesNothing, Now
  <1>7. ASSUME UNCHANGED <<start_addr, granted>>,
               result' = NULL \/ result'.pool_id = POOL_ID_MAX
                 \/ free_list[result'.pool_id] # <<>>
        PROVE  /\ StartTyped'
               /\ \A i \in Pool : start_addr'[i] =
                    IF result' # NULL /\ result'.pool_id = i /\ free_list[i] = <<>>
                      THEN <<result'.chunk[1]>> ELSE start_addr[i]
               /\ \A b \in Range(granted) : b \in Range(granted')
    BY <1>7, <1>1, BlockIsNoPool DEF StartTyped
  <1>8. CASE \E i \in Pool : PoolFor(size, i) /\ FromFreeList(i, size)
    BY <1>3, <1>7, <1>8 DEF Took
  <1>9. CASE \E i \in Pool : PoolFor(size, i) /\ FromNewPage(i, size)
    <2>1. PICK i \in Pool : PoolFor(size, i) /\ FromNewPage(i, size)
      BY <1>9
    <2> DEFINE b == result'.chunk[1]
    <2>2. /\ result' \in Address /\ TakesPage(Now, Now', result')
          /\ result'.pool_id = i /\ free_list[i] = <<>> /\ b \in Block
          /\ start_addr' = [start_addr EXCEPT ![i] = <<b>>]
          /\ granted' = Append(granted, b)
          /\ my_stack' = my_stack /\ pc' = "push"
      BY <1>4, <2>1
    <2> HIDE DEF b
    <2>3. StartTyped'
      BY <1>1, <2>2 DEF StartTyped
    <2>4. \A j \in Pool : start_addr'[j] = IF j = i THEN <<b>> ELSE start_addr[j]
      BY <1>1, <2>2
    <2>5. \A c \in Range(granted) : c \in Range(granted')
      BY <1>1, <2>2, RangeOfAppend
    <2> QED
      BY <2>2, <2>3, <2>4, <2>5, NullIsNoAddress DEF Took, b
  <1>10. CASE FromBuddy(size)
    <2>1. PICK b \in Block : granted' = Append(granted, b)
      BY <1>5, <1>10
    <2>2. \A c \in Range(granted) : c \in Range(granted')
      BY <1>1, <2>1, RangeOfAppend
    <2>3. start_addr' = start_addr /\ result'.pool_id = POOL_ID_MAX
      BY <1>5, <1>10 DEF pools
    <2>4. StartTyped' /\ \A i \in Pool : result'.pool_id # i
      BY <2>3, BlockIsNoPool DEF StartTyped
    <2> QED
      BY <1>5, <1>10, <2>2, <2>3, <2>4 DEF Took
  <1>11. CASE NoMemory(size)
    BY <1>6, <1>7, <1>11 DEF Took, pools
  <1> QED
    BY <1>8, <1>9, <1>10, <1>11 DEF malloc, pool_alloc

(* free_block takes the block granted last off.                            *)
LEMMA LastBlockOff ==
  ASSUME NEW g \in Seq(Block), NEW b \in Block, b \notin Range(g),
         granted = Append(g, b), free_block(b)
  PROVE  granted' = g
  <1> DEFINE n == Len(g)
             h == Append(g, b)
  <1>1. h \in Seq(Block) /\ n \in Nat /\ Len(h) = n + 1 /\ h[n + 1] = b
        /\ \A k \in 1 .. n : h[k] = g[k]
    OBVIOUS
  <1>2. DOMAIN h = 1 .. n + 1 /\ b \in Range(h)
    BY <1>1 DEF Range
  <1>3. \A k \in 1 .. n : h[k] # b
    BY <1>1 DEF Range
  <1>4. (CHOOSE k \in DOMAIN h : h[k] = b) = n + 1
    <2>1. \A k \in DOMAIN h : h[k] = b => k = n + 1
      <3>1. \A k \in 1 .. n + 1 : k \in 1 .. n \/ k = n + 1
        BY <1>1
      <3> QED
        BY <1>2, <1>3, <3>1
    <2>2. n + 1 \in DOMAIN h /\ h[n + 1] = b
      BY <1>1, <1>2
    <2> HIDE DEF n, h
    <2> QED
      BY <2>1, <2>2
  <1>5. granted' = RemoveAt(h, n + 1)
    BY <1>2, <1>4 DEF free_block
  <1>6. RemoveAt(h, n + 1) = g
    <2>1. SubSeq(h, 1, n) = g
      BY <1>1
    <2>2. SubSeq(h, n + 2, n + 1) = <<>>
      BY <1>1
    <2>3. (n + 1) - 1 = n /\ (n + 1) + 1 = n + 2
      BY <1>1
    <2>4. g \o <<>> = g
      OBVIOUS
    <2> QED
      BY <1>1, <2>1, <2>2, <2>3, <2>4 DEF RemoveAt
  <1> QED
    BY <1>5, <1>6

(* What free does when a was allocated last, in state p.                   *)
Undoes(p, a) ==
  /\ pc' = "shell" /\ Now' = p
  /\ \A i \in Pool : start_addr'[i] =
       IF a # NULL /\ a.pool_id = i /\ p.lists[i] = <<>> THEN <<>> ELSE start_addr[i]

RunsIntoNull == pc' = "undefined" /\ Now' \in PoolState /\ granted' = granted
                /\ \A i \in Pool : chunk_total'[i] <= Chunks(i)

LEMMA FreeUndoes ==
  ASSUME NEW p \in PoolState, NEW A, NEW n \in Nat, Good(p, A, n), NEW a,
         Took(p, Now, a), Now \in PoolState, StartTyped, Counted(Now),
         \A i \in Pool : a # NULL /\ a.pool_id = i /\ p.lists[i] = <<>> =>
           start_addr[i] = <<>> \/ start_addr[i] = <<a.chunk[1]>>,
         free(a)
  PROVE  /\ StartTyped'
         /\ Undoes(p, a) \/ RunsIntoNull
         /\ \A b \in Range(granted) : b \notin Range(granted') => b = Last(granted)
  <1>1. /\ chunk_total \in [Pool -> Nat] /\ free_list \in [Pool -> Seq(Chunk)]
        /\ granted \in Seq(Block) /\ start_addr \in [Pool -> Seq(Block)]
        /\ \A i \in Pool : Len(start_addr[i]) <= 1
    BY DEF StartTyped, PoolState, Now
  <1>2. Now.total = chunk_total /\ Now.lists = free_list /\ Now.granted = granted
        /\ Now' = [total |-> chunk_total', lists |-> free_list', granted |-> granted']
    BY DEF Now
  <1>3. /\ p.total \in [Pool -> Nat] /\ p.lists \in [Pool -> Seq(Chunk)]
        /\ p.granted \in Seq(Block)
        /\ p = [total |-> p.total, lists |-> p.lists, granted |-> p.granted]
    BY DEF PoolState
  <1>4. \A i \in Pool : p.total[i] = Len(p.lists[i]) /\ p.total[i] < Chunks(i)
    BY DEF Good, Counted
  <1>5. CASE TakesChunk(p, Now, a)
    <2>1. PICK i \in Pool :
            /\ a \in Address /\ a.pool_id = i /\ p.lists[i] # <<>>
            /\ a.chunk = Head(p.lists[i])
            /\ Now = [total |-> [p.total EXCEPT ![i] = @ - 1],
                      lists |-> [p.lists EXCEPT ![i] = Tail(@)],
                      granted |-> p.granted]
      BY <1>5 DEF TakesChunk
    <2> DEFINE L == p.lists[i]
    <2>2. /\ chunk_total = [p.total EXCEPT ![i] = @ - 1]
          /\ free_list = [p.lists EXCEPT ![i] = Tail(@)] /\ granted = p.granted
      BY <1>2, <2>1
    <2>3. L \in Seq(Chunk) /\ Len(L) > 0 /\ Len(L) \in Nat /\ p.total[i] = Len(L)
      BY <1>3, <1>4, <2>1
    <2>4. chunk_total[i] = Len(L) - 1 /\ free_list[i] = Tail(L)
      BY <1>3, <2>2, <2>3
    <2>5. ~ PoolEmpty(i)
      BY <1>4, <2>3, <2>4, ChunksInPage DEF PoolEmpty
    <2>6. pool_free(a.chunk, i)
      BY <2>1, BlockIsNoPool, NullIsNoAddress DEF free
    <2>7. /\ free_list' = [free_list EXCEPT ![i] = <<a.chunk>> \o @]
          /\ chunk_total' = [chunk_total EXCEPT ![i] = @ + 1]
          /\ pc' = "shell" /\ UNCHANGED <<start_addr, granted>>
      BY <2>5, <2>6 DEF pool_free
    <2>8. <<Head(L)>> \o Tail(L) = L
      BY <2>3
    <2>9. free_list'[i] = L /\ chunk_total'[i] = p.total[i]
      <3>1. free_list'[i] = <<a.chunk>> \o Tail(L) /\ a.chunk = Head(L)
        BY <1>1, <2>1, <2>4, <2>7
      <3>2. chunk_total'[i] = (Len(L) - 1) + 1
        BY <1>1, <2>4, <2>7
      <3> HIDE DEF L
      <3> QED
        BY <2>3, <2>8, <3>1, <3>2
    <2>10. free_list' = p.lists
      <3>1. \A j \in Pool : free_list'[j] = p.lists[j]
        BY <1>3, <2>2, <2>7, <2>9
      <3> QED
        BY <1>1, <1>3, <2>7, <3>1
    <2>11. chunk_total' = p.total
      <3>1. \A j \in Pool : chunk_total'[j] = p.total[j]
        BY <1>3, <2>2, <2>7, <2>9
      <3> QED
        BY <1>1, <1>3, <2>7, <3>1
    <2>12. Now' = p
      BY <1>2, <1>3, <2>2, <2>7, <2>10, <2>11
    <2>13. StartTyped'
      BY <2>7 DEF StartTyped
    <2> QED
      BY <2>1, <2>7, <2>12, <2>13 DEF Undoes
  <1>6. CASE TakesPage(p, Now, a)
    <2>1. PICK i \in Pool, b \in Block :
            /\ a \in Address /\ a.pool_id = i /\ p.lists[i] = <<>> /\ b \notin Range(p.granted)
            /\ a.chunk = <<b, Chunks(i) - 1>>
            /\ Now = [total |-> [p.total EXCEPT ![i] = Chunks(i) - 1],
                      lists |-> [p.lists EXCEPT ![i] =
                                  [j \in 1 .. Chunks(i) - 1 |-> <<b, Chunks(i) - 1 - j>>]],
                      granted |-> Append(p.granted, b)]
      BY <1>6 DEF TakesPage
    <2>2. /\ chunk_total = [p.total EXCEPT ![i] = Chunks(i) - 1]
          /\ \A j \in Pool : j # i => free_list[j] = p.lists[j]
          /\ granted = Append(p.granted, b)
      BY <1>2, <1>3, <2>1
    <2>3. PoolEmpty(i)
      BY <1>3, <2>2, ChunksInPage DEF PoolEmpty
    <2>4. FreePoolPage(i)
      BY <2>1, <2>3, BlockIsNoPool, NullIsNoAddress DEF free, pool_free
    <2>5. p.total[i] = 0
      BY <1>4, <2>1
    <2>6. /\ free_list' = [free_list EXCEPT ![i] = <<>>]
          /\ chunk_total' = [chunk_total EXCEPT ![i] = 0]
          /\ start_addr' = [start_addr EXCEPT ![i] = <<>>]
      BY <2>4 DEF FreePoolPage
    <2>7. StartTyped'
      <3>1. <<>> \in Seq(Block) /\ Len(<<>>) = 0
        OBVIOUS
      <3> QED
        BY <1>1, <2>6, <3>1 DEF StartTyped
    <2>8. free_list' = p.lists
      <3>1. \A j \in Pool : free_list'[j] = p.lists[j]
        BY <1>1, <1>3, <2>1, <2>2, <2>6
      <3> QED
        BY <1>1, <1>3, <2>6, <3>1
    <2>9. chunk_total' = p.total
      <3>1. \A j \in Pool : chunk_total'[j] = p.total[j]
        BY <1>1, <1>3, <2>2, <2>5, <2>6
      <3> QED
        BY <1>1, <1>3, <2>6, <3>1
    <2>10. \A j \in Pool : start_addr'[j] =
             IF a # NULL /\ a.pool_id = j /\ p.lists[j] = <<>> THEN <<>> ELSE start_addr[j]
      BY <1>1, <2>1, <2>6, NullIsNoAddress
    <2>11. Last(granted) = b
      BY <1>3, <2>2 DEF Last
    <2>12. CASE start_addr[i] = <<>>
      <3>1. pc' = "undefined" /\ granted' = granted
        BY <2>4, <2>12 DEF FreePoolPage
      <3>2. Now' \in PoolState
        BY <1>1, <1>2, <1>3, <2>8, <2>9, <3>1 DEF PoolState
      <3>3. \A j \in Pool : chunk_total'[j] <= Chunks(j)
        BY <1>3, <1>4, <2>9, ChunksInPage
      <3> QED
        BY <2>7, <3>1, <3>2, <3>3 DEF RunsIntoNull
    <2>13. CASE start_addr[i] # <<>>
      <3>1. start_addr[i] = <<b>>
        BY <2>1, <2>13, NullIsNoAddress
      <3>2. pc' = "shell" /\ free_block(b)
        BY <2>4, <2>13, <3>1 DEF FreePoolPage
      <3>3. granted' = p.granted
        BY <1>3, <2>1, <2>2, <3>2, LastBlockOff
      <3>4. Now' = p
        BY <1>2, <1>3, <2>8, <2>9, <3>3
      <3>5. \A c : c \in Range(granted) <=> c \in Range(p.granted) \/ c = b
        BY <1>3, <2>2, RangeOfAppend
      <3> QED
        BY <2>7, <2>10, <2>11, <3>2, <3>3, <3>4, <3>5 DEF Undoes
    <2> QED
      BY <2>12, <2>13
  <1>7. CASE TakesBlock(p, Now, a)
    <2>1. PICK b \in Block :
            /\ a \in Address /\ a.pool_id = POOL_ID_MAX /\ b \notin Range(p.granted)
            /\ a.chunk = <<b, 0>>
            /\ Now = [total |-> p.total, lists |-> p.lists, granted |-> Append(p.granted, b)]
      BY <1>7 DEF TakesBlock
    <2>2. chunk_total = p.total /\ free_list = p.lists /\ granted = Append(p.granted, b)
          /\ a.chunk[1] = b
      BY <1>2, <2>1
    <2>3. free_block(b) /\ pc' = "shell" /\ UNCHANGED pools
      BY <2>1, <2>2, NullIsNoAddress DEF free
    <2>4. granted' = p.granted
      BY <1>3, <2>1, <2>2, <2>3, LastBlockOff
    <2>5. Now' = p
      BY <1>2, <1>3, <2>2, <2>3, <2>4 DEF pools
    <2>6. \A c : c \in Range(granted) <=> c \in Range(p.granted) \/ c = b
      BY <1>3, <2>2, RangeOfAppend
    <2>7. Last(granted) = b
      BY <1>3, <2>2 DEF Last
    <2>8. StartTyped' /\ start_addr' = start_addr
      BY <2>3 DEF StartTyped, pools
    <2> QED
      BY <2>1, <2>3, <2>4, <2>5, <2>6, <2>7, <2>8, BlockIsNoPool DEF Undoes
  <1>8. CASE TakesNothing(p, Now, a)
    <2>1. pc' = "shell" /\ UNCHANGED <<pools, granted>> /\ a = NULL /\ Now = p
      BY <1>8 DEF TakesNothing, free
    <2> QED
      BY <2>1 DEF Undoes, pools, StartTyped, Now
  <1> QED
    BY <1>5, <1>6, <1>7, <1>8 DEF Took

-----------------------------------------------------------------------------
(* The invariant.                                                          *)

HasHistory == \E H : History(H, Out, Now, start_addr)

IInv ==
  /\ TypeOK
  /\ pc = "shell" => result = NULL
  /\ pc # "undefined" => HasHistory

(* A block is given back only if it was granted last.                      *)
LastGoesFirst == \A b \in Range(granted) : b \notin Range(granted') => b = Last(granted)

LEMMA NowIsGood ==
  ASSUME TypeOK, NEW H, History(H, Out, Now, start_addr)
  PROVE  /\ Now \in PoolState /\ StartTyped /\ Len(Out) \in Nat
         /\ Good(Now, Out, Len(Out))
         /\ \A i \in Pool : chunk_total[i] <= Chunks(i)
  <1>1. Len(Out) \in Nat /\ Now = H[Len(Out) + 1]
    BY DEF History, Addresses
  <1>2. Now \in PoolState /\ Good(Now, Out, Len(Out))
    <2>1. Len(Out) + 1 \in 1 .. Len(Out) + 1 /\ (Len(Out) + 1) - 1 = Len(Out)
      BY <1>1
    <2> DEFINE n == Len(Out) + 1
    <2>2. H \in Seq(PoolState) /\ Len(H) = n /\ n \in 1 .. n /\ Good(H[n], Out, n - 1)
      BY <2>1 DEF History
    <2>3. H[n] \in PoolState
      BY <2>2
    <2> QED
      BY <1>1, <2>1, <2>2, <2>3
  <1>3. chunk_total = Now.total
    BY DEF Now
  <1>4. \A i \in Pool : chunk_total[i] <= Chunks(i)
    BY <1>2, <1>3, ChunksInPage DEF Good, Counted, PoolState
  <1> QED
    BY <1>1, <1>2, <1>4 DEF StartTyped, TypeOK

(* The types follow from those of the pools.                               *)
LEMMA TypesOfPools ==
  ASSUME Now \in PoolState, StartTyped, \A i \in Pool : chunk_total[i] <= Chunks(i),
         pc \in {"shell", "push", "undefined"}, result \in Address \cup {NULL},
         my_stack \in Addresses, Len(my_stack) <= STACK_CAPACITY
  PROVE  TypeOK
  <1>1. Now.total = chunk_total /\ Now.lists = free_list /\ Now.granted = granted
    BY DEF Now
  <1> QED
    BY <1>1 DEF TypeOK, PoolState, StartTyped, Addresses

LEMMA AllocKeeps ==
  ASSUME IInv, Alloc
  PROVE  IInv' /\ LastGoesFirst
  <1>1. PICK size \in Requests : malloc(size)
    BY DEF Alloc
  <1>2. pc = "shell" /\ Out = my_stack
    BY DEF Alloc, Out
  <1>3. PICK H : History(H, Out, Now, start_addr)
    BY <1>2 DEF IInv, HasHistory
  <1>4. Now \in PoolState /\ StartTyped
    BY <1>3, NowIsGood DEF IInv
  <1>5. /\ StartTyped' /\ result' \in Address \cup {NULL}
        /\ Took(Now, Now', result')
        /\ pc' = "push" /\ my_stack' = my_stack
        /\ \A i \in Pool : start_addr'[i] =
             IF result' # NULL /\ result'.pool_id = i /\ free_list[i] = <<>>
               THEN <<result'.chunk[1]>> ELSE start_addr[i]
        /\ \A b \in Range(granted) : b \in Range(granted')
    BY <1>1, <1>4, MallocTakes
  <1>6. Out' = Append(Out, result')
    BY <1>2, <1>5 DEF Out
  <1>7. Now.lists = free_list
    BY DEF Now
  <1>8. History(Append(H, Now'), Append(Out, result'), Now', start_addr')
    BY <1>3, <1>5, <1>7, HistoryGrows
  <1>9. HasHistory'
    BY <1>6, <1>8 DEF HasHistory
  <1>10. my_stack \in Addresses /\ Len(my_stack) <= STACK_CAPACITY
    BY DEF IInv, TypeOK, Addresses
  <1>11. Now' \in PoolState /\ \A i \in Pool : chunk_total'[i] <= Chunks(i)
    <2> DEFINE n == Len(Out)
    <2>1. Good(Now, Out, n) /\ n \in Nat
      BY <1>3, NowIsGood DEF IInv
    <2>2. Out \in Addresses
      BY <1>2, <1>10
    <2>3. Longer(Append(Out, result'), Out, n, result')
      BY <1>5, <2>2 DEF Longer, Addresses
    <2>4. Now' \in PoolState /\ Good(Now', Append(Out, result'), n + 1)
      BY <1>4, <1>5, <2>1, <2>3, MallocKeepsGood
    <2>5. chunk_total' = (Now').total
      BY DEF Now
    <2> QED
      BY <2>4, <2>5, ChunksInPage DEF Good, Counted, PoolState
  <1>12. TypeOK'
    BY <1>5, <1>10, <1>11, TypesOfPools DEF TypeOK, PoolState, StartTyped, Addresses, Now
  <1> QED
    BY <1>5, <1>9, <1>12 DEF IInv, LastGoesFirst

(* The address that came last is freed.                                    *)
LEMMA FreeShortens ==
  ASSUME IInv, pc # "undefined", NEW B \in Addresses, NEW a \in Address \cup {NULL},
         Out = Append(B, a), free(a)
  PROVE  /\ StartTyped' /\ LastGoesFirst /\ Now' \in PoolState
         /\ \A i \in Pool : chunk_total'[i] <= Chunks(i)
         /\ \/ pc' = "undefined"
            \/ pc' = "shell" /\ \E H : History(H, B, Now', start_addr')
  <1> DEFINE n == Len(B)
  <1>1. PICK H : History(H, Out, Now, start_addr)
    BY DEF IInv, HasHistory
  <1>2. Now \in PoolState /\ StartTyped /\ Good(Now, Out, Len(Out))
    BY <1>1, NowIsGood DEF IInv
  <1>3. n \in Nat /\ Len(Out) = n + 1 /\ Out[n + 1] = a
    BY DEF Addresses
  <1> DEFINE p == H[n + 1]
  <1>4. /\ H \in Seq(PoolState) /\ Len(H) = n + 2 /\ H[n + 2] = Now
        /\ Took(p, Now, a) /\ Good(p, Out, n)
    <2>1. n + 1 \in 1 .. n + 1 /\ n + 1 \in 1 .. n + 2 /\ (n + 1) + 1 = n + 2
          /\ (n + 1) - 1 = n
      BY <1>3
    <2> HIDE DEF n
    <2> QED
      BY <1>1, <1>3, <2>1 DEF History
  <1>5. p \in PoolState
    BY <1>3, <1>4
  <1>6. ASSUME NEW i \in Pool, a # NULL, a.pool_id = i, p.lists[i] = <<>>
        PROVE  start_addr[i] = <<>> \/ start_addr[i] = <<a.chunk[1]>>
    <2>1. FirstOfPage(H, Out, n + 1, i)
      BY <1>3, <1>6 DEF FirstOfPage, Some
    <2> SUFFICES ASSUME start_addr[i] # <<>> PROVE start_addr[i] = <<a.chunk[1]>>
      OBVIOUS
    <2>2. PICK k \in 1 .. n + 1 : LastPage(H, Out, k, i) /\ start_addr[i] = <<Out[k].chunk[1]>>
      BY <1>1, <1>3 DEF History, PagesKnown
    <2>3. k = n + 1
      <3>1. k < n + 1 => n + 1 \in k + 1 .. n + 1
        BY <1>3
      <3>2. ~ (k < n + 1)
        BY <1>3, <2>1, <2>2, <3>1 DEF LastPage
      <3> HIDE DEF n
      <3> QED
        BY <1>3, <3>2
    <2> QED
      BY <1>3, <2>2, <2>3
  <1>7. Counted(Now)
    BY <1>2 DEF Good
  <1> HIDE DEF n, p
  <1>8. /\ StartTyped'
        /\ Undoes(p, a) \/ RunsIntoNull
        /\ \A b \in Range(granted) : b \notin Range(granted') => b = Last(granted)
    BY <1>2, <1>3, <1>4, <1>5, <1>6, <1>7, FreeUndoes
  <1>9. CASE RunsIntoNull
    BY <1>8, <1>9 DEF RunsIntoNull, LastGoesFirst
  <1>10. CASE Undoes(p, a)
    <2>1. /\ pc' = "shell" /\ Now' = p
          /\ \A i \in Pool : start_addr'[i] =
               IF a # NULL /\ a.pool_id = i /\ p.lists[i] = <<>> THEN <<>> ELSE start_addr[i]
      BY <1>10 DEF Undoes
    <2>2. History(SubSeq(H, 1, n + 1), B, p, start_addr')
      BY <1>1, <2>1, HistoryShrinks DEF n, p
    <2>3. chunk_total' = p.total
      BY <2>1 DEF Now
    <2>4. \A i \in Pool : chunk_total'[i] <= Chunks(i)
      BY <1>4, <1>5, <2>3, ChunksInPage DEF Good, Counted, PoolState
    <2> QED
      BY <1>5, <1>8, <2>1, <2>2, <2>4 DEF LastGoesFirst
  <1> QED
    BY <1>8, <1>9, <1>10

LEMMA PopKeeps ==
  ASSUME IInv, Pop
  PROVE  IInv' /\ LastGoesFirst
  <1> DEFINE B == Front(my_stack)
             a == Last(my_stack)
  <1>1. /\ pc = "shell" /\ my_stack # <<>> /\ my_stack' = B /\ free(a)
        /\ result' = result /\ result = NULL /\ Out = my_stack
    BY DEF Pop, IInv, Out
  <1>2. my_stack \in Seq(Address \cup {NULL}) /\ Len(my_stack) <= STACK_CAPACITY
        /\ STACK_CAPACITY \in Nat
    BY SizeAssumption DEF IInv, TypeOK
  <1>3. /\ B \in Addresses /\ a \in Address \cup {NULL} /\ my_stack = Append(B, a)
        /\ Len(B) <= STACK_CAPACITY
    BY <1>1, <1>2 DEF Front, Last, Addresses
  <1> HIDE DEF B, a
  <1>4. /\ StartTyped' /\ LastGoesFirst /\ Now' \in PoolState
        /\ \A i \in Pool : chunk_total'[i] <= Chunks(i)
        /\ \/ pc' = "undefined"
           \/ pc' = "shell" /\ \E H : History(H, B, Now', start_addr')
    BY <1>1, <1>3, FreeShortens
  <1>5. pc' # "undefined" => HasHistory'
    <2>1. pc' = "shell" => Out' = B
      BY <1>1 DEF Out
    <2> QED
      BY <1>4, <2>1 DEF HasHistory
  <1>6. TypeOK'
    BY <1>1, <1>3, <1>4, TypesOfPools DEF TypeOK, PoolState, StartTyped, Addresses, Now
  <1> QED
    BY <1>1, <1>4, <1>5, <1>6 DEF IInv

LEMMA PushKeeps ==
  ASSUME IInv, Push
  PROVE  IInv' /\ LastGoesFirst
  <1>1. /\ pc = "push" /\ result' = NULL /\ Out = Append(my_stack, result)
    BY DEF Push, Out
  <1>2. /\ my_stack \in Addresses /\ Len(my_stack) <= STACK_CAPACITY
        /\ Len(my_stack) \in Nat /\ STACK_CAPACITY \in Nat
        /\ result \in Address \cup {NULL}
    BY SizeAssumption DEF IInv, TypeOK, Addresses
  <1>3. CASE Len(my_stack) = STACK_CAPACITY
    <2>1. free(result) /\ my_stack' = my_stack
      BY <1>3 DEF Push
    <2>2. /\ StartTyped' /\ LastGoesFirst /\ Now' \in PoolState
          /\ \A i \in Pool : chunk_total'[i] <= Chunks(i)
          /\ \/ pc' = "undefined"
             \/ pc' = "shell" /\ \E H : History(H, my_stack, Now', start_addr')
      BY <1>1, <1>2, <2>1, FreeShortens
    <2>3. pc' # "undefined" => HasHistory'
      <3>1. pc' = "shell" => Out' = my_stack
        BY <2>1 DEF Out
      <3> QED
        BY <2>2, <3>1 DEF HasHistory
    <2>4. TypeOK'
      BY <1>1, <1>2, <2>1, <2>2, TypesOfPools
      DEF TypeOK, PoolState, StartTyped, Addresses, Now
    <2> QED
      BY <1>1, <2>2, <2>3, <2>4 DEF IInv
  <1>4. CASE Len(my_stack) # STACK_CAPACITY
    <2>1. my_stack' = Append(my_stack, result) /\ pc' = "shell"
          /\ UNCHANGED <<pools, granted>>
      BY <1>4 DEF Push
    <2>2. Out' = Out
      BY <1>1, <2>1 DEF Out
    <2>3. HasHistory'
      BY <1>1, <2>1, <2>2 DEF IInv, HasHistory, Now, pools
    <2>4. my_stack' \in Addresses /\ Len(my_stack') <= STACK_CAPACITY
      BY <1>2, <1>4, <2>1 DEF Addresses
    <2>5. TypeOK'
      BY <1>1, <2>1, <2>4 DEF IInv, TypeOK, pools, Addresses
    <2> QED
      BY <1>1, <2>1, <2>3, <2>5 DEF IInv, LastGoesFirst
  <1> QED
    BY <1>3, <1>4

LEMMA InitKeeps == Init => IInv
  <1> SUFFICES ASSUME Init PROVE IInv
    OBVIOUS
  <1>1. TypeOK
    BY SizeAssumption, ChunksInPage DEF Init, TypeOK
  <1>2. Out = <<>> /\ granted = <<>>
    BY DEF Init, Out
  <1>3. Now \in PoolState
    BY <1>1 DEF PoolState, Now, TypeOK
  <1>4. Good(Now, <<>>, 0)
    <2>1. Counted(Now)
      BY ChunksInPage DEF Init, Now, Counted
    <2>2. Apart(<<>>, 0)
      BY DEF Apart
    <2>3. \A i \in Pool : 1 .. Len(Now.lists[i]) = {}
      BY DEF Init, Now
    <2> QED
      BY <2>1, <2>2, <2>3 DEF Good, ListsApart, ListsFree, AllGranted
  <1>5. History(<<Now>>, <<>>, Now, start_addr)
    <2>1. <<>> \in Addresses /\ <<Now>> \in Seq(PoolState) /\ Len(<<>>) = 0
          /\ Len(<<Now>>) = 1 /\ <<Now>>[1] = Now
      BY <1>3 DEF Addresses
    <2>2. Now.granted = <<>>
      BY <1>2 DEF Now
    <2>3. PagesKnown(<<Now>>, <<>>, start_addr)
      BY DEF Init, PagesKnown
    <2> QED
      BY <1>4, <2>1, <2>2, <2>3 DEF History
  <1> QED
    BY <1>1, <1>2, <1>5 DEF IInv, HasHistory, Init

LEMMA NextKeeps ==
  ASSUME IInv, [Next]_vars
  PROVE  IInv' /\ LastGoesFirst
  <1>1. CASE UNCHANGED vars
    <2>1. UNCHANGED <<Out, Now, start_addr, pc, result, granted>>
      BY <1>1 DEF vars, pools, Out, Now
    <2>2. TypeOK'
      BY <1>1 DEF vars, pools, IInv, TypeOK
    <2> QED
      BY <2>1, <2>2 DEF IInv, HasHistory, LastGoesFirst
  <1> QED
    BY <1>1, AllocKeeps, PushKeeps, PopKeeps DEF Next

LEMMA Inductive == Spec => []IInv
  <1>1. IInv /\ [Next]_vars => IInv'
    BY NextKeeps
  <1> QED
    BY <1>1, InitKeeps, PTL DEF Spec

-----------------------------------------------------------------------------
(* What pool_alloc, pool_free and the shell's stack promise together: no   *)
(* memory is given out twice or is in use and in a free list, chunk_total  *)
(* counts the free chunks, and nothing is kept when the shell has freed    *)
(* all it had; for every choice of pools and page size, until free_block   *)
(* gets a null page.                                                       *)
THEOREM NoMemoryTwice == Spec => []PoolsExact
  <1>1. IInv => PoolsExact
    <2> SUFFICES ASSUME IInv PROVE PoolsExact
      OBVIOUS
    <2>1. TypeOK
      BY DEF IInv
    <2>2. CASE pc = "undefined"
      BY <2>1, <2>2 DEF PoolsExact, ChunkUsedOnce, CountExact, NothingLeft
    <2>3. CASE pc # "undefined"
      <3>1. PICK H : History(H, Out, Now, start_addr)
        BY <2>3 DEF IInv, HasHistory
      <3> DEFINE n == Len(Out)
      <3>2. Now \in PoolState /\ Good(Now, Out, n) /\ n \in Nat
        BY <2>1, <3>1, NowIsGood
      <3>3. Now.total = chunk_total /\ Now.lists = free_list /\ Now.granted = granted
        BY DEF Now
      <3>4. my_stack \in Addresses /\ result \in Address \cup {NULL}
            /\ (pc = "shell" => result = NULL)
        BY DEF IInv, TypeOK, Addresses
      <3>5. \A s \in DOMAIN my_stack : s \in 1 .. n /\ Out[s] = my_stack[s]
        BY <3>4 DEF Out, Addresses
      <3>6. ASSUME NEW a \in Held PROVE \E s \in 1 .. n : Some(Out, s) /\ Out[s] = a
        <4> DEFINE u == my_stack \o <<result>>
        <4>1. PICK s \in DOMAIN u : u[s] = a
          BY DEF Held, Range
        <4>2. a # NULL
          BY DEF Held
        <4>3. DOMAIN u = 1 .. Len(my_stack) + 1 /\ u[Len(my_stack) + 1] = result
              /\ \A k \in 1 .. Len(my_stack) : u[k] = my_stack[k]
          BY <3>4 DEF Addresses
        <4>4. DOMAIN my_stack = 1 .. Len(my_stack) /\ Len(my_stack) \in Nat
          BY <3>4 DEF Addresses
        <4> HIDE DEF u, n
        <4>5. CASE s \in 1 .. Len(my_stack)
          BY <3>5, <4>1, <4>2, <4>3, <4>4, <4>5 DEF Some
        <4>6. CASE s = Len(my_stack) + 1
          <5>1. pc = "push" /\ a = result
            BY <2>3, <3>4, <4>1, <4>2, <4>3, <4>6, <2>1 DEF TypeOK
          <5>2. n = Len(my_stack) + 1 /\ Out[n] = result
            BY <3>4, <5>1 DEF Out, n, Addresses
          <5>3. n \in 1 .. n
            BY <4>4, <5>2
          <5> QED
            BY <4>2, <5>1, <5>2, <5>3 DEF Some
        <4> QED
          BY <4>1, <4>3, <4>4, <4>5, <4>6
      <3> HIDE DEF n
      <3>7. \A a \in Held : a.chunk[1] \in Range(granted)
        BY <3>2, <3>3, <3>6 DEF Good, AllGranted
      <3>8. \A s, t \in DOMAIN my_stack :
              s # t /\ my_stack[s] # NULL /\ my_stack[t] # NULL =>
                my_stack[s].chunk # my_stack[t].chunk
        BY <3>2, <3>5 DEF Good, Apart, Some
      <3>9. ASSUME NEW i \in Pool, NEW c \in Range(free_list[i])
            PROVE  c[1] \in Range(granted) /\ \A a \in Held : a.chunk # c
        <4>1. free_list[i] \in Seq(Chunk)
          BY <2>1 DEF TypeOK
        <4>2. PICK k \in 1 .. Len(free_list[i]) : free_list[i][k] = c
          BY <4>1 DEF Range
        <4> QED
          BY <3>2, <3>3, <3>6, <4>2 DEF Good, AllGranted, ListsFree
      <3>10. \A a, b \in Held : a.chunk[1] = b.chunk[1] => a.pool_id = b.pool_id
        BY <3>2, <3>6 DEF Good, Apart
      <3>11. CountExact
        BY <3>2, <3>3 DEF Good, Counted, CountExact
      <3>12. NothingLeft
        <4> SUFFICES ASSUME pc = "shell", my_stack = <<>> PROVE granted = <<>>
          BY DEF NothingLeft
        <4>1. Len(Out) = 0
          BY DEF Out
        <4> QED
          BY <3>1, <3>3, <4>1 DEF History
      <3> QED
        BY <2>1, <3>7, <3>8, <3>9, <3>10, <3>11, <3>12 DEF PoolsExact, ChunkUsedOnce
    <2> QED
      BY <2>2, <2>3
  <1> QED
    BY <1>1, Inductive, PTL

(* The pools are a client that Buddy assumes: free_block gets the block    *)
(* that alloc_block granted last.                                          *)
THEOREM LastBlockFirst == Spec => BlocksGivenBackInOrder
  <1>1. IInv /\ [Next]_vars =>
          [\A b \in Range(granted) : b \notin Range(granted)' => b = Last(granted)]_vars
    BY NextKeeps DEF LastGoesFirst, Range
  <1> QED
    BY <1>1, Inductive, PTL DEF Spec, BlocksGivenBackInOrder

===============================================================================
