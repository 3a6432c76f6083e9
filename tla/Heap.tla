--------------------------------- MODULE Heap ---------------------------------
(***************************************************************************)
(* malloc and free (lab5/src/allocator.c): pools of equal chunks for small *)
(* requests, blocks of the buddy system for the others, and the shell, the *)
(* one client, which gives back what it got last.                          *)
(*                                                                         *)
(* The buddy system is seen from above: a set of blocks, one page or more  *)
(* each, some of them granted.  Buddy models it, for a client that gives   *)
(* blocks back in the reverse order (BlocksGivenBackInOrder says that the  *)
(* pools are one).  A chunk is <<its page, its number in the page>>; chunk *)
(* 0 of a block stands for the block of a request no pool serves.          *)
(***************************************************************************)
EXTENDS Integers, FiniteSets, Sequences, SequencesExt

CONSTANTS
  POOL_NUM,         \* pools (8)
  pool_size_class,  \* [1 .. POOL_NUM -> Nat], increasing (16 .. 2048)
  PAGE_SIZE,        \* 4096
  HEADER,           \* sizeof(chunk_header_t), 8
  IntRange,         \* 2^32: values of an int, and of an unsigned int
  STACK_CAPACITY,   \* addresses my_stack holds (128)
  Block,            \* bound: blocks of the buddy system
  Requests          \* bound: the sizes a user asks for

Pool == 1 .. POOL_NUM

ASSUME PoolAssumption ==
  /\ POOL_NUM \in Nat \ {0}
  /\ pool_size_class \in [Pool -> Nat \ {0}]
  /\ \A i, j \in Pool : i < j => pool_size_class[i] < pool_size_class[j]
  /\ \A i \in Pool : 2 * pool_size_class[i] <= PAGE_SIZE
ASSUME SizeAssumption ==
  /\ PAGE_SIZE \in Nat /\ HEADER \in Nat
  /\ IntRange \in Nat \ {0}
  /\ STACK_CAPACITY \in Nat \ {0}
  /\ Requests \subseteq Nat

POOL_ID_MAX == POOL_NUM + 1   \* 0xFFFFFFFF: the header of a block
NULL == <<>>

VARIABLES
  chunk_total,  \* [Pool -> Nat]: free chunks
  free_list,    \* [Pool -> Seq(chunk)]
  start_addr,   \* [Pool -> <<>> or <<page>>]
  granted,      \* Seq(Block): what alloc_block granted and still is, oldest
                \* first
  pc,           \* "shell"; "push" when malloc has returned; "undefined"
                \* when free_block got a wild pointer
  result,       \* what malloc returned
  my_stack      \* Seq of results

pools == <<chunk_total, free_list, start_addr>>
vars == <<pools, granted, pc, result, my_stack>>

Chunks(i) == PAGE_SIZE \div pool_size_class[i]
Chunk == Block \X (0 .. PAGE_SIZE)

(* An address is a chunk with the pool_id in its header; the size that was *)
(* asked for is kept beside it.                                            *)
Address == [chunk : Chunk, pool_id : Pool \cup {POOL_ID_MAX}, size : Requests]

TypeOK ==
  /\ chunk_total \in [Pool -> Nat]
  /\ \A i \in Pool : chunk_total[i] <= Chunks(i)
  /\ free_list \in [Pool -> Seq(Chunk)]
  /\ start_addr \in [Pool -> Seq(Block)] /\ \A i \in Pool : Len(start_addr[i]) <= 1
  /\ granted \in Seq(Block)
  /\ pc \in {"shell", "push", "undefined"}
  /\ result \in Address \cup {NULL}
  /\ my_stack \in Seq(Address \cup {NULL}) /\ Len(my_stack) <= STACK_CAPACITY

-----------------------------------------------------------------------------
(* malloc                                                                  *)

(* The size goes from unsigned long to int, and back to unsigned int when  *)
(* it is compared with a chunk_size: a negative int is a large number.     *)
ToUnsigned(size) == size % IntRange

Fits(size, i) == ToUnsigned(size) <= pool_size_class[i]

(* The smallest pool whose chunks are as large as the size; the header     *)
(* that comes before the data is not counted.                              *)
PoolFor(size, i) == Fits(size, i) /\ \A j \in Pool : j < i => ~Fits(size, j)

Ungranted == Block \ Range(granted)

Returns(chunk, id, size) ==
  /\ result' = [chunk |-> chunk, pool_id |-> id, size |-> size]
  /\ pc' = "push"
  /\ UNCHANGED my_stack

FromFreeList(i, size) ==
  /\ free_list[i] # <<>>
  /\ free_list' = [free_list EXCEPT ![i] = Tail(@)]
  /\ chunk_total' = [chunk_total EXCEPT ![i] = @ - 1]
  /\ Returns(Head(free_list[i]), i, size)
  /\ UNCHANGED <<start_addr, granted>>

(* The chunks of a new page are pushed to the empty list one by one, and   *)
(* the last is taken.  The page takes the place of the pool's earlier one. *)
FromNewPage(i, size) ==
  LET last == Chunks(i) - 1 IN
  /\ free_list[i] = <<>>
  /\ \E b \in Ungranted :
       /\ granted' = Append(granted, b)
       /\ free_list' = [free_list EXCEPT ![i] =
                          [j \in 1 .. last |-> <<b, last - j>>]]
       /\ start_addr' = [start_addr EXCEPT ![i] = <<b>>]
       /\ Returns(<<b, last>>, i, size)
  /\ chunk_total' = [chunk_total EXCEPT ![i] = last]

pool_alloc(i, size) == FromFreeList(i, size) \/ FromNewPage(i, size)

FromBuddy(size) ==
  /\ \A i \in Pool : ~Fits(size, i)
  /\ \E b \in Ungranted : granted' = Append(granted, b)
                          /\ Returns(<<b, 0>>, POOL_ID_MAX, size)
  /\ UNCHANGED pools

(* No page for a pool: malloc asks the buddy system again, for as much,    *)
(* and fails again.  No block large enough: there may be smaller ones.     *)
NoMemory(size) ==
  /\ \A i \in Pool : PoolFor(size, i) => free_list[i] = <<>> /\ Ungranted = {}
  /\ result' = NULL
  /\ pc' = "push"
  /\ UNCHANGED <<pools, granted, my_stack>>

malloc(size) ==
  \/ \E i \in Pool : PoolFor(size, i) /\ pool_alloc(i, size)
  \/ FromBuddy(size)
  \/ NoMemory(size)

-----------------------------------------------------------------------------
(* free                                                                    *)

free_block(b) ==
  granted' = IF b \in Range(granted)
               THEN RemoveAt(granted, CHOOSE k \in DOMAIN granted : granted[k] = b)
               ELSE granted

(* [mutant of PoolEmpty] compared before the chunk is counted *)
PoolEmptyLate(i) == chunk_total[i] = Chunks(i)

(* The chunk now given back makes the count full.                          *)
PoolEmpty(i) == chunk_total[i] + 1 = Chunks(i)

(* All chunks are free: the pool's page is given back.  When the pool has  *)
(* had two pages and has given back the later one, start_addr is null.     *)
FreePoolPage(i) ==
  /\ free_list' = [free_list EXCEPT ![i] = <<>>]
  /\ chunk_total' = [chunk_total EXCEPT ![i] = 0]
  /\ start_addr' = [start_addr EXCEPT ![i] = <<>>]
  /\ IF start_addr[i] = <<>> THEN pc' = "undefined" /\ UNCHANGED granted
                             ELSE pc' = "shell" /\ free_block(start_addr[i][1])

pool_free(chunk, i) ==
  IF PoolEmpty(i) THEN FreePoolPage(i)
  ELSE /\ free_list' = [free_list EXCEPT ![i] = <<chunk>> \o @]
       /\ chunk_total' = [chunk_total EXCEPT ![i] = @ + 1]
       /\ pc' = "shell"
       /\ UNCHANGED <<start_addr, granted>>

free(addr) ==
  IF addr = NULL THEN pc' = "shell" /\ UNCHANGED <<pools, granted>>
  ELSE IF addr.pool_id = POOL_ID_MAX
  THEN free_block(addr.chunk[1]) /\ pc' = "shell" /\ UNCHANGED pools
  ELSE pool_free(addr.chunk, addr.pool_id)

-----------------------------------------------------------------------------
(* The shell.                                                              *)

Alloc == pc = "shell" /\ \E size \in Requests : malloc(size)

(* What malloc returned is pushed, null or not, or freed again at once.    *)
Push ==
  /\ pc = "push"
  /\ result' = NULL
  /\ IF Len(my_stack) = STACK_CAPACITY THEN free(result) /\ UNCHANGED my_stack
     ELSE /\ my_stack' = Append(my_stack, result)
          /\ pc' = "shell"
          /\ UNCHANGED <<pools, granted>>

(* [mutant of Pop] the oldest address is taken *)
PopOldest ==
  /\ pc = "shell" /\ my_stack # <<>>
  /\ my_stack' = Tail(my_stack)
  /\ free(Head(my_stack))
  /\ UNCHANGED result

Pop ==
  /\ pc = "shell" /\ my_stack # <<>>
  /\ my_stack' = Front(my_stack)
  /\ free(Last(my_stack))
  /\ UNCHANGED result

(* pool_init                                                               *)
Init ==
  /\ chunk_total = [i \in Pool |-> 0]
  /\ free_list = [i \in Pool |-> <<>>]
  /\ start_addr = [i \in Pool |-> <<>>]
  /\ granted = <<>>
  /\ pc = "shell" /\ result = NULL /\ my_stack = <<>>

Next == Alloc \/ Push \/ Pop

Spec == Init /\ [][Next]_vars

-----------------------------------------------------------------------------
(* Properties.                                                             *)

Held == Range(my_stack \o <<result>>) \ {NULL}

(* No memory is used twice: an address is given out once, its page has not *)
(* been given back, it is not in a free list, and the block of a large     *)
(* request is not a page of a pool.                                        *)
ChunkUsedOnce ==
  pc # "undefined" =>
    /\ \A a \in Held : a.chunk[1] \in Range(granted)
    /\ \A s, t \in DOMAIN my_stack :
         s # t /\ my_stack[s] # NULL /\ my_stack[t] # NULL =>
           my_stack[s].chunk # my_stack[t].chunk
    /\ \A i \in Pool : \A c \in Range(free_list[i]) :
         c[1] \in Range(granted) /\ \A a \in Held : a.chunk # c
    /\ \A a, b \in Held : a.chunk[1] = b.chunk[1] => a.pool_id = b.pool_id

(* chunk_total counts the free list, although a new page overwrites it:    *)
(* that happens only when the list is empty.                               *)
CountExact ==
  pc # "undefined" => \A i \in Pool : chunk_total[i] = Len(free_list[i])

(* A client that gives back last what it got first makes the pools do the  *)
(* same with their pages: free_block gets the block granted last.          *)
BlocksGivenBackInOrder ==
  [][\A b \in Range(granted) : b \notin Range(granted)' => b = Last(granted)]_vars

(* When the shell has given everything back, so have the pools.            *)
NothingLeft == pc = "shell" /\ my_stack = <<>> => granted = <<>>

(* The pools use no memory twice and keep none, and their counts say so.   *)
PoolsExact == TypeOK /\ ChunkUsedOnce /\ CountExact /\ NothingLeft

(* "check the chunk total,if all chunks in the pool are free,then free the *)
(* page back to buddy system" (allocator.c): there is a page to free.      *)
PageToFree == pc # "undefined"

=============================================================================
