-------------------------------- MODULE Buddy --------------------------------
(***************************************************************************)
(* The buddy system of the heap (lab5/src/allocator.c): alloc_block and    *)
(* free_block on page_array and its free lists, and their one client, the  *)
(* shell, which keeps what it allocated on my_stack and gives back the     *)
(* block it got last (the commands "alloc" and "free", for sizes no pool   *)
(* serves).                                                                *)
(*                                                                         *)
(* The lists are modelled pointer by pointer, since what goes wrong with   *)
(* them is a matter of pointers.  The loops that split and merge make one  *)
(* step per round; no interrupt handler allocates, so nothing comes        *)
(* between two rounds.  A page is its index in page_array.                 *)
(***************************************************************************)
EXTENDS Integers, FiniteSets, Sequences, SequencesExt

CONSTANTS
  HEAP_ORDER_MAX,  \* order of the whole heap (12)
  STACK_CAPACITY,  \* blocks my_stack holds (128)
  MaxRequest       \* bound: pages asked for at once

ASSUME HeapAssumption == HEAP_ORDER_MAX \in Nat \ {0}
ASSUME StackAssumption == STACK_CAPACITY \in Nat \ {0}
ASSUME RequestAssumption == MaxRequest \in Nat

(* 1 << k, by recursion as a shift works, and to be reasoned about.        *)
Pow2[k \in Nat] == IF k = 0 THEN 1 ELSE 2 * Pow2[k - 1]

PAGE_NUM == Pow2[HEAP_ORDER_MAX]
Page == 0 .. PAGE_NUM - 1
Order == 0 .. HEAP_ORDER_MAX
NULL == -1

ALLOCATED == 2
NOT_ALLOCATED == 1
BELONG_LARGER_BLOCK == 0

VARIABLES
  order,         \* [Page -> Order or -1]
  status,        \* [Page -> status]
  next,          \* [Page -> Page or NULL]
  free_list,     \* [Order -> Page or NULL]
  pc,            \* "shell"; "split" in alloc_block; "push" when it has
                 \* returned; "merge" in free_block
  block,         \* the local of that function
  target_order,  \* local of alloc_block
  min_order,     \* local of alloc_block
  required_pages,  \* local of alloc_block
  my_stack       \* Seq of [page, order]: what the shell holds, NULL for a
                 \* request that failed

array == <<order, status, next>>
request == <<required_pages, min_order>>
locals == <<block, target_order, request>>
vars == <<array, free_list, pc, locals, my_stack>>

Held == {my_stack[i] : i \in {j \in DOMAIN my_stack : my_stack[j].page # NULL}}

TypeOK ==
  /\ order \in [Page -> Order \cup {-1}]
  /\ status \in [Page -> {ALLOCATED, NOT_ALLOCATED, BELONG_LARGER_BLOCK}]
  /\ next \in [Page -> Page \cup {NULL}]
  /\ free_list \in [Order -> Page \cup {NULL}]
  /\ pc \in {"shell", "split", "push", "merge"}
  /\ block \in Page /\ target_order \in Order /\ min_order \in Order
  /\ required_pages \in 0 .. MaxRequest
  /\ my_stack \in Seq([page : Page \cup {NULL}, order : Order])
  /\ Len(my_stack) <= STACK_CAPACITY

-----------------------------------------------------------------------------
(* Blocks and lists.                                                       *)

Pages(p, k) == p .. p + Pow2[k] - 1

(* idx ^ (1 << order)                                                      *)
get_buddy(p, k) ==
  IF (p \div Pow2[k]) % 2 = 0 THEN p + Pow2[k] ELSE p - Pow2[k]

(* The n-th node of the list of order k, if it has as many.                *)
Node(k) ==
  LET node[n \in 0 .. PAGE_NUM] ==
        IF n = 0 THEN free_list[k]
        ELSE IF node[n - 1] = NULL THEN NULL ELSE next[node[n - 1]]
  IN node

Listed(k) == Range(Node(k)) \ {NULL}

(* How often m is shifted right until nothing is left.                     *)
Shifts[m \in Nat] == IF m = 0 THEN 0 ELSE 1 + Shifts[m \div 2]

(* [mutant of get_min_order] n is not counted down first *)
OrderOfNext(n) == Shifts[n]

(* The order of n pages.                                                   *)
get_min_order(n) == IF n = 0 THEN 0 ELSE Shifts[n - 1]

-----------------------------------------------------------------------------
(* alloc_block                                                             *)

FirstNonEmpty(k, t) ==
  t >= k /\ free_list[t] # NULL /\ \A u \in k .. t - 1 : free_list[u] = NULL

(* The block's next is cleared before it is read: the list loses all of    *)
(* its blocks, not only the first.                                         *)
TakeBlock(n, k) ==
  \E t \in Order :
    /\ FirstNonEmpty(k, t)
    /\ pc' = "split"
    /\ block' = free_list[t]
    /\ target_order' = t /\ min_order' = k /\ required_pages' = n
    /\ next' = [next EXCEPT ![free_list[t]] = NULL]
    /\ free_list' = [free_list EXCEPT ![t] = next'[free_list[t]]]
    /\ UNCHANGED <<order, status, my_stack>>

stack_push(item) ==
  my_stack' = IF Len(my_stack) = STACK_CAPACITY THEN my_stack
                                                ELSE Append(my_stack, item)

(* A request too large, or that finds every list empty: the shell pushes   *)
(* the null pointer it gets.                                               *)
NoBlock(k) ==
  /\ \A t \in Order : ~FirstNonEmpty(k, t)
  /\ stack_push([page |-> NULL, order |-> 0])
  /\ UNCHANGED <<array, free_list, pc, locals>>

(* A size near 2^31 overflows when it is rounded up: it asks for 0 pages.   *)
alloc_block ==
  /\ pc = "shell"
  /\ \E n \in 0 .. MaxRequest :
       LET k == get_min_order(n) IN TakeBlock(n, k) \/ NoBlock(k)

(* [mutant of split_block] target_order is not counted down: what is left  *)
(* to do is never done                                                     *)
SplitUncounted ==
  LET k == order[block] - 1
      right == block + Pow2[k]
  IN
  /\ pc = "split" /\ target_order > min_order
  /\ IF order[block] = 0 THEN UNCHANGED vars
     ELSE /\ order' = [order EXCEPT ![block] = k, ![right] = k]
          /\ status' = [status EXCEPT ![block] = NOT_ALLOCATED,
                                      ![right] = NOT_ALLOCATED]
          /\ next' = [next EXCEPT ![block] = NULL, ![right] = free_list[k]]
          /\ free_list' = [free_list EXCEPT ![k] = right]
          /\ UNCHANGED <<pc, locals, my_stack>>

(* [mutant of split_block] the right half is not put into the list *)
SplitDropsRight ==
  LET k == order[block] - 1
      right == block + Pow2[k]
  IN
  /\ pc = "split" /\ target_order > min_order
  /\ order' = [order EXCEPT ![block] = k, ![right] = k]
  /\ status' = [status EXCEPT ![block] = NOT_ALLOCATED, ![right] = NOT_ALLOCATED]
  /\ next' = [next EXCEPT ![block] = NULL, ![right] = free_list[k]]
  /\ target_order' = target_order - 1
  /\ UNCHANGED <<pc, block, free_list, request, my_stack>>

(* split_block: the right half becomes the head of its list.               *)
split_block ==
  LET k == order[block] - 1
      right == block + Pow2[k]
  IN
  /\ pc = "split" /\ target_order > min_order
  /\ order' = [order EXCEPT ![block] = k, ![right] = k]
  /\ status' = [status EXCEPT ![block] = NOT_ALLOCATED, ![right] = NOT_ALLOCATED]
  /\ next' = [next EXCEPT ![block] = NULL, ![right] = free_list[k]]
  /\ free_list' = [free_list EXCEPT ![k] = right]
  /\ target_order' = target_order - 1
  /\ UNCHANGED <<pc, block, request, my_stack>>

(* The block is marked, and alloc_block returns it to the shell.           *)
Grant ==
  /\ pc = "split" /\ target_order = min_order
  /\ status' = [status EXCEPT ![block] = ALLOCATED]
  /\ pc' = "push"
  /\ UNCHANGED <<order, next, free_list, locals, my_stack>>

-----------------------------------------------------------------------------
(* free and free_block                                                     *)

(* A block not marked as allocated is refused; the block of the whole heap *)
(* is marked as free and put into no list.                                 *)
free(p) ==
  /\ IF status[p] # ALLOCATED THEN UNCHANGED <<status, block>> /\ pc' = "shell"
     ELSE /\ status' = [status EXCEPT ![p] = NOT_ALLOCATED]
          /\ block' = p
          /\ pc' = IF order[p] = HEAP_ORDER_MAX THEN "shell" ELSE "merge"
  /\ UNCHANGED <<order, next, free_list, target_order, request>>

(* The shell pushes the block, or frees it when the stack is full.         *)
Push ==
  /\ pc = "push"
  /\ stack_push([page |-> block, order |-> min_order])
  /\ IF Len(my_stack) = STACK_CAPACITY THEN free(block)
     ELSE pc' = "shell" /\ UNCHANGED <<array, free_list, locals>>

(* The command "free".  A null pointer on the stack is only taken off.     *)
Pop ==
  /\ pc = "shell" /\ my_stack # <<>>
  /\ my_stack' = Front(my_stack)
  /\ IF Last(my_stack).page = NULL THEN UNCHANGED <<array, free_list, pc, locals>>
                                   ELSE free(Last(my_stack).page)

(* [mutant of remove_free_list] the block is left in the list *)
LeaveListed(b) == UNCHANGED <<free_list, next>>

(* remove_free_list: unlinks b from the list of its order, if it is there. *)
remove_free_list(b) ==
  LET k == order[b] IN
  IF free_list[k] = b
  THEN /\ free_list' = [free_list EXCEPT ![k] = next[b]]
       /\ next' = [next EXCEPT ![b] = NULL]
  ELSE /\ next' = IF b \notin Listed(k) THEN next
                  ELSE [next EXCEPT
                          ![CHOOSE p \in Listed(k) : next[p] = b] = next[b],
                          ![b] = NULL]
       /\ UNCHANGED free_list

Buddy == get_buddy(block, order[block])

(* The buddy is free: its order is not looked at.                          *)
MergesBuddy == order[block] # HEAP_ORDER_MAX /\ status[Buddy] = NOT_ALLOCATED

(* One round of the loop.                                                  *)
Merge ==
  LET left == IF block < Buddy THEN block ELSE Buddy
      right == IF block < Buddy THEN Buddy ELSE block
  IN
  /\ pc = "merge" /\ MergesBuddy
  /\ remove_free_list(Buddy)
  /\ order' = [order EXCEPT ![left] = order[block] + 1, ![right] = -1]
  /\ status' = [status EXCEPT ![left] = NOT_ALLOCATED,
                              ![right] = BELONG_LARGER_BLOCK]
  /\ block' = left
  /\ UNCHANGED <<pc, target_order, request, my_stack>>

PutBack ==
  /\ pc = "merge" /\ ~MergesBuddy
  /\ next' = [next EXCEPT ![block] = free_list[order[block]]]
  /\ free_list' = [free_list EXCEPT ![order[block]] = block]
  /\ pc' = "shell"
  /\ UNCHANGED <<order, status, locals, my_stack>>

-----------------------------------------------------------------------------
(* buddy_init                                                              *)
Init ==
  /\ order = [p \in Page |-> IF p = 0 THEN HEAP_ORDER_MAX ELSE -1]
  /\ status = [p \in Page |-> IF p = 0 THEN NOT_ALLOCATED
                                       ELSE BELONG_LARGER_BLOCK]
  /\ next = [p \in Page |-> NULL]
  /\ free_list = [k \in Order |-> IF k = HEAP_ORDER_MAX THEN 0 ELSE NULL]
  /\ pc = "shell"
  /\ block = 0 /\ target_order = 0 /\ min_order = 0 /\ required_pages = 0
  /\ my_stack = <<>>

Next ==
  \/ alloc_block \/ split_block \/ Grant
  \/ Push \/ Pop \/ Merge \/ PutBack

(* The functions run to their end; the shell may stop giving commands.     *)
Spec ==
  Init /\ [][Next]_vars /\ WF_vars(split_block \/ Grant \/ Push \/ Merge \/ PutBack)

-----------------------------------------------------------------------------
(* Properties.                                                             *)

(* The order of a request, found by shifting, is the smallest whose blocks *)
(* have as many pages as are required.                                     *)
MinOrderFits ==
  pc \in {"split", "push"} =>
    /\ Pow2[min_order] >= required_pages
    /\ min_order > 0 => Pow2[min_order - 1] < required_pages

(* Who has page p, at the prompt: blocks the shell holds and blocks in a   *)
(* free list, as <<first page, order>>.                                    *)
Owners(p) ==
  {<<"held", b.page, b.order>> :
      b \in {b \in Held : p \in Pages(b.page, b.order)}}
  \cup UNION {{<<"free", q, k>> :
      q \in {q \in Listed(k) : p \in Pages(q, k)}} : k \in Order}

(* No page is given out twice, or given out and free.                      *)
OneOwner ==
  pc = "shell" => \A p \in Page : Cardinality(Owners(p)) <= 1

(* What the block headers say agrees with the lists and with the stack: a  *)
(* block in a list is free, of that list's order and aligned to its size;  *)
(* a block the shell holds is marked as allocated and still has its order, *)
(* so that giving it back is not refused.  The walk through a list ends.   *)
HeadersAgree ==
  pc = "shell" =>
    /\ \A k \in Order : \A p \in Listed(k) :
         order[p] = k /\ status[p] = NOT_ALLOCATED /\ p % Pow2[k] = 0
    /\ \A b \in Held : order[b.page] = b.order /\ status[b.page] = ALLOCATED
    /\ \A k \in Order : Node(k)[PAGE_NUM] = NULL

(* At the prompt no two buddies are both free: free_block has merged all   *)
(* that can be merged.                                                     *)
Coalesced ==
  pc = "shell" => \A k \in Order \ {HEAP_ORDER_MAX} : \A p \in Listed(k) :
    get_buddy(p, k) \notin Listed(k)

(* alloc_block cuts off all that is behind the first block of a list.      *)
(* Nothing is ever behind it: blocks come back in the reverse order, and   *)
(* what is free of an order is at most one block.                          *)
NothingCutOff ==
  \A k \in Order : free_list[k] # NULL => next[free_list[k]] = NULL

(* The heap is sound, for a client that frees in reverse order.            *)
HeapSound == TypeOK /\ OneOwner /\ HeadersAgree /\ Coalesced /\ NothingCutOff

(* A call of alloc_block or free_block comes back to the prompt.           *)
CallsReturn == pc # "shell" ~> pc = "shell"

(* Pages are lost only all at once: at the prompt a page is held or can be *)
(* allocated, unless the block of the whole heap has been freed.           *)
LostOnlyWhole ==
  pc = "shell" =>
    \/ \A p \in Page : Owners(p) # {}
    \/ order[0] = HEAP_ORDER_MAX /\ status[0] = NOT_ALLOCATED

=============================================================================
