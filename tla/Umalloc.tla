------------------------------ MODULE Umalloc ------------------------------
(***************************************************************************)
(* malloc and free (umalloc.c): a circular list of free blocks, ordered by *)
(* address, with a pointer freep into it.  Addresses count headers (units  *)
(* of sizeof(Header)); the static header base lies below the heap, at 0.   *)
(***************************************************************************)
EXTENDS Naturals, FiniteSetsExt, TLC

CONSTANTS
  HEAP,      \* units the process can get from sbrk
  NALLOC,    \* what morecore asks for at least (4096)
  HEADER,    \* sizeof(Header)
  Requests   \* sizes in bytes

VARIABLES
  next,    \* s.ptr of base and of the free blocks
  size,    \* s.size of every block
  freep,   \* 0 before the first malloc as well: it is base then
  brk,     \* the end of the heap
  mine     \* the blocks malloc gave out: block -> bytes asked for

heapvars == <<next, size, freep, brk, mine>>
BASE == 0

HeapInit ==
  /\ next = (BASE :> BASE) /\ size = (BASE :> 0)
  /\ freep = BASE /\ brk = 1
  /\ mine = << >>

-----------------------------------------------------------------------------
(* A heap as a value h: next, size, freep. *)

HeapNow == [next |-> next, size |-> size, freep |-> freep, brk |-> brk]
Without(f, a) == [b \in DOMAIN f \ {a} |-> f[b]]

\* free's loop: where the block bp goes in the list, from p on.
RECURSIVE Place(_, _, _)
Place(h, bp, p) ==
  LET q == h.next[p]
  IN IF (bp > p /\ bp < q) \/ (p >= q /\ (bp > p \/ bp < q)) THEN p ELSE Place(h, bp, q)

\* free that joins the block with the one above it only.
JoinBelowNot(h, p, bp) == [h EXCEPT !.next[p] = bp, !.freep = p]

\* free's second half: bp is joined to the block p below it, or linked.
JoinBelow(h, p, bp) ==
  IF p + h.size[p] = bp
  THEN [h EXCEPT !.size = Without([@ EXCEPT ![p] = @ + h.size[bp]], bp),
                 !.next = Without([@ EXCEPT ![p] = h.next[bp]], bp), !.freep = p]
  ELSE [h EXCEPT !.next[p] = bp, !.freep = p]

free(h, bp) ==
  LET p == Place(h, bp, h.freep)
      q == h.next[p]
      up == IF bp + h.size[bp] = q
            THEN [h EXCEPT !.size = Without([@ EXCEPT ![bp] = @ + h.size[q]], q),
                           !.next = (bp :> h.next[q]) @@ Without(@, q)]
            ELSE [h EXCEPT !.next = (bp :> q) @@ @]
  IN JoinBelow(up, p, bp)

\* morecore: sbrk, and the new memory is freed into the list.
morecore(h, nu) ==
  LET n == IF nu < NALLOC THEN NALLOC ELSE nu
  IN free([h EXCEPT !.size = (h.brk :> n) @@ @, !.brk = @ + n], h.brk)
CanSbrk(h, nu) == h.brk + (IF nu < NALLOC THEN NALLOC ELSE nu) <= HEAP + 1

\* malloc cuts the tail off a larger block.
CutTail(h, prev, p, n) ==
  LET a == p + h.size[p] - n
  IN [h |-> [h EXCEPT !.size = (a :> n) @@ [@ EXCEPT ![p] = @ - n], !.freep = prev], p |-> a]

\* malloc's loop; p = BASE in the result: no memory.
RECURSIVE FirstFit(_, _, _, _)
FirstFit(h, prev, p, n) ==
  IF h.size[p] = n
  THEN [h |-> [h EXCEPT !.next = Without([@ EXCEPT ![prev] = h.next[p]], p), !.freep = prev], p |-> p]
  ELSE IF h.size[p] > n THEN CutTail(h, prev, p, n)
  ELSE IF p # h.freep THEN FirstFit(h, p, h.next[p], n)
  ELSE IF CanSbrk(h, n)
  THEN LET m == morecore(h, n) IN FirstFit(m, m.freep, m.next[m.freep], n)
  ELSE [h |-> h, p |-> BASE]

Units(nbytes) == (nbytes + HEADER - 1) \div HEADER + 1
malloc(h, nbytes) == FirstFit(h, h.freep, h.next[h.freep], Units(nbytes))

-----------------------------------------------------------------------------
HeapBecomes(h) == next' = h.next /\ size' = h.size /\ freep' = h.freep /\ brk' = h.brk

Malloc(n) ==
  LET r == malloc(HeapNow, n)
  IN /\ HeapBecomes(r.h)
     /\ mine' = IF r.p = BASE THEN mine ELSE (r.p :> n) @@ mine

Free(b) ==
  /\ HeapBecomes(free(HeapNow, b))
  /\ mine' = Without(mine, b)

HeapNext == (\E n \in Requests : Malloc(n)) \/ (\E b \in DOMAIN mine : Free(b))

-----------------------------------------------------------------------------
Span(b) == b..(b + size[b] - 1)

FreeAbove(a) == {b \in DOMAIN next : b > a}

\* Every unit of the heap is in exactly one block, free or given out, and a
\* block given out is large enough for its header and the bytes asked for; the
\* free list goes once around all free blocks in the order of their addresses,
\* and blocks that touch have been joined (malloc, free, morecore).
HeapSound ==
  /\ DOMAIN next \union DOMAIN mine = DOMAIN size
  /\ DOMAIN next \intersect DOMAIN mine = {}
  /\ UNION {Span(b) : b \in DOMAIN size} = 1..(brk - 1)
  /\ \A a, b \in DOMAIN size : a # b => Span(a) \intersect Span(b) = {}
  /\ \A b \in DOMAIN mine : (size[b] - 1) * HEADER >= mine[b]
  /\ freep \in DOMAIN next
  /\ \A a \in DOMAIN next : next[a] = IF FreeAbove(a) = {} THEN BASE ELSE Min(FreeAbove(a))
  /\ \A a \in DOMAIN next \ {BASE} : a + size[a] \notin DOMAIN next
=============================================================================
