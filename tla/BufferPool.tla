---------------------------- MODULE BufferPool ----------------------------
(***************************************************************************)
(* The buffer pool of neuron_tcp_server.c: a singly linked stack of        *)
(* message buffers (b_stack, mb_buffer_t.next).  A pool is a record        *)
(*   top   the buffer b_stack points to, or Null                           *)
(*   next  the next pointer of every buffer, pooled or not                 *)
(* The operators take a pool and return the pool the C function leaves.    *)
(* The pointers are kept, rather than a set of free buffers, because the   *)
(* code can return one buffer twice and then walks a chain with no end.    *)
(***************************************************************************)
EXTENDS Naturals, FiniteSets, Sequences

CONSTANTS Buf,   \* the MB_BUFFER_COUNT + 1 allocated buffers
          Null   \* the NULL pointer

ASSUME BufAssumption == IsFiniteSet(Buf) /\ Null \notin Buf

Pointer == Buf \cup {Null}

Pool == [top : Pointer, next : [Buf -> Pointer]]

\* s lists, top first, the buffers reachable from the top of pool p.
IsFreeList(p, s) ==
  /\ p.top = IF s = <<>> THEN Null ELSE s[1]
  /\ \A i \in 1..Len(s) : p.next[s[i]] = IF i = Len(s) THEN Null ELSE s[i + 1]
  /\ \A i, j \in 1..Len(s) : s[i] = s[j] => i = j

\* The candidate lists: the sequences of at most |Buf| buffers.
Lists == UNION {[1..n -> Buf] : n \in 0..Cardinality(Buf)}

\* pool_allocate: all buffers linked into one stack, in some fixed order.
PoolAllocate ==
  CHOOSE p \in Pool :
    \E s \in [1..Cardinality(Buf) -> Buf] :
      IsFreeList(p, s) /\ \A b \in Buf : \E i \in DOMAIN s : s[i] = b

\* The pointer reached from b after n next pointers.
Hop(p, b, n) ==
  LET hop[i \in 0..n] == IF i = 0 THEN b
                         ELSE IF hop[i - 1] = Null THEN Null
                         ELSE p.next[hop[i - 1]]
  IN  hop[n]

\* A "while (x->next != NULL)" walk that starts at b never ends.
Endless(p, b) == p.next[b] # Null /\ Hop(p, b, Cardinality(Buf)) # Null

\* The buffer at which such a walk ends (when it does).
Last(p, b) ==
  IF p.next[b] = Null
  THEN b
  ELSE CHOOSE x \in Buf : /\ p.next[x] = Null
                          /\ \E n \in 1..Cardinality(Buf) : Hop(p, b, n) = x

\* Appends x to the chain that starts at b.
LinkLast(p, b, x) == [top |-> p.top, next |-> [p.next EXCEPT ![Last(p, b)] = x]]

\* repool_buffer: b and the chain behind it go on top of the stack.
Repool(p, b) == [top |-> b, next |-> [p.next EXCEPT ![Last(p, b)] = p.top]]

\* Mutant: get_from_pool does not clear the next pointer.
GetLinked(p) == [top |-> p.next[p.top], next |-> p.next]

\* get_from_pool: the top buffer leaves the stack, unlinked.
GetFromPool(p) == [top |-> p.next[p.top], next |-> [p.next EXCEPT ![p.top] = Null]]

=============================================================================
