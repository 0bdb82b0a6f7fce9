-------------------------- MODULE TcpServer_proofs --------------------------
(***************************************************************************)
(* Proofs about the event loop: type correctness, that no buffer is lost   *)
(* or shared until a send() first blocks, that replies come in order,      *)
(* nothing is left unread without a wakeup, a connection is closed only    *)
(* for a cause, and, with send queues that are large enough, that the loop *)
(* implements the abstract session.                                        *)
(***************************************************************************)
EXTENDS TcpServer, FiniteSetTheorems, FunctionTheorems, SequenceTheorems, TLAPS

-----------------------------------------------------------------------------
(* What the pointer operations of the pool do to the set of free buffers.  *)
(* The list behind the set is an existential witness; these lemmas are the *)
(* only place where it is looked at.                                       *)

\* The free buffers of pool p are those of F, in a proper list, and the others
\* are unlinked.
FreeIs(p, F) ==
  /\ F \subseteq Buf
  /\ \E s \in Seq(Buf) : /\ IsFreeList(p, s)
                         /\ \A b \in Buf : b \in F <=> \E i \in 1..Len(s) : s[i] = b
  /\ \A b \in Buf \ F : p.next[b] = Null

\* repool_buffer of an unlinked buffer that is not free ends, keeps the pool
\* well-typed, and makes just that buffer free.
LEMMA RepoolFree ==
  ASSUME NEW p \in Pool, NEW F, FreeIs(p, F), NEW b \in Buf \ F
  PROVE  /\ ~Endless(p, b)
         /\ Repool(p, b) = [top |-> b, next |-> [p.next EXCEPT ![b] = p.top]]
         /\ FreeIs(Repool(p, b), F \cup {b})
<1>1. b \in Buf /\ p.next[b] = Null /\ p.next \in [Buf -> Pointer] /\ p.top \in Pointer
  BY DEF FreeIs, Pool
<1>2. ~Endless(p, b)
  BY <1>1 DEF Endless
<1>3. Last(p, b) = b
  BY <1>1 DEF Last
<1>4. Repool(p, b) = [top |-> b, next |-> [p.next EXCEPT ![b] = p.top]]
  BY <1>3 DEF Repool
<1>. DEFINE q == [top |-> b, next |-> [p.next EXCEPT ![b] = p.top]]
<1>5. PICK s \in Seq(Buf) : /\ IsFreeList(p, s)
                            /\ \A x \in Buf : x \in F <=> \E i \in 1..Len(s) : s[i] = x
  BY DEF FreeIs
<1>. DEFINE t == <<b>> \o s
<1>6. /\ t \in Seq(Buf) /\ Len(t) = Len(s) + 1 /\ Len(s) \in Nat
      /\ t[1] = b
      /\ \A i \in 2..Len(t) : t[i] = s[i - 1] /\ s[i - 1] \in Buf /\ s[i - 1] # b
  <2>1. <<b>> \in Seq(Buf) /\ Len(<<b>>) = 1 /\ <<b>>[1] = b
    BY <1>1
  <2>2. /\ t \in Seq(Buf) /\ Len(t) = Len(s) + 1 /\ Len(s) \in Nat
        /\ \A i \in 1..(1 + Len(s)) : t[i] = IF i <= 1 THEN <<b>>[i] ELSE s[i - 1]
    BY <2>1, ConcatProperties, LenProperties
  <2>3. \A i \in 1..Len(s) : s[i] \in Buf /\ s[i] # b
    BY <1>5, ElementOfSeq
  <2>. QED  BY <2>1, <2>2, <2>3
<1>7. IsFreeList(q, t)
  <2>1. q.top = IF t = <<>> THEN Null ELSE t[1]
    BY <1>6
  <2>2. p.top = IF s = <<>> THEN Null ELSE s[1]
    BY <1>5 DEF IsFreeList
  <2>3. ASSUME NEW i \in 1..Len(t)
        PROVE  q.next[t[i]] = IF i = Len(t) THEN Null ELSE t[i + 1]
    <3>1. CASE i = 1
      <4>1. q.next[t[i]] = p.top
        BY <1>1, <1>6, <3>1
      <4>2. CASE s = <<>>
        BY <4>1, <4>2, <2>2, <1>6, <3>1
      <4>3. CASE s # <<>>
        <5>1. Len(s) >= 1
          BY <4>3, EmptySeq, <1>6
        <5>. QED  BY <4>1, <4>3, <5>1, <2>2, <1>6, <3>1
      <4>. QED  BY <4>2, <4>3
    <3>2. CASE i # 1
      <4>1. i - 1 \in 1..Len(s)
        BY <1>6, <3>2
      <4>2. q.next[t[i]] = p.next[s[i - 1]]
        BY <1>1, <1>6, <3>2
      <4>3. p.next[s[i - 1]] = IF i - 1 = Len(s) THEN Null ELSE s[(i - 1) + 1]
        BY <4>1, <1>5 DEF IsFreeList
      <4>. QED  BY <4>2, <4>3, <1>6, <3>2
    <3>. QED  BY <3>1, <3>2
  <2>4. ASSUME NEW i \in 1..Len(t), NEW j \in 1..Len(t), t[i] = t[j]
        PROVE  i = j
    <3>1. CASE i = 1 \/ j = 1
      BY <3>1, <2>4, <1>6
    <3>2. CASE i # 1 /\ j # 1
      <4>1. i - 1 \in 1..Len(s) /\ j - 1 \in 1..Len(s) /\ s[i - 1] = s[j - 1]
        BY <3>2, <2>4, <1>6
      <4>2. i - 1 = j - 1
        BY <4>1, <1>5 DEF IsFreeList
      <4>. QED  BY <4>2
    <3>. QED  BY <3>1, <3>2
  <2>. QED  BY <2>1, <2>3, <2>4 DEF IsFreeList
<1>8. \A x \in Buf : x \in F \cup {b} <=> \E i \in 1..Len(t) : t[i] = x
  <2>. SUFFICES ASSUME NEW x \in Buf
                PROVE  x \in F \cup {b} <=> \E i \in 1..Len(t) : t[i] = x
    OBVIOUS
  <2>1. ASSUME x \in F  PROVE \E i \in 1..Len(t) : t[i] = x
    <3>1. PICK i \in 1..Len(s) : s[i] = x
      BY <2>1, <1>5
    <3>2. i + 1 \in 2..Len(t) /\ t[i + 1] = s[(i + 1) - 1]
      BY <1>6
    <3>3. i + 1 \in 1..Len(t) /\ t[i + 1] = x
      BY <3>1, <3>2, <1>6
    <3>. HIDE DEF t
    <3>. QED  BY <3>3
  <2>2. ASSUME NEW i \in 1..Len(t), t[i] = x  PROVE x \in F \cup {b}
    BY <2>2, <1>5, <1>6
  <2>3. \E i \in 1..Len(t) : t[i] = b
    BY <1>6
  <2>. QED  BY <2>1, <2>2, <2>3
<1>9. \A x \in Buf \ (F \cup {b}) : q.next[x] = Null
  BY <1>1 DEF FreeIs
<1>. QED
  <2>. HIDE DEF q, t
  <2>1. F \cup {b} \subseteq Buf
    BY <1>1 DEF FreeIs
  <2>2. FreeIs(q, F \cup {b})
    BY <1>6, <1>7, <1>8, <1>9, <2>1 DEF FreeIs
  <2>. QED  BY <1>2, <1>4, <2>2 DEF q

\* get_from_pool on a pool that is not empty takes one free buffer, and leaves
\* it unlinked.
LEMMA GetFree ==
  ASSUME NEW p \in Pool, NEW F, FreeIs(p, F), p.top # Null
  PROVE  /\ p.top \in F
         /\ FreeIs(GetFromPool(p), F \ {p.top})
<1>1. p.next \in [Buf -> Pointer] /\ p.top \in Buf
  BY DEF Pool, Pointer
<1>2. PICK s \in Seq(Buf) : /\ IsFreeList(p, s)
                            /\ \A x \in Buf : x \in F <=> \E i \in 1..Len(s) : s[i] = x
  BY DEF FreeIs
<1>3. s # <<>> /\ p.top = s[1]
  BY <1>2 DEF IsFreeList
<1>. DEFINE t == Tail(s)
            q == [top |-> p.next[p.top], next |-> [p.next EXCEPT ![p.top] = Null]]
<1>4. /\ t \in Seq(Buf) /\ Len(s) \in Nat /\ Len(s) >= 1 /\ Len(t) = Len(s) - 1
      /\ \A i \in 1..Len(t) : t[i] = s[i + 1]
      /\ \A i \in 1..Len(s) : s[i] \in Buf
      /\ t = <<>> <=> Len(t) = 0
  <2>1. /\ t \in Seq(Buf) /\ Len(t) = Len(s) - 1
        /\ \A i \in 1..Len(t) : t[i] = s[i + 1]
    BY <1>3, HeadTailProperties
  <2>. HIDE DEF t
  <2>2. t = <<>> <=> Len(t) = 0
    BY <2>1, EmptySeq
  <2>. QED  BY <1>3, <2>1, <2>2, LenProperties, EmptySeq, ElementOfSeq
<1>. HIDE DEF t
<1>5. \A i \in 2..Len(s) : s[i] # p.top
  <2>. SUFFICES ASSUME NEW i \in 2..Len(s), s[i] = s[1] PROVE FALSE
    BY <1>3
  <2>1. i \in 1..Len(s) /\ 1 \in 1..Len(s)
    BY <1>4
  <2>. QED  BY <2>1, <1>2 DEF IsFreeList
<1>6. p.top \in F
  BY <1>1, <1>2, <1>3, <1>4
<1>7. IsFreeList(q, t)
  <2>1. q.top = IF t = <<>> THEN Null ELSE t[1]
    <3>1. p.next[s[1]] = IF 1 = Len(s) THEN Null ELSE s[1 + 1]
      BY <1>2, <1>4 DEF IsFreeList
    <3>2. t # <<>> => t[1] = s[1 + 1]
      BY <1>4
    <3>. QED  BY <1>3, <1>4, <3>1, <3>2
  <2>2. ASSUME NEW i \in 1..Len(t)
        PROVE  q.next[t[i]] = IF i = Len(t) THEN Null ELSE t[i + 1]
    <3>1. i + 1 \in 2..Len(s) /\ t[i] = s[i + 1]
      BY <1>4
    <3>2. q.next[t[i]] = p.next[s[i + 1]]
      BY <1>1, <1>4, <1>5, <3>1
    <3>3. p.next[s[i + 1]] = IF i + 1 = Len(s) THEN Null ELSE s[(i + 1) + 1]
      BY <3>1, <1>2 DEF IsFreeList
    <3>4. i # Len(t) => t[i + 1] = s[(i + 1) + 1]
      BY <1>4
    <3>5. i + 1 = Len(s) <=> i = Len(t)
      BY <1>4
    <3>. QED  BY <3>2, <3>3, <3>4, <3>5
  <2>3. ASSUME NEW i \in 1..Len(t), NEW j \in 1..Len(t), t[i] = t[j]
        PROVE  i = j
    <3>1. i + 1 \in 1..Len(s) /\ j + 1 \in 1..Len(s) /\ s[i + 1] = s[j + 1]
      BY <1>4, <2>3
    <3>2. i + 1 = j + 1
      BY <3>1, <1>2 DEF IsFreeList
    <3>. QED  BY <3>2
  <2>. QED  BY <2>1, <2>2, <2>3 DEF IsFreeList
<1>8. \A x \in Buf : x \in F \ {p.top} <=> \E i \in 1..Len(t) : t[i] = x
  <2>. SUFFICES ASSUME NEW x \in Buf
                PROVE  x \in F \ {p.top} <=> \E i \in 1..Len(t) : t[i] = x
    OBVIOUS
  <2>1. ASSUME x \in F, x # p.top  PROVE \E i \in 1..Len(t) : t[i] = x
    <3>1. PICK i \in 1..Len(s) : s[i] = x
      BY <2>1, <1>2
    <3>2. i - 1 \in 1..Len(t) /\ t[i - 1] = s[(i - 1) + 1]
      BY <1>3, <1>4, <2>1, <3>1
    <3>. QED  BY <3>1, <3>2
  <2>2. ASSUME NEW i \in 1..Len(t), t[i] = x  PROVE x \in F \ {p.top}
    <3>1. i + 1 \in 2..Len(s) /\ i + 1 \in 1..Len(s) /\ s[i + 1] = x
      BY <1>4, <2>2
    <3>. QED  BY <3>1, <1>2, <1>5
  <2>. QED  BY <2>1, <2>2
<1>9. \A x \in Buf \ (F \ {p.top}) : q.next[x] = Null
  BY <1>1 DEF FreeIs
<1>. QED
  <2>. HIDE DEF q, t
  <2>1. F \ {p.top} \subseteq Buf
    BY DEF FreeIs
  <2>2. FreeIs(q, F \ {p.top})
    BY <1>4, <1>7, <1>8, <1>9, <2>1 DEF FreeIs
  <2>. QED  BY <1>6, <2>2 DEF q, GetFromPool

\* pool_allocate leaves every buffer free.
LEMMA AllocateFree ==
  PoolAllocate \in Pool /\ FreeIs(PoolAllocate, Buf)
<1>. DEFINE n == Cardinality(Buf)
            Good(p, s) == /\ IsFreeList(p, s)
                          /\ \A b \in Buf : \E i \in DOMAIN s : s[i] = b
<1>1. n \in Nat /\ ExistsBijection(1..n, Buf)
  BY FS_CardinalityType, BufAssumption
<1>2. PICK s \in [1..n -> Buf] : /\ \A i, j \in 1..n : s[i] = s[j] => i = j
                                 /\ \A b \in Buf : \E i \in 1..n : s[i] = b
  BY <1>1 DEF ExistsBijection, Bijection, Injection, Surjection, IsInjective
<1>. HIDE DEF n
<1>3. s \in Seq(Buf) /\ Len(s) = n /\ DOMAIN s = 1..n
  BY <1>1, SeqDef
<1>. DEFINE at == [b \in Buf |-> CHOOSE i \in 1..n : s[i] = b]
            nx == [b \in Buf |-> IF at[b] = n THEN Null ELSE s[at[b] + 1]]
            p == [top |-> IF s = <<>> THEN Null ELSE s[1], next |-> nx]
<1>4. \A b \in Buf : at[b] \in 1..n /\ s[at[b]] = b
  BY <1>2
<1>5. \A i \in 1..n : at[s[i]] = i
  BY <1>2, <1>4
<1>. HIDE DEF at
<1>6. p \in Pool
  <2>1. nx \in [Buf -> Pointer]
    <3>1. ASSUME NEW b \in Buf, at[b] # n PROVE s[at[b] + 1] \in Buf
      BY <3>1, <1>1, <1>2, <1>4
    <3>. QED  BY <3>1 DEF Pointer
  <2>2. s # <<>> => s[1] \in Buf
    BY <1>3, EmptySeq, ElementOfSeq
  <2>. QED  BY <2>1, <2>2 DEF Pool, Pointer
<1>7. Good(p, s)
  <2>1. \A i \in 1..n : p.next[s[i]] = IF i = n THEN Null ELSE s[i + 1]
    BY <1>2, <1>5
  <2>. QED  BY <1>2, <1>3, <2>1 DEF IsFreeList
<1>8. \E q \in Pool : \E t \in [1..n -> Buf] : Good(q, t)
  BY <1>6, <1>7
<1>9. PoolAllocate \in Pool /\ \E t \in [1..n -> Buf] : Good(PoolAllocate, t)
  BY <1>8 DEF PoolAllocate, n
<1>10. PICK t \in [1..n -> Buf] : Good(PoolAllocate, t)
  BY <1>9
<1>11. t \in Seq(Buf) /\ Len(t) = n /\ DOMAIN t = 1..n
  BY <1>1, SeqDef
<1>12. \A b \in Buf : \E i \in 1..Len(t) : t[i] = b
  BY <1>10, <1>11
<1>. QED  BY <1>9, <1>10, <1>11, <1>12 DEF FreeIs

\* A free list is no longer than there are buffers.
LEMMA FreeListBound ==
  ASSUME NEW p, NEW s \in Seq(Buf), IsFreeList(p, s)
  PROVE  s \in Lists
<1>1. Len(s) \in Nat /\ s \in [1..Len(s) -> Buf]
  BY LenProperties
<1>2. IsFiniteSet(1..Len(s)) /\ Cardinality(1..Len(s)) = Len(s)
  BY <1>1, FS_Interval
<1>3. Cardinality(Buf) \in Nat
  BY BufAssumption, FS_CardinalityType
<1>4. ~(Cardinality(Buf) < Len(s))
  <2>. SUFFICES ASSUME Cardinality(Buf) < Len(s) PROVE FALSE
    OBVIOUS
  <2>1. \E x, y \in 1..Len(s) : x # y /\ s[x] = s[y]
    BY <1>1, <1>2, BufAssumption, FS_PigeonHole
  <2>. QED  BY <2>1 DEF IsFreeList
<1>. QED  BY <1>1, <1>3, <1>4 DEF Lists

-----------------------------------------------------------------------------
(* The types of the data.                                                  *)

\* The pool operations keep the pool well-typed, even on a pool with a ring.
LEMMA PoolTypes ==
  ASSUME NEW p \in Pool, NEW b \in Buf
  PROVE  /\ Repool(p, b) \in Pool
         /\ \A x \in Buf : LinkLast(p, x, b) \in Pool
         /\ p.top # Null => p.top \in Buf /\ GetFromPool(p) \in Pool
BY DEF Pool, Repool, LinkLast, GetFromPool, Pointer

\* A run of tokens is a sequence of tokens.
LEMMA TokensType ==
  ASSUME NEW kind \in {"q", "r"}, NEW c \in Conn, NEW m \in Nat, NEW n \in Nat
  PROVE  Tokens(kind, c, m, n) \in Seq(Token)
<1>1. \A i \in 1..n : <<kind, c, m + i>> \in Token
  BY DEF Token
<1>2. Tokens(kind, c, m, n) \in [1..n -> Token]
  BY <1>1 DEF Tokens
<1>. QED  BY <1>2, SeqDef

\* Part of a sequence is a sequence over the same set.
LEMMA PartType ==
  ASSUME NEW s \in Seq(Token), NEW m \in Nat \ {0}, NEW n \in 0..Len(s)
  PROVE  SubSeq(s, m, n) \in Seq(Token)
<1>1. Len(s) \in Nat /\ \A i \in 1..Len(s) : s[i] \in Token
  BY ElementOfSeq, LenProperties
<1>2. \A i \in m..n : s[i] \in Token
  BY <1>1
<1>. QED  BY <1>1, <1>2, SubSeqProperties

\* The reply to a complete request is a sequence of tokens.
LEMMA ReplyType ==
  ASSUME NEW d \in Seq(Token), NEW len \in Nat, Reqlen(d, len) # 0
  PROVE  d # <<>> /\ Reply(d) \in Seq(Token)
<1>1. SizeMod \in Nat \ {0} /\ HdrLen \in Nat \ {0} /\ ReqLen \in Nat \ {0} /\ RspLen \in Nat \ {0}
  BY LenAssumption
<1>2. d # <<>>
  <2>. SUFFICES ASSUME d = <<>> PROVE FALSE
    OBVIOUS
  <2>1. Len(d) = 0
    BY EmptySeq
  <2>2. 0 % SizeMod = 0
    BY <1>1
  <2>. QED  BY <1>1, <2>1, <2>2 DEF Reqlen
<1>3. d[1] \in Token
  BY <1>2, EmptySeq, ElementOfSeq
<1>4. d[1][2] \in Conn /\ d[1][3] - 1 \in Nat
  BY <1>3 DEF Token
<1>5. (d[1][3] - 1) \div ReqLen \in Nat
  BY <1>1, <1>4
<1>6. ((d[1][3] - 1) \div ReqLen) * RspLen \in Nat
  BY <1>1, <1>5
<1>. QED  BY <1>1, <1>2, <1>4, <1>6, TokensType DEF Reply

\* The conjuncts of TypeOK about connections, and about the loop.
ConnTypes ==
  /\ conn \in [Conn -> {"none", "pending", "open"}]
  /\ rd \in [Conn -> Pointer] /\ wr \in [Conn -> Pointer]
  /\ want \in [Conn -> BOOLEAN]
  /\ rcvq \in [Conn -> Seq(Token)] /\ sndq \in [Conn -> Seq(Token)]
  /\ sent \in [Conn -> Nat] /\ got \in [Conn -> Seq(Token)]
  /\ peer \in [Conn -> {"up", "fin", "rst"}]
  /\ ready \subseteq Conn \cup {Srv}

LoopTypes ==
  /\ batch \subseteq Event
  /\ pc \in {"wait", "event", "accept", "hung", "crashed"} \cup Handling
  /\ cur \in Conn \cup {Null} /\ (pc \in Handling => cur \in Conn)
  /\ buf \in Pointer /\ (pc = "psend" <=> buf # Null)
  /\ result \in {0, 1} /\ full \in BOOLEAN /\ blocked \in BOOLEAN

BufTypes ==
  pool \in Pool /\ data \in [Buf -> Seq(Token)] /\ sendindex \in [Buf -> Nat]

LEMMA TypeParts == TypeOK <=> BufTypes /\ ConnTypes /\ LoopTypes
BY DEF TypeOK, BufTypes, ConnTypes, LoopTypes

\* Forgetting a connection keeps its types.
LEMMA ForgetTypes ==
  ASSUME ConnTypes, NEW c \in Conn, Forget(c)
  PROVE  ConnTypes'
BY DEF ConnTypes, Forget, Pointer

\* close_event keeps the types, whether it returns or walks a ring.
LEMMA CloseTypes ==
  ASSUME ConnTypes, NEW p \in Pool, NEW c \in Conn, NEW rest,
         CloseEvent(p, c, rest)
  PROVE  /\ pool' \in Pool /\ ConnTypes' /\ batch' = rest /\ cur' = Null
         /\ pc' \in {"wait", "event", "hung"}
<1>1. CASE CloseHangs(p, c) /\ pool' = p /\ pc' = "hung" /\ cur' = Null /\ batch' = rest
           /\ UNCHANGED <<cvars, ready>>
  BY <1>1 DEF ConnTypes, cvars
<1>2. CASE ~CloseHangs(p, c) /\ pool' = RepoolBoth(p, c) /\ Forget(c) /\ NextEvent(rest)
  <2>1. rd[c] \in Pointer /\ wr[c] \in Pointer
    BY DEF ConnTypes
  <2>2. RepoolRd(p, c) \in Pool
    BY <2>1, PoolTypes DEF RepoolRd, Pointer
  <2>3. RepoolBoth(p, c) \in Pool
    BY <2>1, <2>2, PoolTypes DEF RepoolBoth, Pointer
  <2>. QED  BY <1>2, <2>3, ForgetTypes DEF NextEvent
<1>. QED  BY <1>1, <1>2 DEF CloseEvent

\* One send() keeps the types.
LEMMA SendTypes ==
  ASSUME TypeOK, cur \in Conn, NEW b \in Buf, SendSome(b)
  PROVE  BufTypes' /\ ConnTypes'
<1>1. /\ data[b] \in Seq(Token) /\ sendindex[b] \in Nat /\ sndq[cur] \in Seq(Token)
      /\ Len(data[b]) \in Nat /\ Len(sndq[cur]) \in Nat /\ SndCap \in Nat
  BY LenProperties, LenAssumption DEF TypeOK
<1>. DEFINE n == IF Unsent(b) < Room THEN Unsent(b) ELSE Room
<1>2. /\ n \in Nat
      /\ sendindex[b] + 1 \in Nat \ {0} /\ sendindex[b] + n \in 0..Len(data[b])
  BY <1>1 DEF SendSome, Unsent, Room
<1>6. /\ sndq' = [sndq EXCEPT ![cur] =
                    @ \o SubSeq(data[b], sendindex[b] + 1, sendindex[b] + n)]
      /\ sendindex' = [sendindex EXCEPT ![b] = @ + n]
  BY DEF SendSome
<1>. HIDE DEF n
<1>3. SubSeq(data[b], sendindex[b] + 1, sendindex[b] + n) \in Seq(Token)
  BY <1>1, <1>2, PartType
<1>4. sndq[cur] \o SubSeq(data[b], sendindex[b] + 1, sendindex[b] + n) \in Seq(Token)
  BY <1>1, <1>3, ConcatProperties
<1>5. sndq' \in [Conn -> Seq(Token)] /\ sendindex' \in [Buf -> Nat]
  BY <1>1, <1>2, <1>6, <1>4 DEF TypeOK
<1>. QED  BY <1>5 DEF SendSome, TypeOK, BufTypes, ConnTypes

\* Every step keeps the types: one case per action.
LEMMA TypeInductive == TypeOK /\ [Next]_vars => TypeOK'
<1>. SUFFICES ASSUME TypeOK, [Next]_vars PROVE TypeOK'
  OBVIOUS
<1>. USE DEF Handling
<1>0. /\ BufTypes /\ ConnTypes /\ LoopTypes
      /\ (BufTypes' /\ ConnTypes' /\ LoopTypes' => TypeOK')
  BY TypeParts DEF TypeOK, BufTypes, ConnTypes, LoopTypes
<1>a. SizeMod \in Nat \ {0} /\ HdrLen \in Nat \ {0} /\ ReqLen \in Nat \ {0} /\ RspLen \in Nat \ {0}
      /\ MaxLen \in Nat \ {0} /\ MaxReq \in Nat \ {0}
  BY LenAssumption
<1>1. ASSUME NEW c \in Conn, Connect(c) PROVE TypeOK'
  BY <1>1 DEF TypeOK, Connect, pvars, lvars
<1>2. ASSUME NEW c \in Conn, ClientSend(c) PROVE TypeOK'
  <2>1. PICK n \in 1..(MaxReq * ReqLen - sent[c]) :
          /\ rcvq' = [rcvq EXCEPT ![c] = @ \o Tokens("q", c, sent[c], n)]
          /\ sent' = [sent EXCEPT ![c] = @ + n]
    BY <1>2 DEF ClientSend
  <2>2. sent[c] \in Nat /\ n \in Nat
    BY <2>1 DEF TypeOK
  <2>3. rcvq[c] \o Tokens("q", c, sent[c], n) \in Seq(Token)
    BY <2>2, TokensType, ConcatProperties DEF TypeOK
  <2>4. rcvq' \in [Conn -> Seq(Token)] /\ sent' \in [Conn -> Nat]
    BY <2>1, <2>2, <2>3 DEF TypeOK
  <2>5. ready' \subseteq Conn \cup {Srv}
    BY <1>2 DEF ClientSend, Wake, TypeOK
  <2>. QED  BY <1>2, <2>4, <2>5 DEF TypeOK, ClientSend, pvars, lvars
<1>3. ASSUME NEW c \in Conn, ClientRecv(c) PROVE TypeOK'
  <2>1. got[c] \o sndq[c] \in Seq(Token) /\ <<>> \in Seq(Token)
    BY ConcatProperties, EmptySeq DEF TypeOK
  <2>. QED  BY <1>3, <2>1 DEF TypeOK, ClientRecv, pvars, lvars
<1>4. ASSUME NEW c \in Conn, ClientLeave(c) PROVE TypeOK'
  BY <1>4 DEF TypeOK, ClientLeave, Wake, pvars, lvars
<1>5. CASE EpollWait
  <2>1. PICK S \in SUBSET {x \in ready : Live(x)} :
          batch' = {EventOf(x) : x \in S} /\ ready' = {x \in ready : Live(x)} \ S
    BY <1>5 DEF EpollWait
  <2>2. \A x \in Conn \cup {Srv} : EventOf(x) \in Event
    BY DEF EventOf, Event, TypeOK, Readable, Writable
  <2>3. batch' \subseteq Event /\ ready' \subseteq Conn \cup {Srv}
    BY <2>1, <2>2 DEF TypeOK
  <2>. QED  BY <1>5, <2>3 DEF TypeOK, EpollWait, pvars, cvars
<1>6. ASSUME NEW e \in batch, DispatchServer(e) PROVE TypeOK'
  BY <1>6 DEF TypeOK, DispatchServer, pvars, cvars
<1>7. ASSUME NEW e \in batch, DispatchClose(e) PROVE TypeOK'
  <2>1. e.who \in Conn
    BY <1>7 DEF DispatchClose, TypeOK, Event
  <2>2. /\ pool' \in Pool /\ ConnTypes' /\ batch' = batch \ {e} /\ cur' = Null
        /\ pc' \in {"wait", "event", "hung"}
    BY <1>0, <1>7, <2>1, CloseTypes DEF DispatchClose, BufTypes
  <2>3. BufTypes'
    BY <1>0, <1>7, <2>2 DEF DispatchClose, BufTypes
  <2>4. LoopTypes'
    BY <1>0, <1>7, <2>2 DEF DispatchClose, LoopTypes
  <2>. QED  BY <1>0, <2>2, <2>3, <2>4
<1>8. ASSUME NEW e \in batch, DispatchModbus(e) PROVE TypeOK'
  <2>1. e.who \in Conn
    BY <1>8 DEF DispatchModbus, TypeOK, Event
  <2>. QED  BY <1>8, <2>1 DEF TypeOK, DispatchModbus, pvars, cvars
<1>9. ASSUME NEW c \in Conn, AcceptOne(c) PROVE TypeOK'
  BY <1>9 DEF TypeOK, AcceptOne, pvars, lvars
<1>10. ASSUME NEW c \in Conn, AcceptRefused(c) PROVE TypeOK'
  <2>1. ConnTypes'
    BY <1>0, <1>10, ForgetTypes DEF AcceptRefused
  <2>. QED  BY <1>0, <1>10, <2>1 DEF AcceptRefused, BufTypes, LoopTypes, pvars, lvars
<1>11. CASE AcceptDone
  BY <1>11 DEF TypeOK, AcceptDone, NextEvent, pvars, cvars
<1>12. CASE OutSendSome
  <2>1. cur \in Conn /\ wr[cur] \in Buf
    BY <1>12 DEF OutSendSome, TypeOK, Pointer
  <2>2. BufTypes' /\ ConnTypes'
    BY <1>12, <2>1, SendTypes DEF OutSendSome
  <2>3. LoopTypes'
    BY <1>0, <1>12 DEF OutSendSome, SendSome, LoopTypes, lvars
  <2>. QED  BY <1>0, <2>2, <2>3
<1>13. CASE OutSent
  <2>1. cur \in Conn /\ wr[cur] \in Buf
    BY <1>13 DEF OutSent, TypeOK, Pointer
  <2>2. [pool EXCEPT !.next[wr[cur]] = Null] \in Pool
    BY <2>1 DEF TypeOK, Pool, Pointer
  <2>3. pool' \in Pool
    BY <1>13, <2>1, <2>2, PoolTypes DEF OutSent
  <2>. QED  BY <1>13, <2>3 DEF TypeOK, OutSent, cvars, lvars
<1>14. CASE OutBlocks
  BY <1>14 DEF TypeOK, OutBlocks, pvars, cvars
<1>15. CASE OutFails
  BY <1>15 DEF TypeOK, OutFails, pvars, cvars
<1>16. CASE ReadNoBuffer
  BY <1>16 DEF TypeOK, ReadNoBuffer, NextEvent, pvars, cvars
<1>17. ASSUME pc = "read", RdBuffer # Null
       PROVE  /\ cur \in Conn /\ RdBuffer \in Buf /\ RdData \in Seq(Token)
              /\ PoolForRead \in Pool /\ Wanted \in Int
  <2>1. cur \in Conn /\ rd[cur] \in Pointer /\ pool \in Pool
    BY <1>17 DEF TypeOK
  <2>2. RdBuffer \in Buf
    BY <2>1, <1>17 DEF RdBuffer, Pool, Pointer
  <2>3. RdData \in Seq(Token)
    BY <2>1, EmptySeq DEF RdData, Pointer, TypeOK
  <2>4. PoolForRead \in Pool
    BY <1>17, <2>1, <2>2, PoolTypes DEF PoolForRead, RdBuffer
  <2>5. Wanted \in Int
    BY <1>a, <2>3, LenProperties DEF Wanted
  <2>. QED  BY <2>1, <2>2, <2>3, <2>4, <2>5
<1>18. CASE ReadData
  <2>. DEFINE count == IF Len(rcvq[cur]) < Wanted THEN Len(rcvq[cur]) ELSE Wanted
  <2>1. /\ pc = "read" /\ RdBuffer # Null /\ Wanted > 0
        /\ data' = [data EXCEPT ![RdBuffer] = RdData \o SubSeq(rcvq[cur], 1, count)]
        /\ rcvq' = [rcvq EXCEPT ![cur] = SubSeq(@, count + 1, Len(@))]
        /\ full' = (count = Wanted)
    BY <1>18 DEF ReadData
  <2>2. rcvq[cur] \in Seq(Token) /\ Len(rcvq[cur]) \in Nat
    BY <1>17, <2>1, LenProperties DEF TypeOK
  <2>3. count \in 0..Len(rcvq[cur])
    BY <1>17, <2>1, <2>2
  <2>. HIDE DEF count
  <2>4. /\ SubSeq(rcvq[cur], 1, count) \in Seq(Token)
        /\ SubSeq(rcvq[cur], count + 1, Len(rcvq[cur])) \in Seq(Token)
    BY <2>2, <2>3, PartType
  <2>5. RdData \o SubSeq(rcvq[cur], 1, count) \in Seq(Token)
    BY <1>17, <2>1, <2>4, ConcatProperties
  <2>6. data' \in [Buf -> Seq(Token)] /\ rcvq' \in [Conn -> Seq(Token)] /\ full' \in BOOLEAN
    BY <2>1, <2>4, <2>5 DEF TypeOK
  <2>7. /\ pool' \in Pool /\ sendindex' \in [Buf -> Nat] /\ rd' \in [Conn -> Pointer]
        /\ pc' = "parse" /\ result' = 0
    BY <1>17, <1>18, <2>1 DEF ReadData, TypeOK, Pointer, SendindexForRead, RdBuffer
  <2>. QED  BY <1>17, <1>18, <2>1, <2>6, <2>7 DEF ReadData, TypeOK
<1>19. CASE ReadAgain
  <2>1. pc = "read" /\ RdBuffer # Null
    BY <1>19 DEF ReadAgain
  <2>2. /\ pool' \in Pool /\ data' \in [Buf -> Seq(Token)]
        /\ sendindex' \in [Buf -> Nat] /\ rd' \in [Conn -> Pointer]
    BY <1>17, <1>19, <2>1 DEF ReadAgain, TypeOK, Pointer, SendindexForRead
  <2>. QED  BY <1>19, <2>1, <2>2 DEF ReadAgain, NextEvent, TypeOK
<1>20. CASE ReadCloses
  <2>1. pc = "read" /\ RdBuffer # Null
    BY <1>20 DEF ReadCloses
  <2>2. data' \in [Buf -> Seq(Token)] /\ sendindex' \in [Buf -> Nat]
    BY <1>17, <1>20, <2>1 DEF ReadCloses, TypeOK, SendindexForRead
  <2>3. /\ pool' \in Pool /\ ConnTypes' /\ batch' = batch /\ cur' = Null
        /\ pc' \in {"wait", "event", "hung"}
    BY <1>0, <1>17, <1>20, <2>1, CloseTypes DEF ReadCloses, BufTypes
  <2>4. LoopTypes'
    BY <1>0, <1>20, <2>1, <2>3 DEF ReadCloses, LoopTypes
  <2>. QED  BY <1>0, <2>2, <2>3, <2>4 DEF BufTypes
<1>21. ASSUME pc = "parse", NEW rc, ParseReturns(rc) PROVE TypeOK'
  <2>1. cur \in Conn /\ buf = Null
    BY <1>21 DEF TypeOK
  <2>2. want' \in [Conn -> BOOLEAN] /\ ready' \subseteq Conn \cup {Srv}
    BY <1>21, <2>1 DEF ParseReturns, TypeOK
  <2>3. /\ pc' \in {"read", "wait", "event"} /\ batch' = batch
        /\ cur' \in Conn \cup {Null} /\ (pc' = "read" => cur' = cur)
    BY <1>21, <2>1 DEF ParseReturns, NextEvent
  <2>. QED  BY <1>21, <2>1, <2>2, <2>3 DEF ParseReturns, TypeOK, pvars
<1>22. CASE ParseEmpty
  BY <1>21, <1>22 DEF ParseEmpty
<1>23. CASE ParseIncomplete
  BY <1>21, <1>23 DEF ParseIncomplete
<1>24. CASE ParseFails
  <2>1. pc = "parse" /\ cur \in Conn
    BY <1>24 DEF ParseFails, TypeOK
  <2>2. /\ pool' \in Pool /\ ConnTypes' /\ batch' = batch /\ cur' = Null
        /\ pc' \in {"wait", "event", "hung"}
    BY <1>0, <1>24, <2>1, CloseTypes DEF ParseFails, BufTypes
  <2>3. LoopTypes'
    BY <1>0, <1>24, <2>1, <2>2 DEF ParseFails, LoopTypes
  <2>4. BufTypes'
    BY <1>0, <1>24, <2>2 DEF ParseFails, BufTypes
  <2>. QED  BY <1>0, <2>2, <2>3, <2>4
<1>25. CASE ParseRequest
  <2>. DEFINE b == rd[cur]
  <2>1. /\ pc = "parse" /\ cur \in Conn /\ b \in Buf /\ pool \in Pool
        /\ data[b] \in Seq(Token) /\ Len(data[b]) \in Nat /\ wr[cur] \in Pointer /\ buf = Null
    BY <1>25, LenProperties DEF ParseRequest, TypeOK, Pointer
  <2>2. Announced(data[b]) \subseteq Nat
    BY <1>a DEF Announced
  <2>3. PICK len \in Announced(data[b]) :
          LET reqlen == Reqlen(data[b], len)
              more == reqlen < Len(data[b])
              new == IF more THEN pool.top ELSE Null
              pool1 == IF more THEN GetFromPool(pool) ELSE pool
              data1 == [data EXCEPT ![b] = Reply(data[b])]
          IN  /\ reqlen \in 1..MaxLen
              /\ more => new # Null
              /\ data' = IF more
                         THEN [data1 EXCEPT ![new] = SubSeq(data[b], reqlen + 1, Len(data[b]))]
                         ELSE data1
              /\ sendindex' = IF more THEN [sendindex EXCEPT ![new] = 0] ELSE sendindex
              /\ rd' = [rd EXCEPT ![cur] = new]
              /\ \/ /\ wr[cur] = Null
                    /\ pool' = pool1 /\ pc' = "psend" /\ buf' = b /\ cur' = cur
                 \/ /\ wr[cur] # Null /\ ~Endless(pool1, wr[cur])
                    /\ pool' = LinkLast(pool1, wr[cur], b) /\ UNCHANGED <<pc, buf, cur>>
                 \/ /\ wr[cur] # Null /\ Endless(pool1, wr[cur])
                    /\ pool' = pool1 /\ pc' = "hung" /\ cur' = Null /\ UNCHANGED buf
    BY <1>25 DEF ParseRequest
  <2>. DEFINE reqlen == Reqlen(data[b], len)
              more == reqlen < Len(data[b])
              new == IF more THEN pool.top ELSE Null
              pool1 == IF more THEN GetFromPool(pool) ELSE pool
  <2>4. reqlen \in 1..MaxLen /\ Reply(data[b]) \in Seq(Token)
    BY <1>a, <2>1, <2>2, <2>3, ReplyType
  <2>5. SubSeq(data[b], reqlen + 1, Len(data[b])) \in Seq(Token)
    <3>. HIDE DEF reqlen
    <3>. QED  BY <1>a, <2>1, <2>4, PartType
  <2>6. pool1 \in Pool /\ new \in Pointer /\ (more => new \in Buf)
    BY <2>1, <2>3, PoolTypes DEF Pointer
  <2>7. data' \in [Buf -> Seq(Token)] /\ sendindex' \in [Buf -> Nat] /\ rd' \in [Conn -> Pointer]
    BY <2>1, <2>3, <2>4, <2>5, <2>6 DEF TypeOK
  <2>8. pool' \in Pool
    BY <2>1, <2>3, <2>6, PoolTypes DEF Pointer
  <2>9. LoopTypes'
    BY <1>0, <1>25, <2>1, <2>3, BufAssumption DEF ParseRequest, LoopTypes, Pointer
  <2>10. BufTypes' /\ ConnTypes'
    BY <1>0, <1>25, <2>7, <2>8 DEF ParseRequest, BufTypes, ConnTypes
  <2>. QED  BY <1>0, <2>9, <2>10
<1>26. CASE ReplySendSome
  <2>1. cur \in Conn /\ buf \in Buf
    BY <1>26 DEF ReplySendSome, TypeOK, Pointer
  <2>2. BufTypes' /\ ConnTypes'
    BY <1>26, <2>1, SendTypes DEF ReplySendSome
  <2>3. LoopTypes'
    BY <1>0, <1>26 DEF ReplySendSome, SendSome, LoopTypes, lvars
  <2>. QED  BY <1>0, <2>2, <2>3
<1>27. ASSUME pc = "psend", RepoolReply
       PROVE  /\ pool' \in Pool /\ buf' = Null /\ cur' \in Conn \cup {Null}
              /\ pc' \in {"parse", "hung"} /\ (pc' = "parse" => cur' \in Conn)
  <2>1. cur \in Conn /\ buf \in Buf
    BY <1>27 DEF TypeOK, Pointer
  <2>. QED  BY <1>27, <2>1, PoolTypes DEF RepoolReply, TypeOK
<1>28. CASE ReplySent
  <2>1. /\ pool' \in Pool /\ buf' = Null /\ cur' \in Conn \cup {Null}
        /\ pc' \in {"parse", "hung"} /\ (pc' = "parse" => cur' \in Conn)
    BY <1>27, <1>28 DEF ReplySent
  <2>2. BufTypes' /\ ConnTypes'
    BY <1>0, <1>28, <2>1 DEF ReplySent, BufTypes, ConnTypes, cvars
  <2>3. LoopTypes'
    BY <1>0, <1>28, <2>1 DEF ReplySent, LoopTypes, Pointer
  <2>. QED  BY <1>0, <2>2, <2>3
<1>29. CASE ReplyBlocks
  <2>1. /\ pool' \in Pool /\ buf' = Null /\ cur' \in Conn \cup {Null}
        /\ pc' \in {"parse", "hung"} /\ (pc' = "parse" => cur' \in Conn)
    BY <1>27, <1>29 DEF ReplyBlocks
  <2>2. wr' \in [Conn -> Pointer]
    BY <1>29 DEF ReplyBlocks, TypeOK
  <2>3. BufTypes' /\ ConnTypes'
    BY <1>0, <1>29, <2>1, <2>2 DEF ReplyBlocks, BufTypes, ConnTypes
  <2>4. LoopTypes'
    BY <1>0, <1>29, <2>1 DEF ReplyBlocks, LoopTypes, Pointer
  <2>. QED  BY <1>0, <2>3, <2>4
<1>30. CASE ReplyFails
  <2>1. cur \in Conn /\ buf \in Buf /\ pool \in Pool
    BY <1>30 DEF ReplyFails, TypeOK, Pointer
  <2>2. /\ pool' \in Pool /\ ConnTypes' /\ batch' = batch /\ cur' = Null
        /\ pc' \in {"wait", "event", "hung"}
    <3>1. CASE CloseEvent(Repool(pool, buf), cur, batch)
      BY <1>0, <2>1, <3>1, PoolTypes, CloseTypes
    <3>2. CASE pc' = "hung" /\ cur' = Null /\ UNCHANGED <<pool, cvars, ready, batch>>
      BY <1>0, <2>1, <3>2 DEF ConnTypes, cvars
    <3>. QED  BY <1>30, <3>1, <3>2 DEF ReplyFails
  <2>3. LoopTypes'
    BY <1>0, <1>30, <2>2 DEF ReplyFails, LoopTypes, Pointer
  <2>4. BufTypes'
    BY <1>0, <1>30, <2>2 DEF ReplyFails, BufTypes
  <2>. QED  BY <1>0, <2>2, <2>3, <2>4
<1>31. CASE Restart
  <2>1. pool' \in Pool
    BY <1>31, AllocateFree DEF Restart
  <2>. QED  BY <1>31, <2>1, EmptySeq DEF Restart, TypeOK, Pointer
<1>32. CASE UNCHANGED vars
  BY <1>32 DEF TypeOK, vars
<1>. QED
  BY <1>1, <1>2, <1>3, <1>4, <1>5, <1>6, <1>7, <1>8, <1>9, <1>10, <1>11, <1>12, <1>13,
     <1>14, <1>15, <1>16, <1>18, <1>19, <1>20, <1>22, <1>23, <1>24, <1>25, <1>26, <1>28,
     <1>29, <1>30, <1>31, <1>32
  DEF Next, Server, Client, OutStep, ReadStep, ParseStep, Spin

\* The initial state is well-typed.
LEMMA TypeInit == Init => TypeOK
<1>. SUFFICES ASSUME Init PROVE TypeOK
  OBVIOUS
<1>1. pool \in Pool /\ <<>> \in Seq(Token)
  BY AllocateFree, EmptySeq DEF Init
<1>2. BufTypes
  BY <1>1 DEF Init, BufTypes
<1>3. ConnTypes
  BY <1>1 DEF Init, ConnTypes, Pointer
<1>4. LoopTypes
  BY DEF Init, LoopTypes, Pointer, Handling
<1>. QED  BY <1>2, <1>3, <1>4, TypeParts

\* Type correctness of the event loop: every variable keeps its type, a
\* connection is being handled whenever the loop is inside a handler, and
\* parse_buffer holds a reply buffer exactly while it is sending it.
THEOREM TypeCorrect == Spec => []TypeOK
BY TypeInit, TypeInductive, PTL DEF Spec

-----------------------------------------------------------------------------

\* Only open connections are on the ready list, in the batch, in a handler, or
\* own a read buffer; the batch has one event per connection, and none of the
\* one being handled.
OpenInv ==
  /\ \A x \in ready : x \in Conn => conn[x] = "open"
  /\ \A e \in batch : e.who \in Conn => conn[e.who] = "open"
  /\ \A e, f \in batch : e.who = f.who => e = f
  /\ pc \in Handling => conn[cur] = "open" /\ \A e \in batch : e.who # cur
  /\ \A c \in Conn : rd[c] # Null => conn[c] = "open"

\* The read buffers of the connections (and Null).
Rds == {rd[c] : c \in Conn}

RdUnique == \A c, d \in Conn : rd[c] = rd[d] /\ rd[c] # Null => c = d

\* Until a send() blocks: nothing is queued, no buffer is read into by two
\* connections or sent and read into, and exactly the others are free.
PoolInv ==
  ~blocked =>
    /\ \A c \in Conn : wr[c] = Null
    /\ RdUnique
    /\ buf \in Rds => buf = Null
    /\ FreeIs(pool, Buf \ (Rds \cup {buf}))

Inv == TypeOK /\ OpenInv /\ PoolInv

\* close_event on a pool whose free buffers are all but the read buffers: it
\* returns, and the same holds afterwards.
LEMMA CloseFree ==
  ASSUME TypeOK, NEW p \in Pool, NEW c \in Conn, NEW rest, CloseEvent(p, c, rest),
         \A d \in Conn : wr[d] = Null, RdUnique, FreeIs(p, Buf \ Rds)
  PROVE  /\ \A d \in Conn : wr'[d] = Null
         /\ RdUnique'
         /\ FreeIs(pool', Buf \ Rds')
         /\ Forget(c) /\ NextEvent(rest)
<1>1. rd \in [Conn -> Pointer] /\ wr \in [Conn -> Pointer]
  BY DEF TypeOK
<1>2. rd[c] # Null => rd[c] \in Buf \ (Buf \ Rds)
  BY <1>1 DEF Pointer, Rds
<1>3. rd[c] # Null => ~Endless(p, rd[c])
  BY <1>2, RepoolFree
<1>4. ~CloseHangs(p, c)
  BY <1>3 DEF CloseHangs
<1>5. pool' = RepoolRd(p, c) /\ Forget(c) /\ NextEvent(rest)
  BY <1>4 DEF CloseEvent, RepoolBoth
<1>6. rd' = [rd EXCEPT ![c] = Null] /\ wr' = [wr EXCEPT ![c] = Null]
  BY <1>5 DEF Forget
<1>7. RdUnique' /\ \A d \in Conn : wr'[d] = Null
  BY <1>1, <1>6 DEF RdUnique
<1>8. FreeIs(pool', Buf \ Rds')
  <2>1. CASE rd[c] = Null
    <3>1. rd' = rd
      BY <1>1, <1>6, <2>1
    <3>. QED  BY <1>5, <2>1, <3>1 DEF RepoolRd, Rds
  <2>2. CASE rd[c] # Null
    <3>1. FreeIs(Repool(p, rd[c]), (Buf \ Rds) \cup {rd[c]})
      BY <1>2, <2>2, RepoolFree
    <3>2. (Buf \ Rds) \cup {rd[c]} = Buf \ Rds'
      <4>1. \A b \in Buf : b \in Rds' <=> \E d \in Conn : d # c /\ rd[d] = b
        BY <1>1, <1>6, BufAssumption DEF Rds
      <4>2. \A b \in Buf : b \in Rds <=> \E d \in Conn : rd[d] = b
        BY DEF Rds
      <4>. QED  BY <1>2, <2>2, <4>1, <4>2 DEF RdUnique
    <3>. QED  BY <1>5, <2>2, <3>1, <3>2 DEF RepoolRd
  <2>. QED  BY <2>1, <2>2
<1>. QED  BY <1>5, <1>7, <1>8

\* close_event keeps OpenInv when no event of the connection is left.
LEMMA CloseOpen ==
  ASSUME TypeOK, OpenInv, NEW p, NEW c \in Conn, NEW rest \in SUBSET batch,
         \A e \in rest : e.who # c, CloseEvent(p, c, rest)
  PROVE  OpenInv'
<1>1. CASE pc' = "hung" /\ cur' = Null /\ batch' = rest /\ UNCHANGED <<cvars, ready>>
  BY <1>1 DEF OpenInv, Handling, cvars
<1>2. CASE Forget(c) /\ NextEvent(rest)
  <2>1. /\ conn' = [conn EXCEPT ![c] = "none"] /\ rd' = [rd EXCEPT ![c] = Null]
        /\ ready' = ready \ {c} /\ batch' = rest /\ pc' \in {"wait", "event"}
    BY <1>2 DEF Forget, NextEvent
  <2>. QED  BY <2>1 DEF OpenInv, Handling, TypeOK
<1>. QED  BY <1>1, <1>2 DEF CloseEvent

\* Every step keeps OpenInv.
LEMMA OpenInductive == TypeOK /\ OpenInv /\ [Next]_vars => OpenInv'
<1>. SUFFICES ASSUME TypeOK, OpenInv, [Next]_vars PROVE OpenInv'
  OBVIOUS
<1>. USE DEF Handling
<1>1. ASSUME NEW c \in Conn, Connect(c) PROVE OpenInv'
  BY <1>1, ConnAssumption DEF OpenInv, TypeOK, Connect, lvars
<1>2. ASSUME NEW c \in Conn, ClientSend(c) PROVE OpenInv'
  BY <1>2 DEF OpenInv, TypeOK, ClientSend, Wake, lvars
<1>3. ASSUME NEW c \in Conn, ClientRecv(c) PROVE OpenInv'
  BY <1>3 DEF OpenInv, TypeOK, ClientRecv, lvars
<1>4. ASSUME NEW c \in Conn, ClientLeave(c) PROVE OpenInv'
  BY <1>4 DEF OpenInv, TypeOK, ClientLeave, Wake, lvars
<1>5. CASE EpollWait
  <2>1. PICK S \in SUBSET {x \in ready : Live(x)} :
          batch' = {EventOf(x) : x \in S} /\ ready' = {x \in ready : Live(x)} \ S
    BY <1>5 DEF EpollWait
  <2>2. \A x \in Conn \cup {Srv} : EventOf(x).who = x
    BY DEF EventOf
  <2>3. ASSUME NEW e \in batch' PROVE \E x \in ready : e = EventOf(x) /\ e.who = x
    <3>1. PICK x \in S : e = EventOf(x)
      BY <2>1
    <3>2. x \in ready /\ x \in Conn \cup {Srv}
      BY DEF TypeOK
    <3>. QED  BY <3>1, <3>2, <2>2
  <2>4. UNCHANGED <<conn, rd>> /\ pc' = "event"
    BY <1>5 DEF EpollWait, cvars
  <2>. QED  BY <2>1, <2>3, <2>4 DEF OpenInv
<1>6. ASSUME NEW e \in batch, DispatchServer(e) PROVE OpenInv'
  BY <1>6 DEF OpenInv, TypeOK, DispatchServer, cvars
<1>7. ASSUME NEW e \in batch, DispatchClose(e) PROVE OpenInv'
  <2>1. e.who \in Conn
    BY <1>7 DEF DispatchClose, TypeOK, Event
  <2>2. \A f \in batch \ {e} : f.who # e.who
    BY DEF OpenInv
  <2>. QED  BY <1>7, <2>1, <2>2, CloseOpen DEF DispatchClose
<1>8. ASSUME NEW e \in batch, DispatchModbus(e) PROVE OpenInv'
  <2>1. e.who \in Conn
    BY <1>8 DEF DispatchModbus, TypeOK, Event
  <2>. QED  BY <1>8, <2>1 DEF OpenInv, DispatchModbus, cvars
<1>9. ASSUME NEW c \in Conn, AcceptOne(c) PROVE OpenInv'
  BY <1>9 DEF OpenInv, TypeOK, AcceptOne, lvars
<1>10. ASSUME NEW c \in Conn, AcceptRefused(c) PROVE OpenInv'
  <2>1. /\ conn' = [conn EXCEPT ![c] = "none"] /\ rd' = [rd EXCEPT ![c] = Null]
        /\ ready' = ready \ {c} /\ UNCHANGED <<batch, pc, cur>>
        /\ conn[c] = "pending" /\ pc = "accept"
    BY <1>10 DEF AcceptRefused, Forget, lvars
  <2>. QED  BY <2>1 DEF OpenInv, TypeOK
<1>11. CASE AcceptDone
  BY <1>11 DEF OpenInv, TypeOK, AcceptDone, NextEvent, cvars
<1>12. CASE OutStep
  BY <1>12 DEF OpenInv, TypeOK, OutStep, OutSendSome, OutSent, OutBlocks, OutFails, SendSome,
               cvars, lvars
<1>13. CASE ReadNoBuffer
  BY <1>13 DEF OpenInv, TypeOK, ReadNoBuffer, NextEvent, cvars
<1>14. CASE ReadData
  <2>1. /\ pc = "read" /\ pc' = "parse" /\ rd' = [rd EXCEPT ![cur] = RdBuffer]
        /\ UNCHANGED <<conn, ready, batch, cur>>
    BY <1>14 DEF ReadData
  <2>. QED  BY <2>1 DEF OpenInv, TypeOK
<1>15. CASE ReadAgain
  <2>1. /\ pc = "read" /\ pc' \in {"wait", "event"} /\ rd' = [rd EXCEPT ![cur] = RdBuffer]
        /\ UNCHANGED <<conn, ready, batch>>
    BY <1>15 DEF ReadAgain, NextEvent
  <2>. QED  BY <2>1 DEF OpenInv, TypeOK
<1>16. ASSUME NEW p, pc \in Handling, CloseEvent(p, cur, batch) PROVE OpenInv'
  <2>1. cur \in Conn /\ \A e \in batch : e.who # cur
    BY <1>16 DEF OpenInv, TypeOK
  <2>. QED  BY <1>16, <2>1, CloseOpen
<1>17. CASE ReadCloses
  BY <1>16, <1>17 DEF ReadCloses
<1>18. ASSUME pc = "parse", NEW rc, ParseReturns(rc) PROVE OpenInv'
  <2>1. /\ ready' \in {ready, ready \cup {cur}} /\ batch' = batch /\ UNCHANGED <<conn, rd>>
        /\ pc' \in {"read", "wait", "event"} /\ (pc' = "read" => cur' = cur)
    BY <1>18 DEF ParseReturns, NextEvent
  <2>2. cur \in Conn /\ conn[cur] = "open" /\ \A e \in batch : e.who # cur
    BY <1>18 DEF OpenInv, TypeOK
  <2>3. \A x \in ready' : x \in Conn => conn[x] = "open"
    BY <2>1, <2>2 DEF OpenInv
  <2>. QED  BY <2>1, <2>2, <2>3 DEF OpenInv
<1>19. CASE ParseEmpty \/ ParseIncomplete
  BY <1>18, <1>19 DEF ParseEmpty, ParseIncomplete
<1>20. CASE ParseFails
  BY <1>16, <1>20 DEF ParseFails
<1>21. CASE ParseRequest
  <2>1. PICK new : rd' = [rd EXCEPT ![cur] = new]
    BY <1>21 DEF ParseRequest
  <2>2. /\ pc = "parse" /\ UNCHANGED <<conn, ready, batch>>
        /\ pc' \in {"psend", "parse", "hung"} /\ (pc' # "hung" => cur' = cur)
    BY <1>21 DEF ParseRequest
  <2>. QED  BY <2>1, <2>2 DEF OpenInv, TypeOK
<1>22. CASE ReplySendSome
  BY <1>22 DEF OpenInv, TypeOK, ReplySendSome, SendSome, lvars
<1>23. CASE ReplySent \/ ReplyBlocks
  <2>1. /\ pc = "psend" /\ UNCHANGED <<conn, rd, ready, batch>>
        /\ pc' \in {"parse", "hung"} /\ (pc' # "hung" => cur' = cur)
    BY <1>23 DEF ReplySent, ReplyBlocks, RepoolReply, cvars
  <2>. QED  BY <2>1 DEF OpenInv
<1>24. CASE ReplyFails
  <2>1. CASE CloseEvent(Repool(pool, buf), cur, batch)
    BY <1>16, <1>24, <2>1 DEF ReplyFails
  <2>2. CASE pc' = "hung" /\ UNCHANGED <<pool, cvars, ready, batch>>
    BY <2>2 DEF OpenInv, cvars
  <2>. QED  BY <1>24, <2>1, <2>2 DEF ReplyFails
<1>25. CASE Restart
  BY <1>25 DEF OpenInv, Restart
<1>26. CASE UNCHANGED vars
  BY <1>26 DEF OpenInv, vars
<1>. QED
  BY <1>1, <1>2, <1>3, <1>4, <1>5, <1>6, <1>7, <1>8, <1>9, <1>10, <1>11, <1>12, <1>13,
     <1>14, <1>15, <1>17, <1>19, <1>20, <1>21, <1>22, <1>23, <1>24, <1>25, <1>26
  DEF Next, Server, Client, ReadStep, ParseStep, Spin

\* A step that touches neither the pool nor who owns which buffer.
LEMMA PoolKept ==
  ASSUME PoolInv, UNCHANGED <<pool, rd, wr, buf, blocked>>
  PROVE  PoolInv'
BY DEF PoolInv, RdUnique, Rds

\* The read buffer of the current connection, with or without get_from_pool.
LEMMA ReadFree ==
  ASSUME TypeOK, PoolInv, ~blocked, pc = "read", RdBuffer # Null,
         pool' = PoolForRead, rd' = [rd EXCEPT ![cur] = RdBuffer],
         UNCHANGED <<wr, buf, blocked>>
  PROVE  PoolInv'
<1>1. /\ cur \in Conn /\ buf = Null /\ rd \in [Conn -> Pointer] /\ pool \in Pool
      /\ \A c \in Conn : wr[c] = Null
      /\ RdUnique /\ FreeIs(pool, Buf \ (Rds \cup {buf}))
  BY DEF TypeOK, PoolInv, Handling
<1>2. CASE rd[cur] # Null
  <2>1. rd' = rd /\ pool' = pool
    BY <1>1, <1>2 DEF RdBuffer, PoolForRead
  <2>. QED  BY <2>1, PoolKept
<1>3. CASE rd[cur] = Null
  <2>1. pool.top # Null /\ pool' = GetFromPool(pool) /\ rd' = [rd EXCEPT ![cur] = pool.top]
    BY <1>3 DEF RdBuffer, PoolForRead
  <2>2. /\ pool.top \in Buf \ (Rds \cup {buf})
        /\ FreeIs(pool', (Buf \ (Rds \cup {buf})) \ {pool.top})
    BY <1>1, <2>1, GetFree
  <2>3. RdUnique'
    BY <1>1, <2>1, <2>2 DEF RdUnique, Rds
  <2>4. (Buf \ (Rds \cup {buf})) \ {pool.top} = Buf \ (Rds' \cup {buf'})
    <3>1. \A b \in Buf : b \in Rds' <=> b = pool.top \/ b \in Rds
      BY <1>1, <1>3, <2>1, BufAssumption DEF Rds
    <3>. QED  BY <1>1, <3>1
  <2>. QED  BY <1>1, <2>2, <2>3, <2>4 DEF PoolInv
<1>. QED  BY <1>2, <1>3

\* close_event in a handler that holds no reply buffer.
LEMMA ClosePool ==
  ASSUME TypeOK, PoolInv, NEW c \in Conn, NEW rest, buf = Null,
         CloseEvent(pool, c, rest), UNCHANGED <<buf, blocked>>
  PROVE  PoolInv'
<1>. SUFFICES ASSUME ~blocked PROVE PoolInv'
  BY DEF PoolInv
<1>1. Buf \ (Rds \cup {buf}) = Buf \ Rds /\ pool \in Pool
  BY BufAssumption DEF TypeOK
<1>2. /\ \A d \in Conn : wr'[d] = Null
      /\ RdUnique' /\ FreeIs(pool', Buf \ Rds')
  BY <1>1, CloseFree DEF PoolInv
<1>3. Buf \ (Rds' \cup {buf'}) = Buf \ Rds'
  BY BufAssumption
<1>. QED  BY <1>2, <1>3 DEF PoolInv

\* parse_buffer takes the request's buffer for the reply, and a new one for
\* the data behind it.
LEMMA ParsePool ==
  ASSUME TypeOK, PoolInv, ~blocked, ParseRequest
  PROVE  PoolInv'
<1>1. /\ pc = "parse" /\ cur \in Conn /\ buf = Null /\ rd \in [Conn -> Pointer] /\ pool \in Pool
      /\ rd[cur] \in Buf /\ wr[cur] = Null /\ UNCHANGED <<wr, blocked>>
      /\ \A c \in Conn : wr[c] = Null
      /\ RdUnique /\ FreeIs(pool, Buf \ (Rds \cup {buf}))
  BY DEF ParseRequest, TypeOK, PoolInv, Handling, Pointer
<1>2. buf' = rd[cur]
  BY <1>1 DEF ParseRequest
<1>3. \/ pool' = pool /\ rd' = [rd EXCEPT ![cur] = Null]
      \/ /\ pool.top # Null /\ pool' = GetFromPool(pool)
         /\ rd' = [rd EXCEPT ![cur] = pool.top]
  BY <1>1 DEF ParseRequest
<1>4. CASE pool' = pool /\ rd' = [rd EXCEPT ![cur] = Null]
  <2>1. RdUnique' /\ (buf' \in Rds' => buf' = Null)
    BY <1>1, <1>2, <1>4, BufAssumption DEF RdUnique, Rds
  <2>2. Buf \ (Rds \cup {buf}) = Buf \ (Rds' \cup {buf'})
    <3>1. \A b \in Buf : b \in Rds' <=> b # rd[cur] /\ b \in Rds
      BY <1>1, <1>4, BufAssumption DEF Rds, RdUnique
    <3>2. rd[cur] \in Rds
      BY <1>1 DEF Rds
    <3>. QED  BY <1>1, <1>2, <3>1, <3>2, BufAssumption
  <2>. QED  BY <1>1, <1>4, <2>1, <2>2 DEF PoolInv
<1>5. CASE /\ pool.top # Null /\ pool' = GetFromPool(pool)
           /\ rd' = [rd EXCEPT ![cur] = pool.top]
  <2>1. /\ pool.top \in Buf \ (Rds \cup {buf})
        /\ FreeIs(pool', (Buf \ (Rds \cup {buf})) \ {pool.top})
    BY <1>1, <1>5, GetFree
  <2>2. RdUnique' /\ (buf' \in Rds' => buf' = Null)
    BY <1>1, <1>2, <1>5, <2>1, BufAssumption DEF RdUnique, Rds
  <2>3. (Buf \ (Rds \cup {buf})) \ {pool.top} = Buf \ (Rds' \cup {buf'})
    <3>1. \A b \in Buf : b \in Rds' <=> b = pool.top \/ (b # rd[cur] /\ b \in Rds)
      BY <1>1, <1>5, BufAssumption DEF Rds, RdUnique
    <3>2. rd[cur] \in Rds
      BY <1>1 DEF Rds
    <3>. QED  BY <1>1, <1>2, <3>1, <3>2, BufAssumption
  <2>. QED  BY <1>1, <2>1, <2>2, <2>3 DEF PoolInv
<1>. QED  BY <1>3, <1>4, <1>5

\* The reply buffer goes back to the pool.
LEMMA ReplyPool ==
  ASSUME TypeOK, PoolInv, ~blocked, pc = "psend"
  PROVE  /\ ~Endless(pool, buf) /\ Repool(pool, buf) \in Pool
         /\ FreeIs(Repool(pool, buf), Buf \ Rds)
<1>1. /\ buf \in Buf /\ pool \in Pool /\ buf \notin Rds
      /\ FreeIs(pool, Buf \ (Rds \cup {buf}))
  BY BufAssumption DEF TypeOK, PoolInv, Pointer
<1>2. /\ ~Endless(pool, buf)
      /\ FreeIs(Repool(pool, buf), (Buf \ (Rds \cup {buf})) \cup {buf})
  BY <1>1, RepoolFree
<1>3. (Buf \ (Rds \cup {buf})) \cup {buf} = Buf \ Rds
  BY <1>1
<1>. QED  BY <1>1, <1>2, <1>3, PoolTypes

\* Every step keeps PoolInv.
LEMMA PoolInductive == Inv /\ [Next]_vars => PoolInv'
<1>. SUFFICES ASSUME TypeOK, OpenInv, PoolInv, [Next]_vars PROVE PoolInv'
  BY DEF Inv
<1>. USE DEF Handling
<1>1. ASSUME NEW c \in Conn, Client(c) PROVE PoolInv'
  BY <1>1, PoolKept DEF Client, Connect, ClientSend, ClientRecv, ClientLeave, pvars, lvars
<1>2. CASE EpollWait \/ AcceptDone
  BY <1>2, PoolKept DEF EpollWait, AcceptDone, pvars, cvars
<1>3. ASSUME NEW e \in batch, DispatchServer(e) \/ DispatchModbus(e) PROVE PoolInv'
  BY <1>3, PoolKept DEF DispatchServer, DispatchModbus, pvars, cvars
<1>4. ASSUME NEW e \in batch, DispatchClose(e) PROVE PoolInv'
  <2>1. e.who \in Conn /\ buf = Null /\ UNCHANGED <<buf, blocked>>
        /\ CloseEvent(pool, e.who, batch \ {e})
    BY <1>4 DEF DispatchClose, TypeOK, Event
  <2>. QED  BY <2>1, ClosePool
<1>5. ASSUME NEW c \in Conn, AcceptOne(c) PROVE PoolInv'
  BY <1>5, PoolKept DEF AcceptOne, pvars, lvars
<1>6. ASSUME NEW c \in Conn, AcceptRefused(c) PROVE PoolInv'
  <2>. SUFFICES ASSUME ~blocked PROVE PoolInv'
    BY <1>6 DEF PoolInv, AcceptRefused
  <2>1. rd[c] = Null /\ wr[c] = Null
    BY <1>6 DEF AcceptRefused, OpenInv, PoolInv
  <2>2. UNCHANGED <<pool, rd, wr, buf, blocked>>
    BY <1>6, <2>1 DEF AcceptRefused, Forget, TypeOK, pvars, lvars
  <2>. QED  BY <2>2, PoolKept
<1>7. CASE OutStep
  <2>1. CASE OutSendSome
    BY <2>1, PoolKept DEF OutSendSome, SendSome, lvars
  <2>2. CASE OutFails
    BY <2>2, PoolKept DEF OutFails, pvars, cvars
  <2>3. CASE OutBlocks
    BY <2>3 DEF OutBlocks, PoolInv
  <2>4. CASE OutSent
    <3>1. cur \in Conn /\ wr[cur] # Null /\ UNCHANGED blocked
      BY <2>4 DEF OutSent, TypeOK
    <3>. QED  BY <3>1 DEF PoolInv
  <2>. QED  BY <1>7, <2>1, <2>2, <2>3, <2>4 DEF OutStep
<1>8. CASE ReadNoBuffer
  BY <1>8, PoolKept DEF ReadNoBuffer, pvars, cvars
<1>9. CASE ReadData \/ ReadAgain
  <2>. SUFFICES ASSUME ~blocked PROVE PoolInv'
    BY <1>9 DEF PoolInv, ReadData, ReadAgain
  <2>1. /\ pc = "read" /\ RdBuffer # Null
        /\ pool' = PoolForRead /\ rd' = [rd EXCEPT ![cur] = RdBuffer]
        /\ UNCHANGED <<wr, buf, blocked>>
    BY <1>9 DEF ReadData, ReadAgain
  <2>. QED  BY <2>1, ReadFree
<1>10. CASE ReadCloses \/ ParseFails
  <2>1. cur \in Conn /\ buf = Null /\ UNCHANGED <<buf, blocked>> /\ CloseEvent(pool, cur, batch)
    BY <1>10 DEF ReadCloses, ParseFails, TypeOK
  <2>. QED  BY <2>1, ClosePool
<1>11. CASE ParseEmpty \/ ParseIncomplete
  BY <1>11, PoolKept DEF ParseEmpty, ParseIncomplete, ParseReturns, pvars
<1>12. CASE ParseRequest
  <2>. SUFFICES ASSUME ~blocked PROVE PoolInv'
    BY <1>12 DEF PoolInv, ParseRequest
  <2>. QED  BY <1>12, ParsePool
<1>13. CASE ReplySendSome
  BY <1>13, PoolKept DEF ReplySendSome, SendSome, lvars
<1>14. CASE ReplySent
  <2>. SUFFICES ASSUME ~blocked PROVE PoolInv'
    BY <1>14 DEF PoolInv, ReplySent
  <2>1. pool' = Repool(pool, buf) /\ buf' = Null /\ UNCHANGED <<rd, wr, blocked>>
    BY <1>14, ReplyPool DEF ReplySent, RepoolReply, cvars
  <2>2. FreeIs(pool', Buf \ Rds') /\ RdUnique' /\ \A c \in Conn : wr'[c] = Null
    BY <1>14, <2>1, ReplyPool DEF ReplySent, PoolInv, RdUnique, Rds
  <2>3. Buf \ (Rds' \cup {buf'}) = Buf \ Rds'
    BY <2>1, BufAssumption
  <2>. QED  BY <2>1, <2>2, <2>3 DEF PoolInv
<1>15. CASE ReplyBlocks
  BY <1>15 DEF ReplyBlocks, PoolInv
<1>16. CASE ReplyFails
  <2>. SUFFICES ASSUME ~blocked PROVE PoolInv'
    BY <1>16 DEF PoolInv, ReplyFails
  <2>1. pc = "psend" /\ cur \in Conn /\ buf' = Null /\ UNCHANGED blocked
        /\ CloseEvent(Repool(pool, buf), cur, batch)
    BY <1>16, ReplyPool DEF ReplyFails, TypeOK
  <2>2. FreeIs(pool', Buf \ Rds') /\ RdUnique' /\ \A c \in Conn : wr'[c] = Null
    BY <2>1, ReplyPool, CloseFree DEF PoolInv
  <2>3. Buf \ (Rds' \cup {buf'}) = Buf \ Rds'
    BY <2>1, BufAssumption
  <2>. QED  BY <2>1, <2>2, <2>3 DEF PoolInv
<1>17. CASE Restart
  <2>1. /\ pool' = PoolAllocate /\ buf' = Null
        /\ rd' = [c \in Conn |-> Null] /\ wr' = [c \in Conn |-> Null]
    BY <1>17 DEF Restart
  <2>2. Buf \ (Rds' \cup {buf'}) = Buf
    BY <2>1, BufAssumption DEF Rds
  <2>. QED  BY <2>1, <2>2, AllocateFree DEF PoolInv, RdUnique
<1>18. CASE UNCHANGED vars
  BY <1>18, PoolKept DEF vars
<1>. QED
  BY <1>1, <1>2, <1>3, <1>4, <1>5, <1>6, <1>7, <1>8, <1>9, <1>10, <1>11, <1>12, <1>13,
     <1>14, <1>15, <1>16, <1>17, <1>18
  DEF Next, Server, ReadStep, ParseStep, Spin

LEMMA InitInv == Init => Inv
<1>. SUFFICES ASSUME Init PROVE OpenInv /\ PoolInv
  BY TypeInit DEF Inv
<1>1. OpenInv
  BY DEF Init, OpenInv, Handling
<1>2. Buf \ (Rds \cup {buf}) = Buf
  BY BufAssumption DEF Init, Rds
<1>3. PoolInv
  BY <1>2, AllocateFree DEF Init, PoolInv, RdUnique
<1>. QED  BY <1>1, <1>3

\* The invariant says what PoolPartition says, with owners counted.
LEMMA InvPartition == Inv => PoolPartition
<1>. SUFFICES ASSUME TypeOK, OpenInv, PoolInv, ~blocked PROVE PoolPartition
  BY DEF Inv, PoolPartition
<1>1. /\ \A c \in Conn : wr[c] = Null
      /\ RdUnique /\ (buf \in Rds => buf = Null)
      /\ FreeIs(pool, Buf \ (Rds \cup {buf}))
  BY DEF PoolInv
<1>2. PICK s \in Seq(Buf) :
        /\ IsFreeList(pool, s)
        /\ \A b \in Buf : b \in Buf \ (Rds \cup {buf}) <=> \E i \in 1..Len(s) : s[i] = b
  BY <1>1 DEF FreeIs
<1>3. s \in Lists /\ DOMAIN s = 1..Len(s)
  BY <1>2, FreeListBound, LenProperties
<1>4. ASSUME NEW b \in Buf
      PROVE  IF \E i \in DOMAIN s : s[i] = b
             THEN Owners(b) = 0
             ELSE Owners(b) = 1 /\ pool.next[b] = Null
  <2>. DEFINE R == {c \in Conn : rd[c] = b}
              W == {c \in Conn : wr[c] = b}
  <2>1. W = {} /\ Cardinality(W) = 0
    BY <1>1, BufAssumption, FS_EmptySet
  <2>2. CASE b \notin Rds \cup {buf}
    <3>1. R = {} /\ Cardinality(R) = 0
      BY <2>2, FS_EmptySet DEF Rds
    <3>2. Owners(b) = 0
      BY <2>1, <2>2, <3>1 DEF Owners
    <3>. QED  BY <1>2, <1>3, <2>2, <3>2
  <2>3. CASE b \in Rds \cup {buf}
    <3>1. pool.next[b] = Null /\ ~\E i \in DOMAIN s : s[i] = b
      BY <1>1, <1>2, <1>3, <2>3 DEF FreeIs
    <3>2. CASE b = buf
      <4>1. R = {} /\ Cardinality(R) = 0
        BY <1>1, <3>2, BufAssumption, FS_EmptySet DEF Rds
      <4>2. Owners(b) = 1
        BY <2>1, <3>2, <4>1 DEF Owners
      <4>. QED  BY <3>1, <4>2
    <3>3. CASE b # buf
      <4>1. PICK c \in Conn : rd[c] = b
        BY <2>3, <3>3 DEF Rds
      <4>2. Cardinality(R) = 1
        <5>1. R = {c}
          BY <1>1, <4>1, BufAssumption DEF RdUnique
        <5>. HIDE DEF R
        <5>. QED  BY <5>1, FS_Singleton
      <4>3. Owners(b) = 1
        BY <2>1, <3>3, <4>2 DEF Owners
      <4>. QED  BY <3>1, <4>3
    <3>. QED  BY <3>2, <3>3
  <2>. QED  BY <2>2, <2>3
<1>. QED  BY <1>2, <1>3, <1>4 DEF PoolPartition, OpenInv

\* For any number of connections and buffers and any lengths: until a send()
\* first blocks, the pool of neuron_tcp_server.c is a proper list, no buffer is
\* lost, and none is owned twice.
THEOREM PoolSafe == Spec => []PoolPartition
<1>1. Inv /\ [Next]_vars => Inv'
  BY TypeInductive, OpenInductive, PoolInductive DEF Inv
<1>. QED  BY <1>1, InitInv, InvPartition, PTL DEF Spec

-----------------------------------------------------------------------------
(* Runs of tokens.                                                         *)

LEMMA Lengths ==
  /\ MaxReq \in Nat \ {0} /\ ReqLen \in Nat \ {0} /\ RspLen \in Nat \ {0}
  /\ HdrLen \in Nat \ {0} /\ MaxLen \in Nat \ {0} /\ SizeMod \in Nat \ {0}
  /\ SndCap \in Nat \ {0} /\ MaxFd \in Nat \ {0}
  /\ HdrLen <= ReqLen /\ ReqLen <= MaxLen /\ RspLen <= MaxLen
BY LenAssumption

\* The length and the elements of a run.
LEMMA RunOf ==
  ASSUME NEW kind \in {"q", "r"}, NEW c \in Conn, NEW m \in Nat, NEW n \in Nat
  PROVE  /\ Tokens(kind, c, m, n) \in Seq(Token) /\ Len(Tokens(kind, c, m, n)) = n
         /\ \A i \in 1..n : Tokens(kind, c, m, n)[i] = <<kind, c, m + i>>
<1>1. Tokens(kind, c, m, n) \in Seq(Token)
  BY TokensType
<1>2. DOMAIN Tokens(kind, c, m, n) = 1..n
  BY DEF Tokens
<1>3. Len(Tokens(kind, c, m, n)) = n
  BY <1>1, <1>2, LenProperties
<1>. QED  BY <1>1, <1>3 DEF Tokens

\* Two sequences of the same length and the same elements are the same.
LEMMA SameRun ==
  ASSUME NEW kind \in {"q", "r"}, NEW c \in Conn, NEW m \in Nat, NEW n \in Nat,
         NEW s \in Seq(Token), Len(s) = n, \A i \in 1..n : s[i] = <<kind, c, m + i>>
  PROVE  s = Tokens(kind, c, m, n)
<1>1. /\ Tokens(kind, c, m, n) \in Seq(Token) /\ Len(Tokens(kind, c, m, n)) = n
      /\ \A i \in 1..n : Tokens(kind, c, m, n)[i] = <<kind, c, m + i>>
  BY RunOf
<1>. QED  BY <1>1, SeqEqual

\* An empty run.
LEMMA EmptyRun ==
  ASSUME NEW kind \in {"q", "r"}, NEW c \in Conn, NEW m \in Nat, NEW n \in Nat
  PROVE  Tokens(kind, c, m, n) = <<>> <=> n = 0
<1>1. Tokens(kind, c, m, n) \in Seq(Token) /\ Len(Tokens(kind, c, m, n)) = n
  BY RunOf
<1>. QED  BY <1>1, EmptySeq

\* A run and the one that follows it are one run.
LEMMA JoinRuns ==
  ASSUME NEW kind \in {"q", "r"}, NEW c \in Conn, NEW m \in Nat, NEW n \in Nat, NEW l \in Nat
  PROVE  Tokens(kind, c, m, n) \o Tokens(kind, c, m + n, l) = Tokens(kind, c, m, n + l)
<1>. DEFINE s == Tokens(kind, c, m, n)
            t == Tokens(kind, c, m + n, l)
<1>1. /\ s \in Seq(Token) /\ Len(s) = n
      /\ \A i \in 1..n : s[i] = <<kind, c, m + i>>
  BY RunOf
<1>2. /\ t \in Seq(Token) /\ Len(t) = l
      /\ \A i \in 1..l : t[i] = <<kind, c, (m + n) + i>>
  <2>1. m + n \in Nat
    OBVIOUS
  <2>. QED  BY <2>1, RunOf
<1>. HIDE DEF s, t
<1>3. /\ s \o t \in Seq(Token) /\ Len(s \o t) = n + l
      /\ \A i \in 1..(n + l) : (s \o t)[i] = IF i <= n THEN s[i] ELSE t[i - n]
  BY <1>1, <1>2, ConcatProperties
<1>4. \A i \in 1..(n + l) : (s \o t)[i] = <<kind, c, m + i>>
  <2>. SUFFICES ASSUME NEW i \in 1..(n + l) PROVE (s \o t)[i] = <<kind, c, m + i>>
    OBVIOUS
  <2>1. CASE i <= n
    BY <1>1, <1>3, <2>1
  <2>2. CASE ~(i <= n)
    <3>1. i - n \in 1..l /\ (m + n) + (i - n) = m + i
      BY <2>2
    <3>. QED  BY <1>2, <1>3, <2>2, <3>1
  <2>. QED  BY <2>1, <2>2
<1>5. n + l \in Nat
  OBVIOUS
<1>6. s \o t = Tokens(kind, c, m, n + l)
  BY <1>3, <1>4, <1>5, SameRun
<1>. QED  BY <1>6 DEF s, t

\* Names that stand for the two operators where only these facts are used.
Both(s, t) == s \o t
Slice(s, i, j) == SubSeq(s, i, j)

\* Part of a run is a run.
LEMMA Part ==
  \A kind \in {"q", "r"}, c \in Conn : \A m, n, a, b \in Nat :
    a <= b /\ b <= n => Slice(Tokens(kind, c, m, n), a + 1, b) = Tokens(kind, c, m + a, b - a)
<1>. SUFFICES ASSUME NEW kind \in {"q", "r"}, NEW c \in Conn, NEW m \in Nat, NEW n \in Nat,
                     NEW a \in Nat, NEW b \in Nat, a <= b, b <= n
              PROVE  Slice(Tokens(kind, c, m, n), a + 1, b) = Tokens(kind, c, m + a, b - a)
  OBVIOUS
<1>. DEFINE s == Tokens(kind, c, m, n)
            t == SubSeq(s, a + 1, b)
<1>1. /\ s \in Seq(Token) /\ Len(s) = n
      /\ \A i \in 1..n : s[i] = <<kind, c, m + i>>
  BY RunOf
<1>2. a + 1 \in Nat \ {0} /\ b \in 0..n /\ m + a \in Nat /\ b - a \in Nat
  OBVIOUS
<1>. HIDE DEF s
<1>3. t \in Seq(Token)
  BY <1>1, <1>2, PartType
<1>4. Len(t) = b - a /\ \A i \in 1..(b - a) : t[i] = s[a + i]
  <2>1. \A i \in (a + 1)..b : s[i] \in Token
    BY <1>1, <1>2, ElementOfSeq
  <2>2. /\ Len(t) = IF a + 1 <= b THEN b - (a + 1) + 1 ELSE 0
        /\ \A i \in 1..b - (a + 1) + 1 : t[i] = s[a + 1 + i - 1]
    BY <2>1, <1>2, SubSeqProperties
  <2>3. b - (a + 1) + 1 = b - a /\ \A i \in Nat : a + 1 + i - 1 = a + i
    BY <1>2
  <2>4. Len(t) = b - a
    BY <2>2, <2>3
  <2>5. \A i \in 1..(b - a) : t[i] = s[a + i]
    BY <2>2, <2>3
  <2>. QED  BY <2>4, <2>5
<1>5. \A i \in 1..(b - a) : t[i] = <<kind, c, (m + a) + i>>
  <2>. SUFFICES ASSUME NEW i \in 1..(b - a) PROVE t[i] = <<kind, c, (m + a) + i>>
    OBVIOUS
  <2>1. a + i \in 1..n /\ m + (a + i) = (m + a) + i
    OBVIOUS
  <2>. QED  BY <1>1, <1>4, <2>1
<1>. HIDE DEF t
<1>6. t = Tokens(kind, c, m + a, b - a)
  <2>1. PICK x, y \in Nat : x = m + a /\ y = b - a
    BY <1>2
  <2>2. t \in Seq(Token) /\ Len(t) = y /\ \A i \in 1..y : t[i] = <<kind, c, x + i>>
    BY <1>3, <1>4, <1>5, <2>1
  <2>3. t = Tokens(kind, c, x, y)
    BY <2>2, SameRun
  <2>. QED  BY <2>1, <2>3
<1>. QED  BY <1>6 DEF s, t, Slice

LEMMA Join ==
  \A kind \in {"q", "r"}, c \in Conn : \A m, n, l \in Nat :
    Both(Tokens(kind, c, m, n), Tokens(kind, c, m + n, l)) = Tokens(kind, c, m, n + l)
BY JoinRuns DEF Both

LEMMA FirstPart ==
  \A kind \in {"q", "r"}, c \in Conn : \A m, n, b \in Nat :
    b <= n => Slice(Tokens(kind, c, m, n), 1, b) = Tokens(kind, c, m, b)
<1>. SUFFICES ASSUME NEW kind \in {"q", "r"}, NEW c \in Conn, NEW m \in Nat, NEW n \in Nat,
                     NEW b \in Nat, b <= n
              PROVE  Slice(Tokens(kind, c, m, n), 1, b) = Tokens(kind, c, m, b)
  OBVIOUS
<1>1. \A a \in Nat : a <= b => Slice(Tokens(kind, c, m, n), a + 1, b) = Tokens(kind, c, m + a, b - a)
  BY Part
<1>2. Slice(Tokens(kind, c, m, n), 0 + 1, b) = Tokens(kind, c, m + 0, b - 0)
  <2>1. 0 \in Nat /\ 0 <= b
    OBVIOUS
  <2>. QED  BY <1>1, <2>1, Zenon
<1>3. 0 + 1 = 1 /\ m + 0 = m /\ b - 0 = b
  OBVIOUS
<1>. QED  BY <1>2, <1>3

LEMMA RunLen ==
  \A kind \in {"q", "r"}, c \in Conn : \A m, n \in Nat :
    Len(Tokens(kind, c, m, n)) = n /\ (Tokens(kind, c, m, n) = <<>> <=> n = 0)
<1>. SUFFICES ASSUME NEW kind \in {"q", "r"}, NEW c \in Conn, NEW m \in Nat, NEW n \in Nat
              PROVE  Len(Tokens(kind, c, m, n)) = n /\ (Tokens(kind, c, m, n) = <<>> <=> n = 0)
  OBVIOUS
<1>1. Len(Tokens(kind, c, m, n)) = n
  BY RunOf
<1>2. Tokens(kind, c, m, n) = <<>> <=> n = 0
  BY EmptyRun
<1>. QED  BY <1>1, <1>2

\* Multiples of the length of a request and of a reply.
LEMMA Multiples ==
  ASSUME NEW k \in Nat, NEW d \in Nat \ {0}
  PROVE  /\ k * d \in Nat /\ (k + 1) * d = k * d + d
         /\ (k * d) % d = 0 /\ (k * d) \div d = k
         /\ k # 0 => (k - 1) \in Nat /\ (k - 1) * d \in Nat /\ (k - 1) * d + d = k * d
<1>1. /\ k * d \in Nat /\ (k + 1) * d = k * d + d
      /\ (k * d) % d = 0 /\ (k * d) \div d = k
  OBVIOUS
<1>. QED  BY <1>1

-----------------------------------------------------------------------------
(* What holds until a send() first blocks.                                 *)

\* Nothing waits for EPOLLOUT, so that an event of a connection is EPOLLIN, and
\* the loop is neither in the send loop nor lost.
QuietInv ==
  ~blocked =>
    /\ \A c \in Conn : want[c] = FALSE
    /\ \A e \in batch : e.who \in Conn =>
         e.in = TRUE /\ e.out = FALSE /\ (e.bad = TRUE => peer[e.who] = "rst")
    /\ result = 0
    /\ pc \notin {"osend", "hung", "crashed"}
    /\ pc = "wait" => batch = {}

\* Tokens of requests in the read buffer of c.
RdTokens(c) == IF rd[c] = Null THEN <<>> ELSE data[rd[c]]

\* parse_buffer is sending a reply of c.
Sending(c) == pc = "psend" /\ cur = c

\* The two streams of connection c: k requests were answered, a tokens behind
\* them are in the read buffer and l more in the receive queue; of the k replies
\* g tokens were received, s are on the way, and h are still in buf.
Streams(c, k, a, l, g, s, h) ==
  /\ RdTokens(c) = Tokens("q", c, k * ReqLen, a)
  /\ rcvq[c] = Tokens("q", c, k * ReqLen + a, l)
  /\ sent[c] = k * ReqLen + a + l
  /\ sent[c] <= MaxReq * ReqLen
  /\ a <= MaxLen
  /\ got[c] = Tokens("r", c, 0, g)
  /\ sndq[c] = Tokens("r", c, g, s)
  /\ g + s + h = k * RspLen
  /\ ~Sending(c) => h = 0
  /\ Sending(c) => /\ k # 0 /\ h <= RspLen
                   /\ sendindex[buf] = RspLen - h
                   /\ data[buf] = Tokens("r", c, (k - 1) * RspLen, RspLen)

InStep(c) == \E k, a, l, g, s, h \in Nat : Streams(c, k, a, l, g, s, h)

\* Every connection is in step, and a read buffer is sent from its beginning.
StreamInv ==
  ~blocked => \A c \in Conn : InStep(c) /\ (rd[c] # Null => sendindex[rd[c]] = 0)

\* There are buffers and descriptors enough for all connections.
Enough == Cardinality(Conn) < Cardinality(Buf) /\ Cardinality(Conn) <= MaxFd

\* Somebody will look at the data of c: the ready list, the events that remain,
\* or the read loop, which is not left before a read that did not fill the buffer.
Noticed(c) ==
  \/ c \in ready
  \/ \E e \in batch : e.who = c
  \/ cur = c /\ (pc = "read" \/ (pc \in {"parse", "psend"} /\ full = TRUE))

NoticeInv ==
  ~blocked =>
    \A c \in Conn :
      /\ conn[c] = "open" /\ rcvq[c] # <<>> => Noticed(c)
      /\ conn[c] = "pending" => AcceptErrors \/ Noticed(Srv) \/ pc = "accept"

\* One buffer more than connections: get_from_pool does not fail.
LEMMA BufferLeft == Inv => PoolSuffices
<1>. SUFFICES ASSUME TypeOK, PoolInv, ~blocked, Cardinality(Conn) < Cardinality(Buf),
                     pc \in {"read", "parse"}, pool.top = Null
              PROVE  FALSE
  BY DEF Inv, PoolSuffices
<1>1. buf = Null /\ FreeIs(pool, Buf \ (Rds \cup {buf})) /\ rd \in [Conn -> Pointer]
  BY DEF TypeOK, PoolInv, Handling
<1>2. PICK s \in Seq(Buf) :
        /\ IsFreeList(pool, s)
        /\ \A b \in Buf : b \in Buf \ (Rds \cup {buf}) <=> \E i \in 1..Len(s) : s[i] = b
  BY <1>1 DEF FreeIs
<1>3. s = <<>>
  <2>. SUFFICES ASSUME s # <<>> PROVE FALSE
    OBVIOUS
  <2>1. pool.top = s[1] /\ s[1] \in Buf
    BY <1>2, EmptySeq, ElementOfSeq DEF IsFreeList
  <2>. QED  BY <2>1, BufAssumption
<1>4. \A b \in Buf : b \in Rds
  <2>1. \A i \in 1..Len(s) : FALSE
    BY <1>3, EmptySeq
  <2>. QED  BY <1>1, <1>2, <2>1, BufAssumption
<1>5. IsFiniteSet(Conn) /\ IsFiniteSet(Buf)
  BY ConnAssumption, BufAssumption
<1>6. Rds = {rd[c] : c \in Conn}
  BY DEF Rds
<1>7. IsFiniteSet(Rds) /\ Cardinality(Rds) <= Cardinality(Conn)
  <2>1. rd \in [Conn -> Rds] /\ \A x \in Rds : \E c \in Conn : rd[c] = x
    BY <1>1, <1>6
  <2>2. rd \in Surjection(Conn, Rds)
    BY <2>1, Fun_IsSurj
  <2>. QED  BY <1>5, <2>2, FS_Surjection
<1>8. Cardinality(Buf) <= Cardinality(Rds)
  BY <1>4, <1>7, FS_Subset
<1>9. Cardinality(Buf) \in Nat /\ Cardinality(Rds) \in Nat /\ Cardinality(Conn) \in Nat
  BY <1>5, <1>7, FS_CardinalityType
<1>. QED  BY <1>7, <1>8, <1>9

-----------------------------------------------------------------------------
(* The steps of the loop while no send() has blocked.                      *)

\* A buffer that starts with request k + 1: its header tells the length of a
\* request, and the reply is the one due next.
LEMMA FrontOfRun ==
  ASSUME NEW c \in Conn, NEW k \in Nat, NEW a \in Nat \ {0}
  PROVE  /\ Announced(Tokens("q", c, k * ReqLen, a)) = {ReqLen}
         /\ Reply(Tokens("q", c, k * ReqLen, a)) = Tokens("r", c, k * RspLen, RspLen)
<1>1. /\ k * ReqLen \in Nat /\ (k * ReqLen) % ReqLen = 0 /\ (k * ReqLen) \div ReqLen = k
  BY Lengths, Multiples
<1>. DEFINE m == k * ReqLen
            d == Tokens("q", c, m, a)
<1>2. d # <<>> /\ d[1] = <<"q", c, m + 1>>
  <2>1. 1 \in 1..a /\ a \in Nat /\ a # 0 /\ "q" \in {"q", "r"} /\ m \in Nat
    BY <1>1
  <2>. HIDE DEF m
  <2>2. \A i \in 1..a : Tokens("q", c, m, a)[i] = <<"q", c, m + i>>
    BY <2>1, RunOf
  <2>3. Tokens("q", c, m, a) # <<>>
    BY <2>1, EmptyRun
  <2>. QED  BY <2>1, <2>2, <2>3
<1>. HIDE DEF d
<1>3. d[1][1] = "q" /\ d[1][2] = c /\ d[1][3] = m + 1
  BY <1>2
<1>. HIDE DEF m
<1>4. m \in Nat /\ m % ReqLen = 0 /\ m \div ReqLen = k
  BY <1>1 DEF m
<1>5. d[1][3] - 1 = m
  BY <1>3, <1>4
<1>6. Announced(d) = {ReqLen}
  BY <1>2, <1>3, <1>4, <1>5 DEF Announced
<1>7. Reply(d) = Tokens("r", c, k * RspLen, RspLen)
  BY <1>3, <1>4, <1>5 DEF Reply
<1>. QED  BY <1>6, <1>7 DEF d, m

\* parse_buffer finds requests of the right length only, and no reply longer
\* than a buffer.
LEMMA FrontRequest ==
  ASSUME TypeOK, StreamInv, ~blocked, cur \in Conn, rd[cur] # Null,
         NEW len \in Announced(data[rd[cur]]), Reqlen(data[rd[cur]], len) # 0
  PROVE  /\ Reqlen(data[rd[cur]], len) = ReqLen
         /\ Len(data[rd[cur]]) \in Nat /\ ReqLen <= Len(data[rd[cur]])
<1>. DEFINE d == data[rd[cur]]
<1>1. PICK k \in Nat, a \in Nat : d = Tokens("q", cur, k * ReqLen, a)
  BY DEF StreamInv, InStep, Streams, RdTokens
<1>. HIDE DEF d
<1>2. k * ReqLen \in Nat
  BY Lengths, Multiples
<1>3. Len(d) = a
  BY <1>1, <1>2, RunOf
<1>4. a % SizeMod \in Nat /\ a % SizeMod <= a /\ 0 % SizeMod = 0
  BY Lengths
<1>5. Reqlen(d, len) # 0
  BY DEF d
<1>6. ~(a % SizeMod < HdrLen) /\ ~(a % SizeMod < len) /\ Reqlen(d, len) = len
  BY <1>3, <1>5 DEF Reqlen
<1>7. a # 0
  BY <1>4, <1>6, Lengths
<1>8. Announced(d) = {ReqLen}
  BY <1>1, <1>7, FrontOfRun
<1>9. len = ReqLen
  BY <1>8 DEF d
<1>10. ReqLen <= a
  BY <1>4, <1>6, <1>9, Lengths
<1>. QED  BY <1>3, <1>6, <1>9, <1>10 DEF d

\* close_event of c, with the events rest still to be handled: it returns, it
\* has a cause, and it does not touch the read buffers of others.
Closes(c, rest) ==
  /\ \/ pc = "event" /\ \E e \in batch : e.who = c /\ rest = batch \ {e}
     \/ pc \in {"read", "parse", "psend"} /\ cur = c /\ rest = batch
  /\ peer[c] # "up" \/ pool.top = Null \/ (rd[c] # Null /\ Len(data[rd[c]]) >= MaxLen)
  /\ Forget(c) /\ NextEvent(rest)
  /\ buf' = Null /\ result' = 0 /\ blocked' = blocked
  /\ \A d \in Conn : d # c /\ rd[d] # Null =>
       data'[rd[d]] = data[rd[d]] /\ sendindex'[rd[d]] = sendindex[rd[d]]

\* The request in front of the read buffer becomes a reply, and what follows it
\* is moved to a buffer nobody reads into.
Takes ==
  /\ pc = "parse" /\ rd[cur] # Null
  /\ ReqLen <= Len(data[rd[cur]])
  /\ LET b == rd[cur]
         data1 == [data EXCEPT ![b] = Reply(data[b])]
     IN  \/ /\ ReqLen = Len(data[b])
            /\ data' = data1 /\ sendindex' = sendindex
            /\ rd' = [rd EXCEPT ![cur] = Null]
         \/ /\ ReqLen < Len(data[b]) /\ pool.top \in Buf \ Rds
            /\ data' = [data1 EXCEPT ![pool.top] = SubSeq(data[b], ReqLen + 1, Len(data[b]))]
            /\ sendindex' = [sendindex EXCEPT ![pool.top] = 0]
            /\ rd' = [rd EXCEPT ![cur] = pool.top]
  /\ pc' = "psend" /\ buf' = rd[cur]
  /\ UNCHANGED <<conn, want, rcvq, sndq, sent, got, peer, ready, batch, cur, result, full, blocked>>

\* The reply was sent and its buffer goes back.
Sends ==
  /\ pc = "psend" /\ SentAll(buf)
  /\ buf' = Null /\ pc' = "parse"
  /\ UNCHANGED <<data, sendindex, cvars, ready, batch, cur, result, full, blocked>>

QuietStep ==
  \/ \E c \in Conn : Client(c) \/ AcceptOne(c) \/ AcceptRefused(c)
  \/ EpollWait \/ AcceptDone
  \/ \E e \in batch : DispatchServer(e) \/ (DispatchModbus(e) /\ pc' = "read")
  \/ ReadNoBuffer \/ ReadData \/ ReadAgain
  \/ ParseEmpty \/ ParseIncomplete \/ Takes
  \/ ReplySendSome \/ Sends
  \/ \E c \in Conn, rest \in SUBSET batch : Closes(c, rest)
  \/ UNCHANGED vars

StreamIInv == Inv /\ QuietInv /\ StreamInv

\* The buffer read() writes to is nobody else's.
LEMMA ReadsOwn ==
  ASSUME Inv, ~blocked, pc = "read", RdBuffer # Null
  PROVE  /\ cur \in Conn /\ RdBuffer \in Buf
         /\ \A d \in Conn : d # cur /\ rd[d] # Null => rd[d] # RdBuffer
         /\ buf = Null
<1>1. /\ cur \in Conn /\ buf = Null /\ rd \in [Conn -> Pointer] /\ pool \in Pool
      /\ RdUnique /\ FreeIs(pool, Buf \ (Rds \cup {buf}))
  BY DEF Inv, TypeOK, PoolInv, Handling
<1>2. CASE rd[cur] # Null
  BY <1>1, <1>2 DEF RdBuffer, RdUnique, Pointer
<1>3. CASE rd[cur] = Null
  <2>1. pool.top # Null /\ RdBuffer = pool.top
    BY <1>3 DEF RdBuffer
  <2>2. pool.top \in Buf \ (Rds \cup {buf})
    BY <1>1, <2>1, GetFree
  <2>. QED  BY <1>1, <2>1, <2>2 DEF Rds
<1>. QED  BY <1>2, <1>3

\* Which steps the loop can take.
LEMMA QuietSteps ==
  ASSUME StreamIInv, ~blocked, ~blocked', [Next]_vars
  PROVE  QuietStep
<1>1. /\ TypeOK /\ OpenInv /\ PoolInv /\ QuietInv /\ StreamInv
      /\ \A c \in Conn : wr[c] = Null
      /\ pc \notin {"osend", "hung", "crashed"} /\ result = 0
  BY DEF StreamIInv, Inv, PoolInv, QuietInv
<1>2. ASSUME NEW e \in batch, DispatchClose(e) PROVE QuietStep
  <2>1. e.who \in Conn /\ buf = Null /\ pool \in Pool /\ CloseEvent(pool, e.who, batch \ {e})
    BY <1>1, <1>2 DEF DispatchClose, TypeOK, Event
  <2>2. Buf \ (Rds \cup {buf}) = Buf \ Rds
    BY <2>1, BufAssumption
  <2>3. Forget(e.who) /\ NextEvent(batch \ {e})
    BY <1>1, <2>1, <2>2, CloseFree DEF PoolInv
  <2>4. peer[e.who] = "rst"
    BY <1>1, <1>2, <2>1 DEF QuietInv, DispatchClose, TypeOK, Event
  <2>5. Closes(e.who, batch \ {e})
    BY <1>1, <1>2, <2>1, <2>3, <2>4 DEF Closes, DispatchClose
  <2>. QED  BY <2>1, <2>5 DEF QuietStep
<1>3. ASSUME NEW e \in batch, DispatchModbus(e) PROVE QuietStep
  <2>1. e.who \in Conn
    BY <1>1, <1>3 DEF DispatchModbus, TypeOK, Event
  <2>2. pc' = "read"
    BY <1>1, <1>3, <2>1 DEF DispatchModbus, QuietInv
  <2>. QED  BY <1>3, <2>2 DEF QuietStep
<1>4. CASE OutStep
  BY <1>1, <1>4 DEF OutStep, OutSendSome, OutSent, OutBlocks, OutFails
<1>5. CASE ReadCloses
  <2>1. pc = "read" /\ RdBuffer # Null /\ CloseEvent(pool, cur, batch)
    BY <1>5 DEF ReadCloses
  <2>2. /\ cur \in Conn /\ RdBuffer \in Buf /\ buf = Null
        /\ \A d \in Conn : d # cur /\ rd[d] # Null => rd[d] # RdBuffer
    BY <2>1, ReadsOwn DEF StreamIInv
  <2>3. Forget(cur) /\ NextEvent(batch)
    <3>1. Buf \ (Rds \cup {buf}) = Buf \ Rds /\ pool \in Pool
      BY <1>1, <2>2, BufAssumption DEF TypeOK
    <3>. QED  BY <1>1, <2>1, <2>2, <3>1, CloseFree DEF PoolInv
  <2>4. peer[cur] # "up" \/ (rd[cur] # Null /\ Len(data[rd[cur]]) >= MaxLen)
    <3>. SUFFICES ASSUME peer[cur] = "up" PROVE rd[cur] # Null /\ Len(data[rd[cur]]) >= MaxLen
      OBVIOUS
    <3>1. MaxLen - Len(RdData) <= 0
      BY <1>5 DEF ReadCloses, Wanted
    <3>2. rd[cur] # Null
      <4>. SUFFICES ASSUME rd[cur] = Null PROVE FALSE
        OBVIOUS
      <4>1. Len(RdData) = 0
        BY EmptySeq DEF RdData
      <4>. QED  BY <3>1, <4>1, Lengths
    <3>3. RdData = data[rd[cur]] /\ data[rd[cur]] \in Seq(Token)
      BY <1>1, <2>2, <3>2 DEF RdData, TypeOK, Pointer
    <3>4. Len(data[rd[cur]]) \in Nat
      BY <3>3, LenProperties
    <3>. QED  BY <3>1, <3>2, <3>3, <3>4, Lengths
  <2>5. \A d \in Conn : d # cur /\ rd[d] # Null =>
          data'[rd[d]] = data[rd[d]] /\ sendindex'[rd[d]] = sendindex[rd[d]]
    <3>1. /\ data' = [data EXCEPT ![RdBuffer] = RdData]
          /\ sendindex' = sendindex \/ sendindex' = [sendindex EXCEPT ![RdBuffer] = 0]
      BY <1>5 DEF ReadCloses, SendindexForRead, RdBuffer
    <3>. QED  BY <1>1, <2>2, <3>1 DEF TypeOK, Pointer
  <2>6. Closes(cur, batch)
    BY <1>1, <1>5, <2>1, <2>2, <2>3, <2>4, <2>5 DEF Closes, ReadCloses
  <2>. QED  BY <2>2, <2>6 DEF QuietStep
<1>6. CASE ParseFails
  <2>1. /\ pc = "parse" /\ cur \in Conn /\ buf = Null /\ rd[cur] # Null
        /\ CloseEvent(pool, cur, batch)
    BY <1>1, <1>6 DEF ParseFails, TypeOK, Handling
  <2>2. Forget(cur) /\ NextEvent(batch)
    <3>1. Buf \ (Rds \cup {buf}) = Buf \ Rds /\ pool \in Pool
      BY <1>1, <2>1, BufAssumption DEF TypeOK
    <3>. QED  BY <1>1, <2>1, <3>1, CloseFree DEF PoolInv
  <2>3. pool.top = Null
    <3>1. PICK len \in Announced(data[rd[cur]]) :
             LET reqlen == Reqlen(data[rd[cur]], len) IN
               \/ reqlen > MaxLen
               \/ reqlen # 0 /\ reqlen < Len(data[rd[cur]]) /\ pool.top = Null
      BY <1>6 DEF ParseFails
    <3>2. ASSUME Reqlen(data[rd[cur]], len) > MaxLen PROVE FALSE
      <4>1. Reqlen(data[rd[cur]], len) # 0
        BY <3>2, Lengths
      <4>2. Reqlen(data[rd[cur]], len) = ReqLen
        BY <1>1, <2>1, <4>1, FrontRequest
      <4>. QED  BY <3>2, <4>2, Lengths
    <3>. QED  BY <3>1, <3>2
  <2>4. Closes(cur, batch)
    BY <1>6, <2>1, <2>2, <2>3 DEF Closes, ParseFails
  <2>. QED  BY <2>1, <2>4 DEF QuietStep
<1>7. CASE ParseRequest
  <2>1. /\ pc = "parse" /\ cur \in Conn /\ buf = Null /\ rd[cur] # Null /\ wr[cur] = Null
        /\ pool \in Pool /\ FreeIs(pool, Buf \ (Rds \cup {buf}))
    BY <1>1, <1>7 DEF ParseRequest, TypeOK, Handling, PoolInv
  <2>2. pool.top # Null => pool.top \in Buf \ Rds
    BY <2>1, GetFree
  <2>. DEFINE b == rd[cur]
              data1 == [data EXCEPT ![b] = Reply(data[b])]
  <2>3. PICK len \in Announced(data[b]) :
          LET reqlen == Reqlen(data[b], len)
              more == reqlen < Len(data[b])
              new == IF more THEN pool.top ELSE Null
          IN  /\ reqlen \in 1..MaxLen
              /\ more => new # Null
              /\ data' = IF more
                         THEN [data1 EXCEPT ![new] = SubSeq(data[b], reqlen + 1, Len(data[b]))]
                         ELSE data1
              /\ sendindex' = IF more THEN [sendindex EXCEPT ![new] = 0] ELSE sendindex
              /\ rd' = [rd EXCEPT ![cur] = new]
              /\ pc' = "psend" /\ buf' = b /\ cur' = cur
    BY <1>7, <2>1 DEF ParseRequest
  <2>4. Reqlen(data[b], len) # 0
    BY <2>3
  <2>5. /\ Reqlen(data[b], len) = ReqLen
        /\ Len(data[b]) \in Nat /\ ReqLen <= Len(data[b])
    BY <1>1, <2>1, <2>4, FrontRequest
  <2>6. UNCHANGED <<conn, want, rcvq, sndq, sent, got, peer, ready, batch, result, full, blocked>>
    BY <1>7 DEF ParseRequest
  <2>7. \/ /\ ReqLen = Len(data[b])
           /\ data' = data1 /\ sendindex' = sendindex
           /\ rd' = [rd EXCEPT ![cur] = Null]
        \/ /\ ReqLen < Len(data[b]) /\ pool.top \in Buf \ Rds
           /\ data' = [data1 EXCEPT ![pool.top] = SubSeq(data[b], ReqLen + 1, Len(data[b]))]
           /\ sendindex' = [sendindex EXCEPT ![pool.top] = 0]
           /\ rd' = [rd EXCEPT ![cur] = pool.top]
    <3>1. CASE ReqLen < Len(data[b])
      BY <2>2, <2>3, <2>5, <3>1
    <3>2. CASE ~(ReqLen < Len(data[b]))
      <4>1. ReqLen = Len(data[b])
        BY <2>5, <3>2, Lengths
      <4>. QED  BY <2>3, <2>5, <3>2, <4>1
    <3>. QED  BY <3>1, <3>2
  <2>8. Takes
    BY <2>1, <2>3, <2>5, <2>6, <2>7 DEF Takes
  <2>. QED  BY <2>8 DEF QuietStep
<1>8. CASE ReplySent
  <2>1. ~Endless(pool, buf)
    BY <1>1, <1>8, ReplyPool DEF ReplySent
  <2>2. Sends
    BY <1>8, <2>1 DEF Sends, ReplySent, RepoolReply
  <2>. QED  BY <2>2 DEF QuietStep
<1>9. CASE ReplyBlocks
  BY <1>9 DEF ReplyBlocks
<1>10. CASE ReplyFails
  <2>1. pc = "psend" /\ cur \in Conn /\ peer[cur] = "rst" /\ buf' = Null
    BY <1>1, <1>10 DEF ReplyFails, SendFails, TypeOK, Handling
  <2>2. /\ ~Endless(pool, buf) /\ Repool(pool, buf) \in Pool
        /\ FreeIs(Repool(pool, buf), Buf \ Rds)
    BY <1>1, <2>1, ReplyPool
  <2>3. CloseEvent(Repool(pool, buf), cur, batch)
    BY <1>10, <2>2 DEF ReplyFails
  <2>4. Forget(cur) /\ NextEvent(batch)
    BY <1>1, <2>1, <2>2, <2>3, CloseFree DEF PoolInv
  <2>5. Closes(cur, batch)
    BY <1>10, <2>1, <2>4 DEF Closes, ReplyFails
  <2>. QED  BY <2>1, <2>5 DEF QuietStep
<1>11. CASE Restart \/ Spin
  BY <1>1, <1>11 DEF Restart, Spin
<1>. QED
  BY <1>2, <1>3, <1>4, <1>5, <1>6, <1>7, <1>8, <1>9, <1>10, <1>11
  DEF QuietStep, Next, Server, ReadStep, ParseStep

\* A send() that blocked is forgotten only by a new server.
LEMMA OnlyRestart ==
  ASSUME blocked, ~blocked', [Next]_vars
  PROVE  Restart
BY DEF Next, vars, Server, Client, Connect, ClientSend, ClientRecv, ClientLeave, EpollWait,
       DispatchServer, DispatchClose, DispatchModbus, AcceptOne, AcceptRefused, AcceptDone,
       OutStep, OutSendSome, SendSome, OutSent, OutBlocks, OutFails, ReadStep, ReadNoBuffer,
       ReadData, ReadAgain, ReadCloses, ParseStep, ParseEmpty, ParseIncomplete, ParseReturns,
       ParseFails, ParseRequest, ReplySendSome, ReplySent, ReplyBlocks, ReplyFails, Spin

LEMMA QuietInductive == StreamIInv /\ [Next]_vars => QuietInv'
<1>. SUFFICES ASSUME StreamIInv, [Next]_vars, ~blocked' PROVE QuietInv'
  BY DEF QuietInv
<1>1. CASE blocked
  <2>1. Restart
    BY <1>1, OnlyRestart
  <2>. QED  BY <2>1 DEF Restart, QuietInv
<1>2. CASE ~blocked
  <2>1. QuietStep
    BY <1>2, QuietSteps
  <2>2. /\ TypeOK /\ OpenInv
        /\ \A c \in Conn : want[c] = FALSE
        /\ \A e \in batch : e.who \in Conn =>
             e.in = TRUE /\ e.out = FALSE /\ (e.bad = TRUE => peer[e.who] = "rst")
        /\ result = 0
        /\ pc \notin {"osend", "hung", "crashed"}
        /\ pc = "wait" => batch = {}
    BY <1>2 DEF StreamIInv, Inv, QuietInv
  <2>3. ASSUME NEW c \in Conn, Client(c) PROVE QuietInv'
    <3>1. UNCHANGED <<want, batch, pc, result>>
      BY <2>3 DEF Client, Connect, ClientSend, ClientRecv, ClientLeave, lvars
    <3>2. \A d \in Conn : peer[d] = "rst" => peer'[d] = "rst"
      BY <2>2, <2>3 DEF Client, Connect, ClientSend, ClientRecv, ClientLeave, TypeOK
    <3>. QED  BY <2>2, <3>1, <3>2 DEF QuietInv
  <2>4. ASSUME NEW c \in Conn, AcceptOne(c) PROVE QuietInv'
    BY <2>2, <2>4 DEF AcceptOne, QuietInv, lvars
  <2>5. ASSUME NEW c \in Conn, AcceptRefused(c) PROVE QuietInv'
    <3>1. /\ want' = [want EXCEPT ![c] = FALSE] /\ peer' = [peer EXCEPT ![c] = "up"]
          /\ UNCHANGED <<batch, pc, result>> /\ conn[c] = "pending"
      BY <2>5 DEF AcceptRefused, Forget, lvars
    <3>2. \A e \in batch : e.who # c
      BY <2>2, <3>1 DEF OpenInv
    <3>3. \A d \in Conn : want'[d] = FALSE /\ (d # c => peer'[d] = peer[d])
      BY <2>2, <3>1 DEF TypeOK
    <3>. QED  BY <2>2, <3>1, <3>2, <3>3 DEF QuietInv
  <2>6. CASE EpollWait
    <3>1. PICK S \in SUBSET {x \in ready : Live(x)} : batch' = {EventOf(x) : x \in S}
      BY <2>6 DEF EpollWait
    <3>2. ASSUME NEW e \in batch', e.who \in Conn
          PROVE  e.in = TRUE /\ e.out = FALSE /\ (e.bad = TRUE => peer[e.who] = "rst")
      <4>1. PICK x \in S : e = EventOf(x)
        BY <3>1
      <4>2. x \in Conn \cup {Srv} /\ Live(x)
        BY <2>2, <3>1 DEF TypeOK
      <4>3. x # Srv
        BY <3>2, <4>1, ConnAssumption DEF EventOf
      <4>4. want[x] = FALSE /\ x \in Conn
        BY <2>2, <4>2, <4>3
      <4>5. e.who = x /\ e.in = Readable(x) /\ e.out = (want[x] /\ Writable(x))
            /\ e.bad = (peer[x] = "rst")
        BY <4>1, <4>3 DEF EventOf
      <4>6. Readable(x)
        BY <4>2, <4>3, <4>4 DEF Live
      <4>7. e.in = TRUE
        BY <4>5, <4>6 DEF Readable
      <4>8. e.out = FALSE
        BY <4>4, <4>5
      <4>. QED  BY <4>5, <4>7, <4>8
    <3>3. pc' = "event" /\ UNCHANGED <<want, result, peer>>
      BY <2>6 DEF EpollWait, cvars
    <3>. QED  BY <2>2, <3>2, <3>3 DEF QuietInv
  <2>7. CASE AcceptDone
    BY <2>2, <2>7 DEF AcceptDone, NextEvent, QuietInv, cvars
  <2>8. ASSUME NEW e \in batch, DispatchServer(e) PROVE QuietInv'
    BY <2>2, <2>8 DEF DispatchServer, QuietInv, cvars
  <2>9. ASSUME NEW e \in batch, DispatchModbus(e), pc' = "read" PROVE QuietInv'
    BY <2>2, <2>9 DEF DispatchModbus, QuietInv, cvars
  <2>10. CASE ReadNoBuffer \/ ReadData \/ ReadAgain
    <3>1. /\ UNCHANGED <<want, peer, batch>> /\ result' = 0
          /\ pc' = "parse" \/ pc' = IF batch = {} THEN "wait" ELSE "event"
      BY <2>2, <2>10 DEF ReadNoBuffer, ReadData, ReadAgain, NextEvent, cvars
    <3>. QED  BY <2>2, <3>1 DEF QuietInv
  <2>11. CASE ParseEmpty \/ ParseIncomplete
    <3>1. ParseReturns(0)
      BY <2>2, <2>11 DEF ParseEmpty, ParseIncomplete
    <3>2. /\ UNCHANGED <<want, peer, batch>> /\ result' = 0
          /\ pc' = "read" \/ pc' = IF batch = {} THEN "wait" ELSE "event"
      BY <3>1 DEF ParseReturns, NextEvent
    <3>. QED  BY <2>2, <3>2 DEF QuietInv
  <2>12. CASE Takes
    BY <2>2, <2>12 DEF Takes, QuietInv
  <2>13. CASE ReplySendSome
    BY <2>2, <2>13 DEF ReplySendSome, SendSome, QuietInv, lvars
  <2>14. CASE Sends
    BY <2>2, <2>14 DEF Sends, QuietInv, cvars
  <2>15. ASSUME NEW c \in Conn, NEW rest \in SUBSET batch, Closes(c, rest) PROVE QuietInv'
    <3>1. /\ want' = [want EXCEPT ![c] = FALSE] /\ peer' = [peer EXCEPT ![c] = "up"]
          /\ batch' = rest /\ result' = 0
          /\ pc' = IF rest = {} THEN "wait" ELSE "event"
      BY <2>15 DEF Closes, Forget, NextEvent
    <3>2. \A e \in rest : e.who # c
      BY <2>2, <2>15 DEF Closes, OpenInv, Handling
    <3>3. \A d \in Conn : want'[d] = FALSE /\ (d # c => peer'[d] = peer[d])
      BY <2>2, <3>1 DEF TypeOK
    <3>. QED  BY <2>2, <3>1, <3>2, <3>3 DEF QuietInv
  <2>16. CASE UNCHANGED vars
    BY <2>2, <2>16 DEF vars, QuietInv
  <2>. QED
    BY <2>1, <2>3, <2>4, <2>5, <2>6, <2>7, <2>8, <2>9, <2>10, <2>11, <2>12, <2>13, <2>14,
       <2>15, <2>16
    DEF QuietStep
<1>. QED  BY <1>1, <1>2

\* A step that leaves the streams of c alone.
LEMMA StreamKept ==
  ASSUME NEW c \in Conn, InStep(c), RdTokens(c)' = RdTokens(c),
         rcvq'[c] = rcvq[c], sent'[c] = sent[c], got'[c] = got[c], sndq'[c] = sndq[c],
         Sending(c)' <=> Sending(c),
         Sending(c) => buf' = buf /\ data'[buf] = data[buf] /\ sendindex'[buf] = sendindex[buf]
  PROVE  InStep(c)'
<1>1. PICK k, a, l, g, s, h \in Nat : Streams(c, k, a, l, g, s, h)
  BY DEF InStep
<1>2. Streams(c, k, a, l, g, s, h)'
  BY <1>1 DEF Streams
<1>. QED  BY <1>2 DEF InStep

\* A connection without anything in its streams.
LEMMA StreamEmpty ==
  ASSUME NEW c \in Conn, rd'[c] = Null, rcvq'[c] = <<>>, sent'[c] = 0, got'[c] = <<>>,
         sndq'[c] = <<>>, ~Sending(c)'
  PROVE  InStep(c)'
<1>1. \A kind \in {"q", "r"} : Tokens(kind, c, 0, 0) = <<>>
  BY EmptyRun
<1>2. 0 * ReqLen = 0 /\ 0 * RspLen = 0 /\ 0 + 0 = 0 /\ 0 <= MaxReq * ReqLen /\ 0 <= MaxLen
      /\ 0 + 0 + 0 = 0
  BY Lengths, Multiples
<1>3. RdTokens(c)' = <<>>
  BY DEF RdTokens
<1>4. Streams(c, 0, 0, 0, 0, 0, 0)'
  BY <1>1, <1>2, <1>3 DEF Streams
<1>. QED  BY <1>4 DEF InStep

\* Nobody's streams are touched by a step of the loop that only decides what to
\* do next.
LEMMA AllKept ==
  ASSUME \A c \in Conn : InStep(c) /\ (rd[c] # Null => sendindex[rd[c]] = 0),
         UNCHANGED <<data, sendindex, rd, rcvq, sndq, sent, got, buf>>,
         \A c \in Conn : Sending(c)' <=> Sending(c)
  PROVE  StreamInv'
<1>. SUFFICES ASSUME NEW c \in Conn PROVE InStep(c)' /\ (rd'[c] # Null => sendindex'[rd'[c]] = 0)
  BY DEF StreamInv
<1>1. InStep(c)'
  BY StreamKept DEF RdTokens
<1>. QED  BY <1>1

\* A connection whose streams are forgotten; the others keep theirs.
LEMMA OneForgotten ==
  ASSUME TypeOK, \A d \in Conn : InStep(d) /\ (rd[d] # Null => sendindex[rd[d]] = 0),
         NEW c \in Conn, Forget(c), \A d \in Conn : ~Sending(d)',
         \A d \in Conn : d # c => ~Sending(d),
         \A d \in Conn : d # c /\ rd[d] # Null =>
           data'[rd[d]] = data[rd[d]] /\ sendindex'[rd[d]] = sendindex[rd[d]]
  PROVE  StreamInv'
<1>. SUFFICES ASSUME NEW d \in Conn PROVE InStep(d)' /\ (rd'[d] # Null => sendindex'[rd'[d]] = 0)
  BY DEF StreamInv
<1>1. CASE d = c
  <2>1. /\ rd'[c] = Null /\ rcvq'[c] = <<>> /\ sent'[c] = 0 /\ got'[c] = <<>> /\ sndq'[c] = <<>>
    BY DEF Forget, TypeOK
  <2>. QED  BY <1>1, <2>1, StreamEmpty
<1>2. CASE d # c
  <2>1. /\ rd'[d] = rd[d] /\ rcvq'[d] = rcvq[d] /\ sent'[d] = sent[d] /\ got'[d] = got[d]
        /\ sndq'[d] = sndq[d]
    BY <1>2 DEF Forget, TypeOK
  <2>2. RdTokens(d)' = RdTokens(d)
    BY <1>2, <2>1 DEF RdTokens
  <2>3. InStep(d)'
    BY <1>2, <2>1, <2>2, StreamKept
  <2>. QED  BY <1>2, <2>1, <2>3
<1>. QED  BY <1>1, <1>2

\* Part of the request stream arrives.
LEMMA ArriveStreams ==
  ASSUME TypeOK, \A d \in Conn : InStep(d) /\ (rd[d] # Null => sendindex[rd[d]] = 0),
         NEW c \in Conn, ClientSend(c)
  PROVE  StreamInv'
<1>. SUFFICES ASSUME NEW d \in Conn PROVE InStep(d)' /\ (rd'[d] # Null => sendindex'[rd'[d]] = 0)
  BY DEF StreamInv
<1>1. /\ UNCHANGED <<data, sendindex, rd, sndq, got, pc, cur, buf>>
      /\ RdTokens(d)' = RdTokens(d) /\ (Sending(d)' <=> Sending(d))
  BY DEF ClientSend, pvars, lvars, RdTokens, Sending
<1>2. PICK n \in 1..(MaxReq * ReqLen - sent[c]) :
        /\ rcvq' = [rcvq EXCEPT ![c] = @ \o Tokens("q", c, sent[c], n)]
        /\ sent' = [sent EXCEPT ![c] = @ + n]
  BY DEF ClientSend
<1>3. CASE d # c
  <2>1. rcvq'[d] = rcvq[d] /\ sent'[d] = sent[d]
    BY <1>2, <1>3 DEF TypeOK
  <2>2. InStep(d)'
    BY <1>1, <2>1, StreamKept
  <2>. QED  BY <1>1, <2>2
<1>4. CASE d = c
  <2>1. PICK k, a, l, g, s, h \in Nat : Streams(c, k, a, l, g, s, h)
    BY DEF InStep
  <2>2. PICK m \in Nat : m = k * ReqLen + a
    BY Lengths, Multiples
  <2>3. /\ sent[c] = m + l /\ sent[c] \in Nat /\ MaxReq * ReqLen \in Nat
        /\ rcvq[c] = Tokens("q", c, m, l)
    BY <2>1, <2>2, Lengths, Multiples DEF Streams
  <2>4. n \in Nat /\ sent[c] + n = m + (l + n) /\ sent[c] + n <= MaxReq * ReqLen
        /\ l + n \in Nat
    BY <2>3
  <2>5. rcvq'[c] = Tokens("q", c, m, l + n)
    <3>1. rcvq'[c] = Both(rcvq[c], Tokens("q", c, sent[c], n))
      BY <1>2 DEF TypeOK, Both
    <3>2. Both(Tokens("q", c, m, l), Tokens("q", c, m + l, n)) = Tokens("q", c, m, l + n)
      BY <2>4, Join
    <3>. QED  BY <2>3, <3>1, <3>2
  <2>6. sent'[c] = sent[c] + n
    BY <1>2 DEF TypeOK
  <2>7. Streams(c, k, a, l + n, g, s, h)'
    BY <1>1, <1>4, <2>1, <2>2, <2>4, <2>5, <2>6 DEF Streams
  <2>8. InStep(c)'
    BY <2>4, <2>7 DEF InStep
  <2>. QED  BY <1>1, <1>4, <2>8
<1>. QED  BY <1>3, <1>4

\* The client takes what is on the way.
LEMMA ReceiveStreams ==
  ASSUME TypeOK, \A d \in Conn : InStep(d) /\ (rd[d] # Null => sendindex[rd[d]] = 0),
         NEW c \in Conn, ClientRecv(c)
  PROVE  StreamInv'
<1>. SUFFICES ASSUME NEW d \in Conn PROVE InStep(d)' /\ (rd'[d] # Null => sendindex'[rd'[d]] = 0)
  BY DEF StreamInv
<1>1. /\ UNCHANGED <<data, sendindex, rd, rcvq, sent, pc, cur, buf>>
      /\ RdTokens(d)' = RdTokens(d) /\ (Sending(d)' <=> Sending(d))
  BY DEF ClientRecv, pvars, lvars, RdTokens, Sending
<1>2. /\ got' = [got EXCEPT ![c] = @ \o sndq[c]]
      /\ sndq' = [sndq EXCEPT ![c] = <<>>]
  BY DEF ClientRecv
<1>3. CASE d # c
  <2>1. got'[d] = got[d] /\ sndq'[d] = sndq[d]
    BY <1>2, <1>3 DEF TypeOK
  <2>2. InStep(d)'
    BY <1>1, <2>1, StreamKept
  <2>. QED  BY <1>1, <2>2
<1>4. CASE d = c
  <2>1. PICK k, a, l, g, s, h \in Nat : Streams(c, k, a, l, g, s, h)
    BY DEF InStep
  <2>2. got'[c] = got[c] \o sndq[c] /\ sndq'[c] = <<>>
    BY <1>2 DEF TypeOK
  <2>3. g + s \in Nat /\ 0 + g = g /\ (g + s) + 0 + h = g + s + h
    OBVIOUS
  <2>4. got'[c] = Tokens("r", c, 0, g + s)
    <3>1. got'[c] = Both(got[c], sndq[c])
      BY <2>2 DEF Both
    <3>2. Both(Tokens("r", c, 0, g), Tokens("r", c, 0 + g, s)) = Tokens("r", c, 0, g + s)
      <4>1. 0 \in Nat
        OBVIOUS
      <4>. QED  BY <4>1, Join
    <3>. QED  BY <2>1, <2>3, <3>1, <3>2 DEF Streams
  <2>5. sndq'[c] = Tokens("r", c, g + s, 0)
    BY <2>2, <2>3, EmptyRun
  <2>6. Streams(c, k, a, l, g + s, 0, h)'
    BY <1>1, <1>4, <2>1, <2>3, <2>4, <2>5 DEF Streams
  <2>7. InStep(c)'
    BY <2>3, <2>6 DEF InStep
  <2>. QED  BY <1>1, <1>4, <2>7
<1>. QED  BY <1>3, <1>4

\* read() moves tokens from the receive queue to the read buffer, or nothing.
LEMMA ReadStreams ==
  ASSUME Inv, ~blocked, \A d \in Conn : InStep(d) /\ (rd[d] # Null => sendindex[rd[d]] = 0),
         ReadData \/ ReadAgain
  PROVE  StreamInv'
<1>. SUFFICES ASSUME NEW d \in Conn PROVE InStep(d)' /\ (rd'[d] # Null => sendindex'[rd'[d]] = 0)
  BY DEF StreamInv
<1>1. pc = "read" /\ RdBuffer # Null /\ UNCHANGED <<sndq, sent, got, buf>> /\ Wanted > 0
      /\ rd' = [rd EXCEPT ![cur] = RdBuffer] /\ sendindex' = SendindexForRead
  BY DEF ReadData, ReadAgain
<1>2. /\ cur \in Conn /\ RdBuffer \in Buf
      /\ \A x \in Conn : x # cur /\ rd[x] # Null => rd[x] # RdBuffer
      /\ TypeOK
  BY <1>1, ReadsOwn DEF Inv
<1>3. \A x \in Conn : ~Sending(x) /\ ~Sending(x)'
  BY <1>1 DEF Sending, ReadData, ReadAgain, NextEvent
<1>4. PICK k, a, l, g, s, h \in Nat : Streams(cur, k, a, l, g, s, h)
  BY <1>2 DEF InStep
<1>5. PICK m \in Nat : m = k * ReqLen
  BY Lengths, Multiples
<1>6. RdData = Tokens("q", cur, m, a) /\ Len(RdData) = a
  <2>1. RdData = Tokens("q", cur, m, a)
    BY <1>4, <1>5 DEF Streams, RdTokens, RdData
  <2>. QED  BY <1>2, <2>1, RunLen
<1>7. m + a \in Nat /\ rcvq[cur] = Tokens("q", cur, m + a, l) /\ Len(rcvq[cur]) = l
  <2>1. m + a \in Nat /\ rcvq[cur] = Tokens("q", cur, m + a, l)
    BY <1>4, <1>5 DEF Streams
  <2>. QED  BY <1>2, <2>1, RunLen
<1>8. \E n \in 0..l :
        /\ a + n <= MaxLen
        /\ data' = [data EXCEPT ![RdBuffer] = Tokens("q", cur, m, a + n)]
        /\ rcvq' = [rcvq EXCEPT ![cur] = Tokens("q", cur, (m + a) + n, l - n)]
  <2>1. CASE ReadAgain
    <3>1. l = 0
      BY <1>2, <1>7, <2>1, RunLen DEF ReadAgain
    <3>2. data' = [data EXCEPT ![RdBuffer] = RdData] /\ rcvq' = rcvq
      BY <2>1 DEF ReadAgain
    <3>3. a <= MaxLen /\ 0 \in 0..l /\ a + 0 = a /\ l - 0 = l /\ (m + a) + 0 = m + a
      BY <1>4, <3>1 DEF Streams
    <3>4. rcvq' = [rcvq EXCEPT ![cur] = Tokens("q", cur, m + a, l)]
      BY <1>2, <1>7, <3>2 DEF TypeOK
    <3>. QED  BY <1>6, <3>2, <3>3, <3>4
  <2>2. CASE ReadData
    <3>. DEFINE n == IF l < MaxLen - a THEN l ELSE MaxLen - a
    <3>1. Wanted = MaxLen - a
      BY <1>6 DEF Wanted
    <3>2. /\ data' = [data EXCEPT ![RdBuffer] = Both(RdData, Slice(rcvq[cur], 1, n))]
          /\ rcvq' = [rcvq EXCEPT ![cur] = Slice(@, n + 1, Len(@))]
      BY <1>7, <2>2, <3>1 DEF ReadData, Both, Slice
    <3>3. n \in 0..l /\ n \in Nat /\ a + n <= MaxLen /\ n <= l
      BY <1>1, <3>1, Lengths
    <3>. HIDE DEF n
    <3>4. /\ Slice(rcvq[cur], 1, n) = Tokens("q", cur, m + a, n)
          /\ Slice(rcvq[cur], n + 1, l) = Tokens("q", cur, (m + a) + n, l - n)
      <4>1. l <= l
        OBVIOUS
      <4>2. Slice(Tokens("q", cur, m + a, l), 1, n) = Tokens("q", cur, m + a, n)
        BY <1>2, <1>7, <3>3, FirstPart
      <4>3. Slice(Tokens("q", cur, m + a, l), n + 1, l) = Tokens("q", cur, (m + a) + n, l - n)
        BY <1>2, <1>7, <3>3, <4>1, Part
      <4>. QED  BY <1>7, <4>1, <4>2, <4>3
    <3>5. Both(RdData, Slice(rcvq[cur], 1, n)) = Tokens("q", cur, m, a + n)
      BY <1>2, <1>6, <3>3, <3>4, Join
    <3>6. rcvq' = [rcvq EXCEPT ![cur] = Slice(rcvq[cur], n + 1, l)]
      BY <1>2, <1>7, <3>2 DEF TypeOK
    <3>. QED  BY <3>2, <3>3, <3>4, <3>5, <3>6
  <2>. QED  BY <2>1, <2>2
<1>9. PICK n \in 0..l :
        /\ a + n <= MaxLen
        /\ data' = [data EXCEPT ![RdBuffer] = Tokens("q", cur, m, a + n)]
        /\ rcvq' = [rcvq EXCEPT ![cur] = Tokens("q", cur, (m + a) + n, l - n)]
  BY <1>8
<1>10. CASE d = cur
  <2>1. rd'[cur] = RdBuffer /\ data'[RdBuffer] = Tokens("q", cur, m, a + n)
    BY <1>1, <1>2, <1>9 DEF TypeOK
  <2>2. RdTokens(d)' = Tokens("q", d, m, a + n)
    BY <1>1, <1>10, <2>1 DEF RdTokens
  <2>3. a + n \in Nat /\ l - n \in Nat
        /\ m + (a + n) + (l - n) = m + a + l /\ (m + a) + n = m + (a + n)
    OBVIOUS
  <2>4. rcvq'[d] = Tokens("q", d, m + (a + n), l - n)
    BY <1>2, <1>9, <1>10, <2>3 DEF TypeOK
  <2>5. Streams(d, k, a + n, l - n, g, s, h)'
    BY <1>1, <1>3, <1>4, <1>5, <1>9, <1>10, <2>2, <2>3, <2>4 DEF Streams
  <2>6. InStep(d)'
    BY <2>3, <2>5 DEF InStep
  <2>7. sendindex'[RdBuffer] = 0
    <3>1. CASE rd[cur] = Null
      BY <1>1, <1>2, <3>1 DEF SendindexForRead, RdBuffer, TypeOK
    <3>2. CASE rd[cur] # Null
      BY <1>1, <1>2, <3>2 DEF SendindexForRead, RdBuffer, TypeOK
    <3>. QED  BY <3>1, <3>2
  <2>. QED  BY <1>10, <2>1, <2>6, <2>7
<1>11. CASE d # cur
  <2>1. rd'[d] = rd[d] /\ rcvq'[d] = rcvq[d]
    BY <1>1, <1>2, <1>9, <1>11 DEF TypeOK
  <2>2. rd[d] # Null => data'[rd[d]] = data[rd[d]] /\ sendindex'[rd[d]] = sendindex[rd[d]]
    <3>1. sendindex' = sendindex \/ sendindex' = [sendindex EXCEPT ![RdBuffer] = 0]
      BY <1>1 DEF SendindexForRead, RdBuffer
    <3>. QED  BY <1>2, <1>9, <1>11, <3>1 DEF TypeOK, Pointer
  <2>3. RdTokens(d)' = RdTokens(d)
    BY <2>1, <2>2 DEF RdTokens
  <2>4. InStep(d)'
    BY <1>1, <1>3, <2>1, <2>3, StreamKept
  <2>. QED  BY <2>1, <2>2, <2>4
<1>. QED  BY <1>10, <1>11

\* A request is answered: one more of the stream, and its reply is in buf.
LEMMA TakeStreams ==
  ASSUME Inv, ~blocked, \A d \in Conn : InStep(d) /\ (rd[d] # Null => sendindex[rd[d]] = 0),
         Takes
  PROVE  StreamInv'
<1>. SUFFICES ASSUME NEW d \in Conn PROVE InStep(d)' /\ (rd'[d] # Null => sendindex'[rd'[d]] = 0)
  BY DEF StreamInv
<1>1. /\ TypeOK /\ RdUnique /\ cur \in Conn /\ rd[cur] \in Buf
      /\ pc = "parse" /\ pc' = "psend" /\ buf' = rd[cur]
      /\ ReqLen <= Len(data[rd[cur]])
      /\ UNCHANGED <<rcvq, sndq, sent, got, cur>>
  BY DEF Inv, PoolInv, Takes, TypeOK, Handling, Pointer
<1>2. \A x \in Conn : ~Sending(x) /\ (Sending(x)' <=> x = cur)
  BY <1>1 DEF Sending
<1>. DEFINE b == rd[cur]
            v == data[b]
<1>3. \/ /\ ReqLen = Len(v)
         /\ data' = [data EXCEPT ![b] = Reply(v)] /\ sendindex' = sendindex
         /\ rd' = [rd EXCEPT ![cur] = Null]
      \/ /\ ReqLen < Len(v) /\ pool.top \in Buf \ Rds
         /\ data' = [[data EXCEPT ![b] = Reply(v)] EXCEPT ![pool.top] = Slice(v, ReqLen + 1, Len(v))]
         /\ sendindex' = [sendindex EXCEPT ![pool.top] = 0]
         /\ rd' = [rd EXCEPT ![cur] = pool.top]
  BY DEF Takes, Slice
<1>4. pool.top \in Buf \ Rds => pool.top # b /\ \A x \in Conn : rd[x] # pool.top
  BY <1>1 DEF Rds
<1>5. CASE d # cur
  <2>1. rd'[d] = rd[d]
    BY <1>1, <1>3, <1>5 DEF TypeOK
  <2>2. rd[d] # Null => data'[rd[d]] = data[rd[d]] /\ sendindex'[rd[d]] = sendindex[rd[d]]
    <3>. SUFFICES ASSUME rd[d] # Null
                  PROVE  data'[rd[d]] = data[rd[d]] /\ sendindex'[rd[d]] = sendindex[rd[d]]
      OBVIOUS
    <3>1. rd[d] \in Buf /\ rd[d] # b
      BY <1>1, <1>5 DEF TypeOK, Pointer, RdUnique
    <3>. HIDE DEF b, v
    <3>. QED  BY <1>1, <1>3, <1>4, <3>1 DEF TypeOK
  <2>3. RdTokens(d)' = RdTokens(d)
    BY <2>1, <2>2 DEF RdTokens
  <2>4. InStep(d)'
    BY <1>1, <1>2, <1>5, <2>1, <2>3, StreamKept
  <2>. QED  BY <2>1, <2>2, <2>4
<1>6. CASE d = cur
  <2>1. PICK k, a, l, g, s, h \in Nat : Streams(d, k, a, l, g, s, h)
    BY DEF InStep
  <2>2. PICK m \in Nat, r \in Nat, m1 \in Nat, r1 \in Nat :
          /\ m = k * ReqLen /\ r = k * RspLen
          /\ m1 = (k + 1) * ReqLen /\ r1 = (k + 1) * RspLen
          /\ m1 = m + ReqLen /\ r1 = r + RspLen
    BY Lengths, Multiples
  <2>3. v = Tokens("q", d, m, a)
    BY <1>1, <1>6, <2>1, <2>2, BufAssumption DEF Streams, RdTokens
  <2>. HIDE DEF v
  <2>4. Len(v) = a /\ ReqLen <= a
    <3>1. Len(v) = a
      BY <2>3, RunLen
    <3>. QED  BY <1>1, <3>1 DEF v
  <2>5. Reply(v) = Tokens("r", d, r, RspLen)
    <3>1. a \in Nat \ {0}
      BY <2>4, Lengths
    <3>. QED  BY <2>2, <2>3, <3>1, FrontOfRun
  <2>6. RdTokens(d)' = Tokens("q", d, m1, a - ReqLen) /\ (rd'[d] # Null => sendindex'[rd'[d]] = 0)
    <3>1. CASE /\ ReqLen = Len(v)
               /\ rd' = [rd EXCEPT ![cur] = Null]
      <4>1. rd'[d] = Null
        BY <1>1, <1>6, <3>1 DEF TypeOK
      <4>2. a - ReqLen = 0 /\ 0 \in Nat
        BY <2>4, <3>1, Lengths
      <4>3. Tokens("q", d, m1, 0) = <<>>
        BY <4>2, RunLen
      <4>. QED  BY <4>1, <4>2, <4>3 DEF RdTokens
    <3>2. CASE /\ ReqLen < Len(v) /\ pool.top \in Buf \ Rds
               /\ data' = [[data EXCEPT ![b] = Reply(v)]
                             EXCEPT ![pool.top] = Slice(v, ReqLen + 1, Len(v))]
               /\ sendindex' = [sendindex EXCEPT ![pool.top] = 0]
               /\ rd' = [rd EXCEPT ![cur] = pool.top]
      <4>1. rd'[d] = pool.top /\ pool.top # Null
        BY <1>1, <1>6, <3>2, BufAssumption DEF TypeOK
      <4>2. data'[pool.top] = Slice(v, ReqLen + 1, a) /\ sendindex'[pool.top] = 0
        BY <1>1, <2>4, <3>2 DEF TypeOK
      <4>3. ReqLen \in Nat /\ a <= a
        BY Lengths
      <4>4. Slice(v, ReqLen + 1, a) = Tokens("q", d, m + ReqLen, a - ReqLen)
        BY <2>3, <2>4, <4>3, Part
      <4>. QED  BY <2>2, <4>1, <4>2, <4>4 DEF RdTokens
    <3>. QED  BY <1>3, <3>1, <3>2
  <2>7. data'[b] = Tokens("r", d, r, RspLen)
    <3>. HIDE DEF b
    <3>1. b \in Buf
      BY <1>1 DEF b
    <3>2. data'[b] = Reply(v)
      BY <1>1, <1>3, <1>4, <3>1 DEF TypeOK
    <3>. QED  BY <2>5, <3>2
  <2>8. sendindex'[b] = 0
    <3>1. sendindex[b] = 0 /\ b \in Buf
      BY <1>1, BufAssumption
    <3>. HIDE DEF b
    <3>. QED  BY <1>1, <1>3, <1>4, <3>1 DEF TypeOK
  <2>9. /\ a - ReqLen \in Nat /\ a - ReqLen <= MaxLen /\ k + 1 \in Nat /\ RspLen \in Nat
        /\ m1 + (a - ReqLen) = m + a /\ m1 + (a - ReqLen) + l = m + a + l
        /\ k + 1 # 0 /\ (k + 1) - 1 = k /\ RspLen <= RspLen /\ RspLen - RspLen = 0
        /\ h = 0 /\ g + s + RspLen = r1
    <3>1. a <= MaxLen /\ h = 0 /\ g + s + h = r
      BY <1>2, <2>1, <2>2 DEF Streams
    <3>2. m1 = m + ReqLen /\ r1 = r + RspLen
      BY <2>2
    <3>. QED  BY <2>4, <3>1, <3>2, Lengths
  <2>10. Sending(d)'
    BY <1>2, <1>6
  <2>11. Streams(d, k + 1, a - ReqLen, l, g, s, RspLen)'
    <3>1. /\ rcvq'[d] = Tokens("q", d, m + a, l) /\ sent'[d] = m + a + l
          /\ sent'[d] <= MaxReq * ReqLen
          /\ got'[d] = Tokens("r", d, 0, g) /\ sndq'[d] = Tokens("r", d, g, s)
      BY <1>1, <2>1, <2>2 DEF Streams
    <3>2. /\ RdTokens(d)' = Tokens("q", d, (k + 1) * ReqLen, a - ReqLen)
          /\ rcvq'[d] = Tokens("q", d, (k + 1) * ReqLen + (a - ReqLen), l)
          /\ sent'[d] = (k + 1) * ReqLen + (a - ReqLen) + l
      BY <2>2, <2>6, <2>9, <3>1
    <3>3. g + s + RspLen = (k + 1) * RspLen
      BY <2>2, <2>9
    <3>4. /\ sendindex'[buf'] = RspLen - RspLen
          /\ data'[buf'] = Tokens("r", d, ((k + 1) - 1) * RspLen, RspLen)
      BY <1>1, <2>2, <2>7, <2>8, <2>9
    <3>. QED  BY <2>9, <2>10, <3>1, <3>2, <3>3, <3>4 DEF Streams
  <2>12. InStep(d)'
    BY <2>9, <2>11 DEF InStep
  <2>. QED  BY <2>6, <2>12
<1>. QED  BY <1>5, <1>6

\* One send() hands over n of the h tokens of a reply that are missing.
HandsOver(c, k, a, l, g, s, h, n) ==
  /\ Streams(c, k, a, l, g, s, h) /\ n # 0 /\ n <= h
  /\ sndq'[c] = Tokens("r", c, g, s + n)
  /\ sendindex'[buf] = RspLen - (h - n)

LEMMA SendTokens ==
  ASSUME Inv, cur \in Conn, InStep(cur), ReplySendSome
  PROVE  \E k, a, l, g, s, h, n \in Nat : HandsOver(cur, k, a, l, g, s, h, n)
<1>1. TypeOK /\ buf \in Buf /\ pc = "psend"
  BY DEF Inv, ReplySendSome, SendSome, TypeOK, Handling, Pointer
<1>. DEFINE m == IF Unsent(buf) < Room THEN Unsent(buf) ELSE Room
<1>2. /\ sndq' = [sndq EXCEPT ![cur] = Both(@, Slice(data[buf], sendindex[buf] + 1, sendindex[buf] + m))]
      /\ sendindex' = [sendindex EXCEPT ![buf] = @ + m]
      /\ Unsent(buf) > 0 /\ Room > 0
  BY DEF ReplySendSome, SendSome, Both, Slice
<1>3. PICK k, a, l, g, s, h \in Nat : Streams(cur, k, a, l, g, s, h)
  BY DEF InStep
<1>4. Sending(cur)
  BY <1>1 DEF Sending
<1>5. PICK r \in Nat : r = (k - 1) * RspLen /\ r + RspLen = k * RspLen
  <2>1. k # 0
    BY <1>3, <1>4 DEF Streams
  <2>. QED  BY <2>1, Lengths, Multiples
<1>6. /\ data[buf] = Tokens("r", cur, r, RspLen) /\ sendindex[buf] = RspLen - h
      /\ h <= RspLen /\ g + s + h = r + RspLen /\ sndq[cur] = Tokens("r", cur, g, s)
      /\ RspLen \in Nat
  BY <1>3, <1>4, <1>5, Lengths DEF Streams
<1>7. Len(data[buf]) = RspLen
  BY <1>6, RunLen
<1>8. Unsent(buf) = h
  BY <1>6, <1>7 DEF Unsent
<1>9. Room \in Int
  <2>1. Len(sndq[cur]) = s
    BY <1>6, RunLen
  <2>. QED  BY <2>1, Lengths DEF Room
<1>10. PICK n \in Nat : n = m /\ n # 0 /\ n <= h
  BY <1>2, <1>8, <1>9
<1>. HIDE DEF m
<1>11. PICK j, e \in Nat : /\ j = RspLen - h /\ sendindex[buf] = j /\ r + j = g + s
                           /\ e = j + n /\ j <= e /\ e <= RspLen /\ e - j = n
  BY <1>6, <1>10
<1>12. Slice(data[buf], j + 1, j + n) = Tokens("r", cur, g + s, n)
  <2>1. Slice(Tokens("r", cur, r, RspLen), j + 1, e) = Tokens("r", cur, r + j, e - j)
    <3>1. j <= e /\ e <= RspLen /\ RspLen \in Nat
      BY <1>6, <1>11
    <3>. QED  BY <3>1, Part
  <2>. QED  BY <1>6, <1>11, <2>1
<1>13. Both(Tokens("r", cur, g, s), Tokens("r", cur, g + s, n)) = Tokens("r", cur, g, s + n)
  BY Join
<1>14. sndq'[cur] = Tokens("r", cur, g, s + n) /\ sendindex'[buf] = j + n
  BY <1>1, <1>2, <1>6, <1>10, <1>11, <1>12, <1>13 DEF TypeOK
<1>15. j + n = RspLen - (h - n)
  BY <1>6, <1>11
<1>16. HandsOver(cur, k, a, l, g, s, h, n)
  BY <1>3, <1>10, <1>14, <1>15 DEF HandsOver
<1>. QED  BY <1>16

LEMMA SendStreams ==
  ASSUME Inv, ~blocked, \A d \in Conn : InStep(d) /\ (rd[d] # Null => sendindex[rd[d]] = 0),
         ReplySendSome
  PROVE  StreamInv'
<1>. SUFFICES ASSUME NEW d \in Conn PROVE InStep(d)' /\ (rd'[d] # Null => sendindex'[rd'[d]] = 0)
  BY DEF StreamInv
<1>1. /\ TypeOK /\ cur \in Conn /\ buf \in Buf /\ pc = "psend"
      /\ UNCHANGED <<data, rd, rcvq, sent, got, pc, cur, buf>>
      /\ RdTokens(d)' = RdTokens(d) /\ (Sending(d)' <=> Sending(d))
  BY DEF Inv, ReplySendSome, SendSome, TypeOK, Handling, Pointer, lvars, RdTokens, Sending
<1>2. /\ \A x \in Conn : x # cur => sndq'[x] = sndq[x]
      /\ \A b \in Buf : b # buf => sendindex'[b] = sendindex[b]
  BY <1>1 DEF ReplySendSome, SendSome, TypeOK
<1>3. rd'[d] # Null => sendindex'[rd'[d]] = 0
  <2>. SUFFICES ASSUME rd[d] # Null PROVE sendindex'[rd[d]] = 0
    BY <1>1
  <2>1. rd[d] \in Buf /\ rd[d] # buf
    BY <1>1 DEF Inv, PoolInv, TypeOK, Pointer, Rds
  <2>. QED  BY <1>2, <2>1
<1>4. CASE d # cur
  <2>1. ~Sending(d)
    BY <1>4 DEF Sending
  <2>2. InStep(d)'
    BY <1>1, <1>2, <1>4, <2>1, StreamKept
  <2>. QED  BY <1>3, <2>2
<1>5. CASE d = cur
  <2>1. PICK k, a, l, g, s, h, n \in Nat : HandsOver(d, k, a, l, g, s, h, n)
    BY <1>1, <1>5, SendTokens
  <2>. USE <2>1 DEF HandsOver
  <2>2. Sending(d)
    BY <1>1, <1>5 DEF Sending
  <2>3. h <= RspLen /\ RspLen \in Nat
    BY <2>1, <2>2, Lengths DEF Streams
  <2>4. h - n \in Nat /\ s + n \in Nat /\ g + (s + n) + (h - n) = g + s + h /\ h - n <= RspLen
    BY <2>1, <2>3
  <2>5. Streams(d, k, a, l, g, s + n, h - n)'
    BY <1>1, <2>1, <2>2, <2>4 DEF Streams
  <2>6. InStep(d)'
    BY <2>4, <2>5 DEF InStep
  <2>. QED  BY <1>3, <2>6
<1>. QED  BY <1>4, <1>5

\* The whole reply was handed to the kernel.
LEMMA SentStreams ==
  ASSUME Inv, \A d \in Conn : InStep(d) /\ (rd[d] # Null => sendindex[rd[d]] = 0), Sends
  PROVE  StreamInv'
<1>. SUFFICES ASSUME NEW d \in Conn PROVE InStep(d)' /\ (rd'[d] # Null => sendindex'[rd'[d]] = 0)
  BY DEF StreamInv
<1>1. /\ TypeOK /\ buf \in Buf /\ pc = "psend" /\ pc' = "parse" /\ Unsent(buf) <= 0
      /\ UNCHANGED <<data, sendindex, rd, rcvq, sndq, sent, got>>
      /\ RdTokens(d)' = RdTokens(d)
  BY DEF Inv, Sends, SentAll, TypeOK, Pointer, cvars, RdTokens
<1>2. ~Sending(d)'
  BY <1>1 DEF Sending
<1>3. CASE ~Sending(d)
  BY <1>1, <1>2, <1>3, StreamKept
<1>4. CASE Sending(d)
  <2>1. PICK k, a, l, g, s, h \in Nat : Streams(d, k, a, l, g, s, h)
    BY DEF InStep
  <2>2. PICK r \in Nat : r = (k - 1) * RspLen
    <3>1. k # 0
      BY <1>4, <2>1 DEF Streams
    <3>. QED  BY <3>1, Lengths, Multiples
  <2>3. /\ data[buf] = Tokens("r", d, r, RspLen) /\ sendindex[buf] = RspLen - h /\ RspLen \in Nat
    BY <1>4, <2>1, <2>2, Lengths DEF Streams
  <2>4. Len(data[buf]) = RspLen
    BY <2>3, RunLen
  <2>5. h = 0
    BY <1>1, <2>3, <2>4 DEF Unsent
  <2>6. Streams(d, k, a, l, g, s, h)'
    BY <1>1, <1>2, <2>1, <2>5 DEF Streams
  <2>7. InStep(d)'
    BY <2>6 DEF InStep
  <2>. QED  BY <1>1, <2>7
<1>. QED  BY <1>3, <1>4

LEMMA StreamInductive == StreamIInv /\ [Next]_vars => StreamInv'
<1>. SUFFICES ASSUME StreamIInv, [Next]_vars, ~blocked' PROVE StreamInv'
  BY DEF StreamInv
<1>1. CASE blocked
  <2>1. Restart
    BY <1>1, OnlyRestart
  <2>2. \A c \in Conn : /\ rd'[c] = Null /\ rcvq'[c] = <<>> /\ sent'[c] = 0 /\ got'[c] = <<>>
                        /\ sndq'[c] = <<>> /\ ~Sending(c)'
    BY <2>1 DEF Restart, Sending
  <2>3. \A c \in Conn : InStep(c)'
    BY <2>2, StreamEmpty
  <2>. QED  BY <2>2, <2>3 DEF StreamInv
<1>2. CASE ~blocked
  <2>1. QuietStep
    BY <1>2, QuietSteps
  <2>2. /\ Inv /\ TypeOK /\ OpenInv
        /\ \A c \in Conn : InStep(c) /\ (rd[c] # Null => sendindex[rd[c]] = 0)
    BY <1>2 DEF StreamIInv, Inv, StreamInv
  <2>3. ASSUME NEW c \in Conn, Client(c) PROVE StreamInv'
    <3>1. CASE ClientSend(c)
      BY <2>2, <3>1, ArriveStreams
    <3>2. CASE ClientRecv(c)
      BY <2>2, <3>2, ReceiveStreams
    <3>3. CASE Connect(c) \/ ClientLeave(c)
      <4>1. /\ UNCHANGED <<data, sendindex, rd, rcvq, sndq, sent, got, buf>>
            /\ \A x \in Conn : Sending(x)' <=> Sending(x)
        BY <3>3 DEF Connect, ClientLeave, pvars, lvars, Sending
      <4>. QED  BY <2>2, <4>1, AllKept
    <3>. QED  BY <2>3, <3>1, <3>2, <3>3 DEF Client
  <2>4. ASSUME NEW c \in Conn, AcceptOne(c) PROVE StreamInv'
    <3>1. /\ UNCHANGED <<data, sendindex, rd, rcvq, sndq, sent, got, buf>>
          /\ \A x \in Conn : Sending(x)' <=> Sending(x)
      BY <2>4 DEF AcceptOne, pvars, lvars, Sending
    <3>. QED  BY <2>2, <3>1, AllKept
  <2>5. ASSUME NEW c \in Conn, AcceptRefused(c) PROVE StreamInv'
    <3>1. /\ Forget(c) /\ UNCHANGED <<data, sendindex>>
          /\ \A x \in Conn : ~Sending(x) /\ ~Sending(x)'
      BY <2>5 DEF AcceptRefused, pvars, lvars, Sending
    <3>. QED  BY <2>2, <3>1, OneForgotten
  <2>6. CASE EpollWait \/ AcceptDone \/ ReadNoBuffer
    <3>1. /\ UNCHANGED <<data, sendindex, rd, rcvq, sndq, sent, got, buf>>
          /\ \A x \in Conn : ~Sending(x) /\ ~Sending(x)'
      BY <2>6 DEF EpollWait, AcceptDone, ReadNoBuffer, NextEvent, pvars, cvars, Sending
    <3>. QED  BY <2>2, <3>1, AllKept
  <2>7. ASSUME NEW e \in batch, DispatchServer(e) \/ (DispatchModbus(e) /\ pc' = "read")
        PROVE  StreamInv'
    <3>1. /\ UNCHANGED <<data, sendindex, rd, rcvq, sndq, sent, got, buf>>
          /\ \A x \in Conn : ~Sending(x) /\ ~Sending(x)'
      BY <2>7 DEF DispatchServer, DispatchModbus, pvars, cvars, Sending
    <3>. QED  BY <2>2, <3>1, AllKept
  <2>8. CASE ReadData \/ ReadAgain
    BY <1>2, <2>2, <2>8, ReadStreams
  <2>9. CASE ParseEmpty \/ ParseIncomplete
    <3>1. /\ UNCHANGED <<data, sendindex, rd, rcvq, sndq, sent, got, buf>>
          /\ \A x \in Conn : ~Sending(x) /\ ~Sending(x)'
      BY <2>9 DEF ParseEmpty, ParseIncomplete, ParseReturns, NextEvent, pvars, Sending
    <3>. QED  BY <2>2, <3>1, AllKept
  <2>10. CASE Takes
    BY <1>2, <2>2, <2>10, TakeStreams
  <2>11. CASE ReplySendSome
    BY <1>2, <2>2, <2>11, SendStreams
  <2>12. CASE Sends
    BY <2>2, <2>12, SentStreams
  <2>13. ASSUME NEW c \in Conn, NEW rest \in SUBSET batch, Closes(c, rest) PROVE StreamInv'
    <3>1. /\ Forget(c) /\ \A x \in Conn : ~Sending(x)' /\ (x # c => ~Sending(x))
          /\ \A x \in Conn : x # c /\ rd[x] # Null =>
               data'[rd[x]] = data[rd[x]] /\ sendindex'[rd[x]] = sendindex[rd[x]]
      BY <2>13 DEF Closes, NextEvent, Sending
    <3>. QED  BY <2>2, <3>1, OneForgotten
  <2>14. CASE UNCHANGED vars
    <3>1. /\ UNCHANGED <<data, sendindex, rd, rcvq, sndq, sent, got, buf>>
          /\ \A x \in Conn : Sending(x)' <=> Sending(x)
      BY <2>14 DEF vars, Sending
    <3>. QED  BY <2>2, <3>1, AllKept
  <2>. QED
    BY <2>1, <2>3, <2>4, <2>5, <2>6, <2>7, <2>8, <2>9, <2>10, <2>11, <2>12, <2>13, <2>14
    DEF QuietStep
<1>. QED  BY <1>1, <1>2

-----------------------------------------------------------------------------
(* Edge-triggered wakeups.                                                 *)

NoticeIInv == StreamIInv /\ NoticeInv

\* As long as there are descriptors enough, a connection that waits can be
\* accepted.
LEMMA Acceptable ==
  ASSUME Enough, NEW c \in Conn, conn[c] = "pending"
  PROVE  Cardinality(Opened) < MaxFd
<1>1. Opened \subseteq Conn /\ Opened # Conn /\ IsFiniteSet(Conn)
  BY ConnAssumption DEF Opened
<1>2. Cardinality(Opened) <= Cardinality(Conn) /\ Cardinality(Opened) # Cardinality(Conn)
  BY <1>1, FS_Subset
<1>3. Cardinality(Opened) \in Nat /\ Cardinality(Conn) \in Nat
  BY <1>1, FS_Subset, FS_CardinalityType
<1>. QED  BY <1>2, <1>3, Lengths DEF Enough

\* A step that neither brings data nor takes a notice away.
LEMMA NoticeKept ==
  ASSUME \A c \in Conn :
           /\ conn[c] = "open" /\ rcvq[c] # <<>> => Noticed(c)
           /\ conn[c] = "pending" => AcceptErrors \/ Noticed(Srv) \/ pc = "accept",
         \A c \in Conn : conn'[c] = "open" /\ rcvq'[c] # <<>> =>
           Noticed(c)' \/ (conn[c] = "open" /\ rcvq[c] # <<>> /\ (Noticed(c) => Noticed(c)')),
         \A c \in Conn : conn'[c] = "pending" =>
           \/ AcceptErrors \/ Noticed(Srv)' \/ pc' = "accept"
           \/ conn[c] = "pending" /\ (Noticed(Srv) \/ pc = "accept" => Noticed(Srv)' \/ pc' = "accept")
  PROVE  NoticeInv'
BY DEF NoticeInv

LEMMA NoticeInductive ==
  ASSUME Enough, NoticeIInv, [Next]_vars PROVE NoticeInv'
<1>. SUFFICES ASSUME ~blocked' PROVE NoticeInv'
  BY DEF NoticeInv
<1>1. CASE blocked
  <2>1. Restart
    BY <1>1, OnlyRestart, Zenon
  <2>. QED  BY <2>1 DEF Restart, NoticeInv
<1>2. CASE ~blocked
  <2>1. QuietStep
    BY <1>2, QuietSteps DEF NoticeIInv
  <2>2. /\ Inv /\ TypeOK /\ OpenInv /\ QuietInv
        /\ \A c \in Conn :
             /\ conn[c] = "open" /\ rcvq[c] # <<>> => Noticed(c)
             /\ conn[c] = "pending" => AcceptErrors \/ Noticed(Srv) \/ pc = "accept"
        /\ pc = "wait" => batch = {}
    BY <1>2 DEF NoticeIInv, StreamIInv, Inv, QuietInv, NoticeInv, TypeOK
  <2>3. ASSUME NEW c \in Conn, Client(c) PROVE NoticeInv'
    <3>1. UNCHANGED <<batch, pc, cur, full>> /\ ready \subseteq ready'
      BY <2>3 DEF Client, Connect, ClientSend, ClientRecv, ClientLeave, Wake, lvars
    <3>2. \A x \in Conn \cup {Srv} : Noticed(x) => Noticed(x)'
      BY <3>1 DEF Noticed
    <3>3. CASE Connect(c)
      <4>1. conn' = [conn EXCEPT ![c] = "pending"] /\ Srv \in ready' /\ rcvq' = rcvq
        BY <3>3 DEF Connect
      <4>2. Noticed(Srv)'
        BY <4>1 DEF Noticed
      <4>. QED  BY <2>2, <3>2, <4>1, <4>2, NoticeKept DEF TypeOK
    <3>4. CASE ClientSend(c)
      <4>1. /\ conn' = conn /\ (conn[c] = "open" => c \in ready')
            /\ \A x \in Conn : x # c => rcvq'[x] = rcvq[x]
        BY <2>2, <3>4 DEF ClientSend, Wake, TypeOK
      <4>2. conn[c] = "open" => Noticed(c)'
        BY <4>1 DEF Noticed
      <4>. QED  BY <2>2, <3>1, <3>2, <4>1, <4>2, NoticeKept
    <3>5. CASE ClientRecv(c) \/ ClientLeave(c)
      <4>1. conn' = conn /\ rcvq' = rcvq
        BY <3>5 DEF ClientRecv, ClientLeave
      <4>. QED  BY <2>2, <3>1, <3>2, <4>1, NoticeKept
    <3>. QED  BY <2>3, <3>3, <3>4, <3>5 DEF Client
  <2>4. ASSUME NEW c \in Conn, AcceptOne(c) PROVE NoticeInv'
    <3>1. /\ pc = "accept" /\ UNCHANGED <<batch, pc, cur, full, rcvq>> /\ ready \subseteq ready'
          /\ conn' = [conn EXCEPT ![c] = "open"]
          /\ rcvq[c] # <<>> => c \in ready'
      BY <2>4 DEF AcceptOne, Readable, lvars
    <3>2. \A x \in Conn \cup {Srv} : Noticed(x) => Noticed(x)'
      BY <3>1 DEF Noticed
    <3>3. rcvq[c] # <<>> => Noticed(c)'
      BY <3>1 DEF Noticed
    <3>. QED  BY <2>2, <3>1, <3>2, <3>3, NoticeKept DEF TypeOK
  <2>5. ASSUME NEW c \in Conn, AcceptRefused(c) PROVE NoticeInv'
    <3>1. /\ pc = "accept" /\ UNCHANGED <<batch, pc, cur, full>> /\ ready' = ready \ {c}
          /\ conn' = [conn EXCEPT ![c] = "none"] /\ rcvq' = [rcvq EXCEPT ![c] = <<>>]
      BY <2>5 DEF AcceptRefused, Forget, lvars
    <3>2. \A x \in Conn : x # c /\ Noticed(x) => Noticed(x)'
      BY <3>1 DEF Noticed
    <3>. QED  BY <2>2, <3>1, <3>2, NoticeKept DEF TypeOK
  <2>6. CASE EpollWait
    <3>1. PICK S \in SUBSET {x \in ready : Live(x)} :
            batch' = {EventOf(x) : x \in S} /\ ready' = {x \in ready : Live(x)} \ S
      BY <2>6 DEF EpollWait
    <3>2. /\ pc = "wait" /\ batch = {} /\ UNCHANGED <<conn, rcvq>>
          /\ \A x \in Conn \cup {Srv} : EventOf(x).who = x
      BY <2>2, <2>6 DEF EpollWait, cvars, EventOf
    <3>3. ASSUME NEW x \in ready, Live(x) PROVE Noticed(x)'
      <4>1. x \in Conn \cup {Srv}
        BY <2>2 DEF TypeOK
      <4>2. CASE x \in S
        <5>1. EventOf(x) \in batch' /\ EventOf(x).who = x
          BY <3>1, <3>2, <4>1, <4>2
        <5>. QED  BY <5>1 DEF Noticed
      <4>3. CASE x \notin S
        <5>1. x \in ready'
          BY <3>1, <3>3, <4>3
        <5>. QED  BY <5>1 DEF Noticed
      <4>. QED  BY <4>2, <4>3
    <3>4. ASSUME NEW c \in Conn, conn[c] = "open", rcvq[c] # <<>> PROVE Noticed(c)'
      <4>1. c \in ready
        BY <2>2, <3>2, <3>4 DEF Noticed
      <4>2. Live(c)
        BY <3>4, ConnAssumption DEF Live, Readable
      <4>. QED  BY <3>3, <4>1, <4>2
    <3>5. ASSUME NEW c \in Conn, conn[c] = "pending", ~AcceptErrors PROVE Noticed(Srv)'
      <4>1. Srv \in ready
        BY <2>2, <3>2, <3>5 DEF Noticed
      <4>2. Live(Srv)
        BY <3>5 DEF Live
      <4>. QED  BY <3>3, <4>1, <4>2
    <3>. QED  BY <3>2, <3>4, <3>5 DEF NoticeInv
  <2>7. CASE AcceptDone
    <3>1. /\ pc = "accept" /\ UNCHANGED <<conn, rcvq, ready, batch>>
          /\ \/ \A c \in Conn : conn[c] # "pending"
             \/ Cardinality(Opened) >= MaxFd
             \/ AcceptErrors
      BY <2>7 DEF AcceptDone, NextEvent, cvars
    <3>2. AcceptErrors \/ \A c \in Conn : conn[c] # "pending"
      <4>. SUFFICES ASSUME ~AcceptErrors, NEW c \in Conn, conn[c] = "pending" PROVE FALSE
        OBVIOUS
      <4>1. Cardinality(Opened) < MaxFd
        BY Acceptable
      <4>2. Cardinality(Opened) >= MaxFd
        BY <3>1
      <4>3. Cardinality(Opened) \in Nat
        BY ConnAssumption, FS_Subset, FS_CardinalityType DEF Opened
      <4>. QED  BY <4>1, <4>2, <4>3, Lengths
    <3>3. \A x \in Conn : Noticed(x) => Noticed(x)'
      BY <3>1 DEF Noticed
    <3>. QED  BY <2>2, <3>1, <3>2, <3>3, NoticeKept
  <2>8. ASSUME NEW e \in batch, DispatchServer(e) PROVE NoticeInv'
    <3>1. /\ pc = "event" /\ pc' = "accept" /\ UNCHANGED <<conn, rcvq, ready>>
          /\ batch' = batch \ {e} /\ e.who = Srv
      BY <2>8 DEF DispatchServer, cvars
    <3>2. \A x \in Conn : Noticed(x) => Noticed(x)'
      BY <3>1, ConnAssumption DEF Noticed
    <3>. QED  BY <2>2, <3>1, <3>2, NoticeKept
  <2>9. ASSUME NEW e \in batch, DispatchModbus(e), pc' = "read" PROVE NoticeInv'
    <3>1. /\ pc = "event" /\ UNCHANGED <<conn, rcvq, ready>>
          /\ batch' = batch \ {e} /\ e.who # Srv /\ cur' = e.who
      BY <2>9 DEF DispatchModbus, cvars
    <3>2. \A x \in Conn \cup {Srv} : Noticed(x) => Noticed(x)'
      BY <2>9, <3>1 DEF Noticed
    <3>. QED  BY <2>2, <3>1, <3>2, NoticeKept
  <2>10. CASE ReadNoBuffer
    <3>1. pc = "read" /\ pool.top = Null
      BY <2>10 DEF ReadNoBuffer
    <3>2. PoolSuffices
      BY <2>2, BufferLeft
    <3>. QED  BY <1>2, <3>1, <3>2 DEF PoolSuffices, Enough
  <2>11. CASE ReadData \/ ReadAgain
    <3>1. /\ pc = "read" /\ cur \in Conn /\ UNCHANGED <<conn, ready, batch>>
          /\ \A x \in Conn : x # cur => rcvq'[x] = rcvq[x]
          /\ pc' # "accept" /\ (cur' = cur \/ cur' = Null)
      BY <2>2, <2>11 DEF ReadData, ReadAgain, NextEvent, TypeOK, Handling
    <3>2. rcvq'[cur] # <<>> => full' = TRUE /\ pc' = "parse" /\ cur' = cur
      <4>1. CASE ReadAgain
        BY <4>1 DEF ReadAgain
      <4>2. CASE ReadData
        <5>. DEFINE count == IF Len(rcvq[cur]) < Wanted THEN Len(rcvq[cur]) ELSE Wanted
        <5>1. /\ rcvq' = [rcvq EXCEPT ![cur] = SubSeq(@, count + 1, Len(@))]
              /\ full' = (count = Wanted) /\ pc' = "parse" /\ cur' = cur
          BY <4>2 DEF ReadData
        <5>2. rcvq[cur] \in Seq(Token) /\ rcvq'[cur] = SubSeq(rcvq[cur], count + 1, Len(rcvq[cur]))
          BY <2>2, <3>1, <5>1 DEF TypeOK
        <5>3. Len(rcvq[cur]) \in Nat
          BY <5>2, LenProperties
        <5>4. CASE count = Wanted
          BY <5>1, <5>4
        <5>5. CASE count # Wanted
          <6>1. count = Len(rcvq[cur])
            BY <5>5
          <6>2. count + 1 \in Int /\ Len(rcvq[cur]) \in Int /\ Len(rcvq[cur]) < count + 1
            BY <5>3, <6>1
          <6>. HIDE DEF count
          <6>3. rcvq'[cur] = <<>>
            BY <5>2, <6>2, SubSeqEmpty
          <6>. QED  BY <6>3
        <5>. QED  BY <5>4, <5>5
      <4>. QED  BY <2>11, <4>1, <4>2
    <3>3. \A x \in Conn \cup {Srv} : x # cur /\ Noticed(x) => Noticed(x)'
      BY <3>1 DEF Noticed
    <3>4. \A x \in Conn : x = cur /\ rcvq'[x] # <<>> => Noticed(x)'
      BY <3>2 DEF Noticed
    <3>5. Noticed(Srv) => Noticed(Srv)'
      BY <3>1, <3>3, ConnAssumption
    <3>6. \A x \in Conn : conn'[x] = conn[x]
      BY <3>1
    <3>7. ASSUME NEW x \in Conn, conn[x] = "open", rcvq'[x] # <<>> PROVE Noticed(x)'
      <4>1. CASE x = cur
        BY <3>4, <3>7, <4>1
      <4>2. CASE x # cur
        BY <2>2, <3>1, <3>3, <3>7, <4>2
      <4>. QED  BY <4>1, <4>2
    <3>8. \A x \in Conn : conn[x] = "pending" => AcceptErrors \/ Noticed(Srv)'
      BY <2>2, <3>1, <3>5
    <3>. QED  BY <3>6, <3>7, <3>8 DEF NoticeInv
  <2>12. CASE ParseEmpty \/ ParseIncomplete
    <3>1. ParseReturns(0) /\ pc = "parse"
      BY <1>2, <2>2, <2>12 DEF ParseEmpty, ParseIncomplete, QuietInv
    <3>2. UNCHANGED <<conn, rcvq, batch, ready>> /\ pc = "parse"
      BY <3>1 DEF ParseReturns, NextEvent
    <3>3. full = TRUE => pc' = "read" /\ cur' = cur
      BY <3>1 DEF ParseReturns
    <3>4. \A x \in Conn \cup {Srv} : Noticed(x) => Noticed(x)'
      BY <3>2, <3>3 DEF Noticed
    <3>. QED  BY <2>2, <3>2, <3>4, NoticeKept
  <2>13. CASE Takes
    <3>1. /\ pc = "parse" /\ pc' = "psend" /\ UNCHANGED <<conn, rcvq, ready, batch, cur, full>>
      BY <2>13 DEF Takes
    <3>2. \A x \in Conn \cup {Srv} : Noticed(x) => Noticed(x)'
      BY <3>1 DEF Noticed
    <3>. QED  BY <2>2, <3>1, <3>2, NoticeKept
  <2>14. CASE ReplySendSome \/ UNCHANGED vars
    <3>1. UNCHANGED <<conn, rcvq, ready, batch, cur, full, pc>>
      BY <2>14 DEF ReplySendSome, SendSome, lvars, vars
    <3>2. \A x \in Conn \cup {Srv} : Noticed(x) => Noticed(x)'
      BY <3>1 DEF Noticed
    <3>. QED  BY <2>2, <3>1, <3>2, NoticeKept
  <2>15. CASE Sends
    <3>1. /\ pc = "psend" /\ pc' = "parse" /\ UNCHANGED <<conn, rcvq, ready, batch, cur, full>>
      BY <2>15 DEF Sends, cvars
    <3>2. \A x \in Conn \cup {Srv} : Noticed(x) => Noticed(x)'
      BY <3>1 DEF Noticed
    <3>. QED  BY <2>2, <3>1, <3>2, NoticeKept
  <2>16. ASSUME NEW c \in Conn, NEW rest \in SUBSET batch, Closes(c, rest) PROVE NoticeInv'
    <3>1. /\ conn' = [conn EXCEPT ![c] = "none"] /\ rcvq' = [rcvq EXCEPT ![c] = <<>>]
          /\ ready' = ready \ {c} /\ batch' = rest
          /\ pc \in {"event", "read", "parse", "psend"}
      BY <2>16 DEF Closes, Forget, NextEvent
    <3>2. \A x \in Conn \cup {Srv} : x # c =>
            (pc # "event" => cur # x) /\ \A e \in batch : e.who = x => e \in rest
      BY <2>2, <2>16 DEF Closes
    <3>3. \A x \in Conn \cup {Srv} : x # c /\ Noticed(x) => Noticed(x)'
      BY <3>1, <3>2 DEF Noticed
    <3>. QED  BY <2>2, <3>1, <3>3, NoticeKept, ConnAssumption DEF TypeOK
  <2>. QED
    BY <2>1, <2>3, <2>4, <2>5, <2>6, <2>7, <2>8, <2>9, <2>10, <2>11, <2>12, <2>13, <2>14,
       <2>15, <2>16
    DEF QuietStep
<1>. QED  BY <1>1, <1>2

-----------------------------------------------------------------------------
(* The theorems.                                                           *)

LEMMA InitStreams == Init => NoticeIInv
<1>. SUFFICES ASSUME Init PROVE QuietInv /\ StreamInv /\ NoticeInv
  BY InitInv DEF NoticeIInv, StreamIInv
<1>1. QuietInv /\ NoticeInv
  BY DEF Init, QuietInv, NoticeInv
<1>2. ASSUME NEW c \in Conn PROVE InStep(c) /\ rd[c] = Null
  <2>1. \A kind \in {"q", "r"} : Tokens(kind, c, 0, 0) = <<>>
    BY EmptyRun
  <2>2. 0 * ReqLen = 0 /\ 0 * RspLen = 0 /\ 0 + 0 = 0 /\ 0 <= MaxReq * ReqLen /\ 0 <= MaxLen
        /\ 0 + 0 + 0 = 0
    BY Lengths, Multiples
  <2>3. /\ RdTokens(c) = <<>> /\ rcvq[c] = <<>> /\ sent[c] = 0 /\ got[c] = <<>>
        /\ sndq[c] = <<>> /\ ~Sending(c) /\ rd[c] = Null
    BY DEF Init, RdTokens, Sending
  <2>4. Streams(c, 0, 0, 0, 0, 0, 0)
    BY <2>1, <2>2, <2>3 DEF Streams
  <2>. QED  BY <2>3, <2>4 DEF InStep
<1>. QED  BY <1>1, <1>2 DEF StreamInv

LEMMA StreamsInductive == StreamIInv /\ [Next]_vars => StreamIInv'
BY TypeInductive, OpenInductive, PoolInductive, QuietInductive, StreamInductive
DEF StreamIInv, Inv

LEMMA StreamsOrdered == StreamIInv => RepliesInOrder
<1>. SUFFICES ASSUME StreamIInv, ~blocked, NEW c \in Conn
              PROVE  got[c] \o sndq[c] = Tokens("r", c, 0, Len(got[c]) + Len(sndq[c]))
  BY DEF RepliesInOrder
<1>1. PICK g, s \in Nat : got[c] = Tokens("r", c, 0, g) /\ sndq[c] = Tokens("r", c, g, s)
  BY DEF StreamIInv, StreamInv, InStep, Streams
<1>2. 0 \in Nat /\ 0 + g = g
  OBVIOUS
<1>3. Len(got[c]) = g /\ Len(sndq[c]) = s
  BY <1>1, <1>2, RunLen
<1>4. Both(Tokens("r", c, 0, g), Tokens("r", c, 0 + g, s)) = Tokens("r", c, 0, g + s)
  BY <1>2, Join
<1>5. Both(got[c], sndq[c]) = Tokens("r", c, 0, Len(got[c]) + Len(sndq[c]))
  BY <1>1, <1>2, <1>3, <1>4
<1>. QED  BY <1>5 DEF Both

\* For any number of connections and buffers, any lengths and any cut of the
\* streams: what nb_send hands to a client is the replies to its own requests, in
\* their order, until a send() first blocks.
THEOREM Ordered == Spec => []RepliesInOrder
<1>1. Init => StreamIInv
  BY InitStreams DEF NoticeIInv
<1>. QED  BY <1>1, StreamsInductive, StreamsOrdered, PTL DEF Spec

\* For any number of connections: with one buffer more than connections
\* get_from_pool finds a buffer whenever the read loop or parse_buffer asks for
\* one, until a send() first blocks.
THEOREM BuffersLast == Spec => []PoolSuffices
<1>1. Inv /\ [Next]_vars => Inv'
  BY TypeInductive, OpenInductive, PoolInductive DEF Inv
<1>. QED  BY <1>1, InitInv, BufferLeft, PTL DEF Spec

\* When every connection has a descriptor, the loop never goes back to epoll_wait
\* with data it will not be told of again, nor, unless accept() has failed for
\* reasons of its own, with such connections.
THEOREM NothingForgotten ==
  ASSUME Cardinality(Conn) <= MaxFd
  PROVE  Spec => []DataIsAnnounced
<1>1. CASE ~(Cardinality(Conn) < Cardinality(Buf))
  <2>1. TRUE => DataIsAnnounced
    BY <1>1 DEF DataIsAnnounced
  <2>. QED  BY <2>1, PTL
<1>2. CASE Cardinality(Conn) < Cardinality(Buf)
  <2>1. Enough
    BY <1>2 DEF Enough
  <2>2. NoticeIInv /\ [Next]_vars => NoticeIInv'
    BY <2>1, NoticeInductive, StreamsInductive DEF NoticeIInv
  <2>3. NoticeIInv => DataIsAnnounced
    <3>. SUFFICES ASSUME NoticeIInv, pc = "wait", ~blocked
                  PROVE  /\ \A c \in Conn : conn[c] = "open" /\ rcvq[c] # <<>> => c \in ready
                         /\ \A c \in Conn : conn[c] = "pending" /\ ~AcceptErrors => Srv \in ready
      BY DEF DataIsAnnounced
    <3>1. /\ batch = {}
          /\ \A c \in Conn :
               /\ conn[c] = "open" /\ rcvq[c] # <<>> => Noticed(c)
               /\ conn[c] = "pending" => AcceptErrors \/ Noticed(Srv) \/ pc = "accept"
      BY DEF NoticeIInv, StreamIInv, QuietInv, NoticeInv
    <3>. QED  BY <3>1 DEF Noticed
  <2>. QED  BY <2>2, <2>3, InitStreams, PTL DEF Spec
<1>. QED  BY <1>1, <1>2

\* A step in which a send() first blocks closes nothing.
LEMMA BlockingKeeps ==
  ASSUME QuietInv, ~blocked, blocked', [Next]_vars
  PROVE  ReplyBlocks
BY DEF QuietInv, Next, vars, Server, Client, Connect, ClientSend, ClientRecv, ClientLeave,
       EpollWait, DispatchServer, DispatchClose, DispatchModbus, AcceptOne, AcceptRefused,
       AcceptDone, OutStep, OutSendSome, SendSome, OutSent, OutBlocks, OutFails, ReadStep,
       ReadNoBuffer, ReadData, ReadAgain, ReadCloses, ParseStep, ParseEmpty, ParseIncomplete,
       ParseReturns, ParseFails, ParseRequest, ReplySendSome, ReplySent, ReplyFails, Spin,
       Restart

\* No branch of the loop, of parse_buffer or of nb_send drops a connection
\* without a cause, for any number of connections and any lengths, until a send()
\* first blocks.
THEOREM CausedCloses == Spec => ClosedForCause
<1>. DEFINE Caused ==
       ~blocked => \A c \in Conn :
         conn[c] = "open" /\ conn'[c] # "open" =>
           \/ peer[c] # "up"
           \/ pool.top = Null
           \/ rd[c] # Null /\ Len(data[rd[c]]) = MaxLen
<1>1. ASSUME StreamIInv, [Next]_vars PROVE Caused
  <2>. SUFFICES ASSUME ~blocked, NEW c \in Conn, conn[c] = "open", conn'[c] # "open"
                PROVE  \/ peer[c] # "up"
                       \/ pool.top = Null
                       \/ rd[c] # Null /\ Len(data[rd[c]]) = MaxLen
    OBVIOUS
  <2>1. ~blocked'
    <3>. SUFFICES ASSUME blocked' PROVE FALSE
      OBVIOUS
    <3>1. ReplyBlocks
      BY <1>1, BlockingKeeps DEF StreamIInv
    <3>. QED  BY <3>1 DEF ReplyBlocks
  <2>2. QuietStep /\ TypeOK /\ StreamInv
    BY <1>1, <2>1, QuietSteps DEF StreamIInv, Inv
  <2>3. PICK d \in Conn, rest \in SUBSET batch : Closes(d, rest)
    BY <2>2 DEF QuietStep, Client, Connect, ClientSend, ClientRecv, ClientLeave, AcceptOne,
                AcceptRefused, Forget, EpollWait, AcceptDone, DispatchServer, DispatchModbus,
                ReadNoBuffer, ReadData, ReadAgain, ParseEmpty, ParseIncomplete, ParseReturns,
                Takes, ReplySendSome, SendSome, Sends, cvars, vars, TypeOK
  <2>4. d = c
    BY <2>2, <2>3 DEF Closes, Forget, TypeOK
  <2>5. rd[c] # Null => Len(data[rd[c]]) \in Nat /\ Len(data[rd[c]]) <= MaxLen
    <3>. SUFFICES ASSUME rd[c] # Null
                  PROVE  Len(data[rd[c]]) \in Nat /\ Len(data[rd[c]]) <= MaxLen
      OBVIOUS
    <3>1. PICK k, a \in Nat : data[rd[c]] = Tokens("q", c, k * ReqLen, a) /\ a <= MaxLen
      BY <2>2 DEF StreamInv, InStep, Streams, RdTokens
    <3>2. k * ReqLen \in Nat
      BY Lengths, Multiples
    <3>3. Len(data[rd[c]]) = a
      BY <3>1, <3>2, RunOf
    <3>. QED  BY <3>1, <3>3
  <2>6. \/ peer[c] # "up" \/ pool.top = Null
        \/ rd[c] # Null /\ Len(data[rd[c]]) >= MaxLen
    BY <2>3, <2>4 DEF Closes
  <2>. QED  BY <2>5, <2>6, Lengths
<1>2. Init => StreamIInv
  BY InitStreams DEF NoticeIInv
<1>. QED  BY <1>1, <1>2, StreamsInductive, PTL DEF Spec, ClosedForCause

-----------------------------------------------------------------------------
(* The event loop implements the abstract session.                         *)

\* Multiplication by a positive number keeps the order.
LEMMA MultipleOrder ==
  ASSUME NEW x \in Nat, NEW y \in Nat, NEW d \in Nat \ {0}
  PROVE  /\ x <= y => x * d <= y * d
         /\ x * d <= y * d => x <= y
<1>1. ASSUME x <= y PROVE x * d <= y * d
  <2>1. PICK t \in Nat : y = x + t
    BY <1>1
  <2>2. y * d = x * d + t * d /\ x * d \in Nat /\ t * d \in Nat
    BY <2>1
  <2>. QED  BY <2>2
<1>2. ASSUME y < x PROVE y * d < x * d
  <2>1. PICK t \in Nat \ {0} : x = y + t
    BY <1>2
  <2>2. x * d = y * d + t * d /\ y * d \in Nat /\ t * d \in Nat \ {0}
    BY <2>1
  <2>. QED  BY <2>2
<1>3. x * d \in Nat /\ y * d \in Nat
  OBVIOUS
<1>. QED  BY <1>1, <1>2, <1>3

\* What a quotient is.
LEMMA Quotient ==
  ASSUME NEW n \in Nat, NEW d \in Nat \ {0}
  PROVE  /\ n \div d \in Nat
         /\ \A k \in Nat : k * d <= n => k <= n \div d
         /\ \A k \in Nat : n <= k * d => n \div d <= k
         /\ \A k \in Nat : k * d <= n /\ n < k * d + d => n \div d = k
<1>. DEFINE q == n \div d
<1>1. q \in Nat /\ q * d \in Nat /\ q * d <= n /\ n < q * d + d
  OBVIOUS
<1>. HIDE DEF q
<1>2. (q + 1) * d = q * d + d /\ q + 1 \in Nat
  BY <1>1
<1>3. ASSUME NEW k \in Nat, k * d <= n PROVE k <= q
  <2>. SUFFICES ASSUME q + 1 <= k PROVE FALSE
    BY <1>1
  <2>1. (q + 1) * d <= k * d /\ k * d \in Nat
    BY <1>2, MultipleOrder
  <2>. QED  BY <1>1, <1>2, <1>3, <2>1
<1>4. ASSUME NEW k \in Nat, n <= k * d PROVE q <= k
  <2>1. q * d <= k * d
    <3>1. k * d \in Nat
      OBVIOUS
    <3>. QED  BY <1>1, <1>4, <3>1
  <2>. QED  BY <1>1, <2>1, MultipleOrder
<1>5. ASSUME NEW k \in Nat, k * d <= n, n < k * d + d PROVE q = k
  <2>1. k <= q
    BY <1>3, <1>5
  <2>2. q * d < (k + 1) * d /\ k + 1 \in Nat
    <3>1. (k + 1) * d = k * d + d /\ k * d \in Nat
      OBVIOUS
    <3>. QED  BY <1>1, <1>5, <3>1
  <2>3. ~(k + 1 <= q)
    <3>. SUFFICES ASSUME k + 1 <= q PROVE FALSE
      OBVIOUS
    <3>1. (k + 1) * d <= q * d /\ (k + 1) * d \in Nat
      BY <1>1, <2>2, MultipleOrder
    <3>. QED  BY <1>1, <2>2, <3>1
  <2>. QED  BY <1>1, <2>1, <2>3
<1>. QED  BY <1>1, <1>3, <1>4, <1>5 DEF q

\* The replies to all requests a client may make fit its send queue.
RepliesFit == MaxReq * RspLen <= SndCap

\* Then no send() blocks.
LEMMA NeverBlocks ==
  ASSUME RepliesFit, StreamIInv, ~blocked, [Next]_vars
  PROVE  ~blocked'
<1>. SUFFICES ASSUME blocked' PROVE FALSE
  OBVIOUS
<1>1. ReplyBlocks
  BY BlockingKeeps DEF StreamIInv
<1>2. /\ pc = "psend" /\ cur \in Conn /\ Unsent(buf) > 0 /\ SndCap - Len(sndq[cur]) <= 0
  BY <1>1 DEF ReplyBlocks, SendBlocks, Room, StreamIInv, Inv, TypeOK, Handling
<1>3. PICK k, a, l, g, s, h \in Nat : Streams(cur, k, a, l, g, s, h)
  BY <1>2 DEF StreamIInv, StreamInv, InStep
<1>4. Sending(cur)
  BY <1>2 DEF Sending
<1>5. PICK r \in Nat : r = (k - 1) * RspLen /\ r \in Nat
  <2>1. k # 0
    BY <1>3, <1>4 DEF Streams
  <2>. QED  BY <2>1, Lengths, Multiples
<1>6. /\ data[buf] = Tokens("r", cur, r, RspLen) /\ sendindex[buf] = RspLen - h
      /\ RspLen \in Nat
  BY <1>3, <1>4, <1>5, Lengths DEF Streams
<1>7. h > 0
  <2>1. Len(data[buf]) = RspLen
    BY <1>2, <1>6, RunLen
  <2>. QED  BY <1>2, <1>6, <2>1 DEF Unsent
<1>8. Len(sndq[cur]) = s
  BY <1>2, <1>3, RunLen DEF Streams
<1>9. k <= MaxReq
  <2>1. k * ReqLen <= MaxReq * ReqLen
    <3>1. /\ sent[cur] = k * ReqLen + a + l /\ sent[cur] <= MaxReq * ReqLen
      BY <1>3 DEF Streams
    <3>2. k * ReqLen \in Nat /\ MaxReq * ReqLen \in Nat
      BY Lengths, Multiples
    <3>. QED  BY <3>1, <3>2
  <2>. QED  BY <2>1, Lengths, MultipleOrder
<1>10. k * RspLen <= MaxReq * RspLen /\ k * RspLen \in Nat /\ MaxReq * RspLen \in Nat
  BY <1>9, Lengths, Multiples, MultipleOrder
<1>11. g + s + h = k * RspLen
  BY <1>3 DEF Streams
<1>. QED  BY <1>2, <1>7, <1>8, <1>10, <1>11, Lengths DEF RepliesFit

\* The requests and replies of the abstract session.
Asked(c) == sent[c] \div ReqLen
Handed(c) == (Len(got[c]) + Len(sndq[c])) \div RspLen

\* The state of the session.
AbsOpen == [c \in Conn |-> conn[c] # "none"]
AbsAsked == [c \in Conn |-> Asked(c)]
AbsAnswered == [c \in Conn |-> Handed(c)]

\* A step that the session does not see.
LEMMA SessionStutters ==
  ASSUME \A c \in Conn : /\ conn'[c] # "none" <=> conn[c] # "none"
                         /\ Asked(c)' = Asked(c) /\ Handed(c)' = Handed(c)
  PROVE  UNCHANGED Session!svars
<1>1. AbsOpen' = AbsOpen
  BY DEF AbsOpen
<1>2. AbsAsked' = AbsAsked /\ AbsAnswered' = AbsAnswered
  BY DEF AbsAsked, AbsAnswered
<1>. QED  BY <1>1, <1>2 DEF Session!svars, AbsOpen, AbsAsked, AbsAnswered, Asked, Handed

LEMMA SessionOpens ==
  ASSUME NEW c \in Conn, conn[c] = "none", conn'[c] # "none",
         \A d \in Conn : d # c => (conn'[d] # "none" <=> conn[d] # "none"),
         \A d \in Conn : Asked(d)' = Asked(d) /\ Handed(d)' = Handed(d)
  PROVE  Session!Next
<1>1. ~AbsOpen[c] /\ AbsOpen' = [AbsOpen EXCEPT ![c] = TRUE]
  BY DEF AbsOpen
<1>2. AbsAsked' = AbsAsked /\ AbsAnswered' = AbsAnswered
  BY DEF AbsAsked, AbsAnswered
<1>3. Session!Open(c)
  BY <1>1, <1>2 DEF Session!Open, AbsOpen, AbsAsked, AbsAnswered, Asked, Handed
<1>. QED  BY <1>3 DEF Session!Next

LEMMA SessionAsks ==
  ASSUME NEW c \in Conn, conn[c] # "none", Asked(c)' \in Asked(c)..MaxReq,
         \A d \in Conn : /\ conn'[d] # "none" <=> conn[d] # "none"
                         /\ d # c => Asked(d)' = Asked(d)
                         /\ Handed(d)' = Handed(d)
  PROVE  Session!Next
<1>1. AbsOpen[c] /\ AbsOpen' = AbsOpen
  BY DEF AbsOpen
<1>2. AbsAsked' = [AbsAsked EXCEPT ![c] = Asked(c)'] /\ AbsAnswered' = AbsAnswered
      /\ Asked(c)' \in AbsAsked[c]..MaxReq
  BY DEF AbsAsked, AbsAnswered
<1>3. Session!Ask(c)
  BY <1>1, <1>2 DEF Session!Ask, AbsOpen, AbsAsked, AbsAnswered, Asked, Handed
<1>. QED  BY <1>3 DEF Session!Next

LEMMA SessionAnswers ==
  ASSUME NEW c \in Conn, conn[c] # "none", Handed(c) < Asked(c), Handed(c)' = Handed(c) + 1,
         \A d \in Conn : /\ conn'[d] # "none" <=> conn[d] # "none"
                         /\ Asked(d)' = Asked(d)
                         /\ d # c => Handed(d)' = Handed(d)
  PROVE  Session!Next
<1>1. AbsOpen[c] /\ AbsOpen' = AbsOpen
  BY DEF AbsOpen
<1>2. /\ AbsAnswered' = [AbsAnswered EXCEPT ![c] = @ + 1] /\ AbsAsked' = AbsAsked
      /\ AbsAnswered[c] < AbsAsked[c]
  BY DEF AbsAsked, AbsAnswered
<1>3. Session!Answer(c)
  BY <1>1, <1>2 DEF Session!Answer, AbsOpen, AbsAsked, AbsAnswered, Asked, Handed
<1>. QED  BY <1>3 DEF Session!Next

LEMMA SessionCloses ==
  ASSUME TypeOK, NEW c \in Conn, conn[c] # "none", Forget(c)
  PROVE  Session!Next
<1>1. /\ conn'[c] = "none" /\ sent'[c] = 0 /\ got'[c] = <<>> /\ sndq'[c] = <<>>
      /\ \A d \in Conn : d # c => /\ conn'[d] = conn[d] /\ sent'[d] = sent[d]
                                  /\ got'[d] = got[d] /\ sndq'[d] = sndq[d]
  BY DEF TypeOK, Forget
<1>2. Asked(c)' = 0 /\ Handed(c)' = 0
  <2>1. Len(<<>>) = 0 /\ 0 + 0 = 0 /\ 0 \div ReqLen = 0 /\ 0 \div RspLen = 0
    BY EmptySeq, Lengths
  <2>. QED  BY <1>1, <2>1 DEF Asked, Handed
<1>3. \A d \in Conn : d # c => Asked(d)' = Asked(d) /\ Handed(d)' = Handed(d)
  BY <1>1 DEF Asked, Handed
<1>4. AbsOpen[c] /\ AbsOpen' = [AbsOpen EXCEPT ![c] = FALSE]
  BY <1>1 DEF AbsOpen
<1>5. /\ AbsAsked' = [AbsAsked EXCEPT ![c] = 0]
      /\ AbsAnswered' = [AbsAnswered EXCEPT ![c] = 0]
  BY <1>2, <1>3 DEF AbsAsked, AbsAnswered
<1>6. Session!Close(c)
  BY <1>4, <1>5 DEF Session!Close, AbsOpen, AbsAsked, AbsAnswered, Asked, Handed
<1>. QED  BY <1>6 DEF Session!Next

\* A reply counts when its last token is handed to send(): of k replies with h
\* tokens of the last one missing, k - 1 or k.
LEMMA HandedIs ==
  ASSUME NEW k \in Nat, NEW n \in Nat, NEW h \in Nat, n + h = k * RspLen, h <= RspLen
  PROVE  /\ h = 0 => n \div RspLen = k
         /\ h # 0 => k # 0 /\ n \div RspLen = k - 1
<1>1. RspLen \in Nat \ {0}
  BY Lengths
<1>2. ASSUME h = 0 PROVE n \div RspLen = k
  <2>1. n = k * RspLen
    <3>1. k * RspLen \in Nat
      BY <1>1
    <3>. QED  BY <1>2, <3>1
  <2>. QED  BY <1>1, <2>1, Multiples
<1>3. ASSUME h # 0 PROVE k # 0 /\ n \div RspLen = k - 1
  <2>1. k # 0
    <3>. SUFFICES ASSUME k = 0 PROVE FALSE
      OBVIOUS
    <3>1. k * RspLen = 0
      BY <1>1
    <3>. QED  BY <1>3, <3>1
  <2>2. PICK m, r \in Nat : m = k - 1 /\ r = m * RspLen /\ r + RspLen = k * RspLen
    BY <1>1, <2>1, Multiples
  <2>3. r <= n /\ n < r + RspLen
    BY <1>1, <1>3, <2>2
  <2>4. n \div RspLen = m
    BY <1>1, <2>2, <2>3, Quotient
  <2>. QED  BY <2>1, <2>2, <2>4
<1>. QED  BY <1>2, <1>3

LEMMA SendAnswers ==
  ASSUME StreamIInv, ~blocked, ReplySendSome
  PROVE  Session!Next \/ UNCHANGED Session!svars
<1>1. /\ Inv /\ TypeOK /\ cur \in Conn /\ pc = "psend" /\ InStep(cur) /\ conn[cur] # "none"
      /\ UNCHANGED <<conn, sent, got>>
  BY DEF StreamIInv, Inv, StreamInv, OpenInv, ReplySendSome, SendSome, TypeOK, Handling
<1>2. \A d \in Conn : d # cur => sndq'[d] = sndq[d]
  BY <1>1 DEF ReplySendSome, SendSome, TypeOK
<1>3. PICK c \in Conn : c = cur
  BY <1>1
<1>. PICK k, a, l, g, s, h, n \in Nat : HandsOver(c, k, a, l, g, s, h, n)
  BY <1>1, <1>3, SendTokens
<1>4. /\ Streams(c, k, a, l, g, s, h) /\ n # 0 /\ n <= h
      /\ sndq'[c] = Tokens("r", c, g, s + n)
  BY DEF HandsOver
<1>5. /\ \A d \in Conn : (conn'[d] # "none" <=> conn[d] # "none") /\ Asked(d)' = Asked(d)
      /\ \A d \in Conn : d # c => Handed(d)' = Handed(d)
  BY <1>1, <1>2, <1>3 DEF Asked, Handed
<1>6. /\ g + s + h = k * RspLen /\ h <= RspLen /\ k # 0
      /\ got[c] = Tokens("r", c, 0, g) /\ sndq[c] = Tokens("r", c, g, s)
      /\ sent[c] = k * ReqLen + a + l
  BY <1>1, <1>3, <1>4 DEF Streams, Sending
<1>7. 0 \in Nat /\ s + n \in Nat /\ g + s \in Nat /\ g + (s + n) \in Nat /\ h - n \in Nat
      /\ h # 0 /\ g + (s + n) + (h - n) = g + s + h
  BY <1>4
<1>8. Len(got[c]) = g /\ Len(sndq[c]) = s /\ Len(sndq'[c]) = s + n /\ got'[c] = got[c]
  <2>1. Len(got[c]) = g
    BY <1>6, <1>7, RunLen
  <2>2. Len(sndq[c]) = s
    BY <1>6, RunLen
  <2>3. Len(sndq'[c]) = s + n
    <3>1. Len(Tokens("r", c, g, s + n)) = s + n
      BY <1>7, RunLen
    <3>. QED  BY <1>4, <3>1
  <2>. QED  BY <1>1, <2>1, <2>2, <2>3
<1>9. Handed(c) = k - 1
  <2>1. (g + s) \div RspLen = k - 1
    BY <1>6, <1>7, HandedIs
  <2>. QED  BY <1>8, <2>1 DEF Handed
<1>10. PICK t \in Nat : t = h - n /\ g + (s + n) + t = k * RspLen /\ t <= RspLen
  BY <1>4, <1>6, <1>7, Lengths
<1>11. CASE t = 0
  <2>1. (g + (s + n)) \div RspLen = k
    BY <1>7, <1>10, <1>11, HandedIs
  <2>2. Handed(c)' = k
    BY <1>8, <2>1 DEF Handed
  <2>3. k <= Asked(c)
    <3>1. PICK m \in Nat : m = k * ReqLen
      BY Lengths, Multiples
    <3>2. sent[c] \in Nat /\ k * ReqLen <= sent[c]
      BY <1>6, <3>1
    <3>. QED  BY <3>2, Quotient, Lengths DEF Asked
  <2>4. Asked(c) \in Nat
    <3>1. sent[c] \in Nat
      BY <1>1 DEF TypeOK
    <3>. QED  BY <3>1, Quotient, Lengths DEF Asked
  <2>5. Handed(c) < Asked(c) /\ Handed(c)' = Handed(c) + 1
    BY <1>6, <1>9, <2>2, <2>3, <2>4
  <2>6. conn[c] # "none"
    BY <1>1, <1>3
  <2>. QED  BY <1>5, <2>5, <2>6, SessionAnswers
<1>12. CASE t # 0
  <2>1. (g + (s + n)) \div RspLen = k - 1
    BY <1>7, <1>10, <1>12, HandedIs
  <2>2. Handed(c)' = Handed(c)
    BY <1>8, <1>9, <2>1 DEF Handed
  <2>3. \A d \in Conn : Handed(d)' = Handed(d)
    BY <1>5, <2>2
  <2>. QED  BY <1>5, <2>3, SessionStutters
<1>. QED  BY <1>11, <1>12

LEMMA SendAsks ==
  ASSUME StreamIInv, NEW c \in Conn, ClientSend(c)
  PROVE  Session!Next
<1>1. /\ TypeOK /\ conn[c] # "none" /\ UNCHANGED <<conn, sndq, got>>
  BY DEF StreamIInv, Inv, ClientSend
<1>2. PICK n \in 1..(MaxReq * ReqLen - sent[c]) : sent' = [sent EXCEPT ![c] = @ + n]
  BY DEF ClientSend
<1>3. PICK p \in Nat : p = MaxReq * ReqLen
  BY Lengths, Multiples
<1>4. /\ sent[c] \in Nat /\ sent'[c] = sent[c] + n /\ n \in Nat /\ sent'[c] <= p
      /\ \A d \in Conn : d # c => sent'[d] = sent[d]
  BY <1>1, <1>2, <1>3 DEF TypeOK
<1>5. PICK q \in Nat : q = sent[c] \div ReqLen
  BY <1>4, Quotient, Lengths
<1>6. PICK m \in Nat : m = q * ReqLen /\ m <= sent[c]
  <2>1. sent[c] \in Nat /\ ReqLen \in Nat \ {0}
    BY <1>4, Lengths
  <2>. QED  BY <1>5, <2>1
<1>7. /\ q <= sent'[c] \div ReqLen /\ sent'[c] \div ReqLen <= MaxReq
      /\ sent'[c] \div ReqLen \in Nat
  <2>1. sent'[c] \in Nat /\ q * ReqLen <= sent'[c] /\ sent'[c] <= MaxReq * ReqLen
    BY <1>3, <1>4, <1>6
  <2>. QED  BY <2>1, Quotient, Lengths
<1>8. Asked(c)' \in Asked(c)..MaxReq
  BY <1>5, <1>7, Lengths DEF Asked
<1>9. \A d \in Conn : /\ conn'[d] # "none" <=> conn[d] # "none"
                      /\ d # c => Asked(d)' = Asked(d)
                      /\ Handed(d)' = Handed(d)
  BY <1>1, <1>4 DEF Asked, Handed
<1>. QED  BY <1>1, <1>8, <1>9, SessionAsks

\* What the client takes from the send queue was answered before.
LEMMA ReceiveStutters ==
  ASSUME StreamIInv, ~blocked, NEW c \in Conn, ClientRecv(c)
  PROVE  UNCHANGED Session!svars
<1>1. /\ TypeOK /\ InStep(c) /\ UNCHANGED <<conn, sent>>
      /\ got'[c] = Both(got[c], sndq[c]) /\ sndq'[c] = <<>>
      /\ \A d \in Conn : d # c => got'[d] = got[d] /\ sndq'[d] = sndq[d]
  BY DEF StreamIInv, Inv, StreamInv, ClientRecv, TypeOK, Both
<1>2. PICK g, s \in Nat : got[c] = Tokens("r", c, 0, g) /\ sndq[c] = Tokens("r", c, g, s)
  BY <1>1 DEF InStep, Streams
<1>3. 0 \in Nat /\ 0 + g = g /\ g + s \in Nat /\ (g + s) + 0 = g + s
  OBVIOUS
<1>4. Both(Tokens("r", c, 0, g), Tokens("r", c, 0 + g, s)) = Tokens("r", c, 0, g + s)
  BY <1>3, Join
<1>5. got'[c] = Tokens("r", c, 0, g + s)
  BY <1>1, <1>2, <1>3, <1>4
<1>6. Len(got[c]) = g /\ Len(sndq[c]) = s /\ Len(got'[c]) = g + s /\ Len(sndq'[c]) = 0
  BY <1>1, <1>2, <1>3, <1>5, RunLen, EmptySeq
<1>7. Handed(c)' = Handed(c)
  BY <1>3, <1>6 DEF Handed
<1>8. \A d \in Conn : /\ conn'[d] # "none" <=> conn[d] # "none"
                      /\ Asked(d)' = Asked(d) /\ Handed(d)' = Handed(d)
  BY <1>1, <1>7 DEF Asked, Handed
<1>. QED  BY <1>8, SessionStutters

\* Every step of the loop is a step of the session, or none.
LEMMA SessionStep ==
  ASSUME StreamIInv, ~blocked, ~blocked', [Next]_vars
  PROVE  Session!Next \/ UNCHANGED Session!svars
<1>1. QuietStep /\ TypeOK /\ OpenInv
  BY QuietSteps DEF StreamIInv, Inv
<1>2. ASSUME \A d \in Conn : conn'[d] # "none" <=> conn[d] # "none", UNCHANGED <<sndq, sent, got>>
      PROVE  UNCHANGED Session!svars
  <2>1. \A d \in Conn : Asked(d)' = Asked(d) /\ Handed(d)' = Handed(d)
    BY <1>2 DEF Asked, Handed
  <2>. QED  BY <1>2, <2>1, SessionStutters
<1>3. ASSUME NEW c \in Conn, Connect(c) PROVE Session!Next
  <2>1. /\ conn[c] = "none" /\ conn'[c] = "pending" /\ UNCHANGED <<sndq, sent, got>>
        /\ \A d \in Conn : d # c => conn'[d] = conn[d]
    BY <1>1, <1>3 DEF Connect, TypeOK
  <2>2. \A d \in Conn : Asked(d)' = Asked(d) /\ Handed(d)' = Handed(d)
    BY <2>1 DEF Asked, Handed
  <2>. QED  BY <2>1, <2>2, SessionOpens
<1>4. ASSUME NEW c \in Conn, ClientSend(c) PROVE Session!Next
  BY <1>4, SendAsks
<1>5. ASSUME NEW c \in Conn, ClientRecv(c) PROVE UNCHANGED Session!svars
  BY <1>5, ReceiveStutters
<1>6. ASSUME NEW c \in Conn, ClientLeave(c) \/ AcceptOne(c) PROVE UNCHANGED Session!svars
  <2>1. /\ \A d \in Conn : conn'[d] # "none" <=> conn[d] # "none"
        /\ UNCHANGED <<sndq, sent, got>>
    BY <1>1, <1>6 DEF ClientLeave, AcceptOne, TypeOK
  <2>. QED  BY <1>2, <2>1
<1>7. ASSUME NEW c \in Conn, AcceptRefused(c) PROVE Session!Next
  <2>1. conn[c] # "none" /\ Forget(c)
    BY <1>7 DEF AcceptRefused
  <2>. QED  BY <1>1, <2>1, SessionCloses
<1>8. CASE \/ EpollWait \/ AcceptDone
           \/ \E e \in batch : DispatchServer(e) \/ DispatchModbus(e)
           \/ ReadNoBuffer \/ ReadData \/ ReadAgain
           \/ ParseEmpty \/ ParseIncomplete \/ Takes \/ Sends \/ UNCHANGED vars
  <2>1. UNCHANGED <<conn, sndq, sent, got>>
    BY <1>8 DEF EpollWait, AcceptDone, DispatchServer, DispatchModbus, ReadNoBuffer, ReadData,
                ReadAgain, ParseEmpty, ParseIncomplete, ParseReturns, Takes, Sends, cvars, vars
  <2>. QED  BY <1>2, <2>1
<1>9. CASE ReplySendSome
  BY <1>9, SendAnswers
<1>10. ASSUME NEW c \in Conn, NEW rest \in SUBSET batch, Closes(c, rest) PROVE Session!Next
  <2>1. conn[c] # "none"
    <3>1. CASE \E e \in batch : e.who = c
      BY <1>1, <3>1 DEF OpenInv
    <3>2. CASE pc \in Handling /\ cur = c
      BY <1>1, <3>2 DEF OpenInv
    <3>. QED  BY <1>10, <3>1, <3>2 DEF Closes, Handling
  <2>2. Forget(c)
    BY <1>10 DEF Closes
  <2>. QED  BY <1>1, <2>1, <2>2, SessionCloses
<1>. QED
  BY <1>1, <1>3, <1>4, <1>5, <1>6, <1>7, <1>8, <1>9, <1>10 DEF QuietStep, Client

LEMMA SessionBegins == Init => Session!Init
<1>. SUFFICES ASSUME Init PROVE Session!Init
  OBVIOUS
<1>1. 0 \div ReqLen = 0 /\ 0 \div RspLen = 0 /\ Len(<<>>) = 0 /\ 0 + 0 = 0
  BY Lengths, EmptySeq
<1>2. /\ conn = [c \in Conn |-> "none"] /\ sent = [c \in Conn |-> 0]
      /\ got = [c \in Conn |-> <<>>] /\ sndq = [c \in Conn |-> <<>>]
  BY DEF Init
<1>3. \A c \in Conn : conn[c] = "none" /\ Asked(c) = 0 /\ Handed(c) = 0
  BY <1>1, <1>2 DEF Asked, Handed
<1>4. /\ AbsOpen = [c \in Conn |-> FALSE] /\ AbsAsked = [c \in Conn |-> 0]
      /\ AbsAnswered = [c \in Conn |-> 0]
  BY <1>3 DEF AbsOpen, AbsAsked, AbsAnswered
<1>. QED  BY <1>4 DEF Session!Init, AbsOpen, AbsAsked, AbsAnswered, Asked, Handed

\* When the replies to all requests of a client fit its send queue, the event
\* loop implements the session, for any number of connections and buffers, any
\* lengths and any cut of the request stream: every complete request is answered at
\* most once, in its turn, and never before its last byte has arrived.
THEOREM Refinement ==
  ASSUME RepliesFit
  PROVE  Spec => ImplementsSession
<1>. DEFINE SInv == StreamIInv /\ ~blocked
<1>1. Init => SInv
  BY InitStreams DEF NoticeIInv, Init
<1>2. SInv /\ [Next]_vars => SInv'
  BY StreamsInductive, NeverBlocks
<1>3. SInv /\ SInv' /\ [Next]_vars => [Session!Next]_(Session!svars)
  BY SessionStep
<1>. QED  BY <1>1, <1>2, <1>3, SessionBegins, PTL DEF Spec, ImplementsSession, Session!Spec

=============================================================================
