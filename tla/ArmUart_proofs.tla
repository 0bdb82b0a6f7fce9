--------------------------- MODULE ArmUart_proofs ---------------------------
(***************************************************************************)
(* Proofs about the two directions of the serial bridge.  From the UART to *)
(* the pseudo terminal (ArmUart): types, the bounds of the two buffers,    *)
(* what remain promises, and the order of the characters.  From the pseudo *)
(* terminal to the UART (ArmPty): the order of the characters.  For queues *)
(* and reads of any size, any number of characters and any failures.       *)
(***************************************************************************)
EXTENDS ArmUart, ArmPty, SequenceTheorems, TLAPS

-----------------------------------------------------------------------------
(* Sequences of characters.                                                *)

\* Least picks one of the two.
LEMMA LeastType ==
  ASSUME NEW m \in Int, NEW n \in Int
  PROVE  Least(m, n) \in {m, n} /\ Least(m, n) <= m /\ Least(m, n) <= n
BY DEF Least

\* A sequence is its first n elements and the others.
LEMMA Cut ==
  ASSUME NEW S, NEW s \in Seq(S), NEW n \in 0..Len(s)
  PROVE  /\ SubSeq(s, 1, n) \in Seq(S) /\ Len(SubSeq(s, 1, n)) = n
         /\ Drop(s, n) \in Seq(S) /\ Len(Drop(s, n)) = Len(s) - n
         /\ s = SubSeq(s, 1, n) \o Drop(s, n)
<1>1. Len(s) \in Nat /\ \A i \in 1..Len(s) : s[i] \in S
  BY LenProperties, ElementOfSeq
<1>2. /\ SubSeq(s, 1, n) \in Seq(S) /\ Len(SubSeq(s, 1, n)) = n
  BY <1>1, SubSeqProperties
<1>3. SubSeq(s, n + 1, Len(s)) \in Seq(S) /\ Len(SubSeq(s, n + 1, Len(s))) = Len(s) - n
  BY <1>1, SubSeqProperties
<1>4. SubSeq(s, 1, n) \o SubSeq(s, n + 1, Len(s)) = SubSeq(s, 1, Len(s))
  <2>1. 1 \in 1..(Len(s) + 1) /\ n \in (1 - 1)..Len(s) /\ Len(s) \in n..Len(s)
    BY <1>1
  <2>. QED  BY <2>1, ConcatAdjacentSubSeq
<1>5. SubSeq(s, 1, Len(s)) = s
  BY SubSeqFull
<1>. QED  BY <1>2, <1>3, <1>4, <1>5 DEF Drop

IsCut(s, n, x, y) ==
  x \in Seq(Char) /\ y \in Seq(Char) /\ Len(x) = n /\ Len(y) = Len(s) - n /\ s = x \o y

\* The same for characters.
LEMMA CutChars == \A s \in Seq(Char) : \A n \in 0..Len(s) : IsCut(s, n, SubSeq(s, 1, n), Drop(s, n))
<1>. SUFFICES ASSUME NEW s \in Seq(Char), NEW n \in 0..Len(s) PROVE IsCut(s, n, SubSeq(s, 1, n), Drop(s, n))
  OBVIOUS
<1>. QED  BY Cut DEF IsCut

\* Take gives such a beginning.
LEMMA TakeIsCut ==
  ASSUME NEW S, NEW s \in Seq(S), NEW n \in Nat
  PROVE  /\ Least(n, Len(s)) \in 0..Len(s)
         /\ Take(s, n) = SubSeq(s, 1, Least(n, Len(s)))
         /\ Take(s, n) \in Seq(S) /\ Len(Take(s, n)) = Least(n, Len(s))
<1>1. Len(s) \in Nat
  BY LenProperties
<1>2. Least(n, Len(s)) \in 0..Len(s)
  BY <1>1 DEF Least
<1>. QED  BY <1>2, Cut DEF Take

Rising(s) == \A i, j \in 1..Len(s) : i < j => s[i] < s[j]
Below(s, t) == \A i \in 1..Len(s), j \in 1..Len(t) : s[i] < t[j]

\* Both notions, taken apart at a concatenation.
LEMMA RisingConcat ==
  \A s, t \in Seq(Nat) : Rising(s \o t) <=> Rising(s) /\ Rising(t) /\ Below(s, t)
<1>. SUFFICES ASSUME NEW s \in Seq(Nat), NEW t \in Seq(Nat)
              PROVE  Rising(s \o t) <=> Rising(s) /\ Rising(t) /\ Below(s, t)
  OBVIOUS
<1>. DEFINE m == Len(s)
            n == Len(t)
            u == s \o t
<1>1. /\ m \in Nat /\ n \in Nat /\ Len(u) = m + n
      /\ \A i \in 1..m : u[i] = s[i] /\ s[i] \in Nat
      /\ \A i \in 1..n : u[m + i] = t[i] /\ t[i] \in Nat
  BY ConcatProperties, LenProperties, ElementOfSeq
<1>. HIDE DEF u
<1>2. ASSUME Rising(u) PROVE Rising(s) /\ Rising(t) /\ Below(s, t)
  <2>1. Rising(s)
    BY <1>1, <1>2 DEF Rising
  <2>2. Rising(t)
    <3>. SUFFICES ASSUME NEW i \in 1..n, NEW j \in 1..n, i < j PROVE t[i] < t[j]
      BY DEF Rising
    <3>1. m + i \in 1..Len(u) /\ m + j \in 1..Len(u) /\ m + i < m + j
      BY <1>1
    <3>. QED  BY <1>1, <1>2, <3>1 DEF Rising
  <2>3. Below(s, t)
    <3>. SUFFICES ASSUME NEW i \in 1..m, NEW j \in 1..n PROVE s[i] < t[j]
      BY DEF Below
    <3>1. i \in 1..Len(u) /\ m + j \in 1..Len(u) /\ i < m + j
      BY <1>1
    <3>. QED  BY <1>1, <1>2, <3>1 DEF Rising
  <2>. QED  BY <2>1, <2>2, <2>3
<1>3. ASSUME Rising(s), Rising(t), Below(s, t) PROVE Rising(u)
  <2>. SUFFICES ASSUME NEW i \in 1..Len(u), NEW j \in 1..Len(u), i < j PROVE u[i] < u[j]
    BY DEF Rising
  <2>1. CASE j <= m
    BY <1>1, <1>3, <2>1 DEF Rising
  <2>2. CASE i > m
    <3>1. i - m \in 1..n /\ j - m \in 1..n /\ i - m < j - m /\ m + (i - m) = i /\ m + (j - m) = j
      BY <1>1, <2>2
    <3>2. t[i - m] < t[j - m]
      BY <1>3, <3>1 DEF Rising
    <3>. QED  BY <1>1, <3>1, <3>2
  <2>3. CASE i <= m /\ j > m
    <3>1. i \in 1..m /\ j - m \in 1..n /\ m + (j - m) = j
      BY <1>1, <2>3
    <3>2. s[i] < t[j - m]
      BY <1>3, <3>1 DEF Below
    <3>. QED  BY <1>1, <3>1, <3>2
  <2>. QED  BY <1>1, <2>1, <2>2, <2>3
<1>. QED  BY <1>2, <1>3 DEF u

LEMMA BelowConcat ==
  \A s, t, u \in Seq(Nat) :
    /\ Below(s \o t, u) <=> Below(s, u) /\ Below(t, u)
    /\ Below(u, s \o t) <=> Below(u, s) /\ Below(u, t)
<1>. SUFFICES ASSUME NEW s \in Seq(Nat), NEW t \in Seq(Nat), NEW u \in Seq(Nat)
              PROVE  /\ Below(s \o t, u) <=> Below(s, u) /\ Below(t, u)
                     /\ Below(u, s \o t) <=> Below(u, s) /\ Below(u, t)
  OBVIOUS
<1>. DEFINE m == Len(s)
            n == Len(t)
            w == s \o t
<1>1. /\ m \in Nat /\ n \in Nat /\ Len(w) = m + n
      /\ \A i \in 1..m : i \in 1..Len(w) /\ w[i] = s[i]
      /\ \A i \in 1..n : m + i \in 1..Len(w) /\ w[m + i] = t[i]
  BY ConcatProperties, LenProperties
<1>2. \A i \in 1..Len(w) : \/ i \in 1..m /\ w[i] = s[i]
                           \/ i - m \in 1..n /\ w[i] = t[i - m]
  BY ConcatProperties, LenProperties
<1>. HIDE DEF w
<1>3. Below(w, u) => Below(s, u) /\ Below(t, u)
  BY <1>1 DEF Below
<1>4. Below(s, u) /\ Below(t, u) => Below(w, u)
  BY <1>2 DEF Below
<1>5. Below(u, w) => Below(u, s) /\ Below(u, t)
  BY <1>1 DEF Below
<1>6. Below(u, s) /\ Below(u, t) => Below(u, w)
  BY <1>2 DEF Below
<1>. QED  BY <1>3, <1>4, <1>5, <1>6 DEF w

-----------------------------------------------------------------------------
(* The inductive invariant.                                                *)

\* Everything on its way rises, up to the character that comes next.
OrderInv == Rising(InFlight \o <<made + 1>>)

\* The loop of armpty_readuart is left when no try is left.
TriesLeft == pc = "drain" => tries > 0

IInv == TypeOK /\ NoOverrun /\ RemainSound /\ OrderInv /\ TriesLeft

\* Characters, and the next one, are numbers.
LEMMA CharSeq ==
  ASSUME TypeOK
  PROVE  /\ Seq(Char) \subseteq Seq(Nat)
         /\ made \in Nat /\ <<made + 1>> \in Seq(Nat)
         /\ InFlight \in Seq(Char)
<1>1. Char \subseteq Nat
  BY QueueAssumption DEF Char
<1>2. Seq(Char) \subseteq Seq(Nat)
  BY <1>1, SeqMonotonic
<1>3. made \in Nat
  BY QueueAssumption DEF TypeOK
<1>4. pty \in Seq(Char) /\ buffer \in Seq(Char) /\ local \in Seq(Char) /\ remote \in Seq(Char)
  BY DEF TypeOK
<1>. QED  BY <1>2, <1>3, <1>4, ConcatProperties DEF InFlight

\* The invariant gives the order of the characters.
LEMMA OrderGivesInOrder == TypeOK /\ OrderInv => InOrder
<1>. SUFFICES ASSUME TypeOK, OrderInv PROVE InOrder
  OBVIOUS
<1>1. Rising(InFlight)
  BY CharSeq, RisingConcat DEF OrderInv
<1>. QED  BY <1>1 DEF Rising, InOrder

\* queue_uart: what becomes of the MCU's queue and the local queue when the
\* character in front is handed over or not, heard or not.
LEMMA HandedOver ==
  ASSUME TypeOK, NoOverrun, NEW got \in BOOLEAN, NEW fault \in Fault, got => remote # <<>>
  PROVE  \E h, l \in Seq(Char) :
           /\ remote = h \o Kept(got) /\ Kept(got) \in Seq(Char)
           /\ l \in {<<>>, h}
           /\ Queued(got, fault) = local \o l
           /\ Queued(got, fault) \in Seq(Char)
           /\ Len(Queued(got, fault)) <= LocalLen
           /\ Len(Kept(got)) = Len(remote) - Len(h)
           /\ (got => Len(h) = 1) /\ (~got => Len(h) = 0)
<1>1. /\ remote \in Seq(Char) /\ local \in Seq(Char) /\ <<>> \in Seq(Char)
      /\ Len(remote) \in Nat /\ Len(local) \in Nat /\ Len(local) <= LocalLen /\ LocalLen \in Nat
  BY LenProperties, EmptySeq, QueueAssumption DEF TypeOK, NoOverrun
<1>2. CASE ~got
  <2>1. Kept(got) = remote /\ Queued(got, fault) = local
    BY <1>2 DEF Kept, Queued, Heard
  <2>2. remote = <<>> \o remote /\ local = local \o <<>> /\ Len(<<>>) = 0
    BY <1>1, ConcatEmptySeq, EmptySeq
  <2>. WITNESS <<>> \in Seq(Char), <<>> \in Seq(Char)
  <2>. QED  BY <1>1, <1>2, <2>1, <2>2
<1>3. CASE got
  <2>. DEFINE h == <<Head(remote)>>
  <2>1. Kept(got) = Tail(remote) /\ Head(remote) \in Char /\ Tail(remote) \in Seq(Char)
        /\ Len(Tail(remote)) = Len(remote) - 1
    BY <1>1, <1>3, HeadTailProperties DEF Kept
  <2>2. h \in Seq(Char) /\ Len(h) = 1 /\ h[1] = Head(remote)
    BY <2>1
  <2>3. remote = h \o Tail(remote)
    <3>1. /\ h \o Tail(remote) \in Seq(Char) /\ Len(h \o Tail(remote)) = Len(remote)
          /\ \A i \in 1..Len(remote) : (h \o Tail(remote))[i] =
               IF i <= 1 THEN h[i] ELSE Tail(remote)[i - 1]
      BY <1>1, <2>1, <2>2, ConcatProperties
    <3>2. \A i \in 1..Len(remote) : i > 1 => Tail(remote)[i - 1] = remote[i]
      BY <1>1, <1>3, <2>1, HeadTailProperties
    <3>3. remote[1] = Head(remote)
      BY <1>1, <1>3
    <3>4. \A i \in 1..Len(remote) : remote[i] = (h \o Tail(remote))[i]
      <4>. SUFFICES ASSUME NEW i \in 1..Len(remote) PROVE remote[i] = (h \o Tail(remote))[i]
        OBVIOUS
      <4>1. CASE i = 1
        BY <1>1, <2>2, <3>1, <3>3, <4>1
      <4>2. CASE i > 1
        BY <1>1, <3>1, <3>2, <4>2
      <4>. QED  BY <1>1, <4>1, <4>2
    <3>. QED  BY <1>1, <3>1, <3>4, SeqEqual
  <2>4. CASE Heard(got, fault) /\ Len(local) < LocalLen
    <3>1. Queued(got, fault) = Append(local, Head(remote))
      BY <2>4 DEF Queued
    <3>2. Append(local, Head(remote)) = local \o h /\ Append(local, Head(remote)) \in Seq(Char)
          /\ Len(Append(local, Head(remote))) = Len(local) + 1
      BY <1>1, <2>1, AppendIsConcat, AppendProperties
    <3>3. Len(local) + 1 <= LocalLen
      BY <1>1, <2>4
    <3>. HIDE DEF h
    <3>. WITNESS h \in Seq(Char), h \in Seq(Char)
    <3>. QED  BY <1>1, <1>3, <2>1, <2>2, <2>3, <3>1, <3>2, <3>3
  <2>5. CASE ~(Heard(got, fault) /\ Len(local) < LocalLen)
    <3>1. Queued(got, fault) = local /\ local = local \o <<>>
      BY <1>1, <2>5, ConcatEmptySeq DEF Queued
    <3>. QED  BY <1>1, <1>3, <2>1, <2>2, <2>3, <3>1
  <2>. QED  BY <2>4, <2>5
<1>. QED  BY <1>2, <1>3

\* A concatenation of five rises when each part does and each is below the later
\* ones.
Rises(a, b, c, d, e) ==
  /\ Rising(a) /\ Rising(b) /\ Rising(c) /\ Rising(d) /\ Rising(e)
  /\ Below(a, b) /\ Below(a, c) /\ Below(a, d) /\ Below(a, e)
  /\ Below(b, c) /\ Below(b, d) /\ Below(b, e)
  /\ Below(c, d) /\ Below(c, e) /\ Below(d, e)

LEMMA RisesApart ==
  ASSUME NEW a \in Seq(Nat), NEW b \in Seq(Nat), NEW c \in Seq(Nat), NEW d \in Seq(Nat),
         NEW e \in Seq(Nat)
  PROVE  Rising(a \o b \o c \o d \o e) <=> Rises(a, b, c, d, e)
<1>1. a \o b \in Seq(Nat) /\ a \o b \o c \in Seq(Nat) /\ a \o b \o c \o d \in Seq(Nat)
  BY ConcatProperties
<1>2. Rising(a \o b \o c \o d \o e) <=>
        Rising(a \o b \o c \o d) /\ Rising(e) /\ Below(a \o b \o c \o d, e)
  BY <1>1, RisingConcat
<1>3. Rising(a \o b \o c \o d) <=>
        Rising(a) /\ Rising(b) /\ Below(a, b) /\ Rising(c) /\ Below(a \o b, c)
        /\ Rising(d) /\ Below(a \o b \o c, d)
  BY <1>1, RisingConcat
<1>4. Below(a \o b, c) <=> Below(a, c) /\ Below(b, c)
  BY BelowConcat
<1>5. Below(a \o b \o c, d) <=> Below(a, d) /\ Below(b, d) /\ Below(c, d)
  BY <1>1, BelowConcat
<1>6. Below(a \o b \o c, e) <=> Below(a, e) /\ Below(b, e) /\ Below(c, e)
  BY <1>1, BelowConcat
<1>7. Below(a \o b \o c \o d, e) <=> Below(a \o b \o c, e) /\ Below(d, e)
  BY <1>1, BelowConcat
<1>. QED  BY <1>2, <1>3, <1>4, <1>5, <1>6, <1>7 DEF Rises

\* The order, part by part.
LEMMA OrderApart ==
  ASSUME TypeOK
  PROVE  OrderInv <=> Rises(pty, buffer, local, remote, <<made + 1>>)
<1>1. /\ pty \in Seq(Nat) /\ buffer \in Seq(Nat) /\ local \in Seq(Nat) /\ remote \in Seq(Nat)
      /\ <<made + 1>> \in Seq(Nat)
  BY CharSeq DEF TypeOK
<1>. QED  BY <1>1, RisesApart DEF OrderInv, InFlight

\* The empty sequence is in order with everything.
LEMMA EmptyRises == Rising(<<>>) /\ \A s \in Seq(Nat) : Below(<<>>, s) /\ Below(s, <<>>)
BY EmptySeq DEF Rising, Below

\* Concatenation is associative.
LEMMA Regroup ==
  \A s, t, u \in Seq(Nat) : s \o (t \o u) = (s \o t) \o u /\ (s \o t) \o u \in Seq(Nat)
<1>. SUFFICES ASSUME NEW s \in Seq(Nat), NEW t \in Seq(Nat), NEW u \in Seq(Nat)
              PROVE  s \o (t \o u) = (s \o t) \o u /\ (s \o t) \o u \in Seq(Nat)
  OBVIOUS
<1>1. s \o (t \o u) = (s \o t) \o u
  BY ConcatAssociative, SMTT(40)
<1>2. s \o t \in Seq(Nat)
  BY ConcatProperties, SMTT(40)
<1>3. (s \o t) \o u \in Seq(Nat)
  BY <1>2, ConcatProperties, SMTT(40)
<1>. QED  BY <1>1, <1>3

\* A concatenation of three, taken apart.
LEMMA ThreeApart ==
  ASSUME NEW s \in Seq(Nat), NEW t \in Seq(Nat), NEW u \in Seq(Nat)
  PROVE  /\ (s \o t) \o u \in Seq(Nat) /\ s \o (t \o u) = (s \o t) \o u
         /\ Rising((s \o t) \o u) <=> /\ Rising(s) /\ Rising(t) /\ Rising(u)
                                     /\ Below(s, t) /\ Below(s, u) /\ Below(t, u)
         /\ \A w \in Seq(Nat) :
              /\ Below(w, (s \o t) \o u) <=> Below(w, s) /\ Below(w, t) /\ Below(w, u)
              /\ Below((s \o t) \o u, w) <=> Below(s, w) /\ Below(t, w) /\ Below(u, w)
<1>1. s \o t \in Seq(Nat) /\ (s \o t) \o u \in Seq(Nat)
  BY ConcatProperties, Regroup
<1>2. s \o (t \o u) = (s \o t) \o u
  BY Regroup
<1>3. Rising((s \o t) \o u) <=> Rising(s \o t) /\ Rising(u) /\ Below(s \o t, u)
  BY <1>1, RisingConcat
<1>4. Rising(s \o t) <=> Rising(s) /\ Rising(t) /\ Below(s, t)
  BY RisingConcat
<1>5. Below(s \o t, u) <=> Below(s, u) /\ Below(t, u)
  BY BelowConcat
<1>6. ASSUME NEW w \in Seq(Nat)
      PROVE  /\ Below(w, (s \o t) \o u) <=> Below(w, s) /\ Below(w, t) /\ Below(w, u)
             /\ Below((s \o t) \o u, w) <=> Below(s, w) /\ Below(t, w) /\ Below(u, w)
  <2>1. /\ Below(w, (s \o t) \o u) <=> Below(w, s \o t) /\ Below(w, u)
        /\ Below((s \o t) \o u, w) <=> Below(s \o t, w) /\ Below(u, w)
    BY <1>1, BelowConcat
  <2>2. /\ Below(w, s \o t) <=> Below(w, s) /\ Below(w, t)
        /\ Below(s \o t, w) <=> Below(s, w) /\ Below(t, w)
    BY BelowConcat
  <2>. QED  BY <2>1, <2>2
<1>. QED  BY <1>1, <1>2, <1>3, <1>4, <1>5, <1>6

\* Moving the cut between the MCU's queue and the local one, with or without the
\* character h that came first, leaves everything in order.
LEMMA CutFromRemote ==
  ASSUME NEW p \in Seq(Nat), NEW f \in Seq(Nat), NEW q \in Seq(Nat), NEW h \in Seq(Nat),
         NEW x \in Seq(Nat), NEW y \in Seq(Nat), NEW e \in Seq(Nat),
         Rises(p, f, q, h \o (x \o y), e)
  PROVE  /\ Rises(p, f, (q \o h) \o x, y, e) /\ Rises(p, f, q \o x, y, e)
         /\ Rises(p, f, q \o h, y, e) /\ Rises(p, f, q, y, e)
<1>. DEFINE r == (h \o x) \o y
<1>1. Rises(p, f, q, r, e) /\ r \in Seq(Nat)
  <2>1. h \o (x \o y) = r /\ r \in Seq(Nat)
    BY Regroup
  <2>. HIDE DEF r
  <2>. QED  BY <2>1
<1>2. /\ Rising(r) <=> /\ Rising(h) /\ Rising(x) /\ Rising(y)
                       /\ Below(h, x) /\ Below(h, y) /\ Below(x, y)
      /\ \A w \in Seq(Nat) : /\ Below(w, r) <=> Below(w, h) /\ Below(w, x) /\ Below(w, y)
                             /\ Below(r, w) <=> Below(h, w) /\ Below(x, w) /\ Below(y, w)
  BY ThreeApart
<1>. HIDE DEF r
<1>3. /\ Rising(h) /\ Rising(x) /\ Rising(y)
      /\ Below(h, x) /\ Below(h, y) /\ Below(x, y)
      /\ Below(p, h) /\ Below(p, x) /\ Below(p, y)
      /\ Below(f, h) /\ Below(f, x) /\ Below(f, y)
      /\ Below(q, h) /\ Below(q, x) /\ Below(q, y)
      /\ Below(h, e) /\ Below(x, e) /\ Below(y, e)
  BY <1>1, <1>2 DEF Rises
<1>4. ASSUME NEW c \in Seq(Nat), Rising(c), Below(p, c), Below(f, c), Below(c, y), Below(c, e)
      PROVE  Rises(p, f, c, y, e)
  BY <1>1, <1>3, <1>4 DEF Rises
<1>5. Rising(q) /\ Below(p, q) /\ Below(f, q) /\ Below(q, e)
  BY <1>1 DEF Rises
<1>6. Rises(p, f, (q \o h) \o x, y, e)
  <2>. DEFINE c == (q \o h) \o x
  <2>1. /\ c \in Seq(Nat)
        /\ Rising(c) <=> /\ Rising(q) /\ Rising(h) /\ Rising(x)
                         /\ Below(q, h) /\ Below(q, x) /\ Below(h, x)
        /\ \A w \in Seq(Nat) : /\ Below(w, c) <=> Below(w, q) /\ Below(w, h) /\ Below(w, x)
                               /\ Below(c, w) <=> Below(q, w) /\ Below(h, w) /\ Below(x, w)
    BY ThreeApart
  <2>. HIDE DEF c
  <2>2. Rising(c) /\ Below(p, c) /\ Below(f, c) /\ Below(c, y) /\ Below(c, e)
    BY <1>3, <1>5, <2>1
  <2>. QED  BY <1>4, <2>1, <2>2 DEF c
<1>7. Rises(p, f, q \o x, y, e)
  <2>1. q \o x \in Seq(Nat)
    BY ConcatProperties
  <2>2. Rising(q \o x) /\ Below(p, q \o x) /\ Below(f, q \o x) /\ Below(q \o x, y) /\ Below(q \o x, e)
    BY <1>3, <1>5, RisingConcat, BelowConcat
  <2>. QED  BY <1>4, <2>1, <2>2
<1>8. Rises(p, f, q \o h, y, e)
  <2>1. q \o h \in Seq(Nat)
    BY ConcatProperties
  <2>2. Rising(q \o h) /\ Below(p, q \o h) /\ Below(f, q \o h) /\ Below(q \o h, y) /\ Below(q \o h, e)
    BY <1>3, <1>5, RisingConcat, BelowConcat
  <2>. QED  BY <1>4, <2>1, <2>2
<1>9. Rises(p, f, q, y, e)
  BY <1>3, <1>4, <1>5
<1>. QED  BY <1>6, <1>7, <1>8, <1>9

\* The same between the local queue and the buffer; d is dropped.
LEMMA CutFromLocal ==
  ASSUME NEW p \in Seq(Nat), NEW f \in Seq(Nat), NEW a \in Seq(Nat), NEW c \in Seq(Nat),
         NEW d \in Seq(Nat), NEW r \in Seq(Nat), NEW e \in Seq(Nat),
         Rises(p, f, a \o (c \o d), r, e)
  PROVE  Rises(p, f \o a, c, r, e) /\ Rises(p, f \o a, d, r, e)
<1>. DEFINE q == (a \o c) \o d
<1>1. Rises(p, f, q, r, e) /\ q \in Seq(Nat)
  <2>1. a \o (c \o d) = (a \o c) \o d /\ (a \o c) \o d \in Seq(Nat)
    BY Regroup
  <2>. QED  BY <2>1
<1>2. /\ Rising(q) <=> /\ Rising(a) /\ Rising(c) /\ Rising(d)
                       /\ Below(a, c) /\ Below(a, d) /\ Below(c, d)
      /\ \A w \in Seq(Nat) : /\ Below(w, q) <=> Below(w, a) /\ Below(w, c) /\ Below(w, d)
                             /\ Below(q, w) <=> Below(a, w) /\ Below(c, w) /\ Below(d, w)
  BY ThreeApart
<1>. HIDE DEF q
<1>3. /\ Rising(a) /\ Rising(c) /\ Rising(d) /\ Below(a, c) /\ Below(a, d)
      /\ Below(p, a) /\ Below(p, c) /\ Below(p, d)
      /\ Below(f, a) /\ Below(f, c) /\ Below(f, d)
      /\ Below(a, r) /\ Below(c, r) /\ Below(d, r)
      /\ Below(a, e) /\ Below(c, e) /\ Below(d, e)
  BY <1>1, <1>2 DEF Rises
<1>4. /\ Rising(p) /\ Rising(f) /\ Rising(r) /\ Rising(e) /\ Below(p, f) /\ Below(p, r) /\ Below(p, e)
      /\ Below(f, r) /\ Below(f, e) /\ Below(r, e)
  BY <1>1 DEF Rises
<1>5. /\ f \o a \in Seq(Nat) /\ Rising(f \o a) /\ Below(p, f \o a)
      /\ Below(f \o a, c) /\ Below(f \o a, d) /\ Below(f \o a, r) /\ Below(f \o a, e)
  BY <1>3, <1>4, ConcatProperties, RisingConcat, BelowConcat
<1>. QED  BY <1>3, <1>4, <1>5 DEF Rises

\* The same between the buffer and the terminal; g is dropped.
LEMMA CutFromBuffer ==
  ASSUME NEW p \in Seq(Nat), NEW f \in Seq(Nat), NEW g \in Seq(Nat), NEW q \in Seq(Nat),
         NEW r \in Seq(Nat), NEW e \in Seq(Nat),
         Rises(p, f \o g, q, r, e)
  PROVE  Rises(p \o f, <<>>, q, r, e)
<1>1. f \o g \in Seq(Nat) /\ p \o f \in Seq(Nat)
  BY ConcatProperties
<1>2. /\ Rising(p) /\ Rising(f \o g) /\ Rising(q) /\ Rising(r) /\ Rising(e)
      /\ Below(p, f \o g) /\ Below(p, q) /\ Below(p, r) /\ Below(p, e)
      /\ Below(f \o g, q) /\ Below(f \o g, r) /\ Below(f \o g, e)
      /\ Below(q, r) /\ Below(q, e) /\ Below(r, e)
  BY DEF Rises
<1>3. Rising(f) /\ Below(p, f) /\ Below(f, q) /\ Below(f, r) /\ Below(f, e)
  BY <1>2, RisingConcat, BelowConcat
<1>4. Rising(p \o f) /\ Below(p \o f, q) /\ Below(p \o f, r) /\ Below(p \o f, e)
  BY <1>2, <1>3, RisingConcat, BelowConcat
<1>. QED  BY <1>1, <1>2, <1>4, EmptyRises DEF Rises

\* write() on the terminal: a beginning of what was to be written.
LEMMA PtyGetsBeginning ==
  ASSUME NEW s \in Seq(Char), WritePty(s), errs \in 0..MaxErr
  PROVE  /\ \E s1, s2 \in Seq(Char) : s = s1 \o s2 /\ pty' = pty \o s1
         /\ errs' \in 0..MaxErr /\ (errs' = 0 => errs = 0)
<1>1. CASE pty' = pty \o s /\ errs' = errs
  <2>1. <<>> \in Seq(Char) /\ s = s \o <<>>
    BY EmptySeq, ConcatEmptySeq
  <2>. QED  BY <1>1, <2>1
<1>2. CASE /\ s # <<>> /\ errs < MaxErr /\ errs' = errs + 1
           /\ \E n \in 0..(Len(s) - 1) : pty' = pty \o SubSeq(s, 1, n)
  <2>1. PICK n \in 0..(Len(s) - 1) : pty' = pty \o SubSeq(s, 1, n)
    BY <1>2
  <2>2. n \in 0..Len(s)
    BY LenProperties
  <2>3. errs' \in 0..MaxErr /\ errs' # 0
    BY <1>2, QueueAssumption
  <2>4. /\ SubSeq(s, 1, n) \in Seq(Char) /\ Drop(s, n) \in Seq(Char)
        /\ s = SubSeq(s, 1, n) \o Drop(s, n)
    BY <2>2, CutChars DEF IsCut
  <2>. QED  BY <2>1, <2>3, <2>4
<1>. QED  BY <1>1, <1>2 DEF WritePty

\* The length the MCU reports, 8 bits wide, less the character in hand.
LEMMA RemainIsRest ==
  ASSUME NEW n \in 1..RemoteLen
  PROVE  RemainAfter(n) = n - 1 /\ RemainAfter(n) \in 0..(RemoteLen - 1)
<1>1. RemoteLen \in Nat \ {0}
  BY QueueAssumption
<1>2. CASE n = RemoteLen
  <2>1. n % RemoteLen = 0
    BY <1>1, <1>2
  <2>. QED  BY <1>1, <1>2, <2>1 DEF RemainAfter
<1>3. CASE n # RemoteLen
  <2>1. n % RemoteLen = n
    BY <1>1, <1>3
  <2>. QED  BY <1>1, <1>3, <2>1 DEF RemainAfter
<1>. QED  BY <1>2, <1>3

-----------------------------------------------------------------------------

\* The initial states satisfy the invariant.
LEMMA InitInv == Init => IInv
<1>. SUFFICES ASSUME Init PROVE IInv
  OBVIOUS
<1>. USE QueueAssumption
<1>1. <<>> \in Seq(Char) /\ Len(<<>>) = 0
  BY EmptySeq
<1>2. TypeOK
  <2>1. /\ Len(remote) <= RemoteLen /\ remain \in 0..(RemoteLen - 1) /\ overflow \in Nat
        /\ tries \in 0..3 /\ errs \in 0..MaxErr /\ made \in 0..MaxChar
    BY <1>1 DEF Init
  <2>. QED  BY <1>1, <2>1 DEF Init, TypeOK
<1>3. NoOverrun /\ RemainSound
  BY <1>1 DEF Init, NoOverrun, RemainSound
<1>4. InFlight = <<>>
  BY <1>1, ConcatEmptySeq DEF Init, InFlight
<1>5. InFlight \o <<made + 1>> = <<1>>
  BY <1>4 DEF Init
<1>6. OrderInv
  BY <1>5 DEF OrderInv, Rising
<1>. QED  BY <1>2, <1>3, <1>6 DEF IInv, TriesLeft, Init

\* What queue_uart does after any message: the character in front of the MCU's
\* queue goes to the end of the local queue, or is gone.  The buffer stays, or is
\* emptied (the start of armpty_readuart).
LEMMA QueueUartInv ==
  ASSUME IInv, NEW got \in BOOLEAN, NEW fault \in Fault,
         Handover(got, fault), QueueUart(got, fault),
         buffer' \in {buffer, <<>>}, UNCHANGED <<board, made, pty, int>>,
         tries' \in 0..3, pc' \in {"loop", "drain"}, TriesLeft'
  PROVE  IInv'
<1>. USE QueueAssumption
<1>i. TypeOK /\ NoOverrun /\ RemainSound /\ OrderInv /\ TriesLeft
  BY DEF IInv
<1>1. PICK h, l \in Seq(Char) :
        /\ remote = h \o Kept(got) /\ Kept(got) \in Seq(Char)
        /\ l \in {<<>>, h}
        /\ Queued(got, fault) = local \o l
        /\ Queued(got, fault) \in Seq(Char)
        /\ Len(Queued(got, fault)) <= LocalLen
        /\ Len(Kept(got)) = Len(remote) - Len(h)
        /\ (got => Len(h) = 1) /\ (~got => Len(h) = 0)
  BY <1>i, HandedOver DEF Handover
<1>2. /\ remote \in Seq(Char) /\ local \in Seq(Char) /\ buffer \in Seq(Char) /\ pty \in Seq(Char)
      /\ <<>> \in Seq(Char) /\ Len(<<>>) = 0
      /\ Len(remote) \in Nat /\ Len(remote) <= RemoteLen /\ overflow \in Nat /\ errs \in 0..MaxErr
      /\ remain \in 0..(RemoteLen - 1)
  BY <1>i, LenProperties, EmptySeq DEF TypeOK
<1>3. remote' = Kept(got) /\ local' = local \o l
  BY <1>1 DEF QueueUart
<1>4. got => Len(remote) \in 1..RemoteLen
  BY <1>2, EmptySeq DEF Handover
<1>5. /\ remain' \in 0..(RemoteLen - 1)
      /\ remain' = IF Heard(got, fault) THEN Len(remote) - 1 ELSE remain
  BY <1>2, <1>4, RemainIsRest DEF QueueUart, Heard
<1>6. errs' \in 0..MaxErr /\ (errs' = 0 => errs = 0 /\ fault = "none")
  BY <1>2 DEF Handover
<1>7. overflow' \in Nat
  BY <1>2 DEF QueueUart, Overflowed
<1>8. Len(remote') <= RemoteLen /\ remote' \in Seq(Char) /\ local' \in Seq(Char) /\ Len(local') <= LocalLen
  BY <1>1, <1>2, <1>3
<1>9. TypeOK'
  BY <1>i, <1>2, <1>5, <1>6, <1>7, <1>8 DEF TypeOK
<1>10. NoOverrun'
  BY <1>i, <1>2, <1>8, SMTT(40) DEF NoOverrun
<1>11. RemainSound'
  <2>. SUFFICES ASSUME errs' = 0 PROVE remain' <= Len(remote')
    BY DEF RemainSound
  <2>1. CASE got
    <3>1. Heard(got, fault)
      BY <1>6, <2>1 DEF Heard
    <3>2. remain' = Len(remote) - 1
      BY <1>5, <3>1
    <3>3. Len(h) = 1
      BY <1>1, <2>1
    <3>. QED  BY <1>1, <1>2, <1>3, <3>2, <3>3
  <2>2. CASE ~got
    BY <1>i, <1>1, <1>2, <1>3, <1>5, <1>6, <2>2 DEF Heard, RemainSound
  <2>. QED  BY <2>1, <2>2
<1>12. OrderInv'
  <2>. DEFINE e == <<made + 1>>
  <2>1. /\ pty \in Seq(Nat) /\ buffer \in Seq(Nat) /\ local \in Seq(Nat) /\ h \in Seq(Nat) /\ l \in Seq(Nat)
        /\ Kept(got) \in Seq(Nat) /\ e \in Seq(Nat) /\ <<>> \in Seq(Nat)
    BY <1>i, <1>1, <1>2, CharSeq
  <2>2. Rises(pty, buffer, local, h \o Kept(got), e)
    BY <1>i, <1>1, OrderApart
  <2>. HIDE DEF e
  <2>3. /\ Rises(pty, buffer, local \o h, Kept(got), e)
        /\ Rises(pty, buffer, local, Kept(got), e)
    BY <2>1, <2>2, RisingConcat, BelowConcat DEF Rises
  <2>4. local \o <<>> = local
    BY <1>2, ConcatEmptySeq
  <2>5. Rises(pty, buffer, local', remote', e)
    BY <1>1, <1>3, <2>3, <2>4
  <2>6. local' \in Seq(Nat) /\ remote' \in Seq(Nat)
    BY <1>i, <1>8, CharSeq
  <2>7. Rises(pty, buffer', local', remote', e)
    BY <2>1, <2>5, <2>6, EmptyRises DEF Rises
  <2>8. pty' = pty /\ made' = made /\ buffer' \in Seq(Nat)
    BY <2>1
  <2>. QED  BY <2>1, <2>6, <2>7, <2>8, RisesApart DEF OrderInv, InFlight, e
<1>. QED  BY <1>9, <1>10, <1>11, <1>12 DEF IInv

\* read_string succeeds.
LEMMA ReadStringInv ==
  ASSUME IInv, NEW got \in BOOLEAN, ReadString(got)
  PROVE  IInv'
<1>. USE QueueAssumption
<1>i. TypeOK /\ NoOverrun /\ RemainSound /\ OrderInv /\ TriesLeft
  BY DEF IInv
<1>. DEFINE k == Kept(got)
            q == Queued(got, "none")
            rcnt == Least(Len2, Len(k))
            x == SubSeq(k, 1, rcnt)
            y == Drop(k, rcnt)
            all == Joined(got, x)
            a == Take(all, Cnt)
            b == Drop(all, Least(Cnt, Len(all)))
            out == buffer \o a
<1>1. /\ pc = "drain" /\ remain > 0 /\ (got => remote # <<>>)
      /\ remote' = y /\ remain' = Len(remote') /\ local' = Take(b, LocalLen)
      /\ overflow' = Overflowed(got, "none") /\ tries' = 3
      /\ UNCHANGED <<board, made, int, pc>>
      /\ IF Len(out) = BufLen
         THEN buffer' = <<>> /\ WritePty(out)
         ELSE buffer' = out /\ UNCHANGED <<pty, errs>>
  BY DEF ReadString
<1>2. PICK h, l \in Seq(Char) :
        /\ remote = h \o k /\ k \in Seq(Char)
        /\ l \in {<<>>, h}
        /\ q = local \o l
        /\ q \in Seq(Char)
        /\ Len(q) <= LocalLen
        /\ Len(k) = Len(remote) - Len(h)
        /\ (got => Len(h) = 1) /\ (~got => Len(h) = 0)
  BY <1>i, <1>1, HandedOver DEF Fault
<1>3. /\ remote \in Seq(Char) /\ local \in Seq(Char) /\ buffer \in Seq(Char) /\ pty \in Seq(Char)
      /\ <<>> \in Seq(Char) /\ Len(<<>>) = 0 /\ Len(h) \in Nat
      /\ Len(remote) \in Nat /\ Len(remote) <= RemoteLen /\ overflow \in Nat /\ errs \in 0..MaxErr
      /\ remain \in Nat /\ Len(buffer) \in Nat /\ Len(buffer) < BufLen /\ Len(k) \in Nat
      /\ {BufLen, LocalLen, StrMax, RemoteLen} \subseteq Nat \ {0}
  BY <1>i, <1>2, LenProperties, EmptySeq DEF TypeOK, NoOverrun
<1>4. Cnt \in Nat \ {0} /\ Cnt <= BufLen - Len(buffer)
  <2>1. /\ remain \in Int /\ BufLen - Len(buffer) \in Int
        /\ remain > 0 /\ BufLen - Len(buffer) > 0
    BY <1>1, <1>3
  <2>. QED  BY <2>1 DEF Cnt, Least
<1>5. Len2 \in Nat \ {0}
  <2>1. Cnt % 2 \in {0, 1}
    BY <1>4
  <2>. QED  BY <1>3, <1>4, <2>1 DEF Len2, Least
<1>6. rcnt \in 0..Len(k) /\ (Len(k) # 0 => rcnt # 0)
  BY <1>3, <1>5 DEF Least
<1>7. x \in Seq(Char) /\ y \in Seq(Char) /\ k = x \o y /\ Len(y) = Len(k) - rcnt
  <2>. HIDE DEF k, rcnt
  <2>1. k \in Seq(Char) /\ rcnt \in 0..Len(k)
    BY <1>2, <1>6
  <2>. QED  BY <2>1, CutChars DEF IsCut
<1>8. all = q \o x /\ all \in Seq(Char)
  <2>1. all = q \o x
    BY DEF Joined
  <2>. HIDE DEF q, x, all
  <2>. QED  BY <1>2, <1>7, <2>1, ConcatProperties
<1>9. a \in Seq(Char) /\ Len(a) \in Nat /\ Len(a) <= Cnt
      /\ b \in Seq(Char) /\ all = a \o b
  <2>. HIDE DEF all
  <2>1. Len(all) \in Nat
    BY <1>8, LenProperties
  <2>2. /\ Least(Cnt, Len(all)) \in 0..Len(all) /\ a \in Seq(Char)
        /\ a = SubSeq(all, 1, Least(Cnt, Len(all))) /\ Len(a) = Least(Cnt, Len(all))
    BY <1>4, <1>8, TakeIsCut
  <2>3. b \in Seq(Char) /\ all = SubSeq(all, 1, Least(Cnt, Len(all))) \o b
    <3>. DEFINE n == Least(Cnt, Len(all))
    <3>. HIDE DEF n
    <3>1. n \in 0..Len(all)
      BY <2>2 DEF n
    <3>2. Drop(all, n) \in Seq(Char) /\ all = SubSeq(all, 1, n) \o Drop(all, n)
      BY <1>8, <3>1, CutChars DEF IsCut
    <3>. QED  BY <3>2 DEF n
  <2>4. Least(Cnt, Len(all)) <= Cnt
    BY <1>4, <2>1, LeastType
  <2>. HIDE DEF a, b
  <2>5. Len(a) \in Nat /\ Len(a) <= Cnt
    BY <2>1, <2>2, <2>4
  <2>6. all = a \o b
    BY <2>2, <2>3
  <2>. QED  BY <2>2, <2>3, <2>5, <2>6
<1>. HIDE DEF k, q, rcnt, x, y, all, a, b
<1>11. PICK b1, b2 \in Seq(Char) : b = b1 \o b2 /\ local' = b1 /\ Len(b1) <= LocalLen
  <2>. DEFINE n == Least(LocalLen, Len(b))
  <2>1. n \in 0..Len(b) /\ local' = SubSeq(b, 1, n)
    BY <1>1, <1>3, <1>9, TakeIsCut
  <2>2. Len(b) \in Nat
    BY <1>9, LenProperties
  <2>3. n <= LocalLen
    BY <1>3, <2>2, LeastType
  <2>. HIDE DEF n
  <2>4. /\ SubSeq(b, 1, n) \in Seq(Char) /\ Drop(b, n) \in Seq(Char)
        /\ b = SubSeq(b, 1, n) \o Drop(b, n) /\ Len(SubSeq(b, 1, n)) = n
    BY <1>9, <2>1, Cut
  <2>. QED  BY <2>1, <2>3, <2>4
<1>12. out \in Seq(Char) /\ Len(out) = Len(buffer) + Len(a)
  BY <1>3, <1>9, ConcatProperties
<1>. HIDE DEF out
\* The characters for the buffer stay there, or go to the terminal as far as it
\* takes them.
<1>13. /\ errs' \in 0..MaxErr /\ (errs' = 0 => errs = 0)
       /\ Len(buffer') < BufLen
       /\ \/ buffer' = out /\ pty' = pty
          \/ buffer' = <<>> /\ \E s1, s2 \in Seq(Char) : out = s1 \o s2 /\ pty' = pty \o s1
  <2>1. CASE Len(out) = BufLen
    <3>1. buffer' = <<>> /\ WritePty(out)
      BY <1>1, <2>1
    <3>2. /\ \E s1, s2 \in Seq(Char) : out = s1 \o s2 /\ pty' = pty \o s1
          /\ errs' \in 0..MaxErr /\ (errs' = 0 => errs = 0)
      BY <1>3, <1>12, <3>1, PtyGetsBeginning
    <3>3. Len(buffer') < BufLen
      BY <1>3, <3>1
    <3>. QED  BY <3>1, <3>2, <3>3
  <2>2. CASE Len(out) # BufLen
    <3>1. buffer' = out /\ pty' = pty /\ errs' = errs
      BY <1>1, <2>2
    <3>2. /\ BufLen \in Int /\ Len(buffer) \in Int /\ Len(a) \in Int /\ Cnt \in Int
          /\ Len(a) <= Cnt /\ Cnt <= BufLen - Len(buffer) /\ Len(out) = Len(buffer) + Len(a)
      BY <1>3, <1>4, <1>9, <1>12
    <3>3. Len(out) < BufLen
      BY <2>2, <3>2
    <3>. QED  BY <1>3, <3>1, <3>3
  <2>. QED  BY <2>1, <2>2
<1>14. /\ buffer' \in Seq(Char) /\ pty' \in Seq(Char)
       /\ local' \in Seq(Char) /\ remote' \in Seq(Char)
  <2>1. local' \in Seq(Char) /\ remote' \in Seq(Char)
    BY <1>1, <1>7, <1>11
  <2>2. buffer' \in Seq(Char)
    BY <1>3, <1>12, <1>13
  <2>3. pty' \in Seq(Char)
    <3>1. CASE pty' = pty
      BY <1>3, <3>1
    <3>2. CASE \E s1, s2 \in Seq(Char) : out = s1 \o s2 /\ pty' = pty \o s1
      BY <1>3, <3>2, ConcatProperties
    <3>. QED  BY <1>13, <3>1, <3>2
  <2>. QED  BY <2>1, <2>2, <2>3
<1>15. Len(remote') <= RemoteLen /\ remain' \in 0..(RemoteLen - 1)
  <2>2. /\ Len(k) = Len(remote) - Len(h) /\ Len(k) \in Nat /\ Len(remote) \in Nat
        /\ Len(h) \in Nat /\ Len(remote) <= RemoteLen /\ RemoteLen \in Nat \ {0}
    BY <1>2, <1>3
  <2>3. rcnt \in 0..Len(k) /\ (Len(k) # 0 => rcnt # 0) /\ Len(y) = Len(k) - rcnt
    BY <1>6, <1>7
  <2>1. Len(y) \in 0..(RemoteLen - 1)
    BY <2>2, <2>3
  <2>. QED  BY <1>1, <1>3, <2>1
<1>16. TypeOK'
  <2>1. overflow' \in Nat
    BY <1>1, <1>3 DEF Overflowed
  <2>2. tries' \in 0..3
    BY <1>1
  <2>. QED  BY <1>i, <1>1, <1>13, <1>14, <1>15, <2>1, <2>2 DEF TypeOK
<1>17. NoOverrun'
  BY <1>11, <1>13 DEF NoOverrun
<1>18. RemainSound'
  BY <1>1, <1>14, LenProperties DEF RemainSound
<1>19. OrderInv'
  <2>. DEFINE e == <<made + 1>>
  <2>1. \A s \in Seq(Char) : s \in Seq(Nat)
    BY <1>i, CharSeq
  <2>2. e \in Seq(Nat)
    BY <1>i, CharSeq
  <2>3. Rises(pty, buffer, local, h \o (x \o y), e)
    BY <1>i, <1>2, <1>7, OrderApart
  <2>. HIDE DEF e
  <2>4. pty \in Seq(Nat) /\ buffer \in Seq(Nat) /\ local \in Seq(Nat) /\ h \in Seq(Nat)
        /\ x \in Seq(Nat) /\ y \in Seq(Nat) /\ a \in Seq(Nat) /\ b1 \in Seq(Nat) /\ b2 \in Seq(Nat)
    BY <1>2, <1>3, <1>7, <1>9, <1>11, <2>1
  <2>5. Rises(pty, buffer, all, y, e)
    <3>1. Rises(pty, buffer, (local \o h) \o x, y, e) /\ Rises(pty, buffer, local \o x, y, e)
      BY <2>2, <2>3, <2>4, CutFromRemote
    <3>2. local \o <<>> = local
      BY <1>3, ConcatEmptySeq
    <3>. QED  BY <1>2, <1>8, <3>1, <3>2
  <2>6. Rises(pty, buffer, a \o (b1 \o b2), y, e)
    BY <1>9, <1>11, <2>5
  <2>7. Rises(pty, out, b1, y, e)
    BY <2>2, <2>4, <2>6, CutFromLocal DEF out
  <2>8. Rises(pty', buffer', b1, y, e)
    <3>1. CASE buffer' = out /\ pty' = pty
      BY <2>7, <3>1
    <3>2. CASE buffer' = <<>> /\ \E s1, s2 \in Seq(Char) : out = s1 \o s2 /\ pty' = pty \o s1
      <4>1. PICK s1, s2 \in Seq(Char) : out = s1 \o s2 /\ pty' = pty \o s1
        BY <3>2
      <4>2. Rises(pty, s1 \o s2, b1, y, e) /\ s1 \in Seq(Nat) /\ s2 \in Seq(Nat)
        BY <2>1, <2>7, <4>1
      <4>3. Rises(pty \o s1, <<>>, b1, y, e)
        BY <2>2, <2>4, <4>2, CutFromBuffer
      <4>. QED  BY <3>2, <4>1, <4>3
    <3>. QED  BY <1>13, <3>1, <3>2
  <2>9. /\ pty' \in Seq(Nat) /\ buffer' \in Seq(Nat) /\ local' \in Seq(Nat) /\ remote' \in Seq(Nat)
        /\ local' = b1 /\ remote' = y /\ made' = made
    BY <1>1, <1>11, <1>14, <2>1
  <2>10. Rising(pty' \o buffer' \o local' \o remote' \o e)
    BY <2>2, <2>8, <2>9, RisesApart
  <2>. QED  BY <2>9, <2>10 DEF OrderInv, InFlight, e
<1>20. TriesLeft'
  BY <1>1 DEF TriesLeft
<1>. QED  BY <1>16, <1>17, <1>18, <1>19, <1>20 DEF IInv

\* read_string fails.
LEMMA ReadStringFailsInv ==
  ASSUME IInv, NEW got \in BOOLEAN, NEW fault \in Fault, ReadStringFails(got, fault)
  PROVE  IInv'
<1>. USE QueueAssumption
<1>i. TypeOK /\ NoOverrun /\ RemainSound /\ OrderInv /\ TriesLeft
  BY DEF IInv
<1>. DEFINE k == Kept(got)
            rcnt == IF fault = "ioctl" THEN 0 ELSE Least(Len2, Len(k))
            x == SubSeq(k, 1, rcnt)
            y == Drop(k, rcnt)
<1>1. /\ pc = "drain" /\ remain > 0 /\ fault # "none" /\ Handover(got, fault)
      /\ remote' = y /\ local' = Queued(got, fault) /\ overflow' = Overflowed(got, fault)
      /\ remain' = IF Heard(got, fault) THEN RemainAfter(Len(remote)) ELSE remain
      /\ tries' = tries - 1 /\ pc' = IF tries' = 0 THEN "tail" ELSE "drain"
      /\ UNCHANGED <<board, made, buffer, pty, int>>
  BY DEF ReadStringFails
<1>2. PICK h, l \in Seq(Char) :
        /\ remote = h \o k /\ k \in Seq(Char)
        /\ l \in {<<>>, h}
        /\ Queued(got, fault) = local \o l
        /\ Queued(got, fault) \in Seq(Char)
        /\ Len(Queued(got, fault)) <= LocalLen
        /\ Len(k) = Len(remote) - Len(h)
        /\ (got => Len(h) = 1) /\ (~got => Len(h) = 0)
  BY <1>i, <1>1, HandedOver DEF Handover
<1>3. /\ remote \in Seq(Char) /\ local \in Seq(Char) /\ buffer \in Seq(Char) /\ pty \in Seq(Char)
      /\ Len(h) \in Nat /\ Len(remote) \in Nat /\ Len(remote) <= RemoteLen
      /\ overflow \in Nat /\ errs \in 0..MaxErr /\ tries \in 1..3
      /\ remain \in 0..(RemoteLen - 1) /\ Len(buffer) \in Nat /\ Len(buffer) < BufLen
      /\ Len(k) \in Nat /\ {BufLen, LocalLen, StrMax, RemoteLen} \subseteq Nat \ {0}
  <2>1. tries \in 1..3
    BY <1>i, <1>1 DEF TypeOK, TriesLeft
  <2>. QED  BY <1>i, <1>2, <2>1, LenProperties DEF TypeOK, NoOverrun
<1>4. Len2 \in Nat
  <2>1. Cnt \in Nat
    BY <1>3 DEF Cnt, Least
  <2>2. Cnt % 2 \in {0, 1}
    BY <2>1
  <2>. QED  BY <1>3, <2>1, <2>2 DEF Len2, Least
<1>5. rcnt \in 0..Len(k)
  BY <1>3, <1>4 DEF Least
<1>6. x \in Seq(Char) /\ y \in Seq(Char) /\ k = x \o y /\ Len(y) = Len(k) - rcnt
  <2>. HIDE DEF k, rcnt
  <2>1. k \in Seq(Char) /\ rcnt \in 0..Len(k)
    BY <1>2, <1>5
  <2>. QED  BY <2>1, CutChars DEF IsCut
<1>. HIDE DEF k, rcnt, x, y
<1>7. Len(remote') <= RemoteLen /\ remote' \in Seq(Char) /\ local' \in Seq(Char) /\ Len(local') <= LocalLen
  <2>2. Len(k) <= RemoteLen /\ Len(k) \in Nat /\ RemoteLen \in Nat
    BY <1>2, <1>3
  <2>3. rcnt \in Nat /\ Len(y) = Len(k) - rcnt
    BY <1>3, <1>5, <1>6
  <2>1. Len(y) <= RemoteLen
    BY <2>2, <2>3
  <2>. QED  BY <1>1, <1>2, <1>6, <2>1
<1>8. got => Len(remote) \in 1..RemoteLen
  BY <1>1, <1>3, EmptySeq DEF Handover
<1>9. remain' \in 0..(RemoteLen - 1)
  BY <1>1, <1>3, <1>8, RemainIsRest DEF Heard
<1>10. errs' \in 0..MaxErr /\ errs' # 0
  BY <1>1, <1>3 DEF Handover
<1>11. overflow' \in Nat
  BY <1>1, <1>3 DEF Overflowed
<1>12. /\ tries' \in 0..3 /\ pc' \in {"drain", "tail"} /\ (pc' = "drain" => tries' > 0)
  BY <1>1, <1>3
<1>13. TypeOK'
  BY <1>i, <1>1, <1>7, <1>9, <1>10, <1>11, <1>12 DEF TypeOK
<1>14. NoOverrun' /\ RemainSound' /\ TriesLeft'
  BY <1>1, <1>3, <1>7, <1>10, <1>12 DEF NoOverrun, RemainSound, TriesLeft
<1>15. OrderInv'
  <2>. DEFINE e == <<made + 1>>
  <2>1. \A s \in Seq(Char) : s \in Seq(Nat)
    BY <1>i, CharSeq
  <2>2. e \in Seq(Nat)
    BY <1>i, CharSeq
  <2>3. Rises(pty, buffer, local, h \o (x \o y), e)
    BY <1>i, <1>2, <1>6, OrderApart
  <2>. HIDE DEF e
  <2>4. /\ pty \in Seq(Nat) /\ buffer \in Seq(Nat) /\ local \in Seq(Nat) /\ h \in Seq(Nat)
        /\ x \in Seq(Nat) /\ y \in Seq(Nat) /\ local' \in Seq(Nat) /\ remote' \in Seq(Nat)
    BY <1>3, <1>6, <1>7, <2>1
  <2>5. Rises(pty, buffer, local \o h, y, e) /\ Rises(pty, buffer, local, y, e)
    BY <2>2, <2>3, <2>4, CutFromRemote
  <2>6. local \o <<>> = local
    BY <1>3, ConcatEmptySeq
  <2>7. Rises(pty, buffer, local', remote', e)
    BY <1>1, <1>2, <2>5, <2>6
  <2>8. Rising(pty \o buffer \o local' \o remote' \o e)
    BY <2>2, <2>4, <2>7, RisesApart
  <2>. QED  BY <1>1, <2>8 DEF OrderInv, InFlight, e
<1>. QED  BY <1>13, <1>14, <1>15 DEF IInv

\* The end of armpty_readuart.
LEMMA TailInv ==
  ASSUME IInv, TailOfReadUart
  PROVE  IInv'
<1>. USE QueueAssumption
<1>i. TypeOK /\ NoOverrun /\ RemainSound /\ OrderInv /\ TriesLeft
  BY DEF IInv
<1>. DEFINE wanted == BufLen - Len(buffer)
            n == Least(wanted, Len(local))
            top == Take(local, wanted)
            rest == Drop(local, Len(top))
            m == Least(BufLen, Len(rest))
            out == buffer \o top
<1>1. /\ pc = "tail" /\ WritePty(out) /\ buffer' = <<>> /\ pc' = "loop"
      /\ local' = IF Len(top) = wanted THEN Drop(rest, m) ELSE rest
      /\ UNCHANGED <<board, made, remote, remain, overflow, tries, int>>
  BY DEF TailOfReadUart
<1>2. /\ remote \in Seq(Char) /\ local \in Seq(Char) /\ buffer \in Seq(Char) /\ pty \in Seq(Char)
      /\ Len(local) \in Nat /\ Len(local) <= LocalLen /\ errs \in 0..MaxErr
      /\ wanted \in Nat \ {0} /\ LocalLen \in Nat /\ BufLen \in Nat \ {0}
      /\ <<>> \in Seq(Char) /\ Len(<<>>) = 0
  BY <1>i, LenProperties, EmptySeq DEF TypeOK, NoOverrun
<1>3. /\ n \in 0..Len(local) /\ top = SubSeq(local, 1, n) /\ Len(top) = n
      /\ top \in Seq(Char) /\ rest \in Seq(Char) /\ local = top \o rest
      /\ Len(rest) = Len(local) - n
  <2>. HIDE DEF wanted
  <2>1. n \in 0..Len(local) /\ top = SubSeq(local, 1, n) /\ Len(top) = n
    BY <1>2, TakeIsCut
  <2>. HIDE DEF n, top
  <2>2. n \in 0..Len(local) => IsCut(local, n, SubSeq(local, 1, n), Drop(local, n))
    BY <1>2, CutChars
  <2>. QED  BY <2>1, <2>2 DEF IsCut
<1>. HIDE DEF wanted, n, top, rest
<1>4. PICK r1, r2 \in Seq(Char) : /\ rest = r1 \o r2 /\ Len(r2) <= Len(rest)
                                  /\ local' = r2 
  <2>1. Len(rest) \in Nat /\ m \in 0..Len(rest)
    BY <1>2, <1>3, LenProperties DEF Least
  <2>. HIDE DEF m
  <2>2. IsCut(rest, m, SubSeq(rest, 1, m), Drop(rest, m))
    BY <1>3, <2>1, CutChars
  <2>3. CASE local' = Drop(rest, m)
    <3>1. /\ SubSeq(rest, 1, m) \in Seq(Char) /\ Drop(rest, m) \in Seq(Char)
          /\ rest = SubSeq(rest, 1, m) \o Drop(rest, m) /\ Len(Drop(rest, m)) = Len(rest) - m
      BY <2>2 DEF IsCut
    <3>2. Len(Drop(rest, m)) <= Len(rest)
      BY <2>1, <3>1
    <3>. QED  BY <2>3, <3>1, <3>2
  <2>4. CASE local' = rest
    <3>1. rest = <<>> \o rest
      BY <1>3, ConcatEmptySeq
    <3>2. Len(rest) <= Len(rest)
      BY <2>1
    <3>. rest \in Seq(Char) /\ <<>> \in Seq(Char)
      BY <1>2, <1>3
    <3>. WITNESS <<>> \in Seq(Char), rest \in Seq(Char)
    <3>. QED  BY <2>4, <3>1, <3>2
  <2>. QED  BY <1>1, <2>3, <2>4
<1>5. out \in Seq(Char)
  BY <1>2, <1>3, ConcatProperties
<1>. HIDE DEF out
<1>6. /\ \E s1, s2 \in Seq(Char) : out = s1 \o s2 /\ pty' = pty \o s1
      /\ errs' \in 0..MaxErr /\ (errs' = 0 => errs = 0)
  BY <1>1, <1>2, <1>5, PtyGetsBeginning
<1>7. PICK s1, s2 \in Seq(Char) : out = s1 \o s2 /\ pty' = pty \o s1
  BY <1>6
<1>8. pty' \in Seq(Char) /\ local' \in Seq(Char) /\ Len(local') <= LocalLen
  <2>1. Len(r2) \in Nat /\ Len(rest) <= Len(local) /\ Len(rest) \in Nat
    BY <1>2, <1>3, <1>4, LenProperties
  <2>2. Len(r2) <= LocalLen
    BY <1>2, <1>4, <2>1
  <2>. QED  BY <1>2, <1>4, <1>7, <2>2, ConcatProperties
<1>9. TypeOK'
  BY <1>i, <1>1, <1>2, <1>6, <1>8 DEF TypeOK
<1>10. NoOverrun' /\ RemainSound' /\ TriesLeft'
  BY <1>i, <1>1, <1>2, <1>6, <1>8 DEF NoOverrun, RemainSound, TriesLeft
<1>11. OrderInv'
  <2>. DEFINE e == <<made + 1>>
  <2>1. \A s \in Seq(Char) : s \in Seq(Nat)
    BY <1>i, CharSeq
  <2>2. e \in Seq(Nat)
    BY <1>i, CharSeq
  <2>3. Rises(pty, buffer, top \o (r1 \o r2), remote, e)
    BY <1>i, <1>3, <1>4, OrderApart
  <2>. HIDE DEF e
  <2>4. /\ pty \in Seq(Nat) /\ buffer \in Seq(Nat) /\ top \in Seq(Nat) /\ r1 \in Seq(Nat) /\ r2 \in Seq(Nat)
        /\ remote \in Seq(Nat) /\ s1 \in Seq(Nat) /\ s2 \in Seq(Nat) /\ pty' \in Seq(Nat) /\ <<>> \in Seq(Nat)
    BY <1>2, <1>3, <1>4, <1>7, <1>8, <2>1
  <2>5. Rises(pty, out, r2, remote, e)
    BY <2>2, <2>3, <2>4, CutFromLocal DEF out
  <2>6. Rises(pty \o s1, <<>>, r2, remote, e)
    <3>1. Rises(pty, s1 \o s2, r2, remote, e)
      BY <1>7, <2>5
    <3>. QED  BY <2>2, <2>4, <3>1, CutFromBuffer
  <2>7. Rising(pty' \o <<>> \o r2 \o remote \o e)
    BY <1>7, <2>2, <2>4, <2>6, RisesApart
  <2>. QED  BY <1>1, <1>4, <2>7 DEF OrderInv, InFlight, e
<1>. QED  BY <1>9, <1>10, <1>11 DEF IInv

\* A character arrives.
LEMMA UartReceivesInv ==
  ASSUME IInv, UartReceives
  PROVE  IInv'
<1>. USE QueueAssumption
<1>i. TypeOK /\ NoOverrun /\ RemainSound /\ OrderInv /\ TriesLeft
  BY DEF IInv
<1>1. /\ made < MaxChar /\ Len(remote) < RemoteLen /\ made' = made + 1
      /\ remote' = Append(remote, made + 1)
      /\ UNCHANGED <<board, local, remain, overflow, buffer, tries, pty, errs, pc>>
      /\ int' \in BOOLEAN
  BY DEF UartReceives
<1>2. made \in 0..MaxChar /\ made' \in 0..MaxChar /\ made + 1 \in Char
  BY <1>i, <1>1 DEF TypeOK, Char
<1>3. /\ remote \in Seq(Char) /\ remote' \in Seq(Char) /\ Len(remote') = Len(remote) + 1
      /\ remote' = remote \o <<made + 1>> /\ Len(remote) \in Nat
  BY <1>i, <1>1, <1>2, AppendProperties, AppendIsConcat, LenProperties DEF TypeOK
<1>4. Len(remote') <= RemoteLen
  BY <1>1, <1>3
<1>5. TypeOK'
  BY <1>i, <1>1, <1>2, <1>3, <1>4 DEF TypeOK
<1>6. NoOverrun' /\ TriesLeft'
  BY <1>i, <1>1 DEF NoOverrun, TriesLeft
<1>7. RemainSound'
  <2>1. remain \in Int
    BY <1>i DEF TypeOK
  <2>. QED  BY <1>i, <1>1, <1>3, <2>1 DEF RemainSound
<1>8. OrderInv'
  <2>. DEFINE d == <<made + 1>>
              e == <<made + 1 + 1>>
  <2>1. /\ pty \in Seq(Nat) /\ buffer \in Seq(Nat) /\ local \in Seq(Nat) /\ remote \in Seq(Nat)
        /\ d \in Seq(Nat) /\ e \in Seq(Nat) /\ remote' \in Seq(Nat) /\ made \in Nat
    BY <1>i, <1>3, CharSeq DEF TypeOK
  <2>2. Rises(pty, buffer, local, remote, d)
    BY <1>i, OrderApart
  <2>3. ASSUME NEW s \in Seq(Nat), Below(s, d) PROVE Below(s, e)
    <3>. SUFFICES ASSUME NEW i \in 1..Len(s), NEW j \in 1..Len(e) PROVE s[i] < e[j]
      BY DEF Below
    <3>1. j = 1 /\ e[j] = made + 1 + 1 /\ s[i] \in Nat
      BY <2>1, ElementOfSeq
    <3>2. s[i] < made + 1
      BY <2>3 DEF Below
    <3>3. PICK v \in Nat : v = s[i]
      BY <3>1
    <3>4. PICK w \in Nat : w = e[j] /\ w = made + 1 + 1
      BY <2>1, <3>1
    <3>. HIDE DEF d, e
    <3>5. v < w
      <4>1. made \in Nat
        BY <2>1
      <4>2. v < made + 1
        BY <3>2, <3>3
      <4>. QED  BY <3>3, <3>4, <4>1, <4>2
    <3>. QED  BY <3>3, <3>4, <3>5
  <2>4. Rising(d) /\ Rising(e) /\ Below(d, e)
    BY <2>1 DEF Rising, Below
  <2>. HIDE DEF d, e
  <2>5. Rises(pty, buffer, local, remote \o d, e)
    <3>1. /\ Below(pty, e) /\ Below(buffer, e) /\ Below(local, e) /\ Below(remote, e)
      BY <2>1, <2>2, <2>3 DEF Rises
    <3>2. Rising(remote \o d) /\ Below(remote \o d, e)
      BY <2>1, <2>2, <2>4, <3>1, RisingConcat, BelowConcat DEF Rises
    <3>3. Below(pty, remote \o d) /\ Below(buffer, remote \o d) /\ Below(local, remote \o d)
      BY <2>1, <2>2, BelowConcat DEF Rises
    <3>. QED  BY <2>2, <2>4, <3>1, <3>2, <3>3 DEF Rises
  <2>6. Rising(pty \o buffer \o local \o remote' \o e)
    BY <1>3, <2>1, <2>5, RisesApart DEF d
  <2>. QED  BY <1>1, <2>6 DEF OrderInv, InFlight, e
<1>. QED  BY <1>5, <1>6, <1>7, <1>8 DEF IInv

\* Every step preserves the invariant.
LEMMA StepInv == IInv /\ [Next]_vars => IInv'
<1>. SUFFICES ASSUME IInv, [Next]_vars PROVE IInv'
  OBVIOUS
<1>i. TypeOK /\ NoOverrun /\ RemainSound /\ OrderInv /\ TriesLeft
  BY DEF IInv
<1>1. CASE UartReceives
  BY <1>1, UartReceivesInv
<1>2. ASSUME NEW got \in BOOLEAN, NEW fault \in Fault, OtherOp(got, fault) PROVE IInv'
  <2>1. Handover(got, fault) /\ QueueUart(got, fault) /\ UNCHANGED <<board, made, buffer, tries, pty, int, pc>> /\ pc = "loop"
    BY <1>2 DEF OtherOp
  <2>2. tries' \in 0..3 /\ pc' \in {"loop", "drain"} /\ TriesLeft'
    BY <1>i, <2>1 DEF TypeOK, TriesLeft
  <2>. QED  BY <2>1, <2>2, QueueUartInv
<1>3. ASSUME NEW got \in BOOLEAN, NEW fault \in Fault, Idle(got, fault) PROVE IInv'
  <2>1. /\ Handover(got, fault) /\ QueueUart(got, fault) /\ buffer' = <<>> /\ tries' = 3 /\ pc' = "drain"
        /\ UNCHANGED <<board, made, pty, int>>
    BY <1>3 DEF Idle
  <2>2. tries' \in 0..3 /\ pc' \in {"loop", "drain"} /\ TriesLeft'
    BY <2>1 DEF TriesLeft
  <2>. QED  BY <2>1, <2>2, QueueUartInv
<1>4. ASSUME NEW got \in BOOLEAN, NEW fault \in Fault, ReadStringFails(got, fault) PROVE IInv'
  BY <1>4, ReadStringFailsInv
<1>5. ASSUME NEW got \in BOOLEAN, ReadString(got) PROVE IInv'
  BY <1>5, ReadStringInv
<1>6. CASE TailOfReadUart
  BY <1>6, TailInv
\* What moves no character.
<1>7. ASSUME UNCHANGED <<board, made, remote, local, remain, overflow, buffer, tries, pty, errs>>,
             int' \in BOOLEAN, pc' \in {"loop", "idle", "drain", "tail"},
             pc' = "tail" => pc = "tail" \/ remain = 0, pc' = "drain" => pc = "drain"
      PROVE  IInv'
  <2>1. TypeOK'
    BY <1>i, <1>7 DEF TypeOK
  <2>2. NoOverrun' /\ RemainSound' /\ TriesLeft'
    BY <1>i, <1>7 DEF NoOverrun, RemainSound, TriesLeft
  <2>3. OrderInv'
    BY <1>i, <1>7 DEF OrderInv, InFlight
  <2>. QED  BY <2>1, <2>2, <2>3 DEF IInv
<1>8. CASE Interrupt
  BY <1>7, <1>8 DEF Interrupt
<1>9. CASE Poll
  BY <1>i, <1>7, <1>9 DEF Poll, TypeOK
<1>10. CASE Drained
  BY <1>i, <1>7, <1>10 DEF Drained, TypeOK
<1>11. CASE UNCHANGED vars
  BY <1>i, <1>7, <1>11 DEF vars, TypeOK
<1>. QED  BY <1>1, <1>2, <1>3, <1>4, <1>5, <1>6, <1>8, <1>9, <1>10, <1>11 DEF Next, ReadUart

\* The invariant holds throughout.
LEMMA Invariance == Spec => []IInv
BY InitInv, StepInv, PTL DEF Spec

-----------------------------------------------------------------------------

\* Types: in particular remain, the 8 bit length the MCU reports less the
\* character in hand, never wraps below 0, and the countdown of failures neither.
THEOREM TypeCorrect == Spec => []TypeOK
<1>1. IInv => TypeOK
  BY DEF IInv
<1>. QED  BY <1>1, Invariance, PTL

\* Whatever fails, and for queues of any size, the terminal gets the characters
\* in the order of their arrival and none of them twice.
THEOREM CharactersInOrder == Spec => []InOrder
<1>1. IInv => InOrder
  BY OrderGivesInOrder DEF IInv
<1>. QED  BY <1>1, Invariance, PTL

\* read_string and queue_uart never write behind the end of a buffer, whatever
\* the sizes of the buffers and of the message.
THEOREM BuffersHold == Spec => []NoOverrun
<1>1. IInv => NoOverrun
  BY DEF IInv
<1>. QED  BY <1>1, Invariance, PTL

\* Unless a transfer failed, remain never promises more than the MCU holds.
THEOREM RemainTrusted == Spec => []RemainSound
<1>1. IInv => RemainSound
  BY DEF IInv
<1>. QED  BY <1>1, Invariance, PTL

-----------------------------------------------------------------------------
(* The other direction: from the pseudo terminal to the board.            *)

\* k characters have left the pseudo terminal, and the rest waits in order.
Waiting(k) ==
  /\ typed = k + Len(ptyq)
  /\ \A i \in 1..Len(ptyq) : ptyq[i] = k + i

\* Of these k the board has some, in order; all, if no operation has failed.
Written(k) ==
  /\ \A i \in 1..Len(line) : line[i] <= k
  /\ \A i, j \in 1..Len(line) : i < j => line[i] < line[j]
  /\ failed = 0 => Len(line) = k /\ \A i \in 1..k : line[i] = i

\* A status is pending from epoll_wait, which has seen it, to the read that is
\* there to clear it: nobody else takes it away.
StatusKept ==
  /\ ptypc = "event" /\ pri = TRUE => pending = TRUE
  /\ ptypc \in {"write_regs", "clear"} => pending = TRUE

PtyInv ==
  /\ typed \in Nat /\ failed \in Nat /\ pending \in BOOLEAN /\ pri \in BOOLEAN
  /\ ptyq \in Seq(Nat) /\ line \in Seq(Nat)
  /\ StatusKept
  /\ \E k \in Nat : Waiting(k) /\ Written(k)

LEMMA InitPty == PtyInit => PtyInv
<1>. SUFFICES ASSUME PtyInit PROVE PtyInv
  OBVIOUS
<1>1. /\ typed = 0 /\ failed = 0 /\ pending \in BOOLEAN /\ pri = FALSE /\ ptypc = "wait"
      /\ ptyq = <<>> /\ line = <<>>
  BY DEF PtyInit
<1>2. Len(<<>>) = 0 /\ <<>> \in Seq(Nat)
  BY EmptySeq
<1>3. Waiting(0) /\ Written(0)
  BY <1>1, <1>2 DEF Waiting, Written
<1>. QED  BY <1>1, <1>2, <1>3 DEF PtyInv, StatusKept

\* A character more waits.
LEMMA TypeKeeps == PtyInv /\ Type => PtyInv'
<1>. SUFFICES ASSUME PtyInv, Type PROVE PtyInv'
  OBVIOUS
<1>1. /\ typed \in Nat /\ typed' = typed + 1 /\ typed' \in Nat /\ ptyq' = Append(ptyq, typed')
      /\ ptyq \in Seq(Nat) /\ Len(ptyq) \in Nat
      /\ UNCHANGED <<pending, line, pri, failed, ptypc>>
  BY LenProperties DEF PtyInv, Type
<1>2. PICK k \in Nat : Waiting(k) /\ Written(k)
  BY DEF PtyInv
<1>3. /\ ptyq' \in Seq(Nat) /\ Len(ptyq') = Len(ptyq) + 1
      /\ \A i \in 1..Len(ptyq) : ptyq'[i] = ptyq[i]
      /\ ptyq'[Len(ptyq) + 1] = typed'
  BY <1>1, AppendProperties
<1>4. Waiting(k)'
  <2>. SUFFICES ASSUME NEW i \in 1..Len(ptyq') PROVE ptyq'[i] = k + i
    BY <1>1, <1>2, <1>3 DEF Waiting
  <2>1. CASE i \in 1..Len(ptyq)
    BY <1>2, <1>3, <2>1 DEF Waiting
  <2>2. CASE i = Len(ptyq) + 1
    BY <1>1, <1>2, <1>3, <2>2 DEF Waiting
  <2>. QED  BY <1>1, <1>3, <2>1, <2>2
<1>5. Written(k)'
  BY <1>1, <1>2 DEF Written
<1>. QED  BY <1>1, <1>3, <1>4, <1>5 DEF PtyInv, StatusKept

\* What is left of a queue without its first n elements.
LEMMA Rest ==
  ASSUME NEW s \in Seq(Nat), NEW n \in 0..Len(s)
  PROVE  /\ SubSeq(s, n + 1, Len(s)) \in Seq(Nat)
         /\ Len(SubSeq(s, n + 1, Len(s))) = Len(s) - n
         /\ \A i \in 1..(Len(s) - n) : SubSeq(s, n + 1, Len(s))[i] = s[n + i]
<1>1. Len(s) \in Nat /\ n \in Nat /\ \A i \in (n + 1)..Len(s) : s[i] \in Nat
  BY LenProperties, ElementOfSeq
<1>. DEFINE t == SubSeq(s, n + 1, Len(s))
<1>2. /\ t \in Seq(Nat) /\ Len(t) = IF n + 1 <= Len(s) THEN Len(s) - (n + 1) + 1 ELSE 0
      /\ \A i \in 1..(Len(s) - (n + 1) + 1) : t[i] = s[(n + 1) + i - 1]
  BY <1>1, SubSeqProperties, SMTT(40)
<1>. HIDE DEF t
<1>3. PICK l \in Nat : l = Len(s) /\ n <= l
  BY <1>1
<1>4. l - (n + 1) + 1 = l - n /\ \A i \in 1..(l - n) : (n + 1) + i - 1 = n + i
  BY <1>1, <1>3
<1>5. Len(t) = l - n
  <2>1. Len(t) = IF n + 1 <= l THEN l - (n + 1) + 1 ELSE 0
    BY <1>2, <1>3
  <2>. QED  BY <1>1, <1>3, <1>4, <2>1
<1>6. \A i \in 1..(l - n) : t[i] = s[n + i]
  <2>1. \A i \in 1..(l - n) : t[i] = s[(n + 1) + i - 1]
    BY <1>2, <1>3, <1>4
  <2>. QED  BY <1>4, <2>1
<1>. QED  BY <1>2, <1>3, <1>5, <1>6 DEF t

\* Its first n elements.
LEMMA Front ==
  ASSUME NEW s \in Seq(Nat), NEW n \in 0..Len(s)
  PROVE  /\ SubSeq(s, 1, n) \in Seq(Nat) /\ Len(SubSeq(s, 1, n)) = n
         /\ \A i \in 1..n : SubSeq(s, 1, n)[i] = s[i]
<1>1. Len(s) \in Nat /\ n \in Nat /\ \A i \in 1..n : s[i] \in Nat
  BY LenProperties, ElementOfSeq
<1>2. /\ SubSeq(s, 1, n) \in Seq(Nat)
      /\ Len(SubSeq(s, 1, n)) = IF 1 <= n THEN n - 1 + 1 ELSE 0
      /\ \A i \in 1..(n - 1 + 1) : SubSeq(s, 1, n)[i] = s[1 + i - 1]
  BY <1>1, SubSeqProperties
<1>3. n - 1 + 1 = n /\ (~(1 <= n) => n = 0) /\ \A i \in Nat : 1 + i - 1 = i
  BY <1>1
<1>. QED  BY <1>2, <1>3

\* armpty_readpty moves characters from the front of the queue to the board, or
\* loses them with a failed operation.
LEMMA ReadKeeps == PtyInv /\ ReadChars => PtyInv'
<1>. SUFFICES ASSUME PtyInv, ReadChars PROVE PtyInv'
  OBVIOUS
<1>1. /\ ptyq \in Seq(Nat) /\ Len(ptyq) \in Nat /\ line \in Seq(Nat) /\ Len(line) \in Nat
      /\ typed \in Nat /\ failed \in Nat /\ ptypc' = "wait" /\ UNCHANGED <<pending, typed, pri>>
  BY LenProperties DEF PtyInv, ReadChars
<1>2. PICK k \in Nat : Waiting(k) /\ Written(k)
  BY DEF PtyInv
<1>3. PICK n \in 0..Len(ptyq) : n = IF ReadLen < Len(ptyq) THEN ReadLen ELSE Len(ptyq)
  BY <1>1, PtyAssumption
<1>4. /\ ptyq' = SubSeq(ptyq, n + 1, Len(ptyq))
      /\ \/ line' = line \o SubSeq(ptyq, 1, n) /\ UNCHANGED failed
         \/ failed' = failed + 1 /\ UNCHANGED line
  BY <1>3 DEF ReadChars
<1>5. /\ ptyq' \in Seq(Nat) /\ Len(ptyq') = Len(ptyq) - n
      /\ \A i \in 1..(Len(ptyq) - n) : ptyq'[i] = ptyq[n + i]
  BY <1>1, <1>4, Rest
<1>6. n \in Nat /\ k + n \in Nat /\ failed' \in Nat
  BY <1>1, <1>4
<1>7. Waiting(k + n)'
  <2>1. typed' = (k + n) + Len(ptyq')
    BY <1>1, <1>2, <1>5, <1>6 DEF Waiting
  <2>2. ASSUME NEW i \in 1..Len(ptyq') PROVE ptyq'[i] = (k + n) + i
    <3>1. i \in 1..(Len(ptyq) - n) /\ n + i \in 1..Len(ptyq) /\ k + (n + i) = (k + n) + i
      BY <1>1, <1>5, <1>6
    <3>2. ptyq[n + i] = k + (n + i)
      BY <1>2, <3>1 DEF Waiting
    <3>. QED  BY <1>5, <3>1, <3>2
  <2>. QED  BY <2>1, <2>2 DEF Waiting
<1>8. line' \in Seq(Nat) /\ Written(k + n)'
  <2>1. CASE failed' = failed + 1 /\ line' = line
    <3>1. failed' # 0
      BY <1>1, <2>1
    <3>2. \A i \in 1..Len(line) : line[i] <= k + n
      <4>. SUFFICES ASSUME NEW i \in 1..Len(line) PROVE line[i] <= k + n
        OBVIOUS
      <4>1. line[i] \in Nat /\ line[i] <= k
        BY <1>1, <1>2, ElementOfSeq DEF Written
      <4>. QED  BY <1>6, <4>1
    <3>. QED  BY <1>1, <1>2, <2>1, <3>1, <3>2 DEF Written
  <2>2. CASE line' = line \o SubSeq(ptyq, 1, n) /\ failed' = failed
    <3>. DEFINE t == SubSeq(ptyq, 1, n)
                l == Len(line)
    <3>1. t \in Seq(Nat) /\ Len(t) = n /\ \A i \in 1..n : t[i] = k + i
      <4>1. t \in Seq(Nat) /\ Len(t) = n /\ \A i \in 1..n : t[i] = ptyq[i]
        BY <1>1, Front
      <4>2. \A i \in 1..n : ptyq[i] = k + i
        BY <1>1, <1>2 DEF Waiting
      <4>. QED  BY <4>1, <4>2
    <3>. HIDE DEF t
    <3>2. /\ line' \in Seq(Nat) /\ Len(line') = l + n
          /\ \A i \in 1..(l + n) : line'[i] = IF i <= l THEN line[i] ELSE t[i - l]
      <4>1. line' = line \o t
        BY <2>2 DEF t
      <4>. QED  BY <1>1, <3>1, <4>1, ConcatProperties
    <3>3. \A i \in 1..l : line'[i] = line[i] /\ line[i] \in Nat /\ line[i] <= k
      BY <1>1, <1>2, <1>6, <3>2, ElementOfSeq DEF Written
    <3>4. \A i \in (l + 1)..(l + n) : line'[i] = k + (i - l)
      <4>. SUFFICES ASSUME NEW i \in (l + 1)..(l + n) PROVE line'[i] = k + (i - l)
        OBVIOUS
      <4>1. i \in 1..(l + n) /\ ~(i <= l) /\ i - l \in 1..n
        BY <1>1, <1>6
      <4>. QED  BY <3>1, <3>2, <4>1
    <3>5. \A i, j \in 1..l : i < j => line[i] < line[j]
      BY <1>2 DEF Written
    <3>6. l \in Nat /\ Len(line') = l + n
      BY <1>1, <3>2
    <3>7. failed' = 0 => l = k /\ \A i \in 1..k : line[i] = i
      BY <1>2, <2>2 DEF Written
    <3>. HIDE DEF l
    <3>8. \A i \in 1..(l + n) : line'[i] <= k + n
      <4>. SUFFICES ASSUME NEW i \in 1..(l + n) PROVE line'[i] <= k + n
        OBVIOUS
      <4>1. CASE i \in 1..l
        BY <1>6, <3>3, <4>1
      <4>2. CASE i \in (l + 1)..(l + n)
        BY <1>6, <3>4, <3>6, <4>2
      <4>. QED  BY <1>6, <3>6, <4>1, <4>2
    <3>9. \A i, j \in 1..(l + n) : i < j => line'[i] < line'[j]
      <4>. SUFFICES ASSUME NEW i \in 1..(l + n), NEW j \in 1..(l + n), i < j
                    PROVE  line'[i] < line'[j]
        OBVIOUS
      <4>1. CASE j \in 1..l
        <5>1. i \in 1..l
          BY <3>6, <4>1
        <5>. QED  BY <3>3, <3>5, <4>1, <5>1
      <4>2. CASE i \in 1..l /\ j \in (l + 1)..(l + n)
        BY <3>3, <3>4, <3>6, <4>2
      <4>3. CASE i \in (l + 1)..(l + n) /\ j \in (l + 1)..(l + n)
        BY <3>4, <3>6, <4>3
      <4>. QED  BY <1>6, <3>6, <4>1, <4>2, <4>3
    <3>10. failed' = 0 => Len(line') = k + n /\ \A i \in 1..(k + n) : line'[i] = i
      <4>. SUFFICES ASSUME failed' = 0 PROVE Len(line') = k + n /\ \A i \in 1..(k + n) : line'[i] = i
        OBVIOUS
      <4>1. ASSUME NEW i \in 1..(k + n) PROVE line'[i] = i
        <5>1. CASE i \in 1..l
          BY <3>3, <3>7, <5>1
        <5>2. CASE i \in (l + 1)..(l + n)
          BY <3>4, <3>6, <3>7, <5>2
        <5>. QED  BY <1>6, <3>6, <3>7, <5>1, <5>2
      <4>. QED  BY <3>6, <3>7, <4>1
    <3>. QED  BY <3>2, <3>6, <3>8, <3>9, <3>10 DEF Written
  <2>. QED  BY <1>4, <2>1, <2>2
<1>. QED  BY <1>1, <1>5, <1>6, <1>7, <1>8 DEF PtyInv, StatusKept

LEMMA PtyInductive == PtyInv /\ [PtyNext]_ptyvars => PtyInv'
<1>. SUFFICES ASSUME PtyInv, [PtyNext]_ptyvars PROVE PtyInv'
  OBVIOUS
<1>1. ASSUME UNCHANGED <<typed, ptyq, line>>, failed' = failed \/ failed' = failed + 1,
             pending' \in BOOLEAN, pri' \in BOOLEAN, StatusKept'
      PROVE  PtyInv'
  <2>1. PICK k \in Nat : Waiting(k) /\ Written(k)
    BY DEF PtyInv
  <2>2. failed \in Nat /\ failed' \in Nat /\ (failed' = 0 => failed = 0)
    BY <1>1 DEF PtyInv
  <2>3. Waiting(k)' /\ Written(k)'
    BY <1>1, <2>1, <2>2 DEF Waiting, Written
  <2>. QED  BY <1>1, <2>2, <2>3 DEF PtyInv
<1>2. pending \in BOOLEAN /\ pri \in BOOLEAN /\ StatusKept
  BY DEF PtyInv
<1>3. CASE Type
  BY <1>3, TypeKeeps
<1>4. CASE ReadChars
  BY <1>4, ReadKeeps
<1>5. CASE ClearStatus
  <2>1. /\ pending = TRUE /\ pending' = FALSE /\ ptypc' = "readpty" /\ ptyq' = ptyq
        /\ UNCHANGED <<typed, line, pri, failed>>
    BY <1>2, <1>5 DEF ClearStatus, StatusKept
  <2>. QED  BY <1>1, <1>2, <2>1 DEF StatusKept
<1>6. CASE Set \/ EpollWait \/ Dispatch \/ WriteRegs \/ ReadStatus \/ UNCHANGED ptyvars
  <2>1. UNCHANGED <<typed, ptyq, line>> /\ (failed' = failed \/ failed' = failed + 1)
    BY <1>6 DEF Set, EpollWait, Dispatch, WriteRegs, ReadStatus, ptyvars
  <2>2. pending' \in BOOLEAN /\ pri' \in BOOLEAN /\ StatusKept'
    BY <1>2, <1>6 DEF Set, EpollWait, Dispatch, WriteRegs, ReadStatus, ptyvars, StatusKept
  <2>. QED  BY <1>1, <2>1, <2>2
<1>. QED  BY <1>3, <1>4, <1>5, <1>6 DEF PtyNext, Server

\* For any number of characters and settings, any sizes of the two reads and any
\* number of failed operations: the board gets the characters in the order in
\* which they were written, none twice, and all of them as long as no operation
\* fails, however changes of the settings fall between the system calls.
THEOREM WrittenInOrder == PtySpec => []LineInOrder
<1>1. PtyInv => LineInOrder
  <2>. SUFFICES ASSUME PtyInv PROVE LineInOrder
    OBVIOUS
  <2>1. PICK k \in Nat : Waiting(k) /\ Written(k)
    BY DEF PtyInv
  <2>2. ASSUME failed = 0 PROVE line \o ptyq = [i \in 1..typed |-> i]
    <3>. DEFINE all == [i \in 1..typed |-> i]
                s == line \o ptyq
    <3>1. /\ line \in Seq(Nat) /\ Len(line) = k /\ (\A i \in 1..k : line[i] = i)
          /\ ptyq \in Seq(Nat) /\ Len(ptyq) \in Nat /\ typed = k + Len(ptyq)
          /\ \A i \in 1..Len(ptyq) : ptyq[i] = k + i
      BY <2>1, <2>2, LenProperties DEF PtyInv, Waiting, Written
    <3>2. all \in Seq(Nat) /\ Len(all) = typed /\ \A i \in 1..typed : all[i] = i
      <4>1. typed \in Nat
        BY DEF PtyInv
      <4>. QED  BY <4>1
    <3>3. /\ s \in Seq(Nat) /\ Len(s) = typed
          /\ \A i \in 1..typed : s[i] = IF i <= k THEN line[i] ELSE ptyq[i - k]
      BY <3>1, ConcatProperties
    <3>. HIDE DEF all, s
    <3>4. \A i \in 1..typed : s[i] = i
      <4>. SUFFICES ASSUME NEW i \in 1..typed PROVE s[i] = i
        OBVIOUS
      <4>1. CASE i <= k
        BY <3>1, <3>3, <4>1
      <4>2. CASE ~(i <= k)
        <5>1. i - k \in 1..Len(ptyq) /\ k + (i - k) = i
          BY <3>1, <4>2
        <5>. QED  BY <3>1, <3>3, <4>2, <5>1
      <4>. QED  BY <4>1, <4>2
    <3>5. s = all
      BY <3>2, <3>3, <3>4, SeqEqual
    <3>. QED  BY <3>5 DEF s, all
  <2>. QED  BY <2>1, <2>2 DEF LineInOrder, Written
<1>. QED  BY <1>1, InitPty, PtyInductive, PTL DEF PtySpec

=============================================================================
