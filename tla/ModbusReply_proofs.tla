------------------------- MODULE ModbusReply_proofs -------------------------
(***************************************************************************)
(* Proofs about nb_modbus_reply: which cells of which board a request      *)
(* reads, changes and has acknowledged, for any boards, cells, ranges of   *)
(* addresses and limits, and any width of the count in an SPI message.     *)
(***************************************************************************)
EXTENDS ModbusReply, SequenceTheorems, WellFoundedInduction, TLAPS

-----------------------------------------------------------------------------
(* Arithmetic.                                                             *)

\* Quotient and remainder.
LEMMA DivMod ==
  ASSUME NEW a \in Nat, NEW d \in Nat \ {0}
  PROVE  /\ a \div d \in Nat /\ a % d \in 0..(d - 1)
         /\ a = (a \div d) * d + (a % d) /\ a % d <= a
OBVIOUS

\* The low bits of a count.
LEMMA LowBits == \A n \in Nat : n % ByteMod \in Nat /\ n % ByteMod <= n
<1>1. ByteMod \in Nat \ {0}
  BY ReplyAssumption
<1>. QED  BY <1>1, DivMod

\* A set of numbers that is not empty has a least one.
LEMMA LeastElement ==
  ASSUME NEW T \in SUBSET Nat, T # {}
  PROVE  \E m \in T : \A n \in T : m <= n
<1>1. PICK m \in T : \A n \in T : ~ (<<n, m>> \in OpToRel(<, Nat))
  BY NatLessThanWellFounded, WFMin
<1>2. \A n \in T : ~ (n < m)
  BY <1>1 DEF OpToRel
<1>. QED  BY <1>2

\* The board acts on the cells it has, from the address on, and on no others.
LEMMA AvailableCells ==
  ASSUME NEW a \in Nat, NEW n \in Nat
  PROVE  /\ Available(a, n) \in 0..n
         /\ \A i \in 0..(Available(a, n) - 1) : a + i \in Cells
<1>. DEFINE T == {j \in 0..n : j = n \/ a + j \notin Cells}
            P(j) == /\ \A i \in 0..(j - 1) : a + i \in Cells
                    /\ j = n \/ a + j \notin Cells
<1>1. T \in SUBSET Nat /\ n \in T
  OBVIOUS
<1>2. PICK m \in T : \A j \in T : m <= j
  BY <1>1, LeastElement
<1>3. m \in 0..n /\ P(m)
  <2>1. ASSUME NEW i \in 0..(m - 1) PROVE a + i \in Cells
    <3>1. i \in 0..n /\ ~(m <= i)
      BY <1>2
    <3>2. i \notin T
      BY <1>2, <3>1
    <3>. QED  BY <3>1, <3>2
  <2>. QED  BY <1>2, <2>1
<1>4. Available(a, n) = CHOOSE j \in 0..n : P(j)
  BY DEF Available
<1>. HIDE DEF P
<1>5. Available(a, n) \in 0..n /\ P(Available(a, n))
  BY <1>3, <1>4
<1>. QED  BY <1>5 DEF P

\* Requests are made of numbers.
LEMMA RequestType ==
  ASSUME NEW r \in Request
  PROVE  r.unit \in Nat /\ r.address \in Nat /\ r.nb \in Nat /\ Nb(r) \in Nat
BY ReplyAssumption DEF Request, Nb

\* The board and the address nb_modbus_reply computes are the ones that unit and
\* address of the request mean.
LEMMA TargetIsMeant ==
  ASSUME NEW r \in Request
  PROVE  AddressOf(r) \in Nat /\ Means(r, SlaveOf(r), AddressOf(r))
<1>1. r.unit \in Nat /\ r.address \in Nat
  BY RequestType
<1>2. Group \in Nat \ {0} /\ Span \in Nat \ {0}
  BY ReplyAssumption
<1>3. CASE r.unit # 0
  BY <1>1, <1>3 DEF AddressOf, SlaveOf, Means
<1>4. CASE r.unit = 0
  <2>. DEFINE x == r.address
              g == x \div Group
              y == x % Group
              b == y \div Span
              off == y % Span
  <2>1. g \in Nat /\ y \in 0..(Group - 1) /\ x = (g * Group) + y
    BY <1>1, <1>2, DivMod
  <2>2. b \in Nat /\ off \in 0..(Span - 1) /\ y = (b * Span) + off
    <3>. HIDE DEF y
    <3>1. y \in Nat
      BY <1>2, <2>1
    <3>. QED  BY <1>2, <3>1, DivMod
  <2>3. CASE g > 2
    <3>1. SlaveOf(r) = 1 /\ AddressOf(r) = x
      BY <1>4, <2>3 DEF SlaveOf, AddressOf, GroupOf
    <3>2. PICK d \in Nat : g = 3 + d
      <4>1. g - 3 \in Nat /\ g = 3 + (g - 3)
        BY <2>1, <2>3
      <4>. QED  BY <4>1
    <3>3. x = (3 * Group) + (d * Group) + y /\ d * Group \in Nat
      BY <1>2, <2>1, <3>2
    <3>4. x >= 3 * Group
      <4>. HIDE DEF x, y, g
      <4>. DEFINE p == d * Group
      <4>. HIDE DEF p
      <4>1. p \in Nat /\ y \in Nat /\ x = (3 * Group) + p + y
        BY <1>2, <2>1, <3>3 DEF p
      <4>. QED  BY <1>2, <4>1
    <3>. QED  BY <1>1, <1>4, <3>1, <3>4 DEF Means
  <2>4. CASE ~(g > 2)
    <3>1. SlaveOf(r) = b + 1 /\ AddressOf(r) = off + (g * Group)
      BY <1>4, <2>4 DEF SlaveOf, AddressOf, GroupOf
    <3>. HIDE DEF g, y, b, off, x
    <3>2. g \in 0..2 /\ off \in 0..(Span - 1) /\ g * Group \in Nat
      BY <1>2, <2>1, <2>2, <2>4
    <3>3. x = (g * Group) + (((b + 1) - 1) * Span) + off
      BY <1>2, <2>1, <2>2, <3>2
    <3>4. x < (g + 1) * Group
      <4>1. (g + 1) * Group = (g * Group) + Group
        BY <1>2, <2>1
      <4>. QED  BY <1>2, <2>1, <3>2, <4>1
    <3>5. off + (g * Group) = (g * Group) + off /\ off + (g * Group) \in Nat
      BY <1>2, <3>2
    <3>6. Means(r, b + 1, off + (g * Group))
      BY <1>4, <3>2, <3>3, <3>4, <3>5 DEF Means, x
    <3>. QED  BY <3>1, <3>5, <3>6
  <2>. QED  BY <2>3, <2>4
<1>. QED  BY <1>3, <1>4

-----------------------------------------------------------------------------

\* Types: every cell holds the number of a request.
TypeOK ==
  /\ mem \in [Arms -> [Kind -> [Cells -> Nat]]]
  /\ count \in Nat

\* What the board does to its cells.
LEMMA WrittenCells ==
  ASSUME TypeOK, NEW b \in Arms, NEW k \in Kind, NEW a \in Nat, NEW n \in Nat
  PROVE  /\ Written(b, k, a, n) \in [Arms -> [Kind -> [Cells -> Nat]]]
         /\ \A arm \in Arms, kind \in Kind, c \in Cells :
              Written(b, k, a, n)[arm][kind][c] =
                IF arm = b /\ kind = k /\ c \in a..(a + n - 1) THEN count + 1
                ELSE mem[arm][kind][c]
<1>. DEFINE f == [c \in Cells |-> IF c \in a..(a + n - 1) THEN count + 1 ELSE mem[b][k][c]]
            w == [mem EXCEPT ![b][k] = f]
<1>1. Written(b, k, a, n) = w
  BY DEF Written, TypeOK
<1>2. f \in [Cells -> Nat]
  BY DEF TypeOK
<1>3. \A c \in Cells : f[c] = IF c \in a..(a + n - 1) THEN count + 1 ELSE mem[b][k][c]
  OBVIOUS
<1>. HIDE DEF f
<1>4. w \in [Arms -> [Kind -> [Cells -> Nat]]]
  BY <1>2 DEF TypeOK
<1>5. \A arm \in Arms, kind \in Kind :
        w[arm][kind] = IF arm = b /\ kind = k THEN f ELSE mem[arm][kind]
  BY DEF TypeOK
<1>. QED  BY <1>1, <1>3, <1>4, <1>5

-----------------------------------------------------------------------------
(* The steps.                                                              *)

\* Whatever the reply, the board that is meant changed no more cells than the
\* request has values, and no other board changed.
LEMMA ReplyEffect ==
  ASSUME NEW r \in Request, Reply(r)
  PROVE  /\ req' = r /\ count' = count + 1
         /\ \/ mem' = mem
            \/ /\ SlaveOf(r) \in Arms
               /\ \E n \in 0..Nb(r) : mem' = Written(SlaveOf(r), KindOf(r.fc), AddressOf(r), n)
<1>1. Nb(r) \in Nat /\ AddressOf(r) \in Nat
  BY RequestType, TargetIsMeant
<1>2. CASE BadTarget(r) \/ BadFunction(r) \/ BadValue(r) \/ ReportSlaveId(r) \/ WriteFirmwareBit(r)
  BY <1>2 DEF BadTarget, BadFunction, BadValue, ReportSlaveId, WriteFirmwareBit, NoEffect, Answer
<1>3. CASE Read(r)
  BY <1>3 DEF Read, Fails, NoEffect, Answer
<1>4. CASE Write(r)
  <2>. DEFINE n == Available(AddressOf(r), Nb(r) % ByteMod)
              w == Written(SlaveOf(r), KindOf(r.fc), AddressOf(r), n)
  <2>1. SlaveOf(r) \in Arms /\ mem' \in {mem, w} /\ req' = r /\ count' = count + 1
    BY <1>4 DEF Write, Fails, Answer
  <2>2. Nb(r) % ByteMod \in Nat /\ Nb(r) % ByteMod <= Nb(r)
    BY <1>1, LowBits
  <2>3. n \in 0..Nb(r)
    BY <1>1, <2>2, AvailableCells
  <2>. QED  BY <2>1, <2>3
<1>5. CASE WriteSingleCoil(r)
  <2>. DEFINE w == Written(SlaveOf(r), "coil", AddressOf(r), 1)
  <2>1. /\ r.fc = "write_coil" /\ req' = r /\ count' = count + 1
        /\ SlaveOf(r) \in Arms /\ mem' \in {mem, w}
    BY <1>5 DEF WriteSingleCoil, Fails, NoEffect, Answer
  <2>2. KindOf(r.fc) = "coil" /\ 1 \in 0..Nb(r)
    BY <2>1 DEF KindOf, Nb
  <2>. QED  BY <2>1, <2>2
<1>. QED  BY <1>2, <1>3, <1>4, <1>5 DEF Reply

\* Kinds.
LEMMA KindType == \A fc : KindOf(fc) \in Kind
BY DEF KindOf, Kind

\* Types are preserved.
LEMMA StepType == TypeOK /\ [Next]_vars => TypeOK'
<1>. SUFFICES ASSUME TypeOK, [Next]_vars PROVE TypeOK'
  OBVIOUS
<1>1. CASE UNCHANGED vars
  BY <1>1 DEF vars, TypeOK
<1>2. CASE RunDeferred
  BY <1>2 DEF RunDeferred, TypeOK
<1>3. ASSUME NEW r \in Request, Reply(r) PROVE TypeOK'
  <2>1. AddressOf(r) \in Nat /\ Nb(r) \in Nat
    BY RequestType, TargetIsMeant
  <2>2. mem' \in [Arms -> [Kind -> [Cells -> Nat]]]
    <3>1. CASE mem' = mem
      BY <3>1 DEF TypeOK
    <3>2. ASSUME SlaveOf(r) \in Arms, NEW n \in 0..Nb(r),
                 mem' = Written(SlaveOf(r), KindOf(r.fc), AddressOf(r), n)
          PROVE  mem' \in [Arms -> [Kind -> [Cells -> Nat]]]
      BY <2>1, <3>2, KindType, WrittenCells
    <3>. QED  BY <1>3, <3>1, <3>2, ReplyEffect
  <2>3. count' \in Nat
    BY <1>3, ReplyEffect DEF TypeOK
  <2>. QED  BY <2>2, <2>3 DEF TypeOK
<1>. QED  BY <1>1, <1>2, <1>3 DEF Next

LEMMA InitType == Init => TypeOK
BY DEF Init, TypeOK

LEMMA TypeInv == Spec => []TypeOK
BY InitType, StepType, PTL DEF Spec

\* A request changes no cell but the ones it names.
LEMMA StepHitsTarget == TypeOK /\ [Next]_vars => [WriteHitsTarget]_vars
<1>. SUFFICES ASSUME TypeOK, Next PROVE WriteHitsTarget
  OBVIOUS
<1>1. CASE RunDeferred
  BY <1>1 DEF RunDeferred, WriteHitsTarget
<1>2. ASSUME NEW r \in Request, Reply(r) PROVE WriteHitsTarget
  <2>. SUFFICES ASSUME NEW arm \in Arms, NEW k \in Kind, NEW c \in Cells,
                       mem'[arm][k][c] # mem[arm][k][c]
                PROVE  /\ k = KindOf(req'.fc)
                       /\ \E i \in 0..(Nb(req') - 1) : Means(req', arm, c - i)
    BY DEF WriteHitsTarget
  <2>1. AddressOf(r) \in Nat /\ Nb(r) \in Nat /\ c \in Nat
    BY RequestType, TargetIsMeant, ReplyAssumption
  <2>2. req' = r /\ SlaveOf(r) \in Arms
    BY <1>2, ReplyEffect
  <2>3. PICK n \in 0..Nb(r) : mem' = Written(SlaveOf(r), KindOf(r.fc), AddressOf(r), n)
    BY <1>2, ReplyEffect
  <2>. DEFINE a == AddressOf(r)
              s == SlaveOf(r)
  <2>4. n \in Nat /\ KindOf(r.fc) \in Kind
    BY <2>1, KindType
  <2>5. arm = s /\ k = KindOf(r.fc) /\ c \in a..(a + n - 1)
    <3>. HIDE DEF a, s
    <3>. DEFINE kind == KindOf(r.fc)
    <3>. HIDE DEF kind
    <3>1. s \in Arms /\ a \in Nat /\ kind \in Kind /\ mem' = Written(s, kind, a, n)
      BY <2>1, <2>2, <2>3, <2>4 DEF a, s, kind
    <3>2. Written(s, kind, a, n)[arm][k][c] =
            IF arm = s /\ k = kind /\ c \in a..(a + n - 1) THEN count + 1 ELSE mem[arm][k][c]
      BY <2>4, <3>1, WrittenCells, SMTT(40)
    <3>. QED  BY <3>1, <3>2 DEF kind
  <2>6. Means(r, s, a)
    BY TargetIsMeant
  <2>. HIDE DEF a, s
  <2>7. a \in Nat
    BY <2>1 DEF a
  <2>8. c - a \in 0..(Nb(r) - 1) /\ c - (c - a) = a
    BY <2>1, <2>5, <2>7
  <2>9. \E i \in 0..(Nb(r) - 1) : Means(r, arm, c - i)
    BY <2>5, <2>6, <2>8
  <2>. QED  BY <2>2, <2>5, <2>9
<1>. QED  BY <1>1, <1>2 DEF Next

\* An acknowledged write was done.
LEMMA StepAckWritten == TypeOK /\ [Next]_vars => [AckIsWritten]_vars
<1>. SUFFICES ASSUME TypeOK, Next, count' # count, code' = "ok", req'.fc \in Writes
              PROVE  \E arm \in Arms, a \in Cells :
                       /\ Means(req', arm, a)
                       /\ \A i \in 0..(Nb(req') - 1) :
                            a + i \in Cells /\ mem'[arm][KindOf(req'.fc)][a + i] = count'
  BY DEF AckIsWritten
<1>1. PICK r \in Request : Reply(r)
  BY DEF Next, RunDeferred
<1>2. req' = r /\ count' = count + 1
  BY <1>1, ReplyEffect
<1>. DEFINE a == AddressOf(r)
            s == SlaveOf(r)
            nb == Nb(r)
            kind == KindOf(r.fc)
            n == Available(a, nb % ByteMod)
<1>3. /\ s \in Arms /\ nb \in 1..Limit(r.fc) /\ n >= nb
      /\ mem' = Written(s, kind, a, n)
  BY <1>1, <1>2 DEF Reply, BadTarget, BadFunction, BadValue, ReportSlaveId, Read, Write,
     WriteFirmwareBit, WriteSingleCoil, Fails, Answer, Writes, Reads, Enough
<1>4. a \in Nat /\ nb \in Nat /\ kind \in Kind /\ Means(r, s, a)
  BY RequestType, TargetIsMeant, KindType
<1>5. nb % ByteMod \in Nat /\ nb % ByteMod <= nb
  BY <1>4, LowBits
<1>6. n \in 0..(nb % ByteMod) /\ \A i \in 0..(n - 1) : a + i \in Cells
  BY <1>4, <1>5, AvailableCells
<1>. HIDE DEF a, s, nb, kind, n
<1>7. n = nb /\ nb > 0
  <2>1. nb > 0
    BY <1>3, <1>4
  <2>. QED  BY <1>3, <1>4, <1>5, <1>6, <2>1
<1>8. ASSUME NEW i \in 0..(nb - 1) PROVE a + i \in Cells /\ mem'[s][kind][a + i] = count'
  <2>1. a + i \in Cells /\ a + i \in a..(a + n - 1)
    BY <1>4, <1>6, <1>7
  <2>2. Written(s, kind, a, n)[s][kind][a + i] =
          IF s = s /\ kind = kind /\ a + i \in a..(a + n - 1) THEN count + 1
          ELSE mem[s][kind][a + i]
    BY <1>3, <1>4, <1>7, <2>1, WrittenCells
  <2>. QED  BY <1>2, <1>3, <2>1, <2>2
<1>9. a \in Cells
  <2>1. 0 \in 0..(nb - 1) /\ a + 0 = a
    BY <1>4, <1>7
  <2>. QED  BY <1>8, <2>1
<1>10. /\ Means(req', s, a)
       /\ \A i \in 0..(Nb(req') - 1) :
            a + i \in Cells /\ mem'[s][KindOf(req'.fc)][a + i] = count'
  BY <1>2, <1>4, <1>8 DEF nb, kind
<1>. QED  BY <1>3, <1>9, <1>10

\* A successful read returns the cells that were asked for.
LEMMA StepReadsExact == TypeOK /\ [Next]_vars => [ReadIsExact]_vars
<1>. SUFFICES ASSUME TypeOK, Next, count' # count, code' = "ok", req'.fc \in Reads
              PROVE  \E arm \in Arms, a \in Cells :
                       /\ Means(req', arm, a)
                       /\ \A i \in 0..(req'.nb - 1) : a + i \in Cells
                       /\ vals' = [i \in 1..req'.nb |-> mem[arm][KindOf(req'.fc)][a + i - 1]]
  BY DEF ReadIsExact
<1>1. PICK r \in Request : Reply(r)
  BY DEF Next, RunDeferred
<1>2. req' = r /\ count' = count + 1
  BY <1>1, ReplyEffect
<1>. DEFINE a == AddressOf(r)
            s == SlaveOf(r)
            kind == KindOf(r.fc)
            n == Available(a, r.nb)
            v == Values(s, kind, a, n)
<1>3. /\ s \in Arms /\ r.nb \in 1..Limit(r.fc) /\ Len(v) % ByteMod >= r.nb /\ vals' = v
  BY <1>1, <1>2 DEF Reply, BadTarget, BadFunction, BadValue, ReportSlaveId, Read, Write,
     WriteFirmwareBit, WriteSingleCoil, Fails, Answer, Writes, Reads, Enough
<1>4. a \in Nat /\ r.nb \in Nat /\ Means(r, s, a)
  BY RequestType, TargetIsMeant
<1>5. n \in 0..r.nb /\ \A i \in 0..(n - 1) : a + i \in Cells
  BY <1>4, AvailableCells
<1>. HIDE DEF a, s, kind, n
<1>6. v = [i \in 1..n |-> mem[s][kind][a + i - 1]]
  BY DEF Values
<1>7. Len(v) = n /\ n \in Nat
  <2>1. n \in Nat
    BY <1>4, <1>5
  <2>. QED  BY <1>6, <2>1
<1>8. n % ByteMod <= n /\ n % ByteMod \in Nat
  BY <1>7, LowBits
<1>9. n = r.nb /\ r.nb > 0
  <2>. HIDE DEF v
  <2>1. n % ByteMod >= r.nb /\ r.nb > 0
    BY <1>3, <1>4, <1>7
  <2>. QED  BY <1>4, <1>5, <1>7, <1>8, <2>1
<1>10. a \in Cells
  <2>1. 0 \in 0..(n - 1) /\ a + 0 = a
    BY <1>4, <1>9
  <2>. QED  BY <1>5, <2>1
<1>11. /\ Means(req', s, a) /\ \A i \in 0..(req'.nb - 1) : a + i \in Cells
       /\ vals' = [i \in 1..req'.nb |-> mem[s][KindOf(req'.fc)][a + i - 1]]
  BY <1>2, <1>3, <1>4, <1>5, <1>6, <1>9 DEF kind
<1>. QED  BY <1>3, <1>10, <1>11

-----------------------------------------------------------------------------

\* For any boards, ranges and limits: a request, whatever its answer, changes no
\* cell but the ones it names, on the board it names.
THEOREM WritesOnTarget == Spec => WritesHitTarget
BY TypeInv, StepHitsTarget, PTL DEF Spec, WritesHitTarget

\* And for any width of the count in an SPI message: a write that is acknowledged
\* was done, all of it.
THEOREM WritesDone == Spec => AckedIsWritten
BY TypeInv, StepAckWritten, PTL DEF Spec, AckedIsWritten

\* A read that succeeds returns exactly the cells that were asked for.
THEOREM ReadsDone == Spec => ReadsAreExact
BY TypeInv, StepReadsExact, PTL DEF Spec, ReadsAreExact

=============================================================================
