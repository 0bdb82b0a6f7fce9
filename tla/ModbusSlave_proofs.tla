------------------------- MODULE ModbusSlave_proofs -------------------------
(***************************************************************************)
(* Proofs about ModbusSlave: what a slave executes was sent to it, it      *)
(* misses no request, and the tables and messages stay within their        *)
(* memory, for any slaves, requests, tables and noise.                     *)
(***************************************************************************)
EXTENDS ModbusSlave, TLAPS

-----------------------------------------------------------------------------
(* Sequences and bytes.                                                    *)

LEMMA CatIs ==
  \A S : \A a, b \in Seq(S) :
    /\ a \o b \in Seq(S) /\ Len(a \o b) = Len(a) + Len(b)
    /\ \A k \in 1..Len(a) : (a \o b)[k] = a[k]
    /\ \A k \in 1..Len(b) : (a \o b)[Len(a) + k] = b[k]
OBVIOUS

LEMMA EmptyIs == \A S : \A s \in Seq(S) : s = <<>> <=> Len(s) = 0
OBVIOUS

\* The first k elements and the rest.
LEMMA PartsAre ==
  ASSUME NEW S, NEW s \in Seq(S), NEW k \in Nat, k <= Len(s)
  PROVE  /\ SubSeq(s, 1, k) \in Seq(S) /\ Len(SubSeq(s, 1, k)) = k
         /\ SubSeq(s, k + 1, Len(s)) \in Seq(S)
         /\ SubSeq(s, 1, k) \o SubSeq(s, k + 1, Len(s)) = s
<1>. DEFINE a == SubSeq(s, 1, k)
            b == SubSeq(s, k + 1, Len(s))
<1>1. a \in Seq(S) /\ Len(a) = k /\ \A j \in 1..k : a[j] = s[j]
  OBVIOUS
<1>2. b \in Seq(S) /\ Len(b) = Len(s) - k /\ \A j \in 1..(Len(s) - k) : b[j] = s[k + j]
  OBVIOUS
<1>. HIDE DEF a, b
<1>3. a \o b \in Seq(S) /\ Len(a \o b) = Len(s)
  BY <1>1, <1>2
<1>4. ASSUME NEW j \in 1..Len(s) PROVE (a \o b)[j] = s[j]
  <2>1. CASE j <= k
    BY <2>1, <1>1, <1>2
  <2>2. CASE j > k
    <3>1. j - k \in 1..(Len(s) - k) /\ k + (j - k) = j
      BY <2>2
    <3>2. b[j - k] = s[j]
      BY <3>1, <1>2
    <3>. QED  BY <2>2, <3>1, <3>2, <1>1, <1>2
  <2>3. j <= k \/ j > k
    OBVIOUS
  <2>. QED  BY <2>1, <2>2, <2>3, Zenon
<1>5. PICK c : c = a \o b
  OBVIOUS
<1>6. c \in Seq(S) /\ Len(c) = Len(s) /\ \A j \in 1..Len(s) : c[j] = s[j]
  BY <1>3, <1>4, <1>5, Zenon
<1>7. c = s
  BY <1>6
<1>8. a \o b = s
  BY <1>5, <1>7
<1>. QED  BY <1>1, <1>2, <1>8 DEF a, b

BYTE == [v : uint8_t, crc : Seq(uint8_t)]

LEMMA Uint8 == \A x : x \in uint8_t <=> x \in Nat /\ x <= 255
BY DEF uint8_t

LEMMA Uint16 == \A x : x \in uint16_t <=> x \in Nat /\ x <= 65535
BY DEF uint16_t

LEMMA ByteSeqIs == ByteSeq = Seq(BYTE)
BY DEF ByteSeq, BYTE

LEMMA ByteParts == \A b \in BYTE : b.v \in uint8_t /\ b.crc \in Seq(uint8_t)
BY DEF BYTE

LEMMA WordIs ==
  ASSUME NEW q \in Seq(uint8_t), NEW i \in Nat \ {0}, i + 1 <= Len(q)
  PROVE  word(q, i) \in uint16_t
<1>1. q[i] \in uint8_t /\ q[i + 1] \in uint8_t
  OBVIOUS
<1>. QED  BY <1>1, Uint8, Uint16 DEF word

LEMMA HiIs == \A n \in uint16_t : Hi(n) \in uint8_t
<1>. SUFFICES ASSUME NEW n \in Nat, n <= 65535 PROVE n \div 256 \in Nat /\ n \div 256 <= 255
  BY Uint8, Uint16 DEF Hi
<1>1. n \div 256 \in Int /\ n \div 256 >= 0
  OBVIOUS
<1>2. n \div 256 < 256
  OBVIOUS
<1>. QED  BY <1>1, <1>2

LEMMA LoIs == \A n \in Nat : Lo(n) \in uint8_t
BY Uint8 DEF Lo

LEMMA BytesOfBitsIs ==
  \A n \in Nat : /\ BytesOfBits(n) \in Nat
                 /\ 8 * BytesOfBits(n) >= n /\ 8 * BytesOfBits(n) <= n + 7
BY DEF BytesOfBits

LEMMA BitIs == \A w \in Nat, k \in 0..15 : Bit(w, k) \in 0..1
<1>. SUFFICES ASSUME NEW w \in Nat, NEW k \in 0..15 PROVE (w \div 2^k) % 2 \in 0..1
  BY DEF Bit
<1>1. 2^k \in Nat \ {0}
  <2>1. /\ 2^0 \in Nat \ {0} /\ 2^1 \in Nat \ {0} /\ 2^2 \in Nat \ {0} /\ 2^3 \in Nat \ {0}
        /\ 2^4 \in Nat \ {0} /\ 2^5 \in Nat \ {0} /\ 2^6 \in Nat \ {0} /\ 2^7 \in Nat \ {0}
        /\ 2^8 \in Nat \ {0} /\ 2^9 \in Nat \ {0} /\ 2^10 \in Nat \ {0} /\ 2^11 \in Nat \ {0}
        /\ 2^12 \in Nat \ {0} /\ 2^13 \in Nat \ {0} /\ 2^14 \in Nat \ {0} /\ 2^15 \in Nat \ {0}
    OBVIOUS
  <2>2. \/ k = 0 \/ k = 1 \/ k = 2 \/ k = 3 \/ k = 4 \/ k = 5 \/ k = 6 \/ k = 7
        \/ k = 8 \/ k = 9 \/ k = 10 \/ k = 11 \/ k = 12 \/ k = 13 \/ k = 14 \/ k = 15
    OBVIOUS
  <2>. QED  BY <2>1, <2>2, Zenon
<1>2. PICK d : d = 2^k
  OBVIOUS
<1>3. w \div d \in Int
  BY <1>1, <1>2
<1>4. PICK e : e = w \div d
  OBVIOUS
<1>5. e % 2 \in 0..1
  BY <1>3, <1>4
<1>. QED  BY <1>2, <1>4, <1>5

LEMMA OctetIs == \A b \in [0..7 -> 0..1] : Octet(b) \in uint8_t
<1>. SUFFICES ASSUME NEW b \in [0..7 -> 0..1] PROVE Octet(b) \in Nat /\ Octet(b) <= 255
  BY Uint8
<1>1. /\ b[0] \in 0..1 /\ b[1] \in 0..1 /\ b[2] \in 0..1 /\ b[3] \in 0..1
      /\ b[4] \in 0..1 /\ b[5] \in 0..1 /\ b[6] \in 0..1 /\ b[7] \in 0..1
  OBVIOUS
<1>. QED  BY <1>1 DEF Octet

-----------------------------------------------------------------------------
(* The tables.                                                             *)

\* A table with the range it had at first and values of V; its memory may have
\* become more.
TableIs(t, first, V) ==
  /\ t.start = first.start /\ t.nb = first.nb /\ t.start \in Nat /\ t.nb \in Nat
  /\ DOMAIN t.tab \subseteq Int /\ 0..(t.nb - 1) \subseteq DOMAIN t.tab
  /\ \A k \in DOMAIN t.tab : t.tab[k] \in V

\* Its memory is as it was allocated.
Exact(t) == DOMAIN t.tab = 0..(t.nb - 1)

MapIs(m) ==
  /\ TableIs(m.bits, Mapping.bits, 0..1)
  /\ TableIs(m.input_bits, Mapping.input_bits, 0..1)
  /\ TableIs(m.registers, Mapping.registers, uint16_t)
  /\ TableIs(m.input_registers, Mapping.input_registers, uint16_t)
  /\ Exact(m.bits) /\ (Mapping.registers.start = 0 => Exact(m.registers))

LEMMA TableStarts ==
  ASSUME NEW start \in Nat, NEW nb \in Nat, NEW first, NEW V, 0 \in V,
         first = Table(start, nb)
  PROVE  TableIs(first, first, V) /\ Exact(first)
BY DEF Table, TableIs, Exact

LEMMA MappingIs == MapIs(Mapping)
<1>1. /\ Mapping.bits.start \in Nat /\ Mapping.bits.nb \in Nat
      /\ Mapping.input_bits.start \in Nat /\ Mapping.input_bits.nb \in Nat
      /\ Mapping.registers.start \in Nat /\ Mapping.registers.nb \in Nat
      /\ Mapping.input_registers.start \in Nat /\ Mapping.input_registers.nb \in Nat
  BY MappingAssumption
<1>2. /\ Mapping.bits = Table(Mapping.bits.start, Mapping.bits.nb)
      /\ Mapping.input_bits = Table(Mapping.input_bits.start, Mapping.input_bits.nb)
      /\ Mapping.registers = Table(Mapping.registers.start, Mapping.registers.nb)
      /\ Mapping.input_registers = Table(Mapping.input_registers.start, Mapping.input_registers.nb)
  BY MappingAssumption DEF modbus_mapping_new_start_address
<1>3. TableIs(Mapping.bits, Mapping.bits, 0..1) /\ Exact(Mapping.bits)
  BY <1>1, <1>2, TableStarts
<1>4. TableIs(Mapping.input_bits, Mapping.input_bits, 0..1)
  BY <1>1, <1>2, TableStarts
<1>5. TableIs(Mapping.registers, Mapping.registers, uint16_t) /\ Exact(Mapping.registers)
  BY <1>1, <1>2, TableStarts, Uint16
<1>6. TableIs(Mapping.input_registers, Mapping.input_registers, uint16_t)
  BY <1>1, <1>2, TableStarts, Uint16
<1>. QED  BY <1>3, <1>4, <1>5, <1>6 DEF MapIs

\* A store keeps the range of a table, and one inside the table its memory.
LEMMA StoreIs ==
  ASSUME NEW t, NEW first, NEW V, TableIs(t, first, V), NEW a \in Int, NEW vs \in Seq(V)
  PROVE  /\ TableIs(Store(t, a, vs), first, V)
         /\ Exact(t) /\ a >= 0 /\ a + Len(vs) <= t.nb => Exact(Store(t, a, vs))
<1>. DEFINE at == a..(a + Len(vs) - 1)
            tab == [k \in DOMAIN t.tab \cup at |-> IF k \in at THEN vs[k - a + 1] ELSE t.tab[k]]
            u == Store(t, a, vs)
<1>1. u.start = t.start /\ u.nb = t.nb /\ u.tab = tab
  BY DEF Store
<1>2. DOMAIN tab = DOMAIN t.tab \cup at /\ at \subseteq Int
  OBVIOUS
<1>3. \A k \in DOMAIN tab : tab[k] \in V
  <2>1. SUFFICES ASSUME NEW k \in DOMAIN t.tab \cup at PROVE tab[k] \in V
    BY <1>2
  <2>2. CASE k \in at
    <3>1. k - a + 1 \in 1..Len(vs)
      BY <2>2
    <3>. QED  BY <2>2, <3>1
  <2>3. CASE k \notin at
    BY <2>3 DEF TableIs
  <2>. QED  BY <2>2, <2>3
<1>4. TableIs(u, first, V)
  <2>. HIDE DEF u, tab, at
  <2>. QED  BY <1>1, <1>2, <1>3 DEF TableIs
<1>5. ASSUME Exact(t), a >= 0, a + Len(vs) <= t.nb PROVE Exact(u)
  <2>1. at \subseteq 0..(t.nb - 1)
    BY <1>5 DEF TableIs
  <2>. HIDE DEF u, tab, at
  <2>. QED  BY <1>1, <1>2, <1>5, <2>1 DEF Exact
<1>. QED  BY <1>4, <1>5

\* What a table holds is read as bytes.
LEMMA RegisterBytesIs ==
  ASSUME NEW t, NEW first, TableIs(t, first, uint16_t), NEW a \in Int, NEW nb \in Nat,
         a >= 0, a + nb <= t.nb
  PROVE  RegisterBytes(t, a, nb) \in Seq(uint8_t)
<1>1. ASSUME NEW i \in 1..(2 * nb)
      PROVE  (IF i % 2 = 1 THEN Hi(t.tab[a + i \div 2]) ELSE Lo(t.tab[a + i \div 2 - 1])) \in uint8_t
  <2>0. t.nb \in Nat /\ \A k \in 0..(t.nb - 1) : t.tab[k] \in uint16_t
    BY DEF TableIs
  <2>1. CASE i % 2 = 1
    <3>1. a + i \div 2 \in 0..(t.nb - 1)
      BY <2>1, <2>0
    <3>. QED  BY <2>0, <2>1, <3>1, HiIs
  <2>2. CASE i % 2 # 1
    <3>1. a + i \div 2 - 1 \in 0..(t.nb - 1)
      BY <2>2, <2>0
    <3>2. t.tab[a + i \div 2 - 1] \in Nat
      BY <3>1, <2>0, Uint16
    <3>. QED  BY <2>2, <3>2, LoIs
  <2>. QED  BY <2>1, <2>2
<1>. QED  BY <1>1 DEF RegisterBytes

LEMMA IoStatusIs ==
  ASSUME NEW t, NEW first, TableIs(t, first, 0..1), NEW a \in Int, NEW nb \in Nat,
         a >= 0, a + nb <= t.nb
  PROVE  response_io_status(t, a, nb) \in Seq(uint8_t)
<1>. DEFINE oct(i) == [k \in 0..7 |-> IF 8 * (i - 1) + k < nb THEN t.tab[a + 8 * (i - 1) + k] ELSE 0]
<1>1. ASSUME NEW i \in 1..BytesOfBits(nb) PROVE Octet(oct(i)) \in uint8_t
  <2>0. t.nb \in Nat /\ \A k \in 0..(t.nb - 1) : t.tab[k] \in 0..1
    BY DEF TableIs
  <2>1. BytesOfBits(nb) \in Nat
    BY BytesOfBitsIs
  <2>2. ASSUME NEW k \in 0..7
        PROVE  (IF 8 * (i - 1) + k < nb THEN t.tab[a + 8 * (i - 1) + k] ELSE 0) \in 0..1
    <3>1. CASE 8 * (i - 1) + k < nb
      <4>1. a + 8 * (i - 1) + k \in 0..(t.nb - 1)
        BY <2>0, <2>1, <3>1
      <4>. QED  BY <4>1, <2>0, <3>1
    <3>. QED  BY <3>1
  <2>3. oct(i) \in [0..7 -> 0..1]
    BY <2>2
  <2>. QED  BY <2>3, OctetIs
<1>2. BytesOfBits(nb) \in Nat
  BY BytesOfBitsIs
<1>3. PICK n \in Nat : n = BytesOfBits(nb)
  BY <1>2
<1>4. response_io_status(t, a, nb) = [i \in 1..n |-> Octet(oct(i))]
  BY <1>3 DEF response_io_status
<1>. HIDE DEF oct
<1>. QED  BY <1>1, <1>3, <1>4

LEMMA MaskedIs ==
  ASSUME NEW d \in Nat, NEW x \in Nat, NEW y \in Nat
  PROVE  Masked(d, x, y) \in uint16_t
<1>. DEFINE bit(k) == Bit(IF Bit(x, k) = 1 THEN d ELSE y, k)
            low == [k \in 0..7 |-> bit(k)]
            high == [k \in 0..7 |-> bit(k + 8)]
<1>1. low \in [0..7 -> 0..1] /\ high \in [0..7 -> 0..1]
  BY BitIs
<1>2. Octet(low) \in Nat /\ Octet(low) <= 255 /\ Octet(high) \in Nat /\ Octet(high) <= 255
  BY <1>1, OctetIs, Uint8
<1>3. Masked(d, x, y) = 256 * Octet(high) + Octet(low)
  BY DEF Masked
<1>. QED  BY <1>2, <1>3, Uint16

-----------------------------------------------------------------------------
(* modbus_reply.                                                           *)

\* An answer that can be sent, and tables as they should be.
Good(r) == r.pdu \in Seq(uint8_t) /\ Len(r.pdu) > 0 /\ MapIs(r.map)

\* A request as it may be sent.
Proper(q) == Len(q) > 0 /\ q[1] < 128 /\ CountsAgree(q)

\* A request with all the bytes that its function code and its counts announce.
WholeRequest(q) ==
  /\ q \in Seq(uint8_t) /\ Proper(q)
  /\ Len(q) >= 1 + compute_meta_length_after_function(q[1], "INDICATION")
  /\ Len(q) = 1 + compute_meta_length_after_function(q[1], "INDICATION")
                + compute_data_length_after_meta(q, "INDICATION", 0)

LEMMA AnswersGood ==
  ASSUME NEW m, MapIs(m), NEW pdu \in Seq(uint8_t), Len(pdu) > 0
  PROVE  Good(Answers(m, pdu))
BY DEF Answers, Good

LEMMA ExceptionGood ==
  ASSUME NEW m, MapIs(m), NEW q \in Seq(uint8_t), Len(q) > 0, q[1] < 128
  PROVE  /\ Good(IllegalFunction(m, q)) /\ Good(IllegalAddress(m, q))
         /\ Good(IllegalCount(m, q)) /\ Good(IllegalValue(m, q))
<1>1. q[1] + 128 \in uint8_t /\ 1 \in uint8_t /\ 2 \in uint8_t /\ 3 \in uint8_t
  <2>1. q[1] \in uint8_t
    OBVIOUS
  <2>. QED  BY <2>1, Uint8
<1>2. ASSUME NEW code \in uint8_t, NEW flush PROVE Good(response_exception(m, q, code, flush))
  <2>1. <<q[1] + 128, code>> \in Seq(uint8_t) /\ Len(<<q[1] + 128, code>>) > 0
    BY <1>1
  <2>2. /\ response_exception(m, q, code, flush).pdu = <<q[1] + 128, code>>
        /\ response_exception(m, q, code, flush).map = m
    BY DEF response_exception
  <2>. QED  BY <2>1, <2>2 DEF Good
<1>. QED  BY <1>1, <1>2 DEF IllegalFunction, IllegalAddress, IllegalCount, IllegalValue

\* The answer of a read: function code, count and data.
LEMMA ReadAnswer ==
  ASSUME NEW f \in uint8_t, NEW n \in uint8_t, NEW data \in Seq(uint8_t)
  PROVE  <<f, n>> \o data \in Seq(uint8_t) /\ Len(<<f, n>> \o data) > 0
<1>1. <<f, n>> \in Seq(uint8_t) /\ Len(<<f, n>>) = 2
  OBVIOUS
<1>. QED  BY <1>1

LEMMA ReadBitsGood ==
  ASSUME NEW m, MapIs(m), NEW q \in Seq(uint8_t), Len(q) >= 5, q[1] < 128
  PROVE  Good(reply_read_bits(m, q))
<1>. DEFINE t == IF q[1] = 2 THEN m.input_bits ELSE m.bits
            nb == word(q, 4)
            a == address(q) - t.start
<1>1. nb \in Nat /\ address(q) \in Nat
  BY WordIs, Uint16 DEF address
<1>2. PICK first : TableIs(t, first, 0..1)
  BY DEF MapIs
<1>3. a \in Int /\ t.nb \in Nat
  BY <1>1, <1>2 DEF TableIs
<1>4. CASE nb < 1 \/ nb > MODBUS_MAX_READ_BITS
  BY <1>4, ExceptionGood DEF reply_read_bits
<1>5. CASE ~(nb < 1 \/ nb > MODBUS_MAX_READ_BITS) /\ Outside(t, a, nb)
  BY <1>5, ExceptionGood DEF reply_read_bits
<1>6. CASE ~(nb < 1 \/ nb > MODBUS_MAX_READ_BITS) /\ ~Outside(t, a, nb)
  <2>1. response_io_status(t, a, nb) \in Seq(uint8_t)
    <3>1. a >= 0 /\ a + nb <= t.nb
      BY <1>1, <1>3, <1>6 DEF Outside
    <3>. HIDE DEF t, nb, a
    <3>. QED  BY <3>1, <1>1, <1>2, <1>3, IoStatusIs
  <2>2. BytesOfBits(nb) \in uint8_t /\ q[1] \in uint8_t
    <3>1. nb <= 2000
      BY <1>1, <1>6 DEF MODBUS_MAX_READ_BITS
    <3>2. BytesOfBits(nb) \in Nat /\ BytesOfBits(nb) <= 255
      <4>. HIDE DEF nb
      <4>1. 8 * BytesOfBits(nb) <= nb + 7 /\ BytesOfBits(nb) \in Nat
        BY <1>1, BytesOfBitsIs
      <4>. QED  BY <3>1, <4>1, <1>1
    <3>. QED  BY <3>2, Uint8
  <2>3. reply_read_bits(m, q) = Answers(m, <<q[1], BytesOfBits(nb)>> \o response_io_status(t, a, nb))
    BY <1>6 DEF reply_read_bits
  <2>. HIDE DEF t, nb, a
  <2>4. /\ <<q[1], BytesOfBits(nb)>> \o response_io_status(t, a, nb) \in Seq(uint8_t)
        /\ Len(<<q[1], BytesOfBits(nb)>> \o response_io_status(t, a, nb)) > 0
    BY <2>1, <2>2, ReadAnswer
  <2>. QED  BY <2>3, <2>4, AnswersGood
<1>. QED  BY <1>4, <1>5, <1>6

LEMMA ReadRegistersGood ==
  ASSUME NEW m, MapIs(m), NEW q \in Seq(uint8_t), Len(q) >= 5, q[1] < 128
  PROVE  Good(reply_read_registers(m, q))
<1>. DEFINE t == IF q[1] = 4 THEN m.input_registers ELSE m.registers
            nb == word(q, 4)
            a == address(q) - t.start
<1>1. nb \in Nat /\ address(q) \in Nat
  BY WordIs, Uint16 DEF address
<1>2. PICK first : TableIs(t, first, uint16_t)
  BY DEF MapIs
<1>3. a \in Int /\ t.nb \in Nat
  BY <1>1, <1>2 DEF TableIs
<1>4. CASE nb < 1 \/ nb > MODBUS_MAX_READ_REGISTERS
  BY <1>4, ExceptionGood DEF reply_read_registers
<1>5. CASE ~(nb < 1 \/ nb > MODBUS_MAX_READ_REGISTERS) /\ Outside(t, a, nb)
  BY <1>5, ExceptionGood DEF reply_read_registers
<1>6. CASE ~(nb < 1 \/ nb > MODBUS_MAX_READ_REGISTERS) /\ ~Outside(t, a, nb)
  <2>1. RegisterBytes(t, a, nb) \in Seq(uint8_t)
    <3>1. a >= 0 /\ a + nb <= t.nb
      BY <1>1, <1>3, <1>6 DEF Outside
    <3>. HIDE DEF t, nb, a
    <3>. QED  BY <3>1, <1>1, <1>2, <1>3, RegisterBytesIs
  <2>2. 2 * nb \in uint8_t /\ q[1] \in uint8_t
    <3>1. 2 * nb \in Nat /\ 2 * nb <= 255
      BY <1>1, <1>6 DEF MODBUS_MAX_READ_REGISTERS
    <3>. QED  BY <3>1, Uint8
  <2>3. reply_read_registers(m, q) = Answers(m, <<q[1], 2 * nb>> \o RegisterBytes(t, a, nb))
    BY <1>6 DEF reply_read_registers
  <2>. HIDE DEF t, nb, a
  <2>4. /\ <<q[1], 2 * nb>> \o RegisterBytes(t, a, nb) \in Seq(uint8_t)
        /\ Len(<<q[1], 2 * nb>> \o RegisterBytes(t, a, nb)) > 0
    BY <2>1, <2>2, ReadAnswer
  <2>. QED  BY <2>3, <2>4, AnswersGood
<1>. QED  BY <1>4, <1>5, <1>6

\* Stores into the bits and into the registers.
LEMMA BitsStored ==
  ASSUME NEW m, MapIs(m), NEW a \in Int, NEW vs \in Seq(0..1), a >= 0, a + Len(vs) <= m.bits.nb
  PROVE  MapIs(WithBits(m, Store(m.bits, a, vs)))
<1>. DEFINE t == Store(m.bits, a, vs)
<1>1. TableIs(m.bits, Mapping.bits, 0..1) /\ Exact(m.bits)
  BY DEF MapIs
<1>2. TableIs(t, Mapping.bits, 0..1) /\ Exact(t)
  BY <1>1, StoreIs
<1>3. /\ WithBits(m, t).bits = t /\ WithBits(m, t).input_bits = m.input_bits
      /\ WithBits(m, t).registers = m.registers
      /\ WithBits(m, t).input_registers = m.input_registers
  BY DEF WithBits
<1>. HIDE DEF t
<1>. QED  BY <1>2, <1>3 DEF MapIs, t

LEMMA RegistersStored ==
  ASSUME NEW m, MapIs(m), NEW a \in Int, NEW vs \in Seq(uint16_t),
         a + Len(vs) <= m.registers.nb, a >= 0 \/ Mapping.registers.start > 0
  PROVE  /\ MapIs(WithRegisters(m, Store(m.registers, a, vs)))
         /\ TableIs(Store(m.registers, a, vs), Mapping.registers, uint16_t)
<1>. DEFINE t == Store(m.registers, a, vs)
<1>1. /\ TableIs(m.registers, Mapping.registers, uint16_t)
      /\ Mapping.registers.start = 0 => Exact(m.registers)
  BY DEF MapIs
<1>2. /\ TableIs(t, Mapping.registers, uint16_t)
      /\ Mapping.registers.start = 0 => Exact(t)
  <2>1. CASE a >= 0
    BY <1>1, StoreIs, <2>1
  <2>2. CASE Mapping.registers.start > 0
    BY <1>1, StoreIs, <2>2
  <2>. QED  BY <2>1, <2>2
<1>3. /\ WithRegisters(m, t).bits = m.bits /\ WithRegisters(m, t).input_bits = m.input_bits
      /\ WithRegisters(m, t).registers = t
      /\ WithRegisters(m, t).input_registers = m.input_registers
  BY DEF WithRegisters
<1>. HIDE DEF t
<1>. QED  BY <1>2, <1>3 DEF MapIs, t

LEMMA WriteBitGood ==
  ASSUME NEW m, MapIs(m), NEW q \in Seq(uint8_t), Len(q) >= 5, q[1] < 128
  PROVE  Good(reply_write_bit(m, q))
<1>. DEFINE a == address(q) - m.bits.start
            vs == <<IF word(q, 4) = 0 THEN 0 ELSE 1>>
<1>1. address(q) \in Nat
  BY WordIs, Uint16 DEF address
<1>2. a \in Int /\ m.bits.nb \in Nat
  BY <1>1 DEF TableIs, MapIs
<1>3. CASE Outside(m.bits, a, 1)
  BY <1>3, ExceptionGood DEF reply_write_bit
<1>4. CASE ~Outside(m.bits, a, 1) /\ word(q, 4) \notin {65280, 0}
  BY <1>4, ExceptionGood DEF reply_write_bit
<1>5. CASE ~Outside(m.bits, a, 1) /\ word(q, 4) \in {65280, 0}
  <2>1. vs \in Seq(0..1) /\ Len(vs) = 1
    OBVIOUS
  <2>2. a >= 0 /\ a + 1 <= m.bits.nb
    BY <1>2, <1>5 DEF Outside
  <2>3. MapIs(WithBits(m, Store(m.bits, a, vs)))
    <3>. HIDE DEF a, vs
    <3>. QED  BY <1>2, <2>1, <2>2, BitsStored
  <2>4. reply_write_bit(m, q) = Answers(WithBits(m, Store(m.bits, a, vs)), q)
    BY <1>5 DEF reply_write_bit
  <2>. HIDE DEF a, vs
  <2>. QED  BY <2>3, <2>4, AnswersGood
<1>. QED  BY <1>3, <1>4, <1>5

LEMMA WriteRegisterGood ==
  ASSUME NEW m, MapIs(m), NEW q \in Seq(uint8_t), Len(q) >= 5, q[1] < 128
  PROVE  Good(reply_write_register(m, q))
<1>. DEFINE a == address(q) - m.registers.start
            vs == <<word(q, 4)>>
<1>1. address(q) \in Nat /\ word(q, 4) \in uint16_t
  BY WordIs, Uint16 DEF address
<1>2. a \in Int /\ m.registers.nb \in Nat
  BY <1>1 DEF TableIs, MapIs
<1>3. CASE Outside(m.registers, a, 1)
  BY <1>3, ExceptionGood DEF reply_write_register
<1>4. CASE ~Outside(m.registers, a, 1)
  <2>1. vs \in Seq(uint16_t) /\ Len(vs) = 1
    BY <1>1
  <2>2. a >= 0 /\ a + 1 <= m.registers.nb
    BY <1>2, <1>4 DEF Outside
  <2>3. MapIs(WithRegisters(m, Store(m.registers, a, vs)))
    <3>. HIDE DEF a, vs
    <3>. QED  BY <1>2, <2>1, <2>2, RegistersStored
  <2>4. reply_write_register(m, q) = Answers(WithRegisters(m, Store(m.registers, a, vs)), q)
    BY <1>4 DEF reply_write_register
  <2>. HIDE DEF a, vs
  <2>. QED  BY <2>3, <2>4, AnswersGood
<1>. QED  BY <1>3, <1>4

LEMMA MaskWriteGood ==
  ASSUME NEW m, MapIs(m), NEW q \in Seq(uint8_t), Len(q) >= 7, q[1] < 128
  PROVE  Good(reply_mask_write_register(m, q))
<1>. DEFINE a == address(q) - m.registers.start
            w == Masked(m.registers.tab[a], word(q, 4), word(q, 6))
            vs == <<w>>
<1>1. address(q) \in Nat /\ word(q, 4) \in Nat /\ word(q, 6) \in Nat
  BY WordIs, Uint16 DEF address
<1>2. a \in Int /\ m.registers.nb \in Nat
  BY <1>1 DEF TableIs, MapIs
<1>3. CASE Outside(m.registers, a, 1)
  BY <1>3, ExceptionGood DEF reply_mask_write_register
<1>4. CASE ~Outside(m.registers, a, 1)
  <2>0. a >= 0 /\ a + 1 <= m.registers.nb
    BY <1>2, <1>4 DEF Outside
  <2>1. m.registers.tab[a] \in Nat
    <3>1. a \in 0..(m.registers.nb - 1)
      BY <1>2, <2>0
    <3>2. a \in DOMAIN m.registers.tab
      BY <3>1 DEF MapIs, TableIs
    <3>. HIDE DEF a
    <3>3. m.registers.tab[a] \in uint16_t
      BY <3>2 DEF MapIs, TableIs
    <3>. QED  BY <3>3, Uint16
  <2>2. w \in uint16_t
    BY <1>1, <2>1, MaskedIs
  <2>. HIDE DEF w
  <2>3. vs \in Seq(uint16_t) /\ Len(vs) = 1
    BY <2>2
  <2>4. reply_mask_write_register(m, q) = Answers(WithRegisters(m, Store(m.registers, a, vs)), q)
    BY <1>4 DEF reply_mask_write_register, w
  <2>. HIDE DEF a, vs
  <2>5. MapIs(WithRegisters(m, Store(m.registers, a, vs)))
    BY <1>2, <2>0, <2>3, RegistersStored
  <2>. QED  BY <2>4, <2>5, AnswersGood
<1>. QED  BY <1>3, <1>4

LEMMA WholeLengths ==
  ASSUME NEW q, WholeRequest(q)
  PROVE  /\ q \in Seq(uint8_t) /\ Len(q) > 0 /\ q[1] \in Nat /\ q[1] < 128
         /\ q[1] \in {1, 2, 3, 4, 5, 6} => Len(q) = 5
         /\ q[1] \in {15, 16} => q[6] \in Nat /\ Len(q) = 6 + q[6]
         /\ q[1] = 22 => Len(q) = 7
         /\ q[1] = 23 => q[10] \in Nat /\ Len(q) = 10 + q[10]
<1>. USE DEF compute_meta_length_after_function, compute_data_length_after_meta, MultipleWrites
<1>1. q \in Seq(uint8_t) /\ Len(q) > 0 /\ q[1] \in uint8_t /\ q[1] < 128
  BY DEF WholeRequest, Proper
<1>2. q[1] \in Nat /\ \A k \in 1..Len(q) : q[k] \in Nat
  BY <1>1, Uint8
<1>3. CASE q[1] \in {1, 2, 3, 4, 5, 6}
  BY <1>1, <1>2, <1>3 DEF WholeRequest
<1>4. CASE q[1] \in {15, 16}
  <2>1. Len(q) >= 6
    BY <1>1, <1>2, <1>4 DEF WholeRequest
  <2>2. q[6] \in Nat
    BY <2>1, <1>2
  <2>3. Len(q) = 1 + 5 + (0 + q[6])
    BY <1>1, <1>2, <1>4 DEF WholeRequest
  <2>. QED  BY <1>1, <1>4, <2>2, <2>3
<1>6. CASE q[1] = 22
  BY <1>1, <1>2, <1>6 DEF WholeRequest
<1>7. CASE q[1] = 23
  <2>1. Len(q) >= 10
    BY <1>1, <1>2, <1>7 DEF WholeRequest
  <2>2. q[10] \in Nat
    BY <2>1, <1>2
  <2>3. Len(q) = 1 + 9 + (0 + q[10])
    BY <1>1, <1>2, <1>7 DEF WholeRequest
  <2>. QED  BY <1>1, <1>7, <2>2, <2>3
<1>. QED  BY <1>1, <1>2, <1>3, <1>4, <1>6, <1>7

LEMMA WordsIs ==
  ASSUME NEW q \in Seq(uint8_t), NEW first \in Nat \ {0}, NEW nb \in Nat,
         first + 2 * nb <= Len(q) + 1
  PROVE  words(q, first, nb) \in Seq(uint16_t) /\ Len(words(q, first, nb)) = nb
<1>1. ASSUME NEW i \in 1..nb PROVE word(q, first + 2 * (i - 1)) \in uint16_t
  <2>1. first + 2 * (i - 1) \in Nat \ {0} /\ first + 2 * (i - 1) + 1 <= Len(q)
    OBVIOUS
  <2>. QED  BY <2>1, WordIs
<1>. QED  BY <1>1 DEF words

LEMMA WriteBitsGood ==
  ASSUME NEW m, MapIs(m), NEW q, WholeRequest(q), q[1] = 15
  PROVE  Good(reply_write_bits(m, q))
<1>. DEFINE nb == word(q, 4)
            a == address(q) - m.bits.start
            bytes == SubSeq(q, 7, Len(q))
            vs == [i \in 1..nb |-> Bit(bytes[(i - 1) \div 8 + 1], (i - 1) % 8)]
<1>0. q \in Seq(uint8_t) /\ q[6] \in Nat /\ Len(q) = 6 + q[6] /\ Len(q) > 0 /\ q[1] < 128
  BY WholeLengths
<1>1. nb \in Nat /\ address(q) \in Nat
  BY <1>0, WordIs, Uint16 DEF address
<1>2. a \in Int /\ m.bits.nb \in Nat
  BY <1>1 DEF TableIs, MapIs
<1>3. CASE nb < 1 \/ nb > MODBUS_MAX_WRITE_BITS
  BY <1>0, <1>3, ExceptionGood DEF reply_write_bits
<1>4. CASE ~(nb < 1 \/ nb > MODBUS_MAX_WRITE_BITS) /\ Outside(m.bits, a, nb)
  BY <1>0, <1>4, ExceptionGood DEF reply_write_bits
<1>5. CASE ~(nb < 1 \/ nb > MODBUS_MAX_WRITE_BITS) /\ ~Outside(m.bits, a, nb)
  <2>1. BytesOfBits(nb) <= q[6]
    <3>1. nb <= MODBUS_MAX_WRITE_BITS
      BY <1>5, <1>1 DEF MODBUS_MAX_WRITE_BITS
    <3>. QED  BY <3>1, <1>0 DEF WholeRequest, Proper, CountsAgree
  <2>2. bytes \in Seq(uint8_t) /\ Len(bytes) = q[6]
    BY <1>0
  <2>. HIDE DEF bytes
  <2>3. vs \in Seq(0..1) /\ Len(vs) = nb
    <3>1. ASSUME NEW i \in 1..nb PROVE Bit(bytes[(i - 1) \div 8 + 1], (i - 1) % 8) \in 0..1
      <4>. HIDE DEF nb
      <4>1. (i - 1) \div 8 + 1 \in 1..Len(bytes) /\ (i - 1) % 8 \in 0..15
        <5>1. 8 * BytesOfBits(nb) >= nb /\ BytesOfBits(nb) \in Nat
          BY <1>1, BytesOfBitsIs
        <5>2. PICK b \in Nat : b = BytesOfBits(nb)
          BY <5>1
        <5>3. i \in Nat /\ i >= 1 /\ i <= 8 * b /\ b <= Len(bytes) /\ Len(bytes) \in Nat
          BY <1>0, <1>1, <2>1, <2>2, <5>1, <5>2
        <5>4. (i - 1) \div 8 \in Int /\ (i - 1) \div 8 >= 0 /\ (i - 1) \div 8 < b
          BY <5>3
        <5>5. (i - 1) % 8 \in 0..15
          BY <5>3
        <5>. QED  BY <5>3, <5>4, <5>5
      <4>2. bytes[(i - 1) \div 8 + 1] \in uint8_t
        BY <4>1, <2>2
      <4>3. bytes[(i - 1) \div 8 + 1] \in Nat
        BY <4>2, Uint8
      <4>. QED  BY <4>1, <4>3, BitIs
    <3>. QED  BY <3>1, <1>1
  <2>4. a >= 0 /\ a + nb <= m.bits.nb
    BY <1>1, <1>2, <1>5 DEF Outside
  <2>5. reply_write_bits(m, q) = Answers(WithBits(m, Store(m.bits, a, vs)), SubSeq(q, 1, 5))
    BY <1>5 DEF reply_write_bits, modbus_set_bits_from_bytes, bytes
  <2>6. SubSeq(q, 1, 5) \in Seq(uint8_t) /\ Len(SubSeq(q, 1, 5)) > 0
    BY <1>0
  <2>. HIDE DEF a, vs, nb
  <2>7. MapIs(WithBits(m, Store(m.bits, a, vs)))
    BY <1>2, <2>3, <2>4, BitsStored
  <2>. QED  BY <2>5, <2>6, <2>7, AnswersGood
<1>. QED  BY <1>3, <1>4, <1>5

LEMMA WriteRegistersGood ==
  ASSUME NEW m, MapIs(m), NEW q, WholeRequest(q), q[1] = 16
  PROVE  Good(reply_write_registers(m, q))
<1>. DEFINE nb == word(q, 4)
            a == address(q) - m.registers.start
            vs == words(q, 7, nb)
<1>0. q \in Seq(uint8_t) /\ q[6] \in Nat /\ Len(q) = 6 + q[6] /\ Len(q) > 0 /\ q[1] < 128
  BY WholeLengths
<1>1. nb \in Nat /\ address(q) \in Nat
  BY <1>0, WordIs, Uint16 DEF address
<1>2. a \in Int /\ m.registers.nb \in Nat
  BY <1>1 DEF TableIs, MapIs
<1>3. CASE nb < 1 \/ nb > MODBUS_MAX_WRITE_REGISTERS
  BY <1>0, <1>3, ExceptionGood DEF reply_write_registers
<1>4. CASE ~(nb < 1 \/ nb > MODBUS_MAX_WRITE_REGISTERS) /\ Outside(m.registers, a, nb)
  BY <1>0, <1>4, ExceptionGood DEF reply_write_registers
<1>5. CASE ~(nb < 1 \/ nb > MODBUS_MAX_WRITE_REGISTERS) /\ ~Outside(m.registers, a, nb)
  <2>1. 2 * nb <= q[6]
    <3>1. nb <= MODBUS_MAX_WRITE_REGISTERS
      BY <1>5, <1>1 DEF MODBUS_MAX_WRITE_REGISTERS
    <3>. QED  BY <3>1, <1>0 DEF WholeRequest, Proper, CountsAgree
  <2>3. vs \in Seq(uint16_t) /\ Len(vs) = nb
    <3>. HIDE DEF nb
    <3>. QED  BY <1>0, <1>1, <2>1, WordsIs
  <2>4. a >= 0 /\ a + nb <= m.registers.nb
    BY <1>1, <1>2, <1>5 DEF Outside
  <2>5. reply_write_registers(m, q) = Answers(WithRegisters(m, Store(m.registers, a, vs)), SubSeq(q, 1, 5))
    BY <1>5 DEF reply_write_registers
  <2>6. SubSeq(q, 1, 5) \in Seq(uint8_t) /\ Len(SubSeq(q, 1, 5)) > 0
    BY <1>0
  <2>. HIDE DEF a, vs, nb
  <2>7. MapIs(WithRegisters(m, Store(m.registers, a, vs)))
    BY <1>2, <2>3, <2>4, RegistersStored
  <2>. QED  BY <2>5, <2>6, <2>7, AnswersGood
<1>. QED  BY <1>3, <1>4, <1>5

LEMMA WriteAndReadGood ==
  ASSUME NEW m, MapIs(m), NEW q, WholeRequest(q), q[1] = 23
  PROVE  Good(reply_write_and_read_registers(m, q))
<1>. DEFINE nb == word(q, 4)
            nw == word(q, 8)
            a == address(q) - m.registers.start
            w == word(q, 6) - m.registers.start
            vs == words(q, 11, nw)
            t == Store(m.registers, w, vs)
            count == \/ nw < 1 \/ nw > MODBUS_MAX_WR_WRITE_REGISTERS
                     \/ nb < 1 \/ nb > MODBUS_MAX_READ_REGISTERS
                     \/ q[10] # 2 * nw
            range == Outside(m.registers, a, nb) \/ w + nw > m.registers.nb
<1>0. /\ q \in Seq(uint8_t) /\ q[10] \in Nat /\ Len(q) = 10 + q[10] /\ Len(q) > 0
      /\ q[1] < 128 /\ q[1] \in uint8_t
  BY WholeLengths
<1>1. nb \in Nat /\ nw \in Nat /\ address(q) \in Nat /\ word(q, 6) \in Nat
  BY <1>0, WordIs, Uint16 DEF address
<1>2. /\ a \in Int /\ w \in Int /\ m.registers.nb \in Nat /\ m.registers.start \in Nat
      /\ m.registers.start = Mapping.registers.start
      /\ TableIs(m.registers, Mapping.registers, uint16_t)
  BY <1>1 DEF TableIs, MapIs
<1>3. CASE count
  BY <1>0, <1>3, ExceptionGood DEF reply_write_and_read_registers
<1>4. CASE ~count /\ range
  BY <1>0, <1>4, ExceptionGood DEF reply_write_and_read_registers
<1>5. CASE ~count /\ ~range
  <2>1. /\ nw \in Nat /\ q[10] = 2 * nw /\ nb <= 125 /\ a >= 0
        /\ a + nb <= m.registers.nb /\ w + nw <= m.registers.nb
    BY <1>1, <1>2, <1>5 DEF Outside, MODBUS_MAX_READ_REGISTERS
  <2>2. w >= 0 \/ Mapping.registers.start > 0
    BY <1>1, <1>2
  <2>3. reply_write_and_read_registers(m, q)
          = Answers(WithRegisters(m, t), <<q[1], 2 * nb>> \o RegisterBytes(t, a, nb))
    BY <1>5 DEF reply_write_and_read_registers
  <2>. HIDE DEF a, nb, nw, w
  <2>4. vs \in Seq(uint16_t) /\ Len(vs) = nw
    BY <1>0, <2>1, WordsIs
  <2>. HIDE DEF vs
  <2>5. MapIs(WithRegisters(m, t)) /\ TableIs(t, Mapping.registers, uint16_t)
    BY <1>2, <2>1, <2>2, <2>4, RegistersStored
  <2>6. t.nb = m.registers.nb
    BY DEF Store
  <2>. HIDE DEF t
  <2>7. RegisterBytes(t, a, nb) \in Seq(uint8_t)
    BY <1>1, <1>2, <2>1, <2>5, <2>6, RegisterBytesIs
  <2>8. 2 * nb \in uint8_t
    BY <1>1, <2>1, Uint8
  <2>9. /\ <<q[1], 2 * nb>> \o RegisterBytes(t, a, nb) \in Seq(uint8_t)
        /\ Len(<<q[1], 2 * nb>> \o RegisterBytes(t, a, nb)) > 0
    BY <1>0, <2>7, <2>8, ReadAnswer
  <2>. QED  BY <2>3, <2>5, <2>9, AnswersGood
<1>. QED  BY <1>3, <1>4, <1>5

\* Whatever the request is, modbus_reply answers with bytes and keeps the tables.
LEMMA ReplyGood ==
  ASSUME NEW m, MapIs(m), NEW q, WholeRequest(q)
  PROVE  Good(modbus_reply(m, q))
<1>0. /\ q \in Seq(uint8_t) /\ Len(q) > 0 /\ q[1] \in Nat /\ q[1] < 128
      /\ q[1] \in {1, 2, 3, 4, 5, 6} => Len(q) = 5
      /\ q[1] = 22 => Len(q) = 7
  BY WholeLengths
<1>1. CASE q[1] \in BitReads
  <2>0. Len(q) = 5
    BY <1>0, <1>1 DEF BitReads
  <2>1. Len(q) >= 5
    BY <2>0
  <2>. QED  BY <1>0, <1>1, <2>1, ReadBitsGood DEF modbus_reply, BitReads
<1>2. CASE q[1] \in {3, 4}
  <2>0. Len(q) = 5
    BY <1>0, <1>2
  <2>1. Len(q) >= 5
    BY <2>0
  <2>. QED  BY <1>0, <1>2, <2>1, ReadRegistersGood DEF modbus_reply, BitReads
<1>3. CASE q[1] = 5
  <2>0. Len(q) = 5
    BY <1>0, <1>3
  <2>1. Len(q) >= 5
    BY <2>0
  <2>. QED  BY <1>0, <1>3, <2>1, WriteBitGood DEF modbus_reply, BitReads
<1>4. CASE q[1] = 6
  <2>0. Len(q) = 5
    BY <1>0, <1>4
  <2>1. Len(q) >= 5
    BY <2>0
  <2>. QED  BY <1>0, <1>4, <2>1, WriteRegisterGood DEF modbus_reply, BitReads
<1>5. CASE q[1] = 15
  BY <1>5, WriteBitsGood DEF modbus_reply, BitReads
<1>6. CASE q[1] = 16
  BY <1>6, WriteRegistersGood DEF modbus_reply, BitReads
<1>7. CASE q[1] = 17
  <2>1. 17 \in uint8_t /\ 2 \in uint8_t /\ 180 \in uint8_t /\ 255 \in uint8_t
    BY Uint8
  <2>2. <<17, 2, 180, 255>> \in Seq(uint8_t) /\ Len(<<17, 2, 180, 255>>) > 0
    BY <2>1
  <2>3. Good(Answers(m, <<17, 2, 180, 255>>))
    BY <2>2, AnswersGood
  <2>4. modbus_reply(m, q) = reply_report_slave_id(m, q)
    BY <1>7 DEF modbus_reply, BitReads
  <2>. QED  BY <2>3, <2>4 DEF reply_report_slave_id
<1>8. CASE q[1] = 22
  <2>0. Len(q) = 7
    BY <1>0, <1>8
  <2>1. Len(q) >= 7
    BY <2>0
  <2>. QED  BY <1>0, <1>8, <2>1, MaskWriteGood DEF modbus_reply, BitReads
<1>9. CASE q[1] = 23
  BY <1>9, WriteAndReadGood DEF modbus_reply, BitReads
<1>10. CASE q[1] \notin BitReads \cup {3, 4, 5, 6, 15, 16, 17, 22, 23}
  BY <1>0, <1>10, ExceptionGood DEF modbus_reply
<1>. QED  BY <1>1, <1>2, <1>3, <1>4, <1>5, <1>6, <1>7, <1>8, <1>9, <1>10

-----------------------------------------------------------------------------
(* Frames on the line.                                                     *)

\* Bytes of which those of a checksum, of vs, are such that no one before
\* another one ends it.
Cargo(g, vs) ==
  /\ g \in Seq(BYTE)
  /\ \A p \in 1..Len(g) : g[p].crc = <<>> \/ g[p].crc = vs
  /\ \A p, r \in 1..Len(g) : p < r /\ g[p].crc # <<>> /\ g[r].crc # <<>> => g[p].v # 2

LEMMA ByteIs == \A v \in uint8_t : Byte(v) \in BYTE /\ Byte(v).crc = <<>> /\ Byte(v).v = v
<1>. SUFFICES ASSUME NEW v \in uint8_t PROVE Byte(v) \in BYTE /\ Byte(v).crc = <<>> /\ Byte(v).v = v
  OBVIOUS
<1>1. <<>> \in Seq(uint8_t)
  OBVIOUS
<1>. QED  BY <1>1 DEF Byte, BYTE

LEMMA FrameIs ==
  ASSUME NEW id \in uint8_t, NEW pdu \in Seq(uint8_t), Len(pdu) > 0
  PROVE  /\ Frame(id, pdu) \in Seq(BYTE) /\ Len(Frame(id, pdu)) = Len(pdu) + 3
         /\ \A p \in 1..(Len(pdu) + 1) : Frame(id, pdu)[p].crc = <<>>
         /\ Frame(id, pdu)[Len(pdu) + 2] = [v |-> 201, crc |-> <<id>> \o pdu]
         /\ Frame(id, pdu)[Len(pdu) + 3] = [v |-> 2, crc |-> <<id>> \o pdu]
<1>1. PICK vs : vs = <<id>> \o pdu
  OBVIOUS
<1>2. vs \in Seq(uint8_t) /\ Len(vs) = Len(pdu) + 1
  BY <1>1
<1>3. PICK n \in Nat : n = Len(vs)
  BY <1>2
<1>. DEFINE b == Bytes(vs)
            c == crc16(vs)
<1>4. b \in Seq(BYTE) /\ Len(b) = n /\ \A p \in 1..n : b[p].crc = <<>>
  <2>1. \A p \in 1..n : Byte(vs[p]) \in BYTE /\ Byte(vs[p]).crc = <<>>
    BY <1>2, <1>3, ByteIs
  <2>2. b = [p \in 1..n |-> Byte(vs[p])]
    BY <1>3 DEF Bytes
  <2>. HIDE DEF b
  <2>. QED  BY <2>1, <2>2
<1>5. c \in Seq(BYTE) /\ Len(c) = 2 /\ c[1] = [v |-> 201, crc |-> vs] /\ c[2] = [v |-> 2, crc |-> vs]
  <2>1. 201 \in uint8_t /\ 2 \in uint8_t
    BY Uint8
  <2>2. [v |-> 201, crc |-> vs] \in BYTE /\ [v |-> 2, crc |-> vs] \in BYTE
    BY <1>2, <2>1 DEF BYTE
  <2>. QED  BY <2>2 DEF crc16
<1>6. Frame(id, pdu) = b \o c
  BY <1>1 DEF Frame
<1>. HIDE DEF b, c
<1>7. b \o c \in Seq(BYTE) /\ Len(b \o c) = n + 2
  <2>1. b \in Seq(BYTE) /\ c \in Seq(BYTE) /\ Len(b) = n /\ Len(c) = 2
    BY <1>4, <1>5
  <2>2. b \o c \in Seq(BYTE) /\ Len(b \o c) = Len(b) + Len(c)
    BY <2>1, CatIs
  <2>. QED  BY <2>1, <2>2
<1>8. \A p \in 1..n : (b \o c)[p] = b[p]
  BY <1>4, <1>5
<1>9. (b \o c)[n + 1] = c[1] /\ (b \o c)[n + 2] = c[2]
  <2>1. b \in Seq(BYTE) /\ c \in Seq(BYTE) /\ Len(b) = n /\ 1 \in 1..Len(c) /\ 2 \in 1..Len(c)
    BY <1>4, <1>5
  <2>. QED  BY <2>1, CatIs
<1>. QED  BY <1>1, <1>2, <1>3, <1>4, <1>5, <1>6, <1>7, <1>8, <1>9

\* A frame, and what noise makes of it.
LEMMA NoisyIs ==
  ASSUME NEW id \in uint8_t, NEW pdu \in Seq(uint8_t), Len(pdu) > 0,
         NEW f, f = Frame(id, pdu), NEW g \in Noisy(f) \cup {f}
  PROVE  Cargo(g, <<id>> \o pdu)
<1>1. PICK vs : vs = <<id>> \o pdu
  OBVIOUS
<1>2. PICK n \in Nat : n = Len(pdu) + 3 /\ n >= 4
  OBVIOUS
<1>3. /\ f \in Seq(BYTE) /\ Len(f) = n /\ f[n - 1].v = 201 /\ f[n - 1].crc = vs /\ f[n].crc = vs
      /\ \A p \in 1..(n - 2) : f[p].crc = <<>>
  <2>1. Frame(id, pdu) \in Seq(BYTE) /\ Len(Frame(id, pdu)) = Len(pdu) + 3
    BY FrameIs
  <2>2. \A p \in 1..(Len(pdu) + 1) : Frame(id, pdu)[p].crc = <<>>
    BY FrameIs
  <2>3. /\ Frame(id, pdu)[Len(pdu) + 2] = [v |-> 201, crc |-> <<id>> \o pdu]
        /\ Frame(id, pdu)[Len(pdu) + 3] = [v |-> 2, crc |-> <<id>> \o pdu]
    BY FrameIs
  <2>4. Len(pdu) + 2 = n - 1 /\ Len(pdu) + 3 = n /\ Len(pdu) + 1 = n - 2
    BY <1>2
  <2>5. f[n - 1] = [v |-> 201, crc |-> vs] /\ f[n] = [v |-> 2, crc |-> vs]
    BY <1>1, <2>3, <2>4
  <2>. QED  BY <1>1, <2>1, <2>2, <2>4, <2>5
<1>4. \A p \in 1..n : f[p].crc = <<>> \/ f[p].crc = vs
  BY <1>3
<1>5. \A p \in 1..n : f[p].crc # <<>> => p \in {n - 1, n}
  BY <1>3
<1>6. ASSUME g = f PROVE Cargo(g, vs)
  <2>1. \A p, r \in 1..n : p < r /\ g[p].crc # <<>> /\ g[r].crc # <<>> => g[p].v # 2
    <3>1. SUFFICES ASSUME NEW p \in 1..n, NEW r \in 1..n, p < r, f[p].crc # <<>>
                   PROVE  f[p].v # 2
      BY <1>6
    <3>2. p = n - 1
      BY <1>5, <3>1
    <3>. QED  BY <3>2, <1>3
  <2>. QED  BY <1>1, <1>3, <1>4, <1>6, <2>1 DEF Cargo
<1>7. ASSUME NEW k \in 1..3, NEW v \in uint8_t, v # 2 \/ k # 3, g = Changed(f, k, v)
      PROVE  Cargo(g, vs)
  <2>1. k \in 1..n
    BY <1>2
  <2>2. f[k] \in BYTE
    BY <1>3, <2>1
  <2>3. [v |-> v, crc |-> f[k].crc] \in BYTE
    BY <2>2 DEF BYTE
  <2>4. /\ g \in Seq(BYTE) /\ Len(g) = n /\ g[k].v = v /\ g[k].crc = f[k].crc
        /\ \A p \in 1..n : p # k => g[p] = f[p]
    BY <1>3, <1>7, <2>1, <2>3 DEF Changed
  <2>5. \A p \in 1..n : g[p].crc = f[p].crc
    BY <2>4
  <2>6. \A p, r \in 1..n : p < r /\ g[p].crc # <<>> /\ g[r].crc # <<>> => g[p].v # 2
    <3>1. SUFFICES ASSUME NEW p \in 1..n, NEW r \in 1..n, p < r, f[p].crc # <<>>
                   PROVE  g[p].v # 2
      BY <2>5
    <3>2. p = n - 1
      BY <1>5, <3>1
    <3>3. CASE p = k
      <4>1. k = 3
        BY <3>2, <3>3, <1>2
      <4>. QED  BY <1>7, <4>1, <2>4, <3>3
    <3>4. CASE p # k
      BY <1>3, <3>2, <3>4, <2>4
    <3>. QED  BY <3>3, <3>4
  <2>. QED  BY <1>4, <2>4, <2>5, <2>6 DEF Cargo
<1>8. ASSUME g = <<Byte(255)>> \o f PROVE Cargo(g, vs)
  <2>0. 255 \in uint8_t
    BY Uint8
  <2>1. PICK b : b = <<Byte(255)>>
    OBVIOUS
  <2>2. b \in Seq(BYTE) /\ Len(b) = 1 /\ b[1].crc = <<>>
    BY <2>0, <2>1, ByteIs
  <2>3. /\ g \in Seq(BYTE) /\ Len(g) = n + 1 /\ g[1].crc = <<>>
        /\ \A p \in 2..(n + 1) : g[p] = f[p - 1]
    BY <1>3, <1>8, <2>1, <2>2
  <2>4. \A p \in 1..(n + 1) : g[p].crc = <<>> \/ g[p].crc = vs
    <3>1. SUFFICES ASSUME NEW p \in 2..(n + 1) PROVE g[p].crc = <<>> \/ g[p].crc = vs
      BY <2>3
    <3>2. p - 1 \in 1..n
      OBVIOUS
    <3>. QED  BY <3>2, <1>4, <2>3
  <2>5. \A p, r \in 1..(n + 1) : p < r /\ g[p].crc # <<>> /\ g[r].crc # <<>> => g[p].v # 2
    <3>1. SUFFICES ASSUME NEW p \in 1..(n + 1), NEW r \in 1..(n + 1), p < r, g[p].crc # <<>>
                   PROVE  g[p].v # 2
      OBVIOUS
    <3>2. p \in 2..(n + 1)
      BY <3>1, <2>3
    <3>3. p - 1 \in 1..n /\ g[p] = f[p - 1]
      BY <3>2, <2>3
    <3>4. p - 1 = n - 1
      BY <1>5, <3>1, <3>3
    <3>. QED  BY <3>3, <3>4, <1>3
  <2>. QED  BY <2>3, <2>4, <2>5 DEF Cargo
<1>9. \/ g = f \/ g = <<Byte(255)>> \o f
      \/ \E k \in 1..3, v \in {2, 16, 253} : (v # 2 \/ k # 3) /\ g = Changed(f, k, v)
  BY DEF Noisy
<1>10. 2 \in uint8_t /\ 16 \in uint8_t /\ 253 \in uint8_t
  BY Uint8
<1>11. Cargo(g, vs)
  BY <1>6, <1>7, <1>8, <1>9, <1>10
<1>. QED  BY <1>1, <1>11

-----------------------------------------------------------------------------
(* What is still due to a slave.                                           *)

\* A byte of the checksum of a message to slave i or to all.
Carries(i, b) == b.crc # <<>> /\ b.crc[1] \in {i, BROADCAST}

\* Each such byte in x is of a request that was sent after the n-th one, g tells
\* which, and these come in order: each request ends with its byte of value 2.
DueBy(i, n, x, log, g) ==
  /\ \A p \in 1..Len(x) : Carries(i, x[p]) =>
       g[p] \in (n + 1)..Len(log) /\ x[p].crc = <<log[g[p]].slave>> \o log[g[p]].pdu
  /\ \A p, r \in 1..Len(x) : p < r /\ Carries(i, x[p]) /\ Carries(i, x[r]) =>
       g[p] <= g[r] /\ (x[p].v = 2 => g[p] < g[r])
Due(i, n, x, log) == \E g \in [1..Len(x) -> Nat] : DueBy(i, n, x, log, g)

Entry == [slave : 0..247, pdu : Seq(uint8_t), hit : BOOLEAN]

LEMMA DueNothing == \A i, n, log : Due(i, n, <<>>, log)
<1>. SUFFICES ASSUME NEW i, NEW n, NEW log PROVE Due(i, n, <<>>, log)
  OBVIOUS
<1>1. [p \in 1..Len(<<>>) |-> 0] \in [1..Len(<<>>) -> Nat]
  OBVIOUS
<1>2. \A p \in 1..Len(<<>>) : FALSE
  OBVIOUS
<1>3. DueBy(i, n, <<>>, log, [p \in 1..Len(<<>>) |-> 0])
  BY <1>2 DEF DueBy
<1>. QED  BY <1>1, <1>3 DEF Due

\* The rest of what is due.
LEMMA DueRest ==
  ASSUME NEW i, NEW n \in Nat, NEW log \in Seq(Entry),
         NEW a \in Seq(BYTE), NEW y \in Seq(BYTE), Due(i, n, a \o y, log)
  PROVE  Due(i, n, y, log)
<1>1. PICK x : x = a \o y
  OBVIOUS
<1>2. PICK la \in Nat, ly \in Nat : la = Len(a) /\ ly = Len(y)
  OBVIOUS
<1>3. Len(x) = la + ly /\ \A p \in 1..ly : x[la + p] = y[p]
  BY <1>1, <1>2, CatIs
<1>4. PICK g \in [1..Len(x) -> Nat] : DueBy(i, n, x, log, g)
  BY <1>1 DEF Due
<1>. DEFINE h == [p \in 1..ly |-> g[la + p]]
<1>5. \A p \in 1..ly : la + p \in 1..Len(x)
  BY <1>3
<1>6. h \in [1..Len(y) -> Nat] /\ \A p \in 1..ly : h[p] = g[la + p]
  BY <1>2, <1>4, <1>5
<1>. HIDE DEF h
<1>7. \A p \in 1..ly : Carries(i, y[p]) =>
        h[p] \in (n + 1)..Len(log) /\ y[p].crc = <<log[h[p]].slave>> \o log[h[p]].pdu
  <2>1. SUFFICES ASSUME NEW p \in 1..ly, Carries(i, y[p])
                 PROVE  h[p] \in (n + 1)..Len(log) /\ y[p].crc = <<log[h[p]].slave>> \o log[h[p]].pdu
    OBVIOUS
  <2>2. PICK r \in 1..Len(x) : r = la + p
    BY <1>5
  <2>3. x[r] = y[p] /\ h[p] = g[r]
    BY <1>3, <1>6, <2>2
  <2>4. Carries(i, x[r])
    BY <2>1, <2>3
  <2>5. g[r] \in (n + 1)..Len(log) /\ x[r].crc = <<log[g[r]].slave>> \o log[g[r]].pdu
    BY <1>4, <2>4 DEF DueBy
  <2>. QED  BY <2>3, <2>5
<1>8. \A p, r \in 1..ly : p < r /\ Carries(i, y[p]) /\ Carries(i, y[r]) =>
        h[p] <= h[r] /\ (y[p].v = 2 => h[p] < h[r])
  <2>1. SUFFICES ASSUME NEW p \in 1..ly, NEW r \in 1..ly, p < r, Carries(i, y[p]), Carries(i, y[r])
                 PROVE  h[p] <= h[r] /\ (y[p].v = 2 => h[p] < h[r])
    OBVIOUS
  <2>2. PICK pp, rr : pp = la + p /\ rr = la + r
    OBVIOUS
  <2>3. pp \in 1..Len(x) /\ rr \in 1..Len(x)
    BY <1>5, <2>2
  <2>4. p < r
    BY <2>1
  <2>5. pp < rr
    BY <2>2, <2>3, <2>4
  <2>6. x[pp] = y[p] /\ h[p] = g[pp] /\ x[rr] = y[r] /\ h[r] = g[rr]
    BY <1>3, <1>6, <2>2
  <2>7. Carries(i, x[pp]) /\ Carries(i, x[rr])
    BY <2>1, <2>6
  <2>8. g[pp] <= g[rr] /\ (x[pp].v = 2 => g[pp] < g[rr])
    BY <1>4, <2>3, <2>5, <2>7 DEF DueBy
  <2>. QED  BY <2>6, <2>8
<1>9. DueBy(i, n, y, log, h)
  BY <1>2, <1>7, <1>8 DEF DueBy
<1>. QED  BY <1>6, <1>9 DEF Due

\* Another request is sent, or an answer: the bytes y behind what is due are of
\* the last request, or not for slave i.
LEMMA DueMore ==
  ASSUME NEW i, NEW n \in Nat, NEW log \in Seq(Entry), NEW e \in Entry,
         NEW x \in Seq(BYTE), Due(i, n, x, log), NEW y \in Seq(BYTE), n <= Len(log),
         NEW more, more \in {log, Append(log, e)}, NEW vs, Cargo(y, vs),
         \/ more = Append(log, e) /\ vs = <<e.slave>> \o e.pdu
         \/ vs # <<>> => vs[1] \notin {i, BROADCAST}
  PROVE  Due(i, n, x \o y, more)
<1>1. PICK z : z = x \o y
  OBVIOUS
<1>2. PICK lx \in Nat, ly \in Nat : lx = Len(x) /\ ly = Len(y)
  OBVIOUS
<1>3. /\ Len(z) = lx + ly /\ \A p \in 1..lx : z[p] = x[p]
      /\ \A p \in 1..ly : z[lx + p] = y[p]
  BY <1>1, <1>2, CatIs
<1>4. PICK g \in [1..lx -> Nat] : DueBy(i, n, x, log, g)
  BY <1>2 DEF Due
<1>5. PICK l \in Nat : l = Len(more)
  OBVIOUS
<1>6. l >= Len(log) /\ \A k \in 1..Len(log) : more[k] = log[k]
  <2>1. CASE more = log
    BY <1>5, <2>1
  <2>2. CASE more = Append(log, e)
    BY <1>5, <2>2
  <2>. QED  BY <2>1, <2>2
<1>. DEFINE h == [p \in 1..(lx + ly) |-> IF p <= lx THEN g[p] ELSE l]
<1>7. /\ h \in [1..Len(z) -> Nat] /\ \A p \in 1..lx : h[p] = g[p]
      /\ \A p \in 1..Len(z) : p > lx => h[p] = l
  BY <1>3, <1>4
<1>. HIDE DEF h
<1>8. ASSUME NEW p \in 1..lx, Carries(i, z[p])
      PROVE  /\ h[p] \in (n + 1)..Len(log)
             /\ z[p].crc = <<more[h[p]].slave>> \o more[h[p]].pdu
  <2>1. Carries(i, x[p]) /\ z[p] = x[p] /\ h[p] = g[p]
    BY <1>3, <1>7, <1>8
  <2>2. g[p] \in (n + 1)..Len(log) /\ x[p].crc = <<log[g[p]].slave>> \o log[g[p]].pdu
    BY <1>2, <1>4, <2>1 DEF DueBy
  <2>3. more[g[p]] = log[g[p]]
    BY <1>6, <2>2
  <2>. QED  BY <2>1, <2>2, <2>3
<1>9. ASSUME NEW p \in 1..Len(z), p > lx, Carries(i, z[p])
      PROVE  /\ h[p] = l /\ l = Len(log) + 1 /\ p - lx \in 1..ly /\ z[p] = y[p - lx]
             /\ z[p].crc = <<more[l].slave>> \o more[l].pdu
  <2>0. PICK r : r = p - lx
    OBVIOUS
  <2>1. r \in 1..ly /\ p = lx + r /\ r = p - lx
    BY <1>3, <1>9, <2>0
  <2>2. z[p] = y[r] /\ h[p] = l
    BY <1>3, <1>7, <1>9, <2>1
  <2>3. y[r].crc = vs /\ vs # <<>>
    <3>1. y[r].crc # <<>>
      BY <1>9, <2>2 DEF Carries
    <3>. QED  BY <1>2, <2>1, <3>1 DEF Cargo
  <2>4. more = Append(log, e) /\ vs = <<e.slave>> \o e.pdu
    BY <1>9, <2>2, <2>3 DEF Carries
  <2>5. l = Len(log) + 1 /\ more[l] = e
    BY <1>5, <2>4
  <2>. QED  BY <2>1, <2>2, <2>3, <2>4, <2>5
<1>10. \A p \in 1..Len(z) : Carries(i, z[p]) =>
         h[p] \in (n + 1)..Len(more) /\ z[p].crc = <<more[h[p]].slave>> \o more[h[p]].pdu
  <2>1. SUFFICES ASSUME NEW p \in 1..Len(z), Carries(i, z[p])
                 PROVE  h[p] \in (n + 1)..l /\ z[p].crc = <<more[h[p]].slave>> \o more[h[p]].pdu
    BY <1>5
  <2>2. CASE p <= lx
    <3>1. p \in 1..lx
      BY <1>3, <2>2
    <3>2. /\ h[p] \in (n + 1)..Len(log)
          /\ z[p].crc = <<more[h[p]].slave>> \o more[h[p]].pdu
      BY <1>8, <2>1, <3>1
    <3>. QED  BY <3>2, <1>5, <1>6
  <2>3. CASE p > lx
    <3>1. h[p] = l /\ l = Len(log) + 1 /\ z[p].crc = <<more[l].slave>> \o more[l].pdu
      BY <1>9, <2>1, <2>3
    <3>2. l \in (n + 1)..l
      BY <3>1
    <3>. QED  BY <3>1, <3>2
  <2>4. p <= lx \/ p > lx
    BY <1>3
  <2>. QED  BY <2>2, <2>3, <2>4
<1>11. \A p, r \in 1..Len(z) : p < r /\ Carries(i, z[p]) /\ Carries(i, z[r]) =>
         h[p] <= h[r] /\ (z[p].v = 2 => h[p] < h[r])
  <2>1. SUFFICES ASSUME NEW p \in 1..Len(z), NEW r \in 1..Len(z), p < r,
                        Carries(i, z[p]), Carries(i, z[r])
                 PROVE  h[p] <= h[r] /\ (z[p].v = 2 => h[p] < h[r])
    OBVIOUS
  <2>2. CASE r <= lx
    <3>1. p \in 1..lx /\ r \in 1..lx
      BY <1>3, <2>1, <2>2
    <3>2. z[p] = x[p] /\ z[r] = x[r] /\ h[p] = g[p] /\ h[r] = g[r]
      BY <1>3, <1>7, <3>1
    <3>3. g[p] <= g[r] /\ (x[p].v = 2 => g[p] < g[r])
      <4>1. Carries(i, x[p]) /\ Carries(i, x[r])
        BY <2>1, <3>2
      <4>. QED  BY <1>2, <1>4, <2>1, <3>1, <4>1 DEF DueBy
    <3>. QED  BY <3>2, <3>3
  <2>3. CASE r > lx /\ p <= lx
    <3>1. p \in 1..lx
      BY <1>3, <2>1, <2>3
    <3>2. h[p] \in (n + 1)..Len(log)
      BY <1>8, <2>1, <3>1
    <3>3. h[r] = l /\ l = Len(log) + 1
      BY <1>9, <2>1, <2>3
    <3>. QED  BY <3>2, <3>3
  <2>4. CASE p > lx
    <3>1. h[r] = l /\ z[r] = y[r - lx] /\ r - lx \in 1..ly
      BY <1>2, <1>3, <1>9, <2>1, <2>4
    <3>2. h[p] = l /\ z[p] = y[p - lx] /\ p - lx \in 1..ly
      BY <1>9, <2>1, <2>4
    <3>0. PICK pp, rr : pp = p - lx /\ rr = r - lx
      OBVIOUS
    <3>3. pp \in 1..ly /\ rr \in 1..ly /\ pp = p - lx /\ rr = r - lx /\ pp < rr
      BY <1>2, <2>1, <3>0, <3>1, <3>2
    <3>4. y[pp].crc # <<>> /\ y[rr].crc # <<>>
      BY <2>1, <3>1, <3>2, <3>3 DEF Carries
    <3>5. y[pp].v # 2
      BY <1>2, <3>3, <3>4 DEF Cargo
    <3>. QED  BY <3>1, <3>2, <3>3, <3>5
  <2>. QED  BY <1>3, <2>1, <2>2, <2>3, <2>4
<1>12. DueBy(i, n, z, more, h)
  BY <1>10, <1>11 DEF DueBy
<1>. QED  BY <1>1, <1>7, <1>12 DEF Due

\* The values between the slave id and the checksum.
Body(m) == Values(SubSeq(m, 2, Len(m) - checksum_length))

LEMMA BodyIs ==
  ASSUME NEW m \in Seq(BYTE), Len(m) >= 3
  PROVE  /\ Body(m) \in Seq(uint8_t) /\ Len(Body(m)) = Len(m) - 3
         /\ \A j \in 1..(Len(m) - 3) : Body(m)[j] = m[j + 1].v
<1>1. PICK l \in Nat : l = Len(m) /\ l >= 3
  OBVIOUS
<1>2. PICK s : s = SubSeq(m, 2, l - 2)
  OBVIOUS
<1>3. s \in Seq(BYTE) /\ Len(s) = l - 3 /\ \A j \in 1..(l - 3) : s[j] = m[j + 1]
  BY <1>1, <1>2
<1>4. Body(m) = [j \in 1..(l - 3) |-> s[j].v]
  BY <1>1, <1>2, <1>3 DEF Body, Values, checksum_length
<1>5. \A j \in 1..(l - 3) : s[j].v \in uint8_t
  <2>1. \A j \in 1..(l - 3) : s[j] \in BYTE
    BY <1>3
  <2>. QED  BY <2>1, ByteParts
<1>6. l - 3 \in Nat
  BY <1>1
<1>. QED  BY <1>1, <1>3, <1>4, <1>5, <1>6

\* A checksum that matches is the one of the message.
LEMMA MatchIs ==
  ASSUME NEW m \in Seq(BYTE), Len(m) >= 3, crc_matches(m)
  PROVE  \E vs \in Seq(uint8_t) :
           /\ m[Len(m)].v = 2 /\ m[Len(m)].crc = vs /\ Len(vs) = Len(m) - 2
           /\ \A j \in 1..(Len(m) - 2) : vs[j] = m[j].v
           /\ m[Len(m) - 1] = [v |-> 201, crc |-> vs]
<1>1. PICK l \in Nat : l = Len(m) /\ l >= 3
  OBVIOUS
<1>2. PICK s : s = SubSeq(m, 1, l - 2)
  OBVIOUS
<1>3. s \in Seq(BYTE) /\ Len(s) = l - 2 /\ \A j \in 1..(l - 2) : s[j] = m[j]
  BY <1>1, <1>2
<1>4. PICK vs : vs = Values(s)
  OBVIOUS
<1>5. vs = [j \in 1..(l - 2) |-> s[j].v]
  BY <1>3, <1>4 DEF Values
<1>6. \A j \in 1..(l - 2) : s[j].v \in uint8_t
  <2>1. \A j \in 1..(l - 2) : s[j] \in BYTE
    BY <1>3
  <2>. QED  BY <2>1, ByteParts
<1>7. vs \in Seq(uint8_t) /\ Len(vs) = l - 2 /\ \A j \in 1..(l - 2) : vs[j] = m[j].v
  BY <1>1, <1>3, <1>5, <1>6
<1>8. PICK c : c = SubSeq(m, l - 1, l)
  OBVIOUS
<1>9. c[1] = m[l - 1] /\ c[2] = m[l]
  BY <1>1, <1>8
<1>10. c = crc16(vs)
  BY <1>1, <1>2, <1>4, <1>8 DEF crc_matches
<1>11. c[1] = [v |-> 201, crc |-> vs] /\ c[2] = [v |-> 2, crc |-> vs]
  BY <1>10 DEF crc16
<1>12. m[l].v = 2 /\ m[l].crc = vs /\ m[l - 1] = [v |-> 201, crc |-> vs]
  BY <1>9, <1>11
<1>. QED  BY <1>1, <1>7, <1>12

\* A message to slave i with a checksum that matches is a request that was due,
\* and what is behind it is due after that one.
LEMMA DueTaken ==
  ASSUME NEW i, NEW n \in Nat, NEW log \in Seq(Entry),
         NEW m \in Seq(BYTE), NEW y \in Seq(BYTE), Due(i, n, m \o y, log),
         Len(m) >= 3, crc_matches(m), m[1].v \in {i, BROADCAST}
  PROVE  \E k \in (n + 1)..Len(log) :
           log[k].slave \in {i, BROADCAST} /\ log[k].pdu = Body(m) /\ Due(i, k, y, log)
<1>1. PICK x : x = m \o y
  OBVIOUS
<1>2. PICK l \in Nat, ly \in Nat : l = Len(m) /\ ly = Len(y) /\ l >= 3
  OBVIOUS
<1>3. /\ Len(x) = l + ly /\ \A p \in 1..ly : x[l + p] = y[p]
      /\ \A p \in 1..l : x[p] = m[p]
  BY <1>1, <1>2, CatIs
<1>4. PICK g \in [1..Len(x) -> Nat] : DueBy(i, n, x, log, g)
  BY <1>1 DEF Due
<1>5. PICK vs \in Seq(uint8_t) :
        /\ m[l].v = 2 /\ m[l].crc = vs /\ Len(vs) = l - 2
        /\ \A j \in 1..(l - 2) : vs[j] = m[j].v
  BY <1>2, MatchIs
<1>6. x[l].v = 2 /\ x[l].crc = vs /\ vs # <<>> /\ vs[1] = m[1].v /\ l \in 1..Len(x)
  BY <1>2, <1>3, <1>5
<1>7. Carries(i, x[l])
  BY <1>6 DEF Carries
<1>8. PICK k : k = g[l]
  OBVIOUS
<1>9. k \in (n + 1)..Len(log) /\ vs = <<log[k].slave>> \o log[k].pdu
  BY <1>4, <1>6, <1>7, <1>8 DEF DueBy
<1>10. k \in Nat /\ log[k] \in Entry
  <2>1. k \in 1..Len(log)
    BY <1>9
  <2>. QED  BY <2>1
<1>11. PICK pdu \in Seq(uint8_t), id \in 0..247 : pdu = log[k].pdu /\ id = log[k].slave
  BY <1>10 DEF Entry
<1>12. vs = <<id>> \o pdu /\ <<id>> \in Seq({id}) /\ Len(<<id>>) = 1
  BY <1>9, <1>11
<1>13. vs[1] = id /\ Len(pdu) = l - 3 /\ \A j \in 1..(l - 3) : pdu[j] = vs[j + 1]
  <2>1. PICK a : a = <<id>>
    OBVIOUS
  <2>2. id \in uint8_t
    <3>1. id \in 0..247
      BY <1>10, <1>11 DEF Entry
    <3>2. id \in Nat /\ id <= 255
      BY ONLY <3>1
    <3>. QED  BY <3>2, Uint8
  <2>3. a \in Seq(uint8_t) /\ Len(a) = 1 /\ a[1] = id
    BY <2>1, <2>2
  <2>4. PICK lp \in Nat : lp = Len(pdu)
    OBVIOUS
  <2>5. /\ Len(vs) = Len(a) + Len(pdu)
        /\ \A j \in 1..Len(a) : vs[j] = a[j]
        /\ \A j \in 1..Len(pdu) : vs[Len(a) + j] = pdu[j]
    BY <1>12, <2>1, <2>3, CatIs
  <2>6. vs[1] = id
    BY <2>3, <2>5
  <2>7. Len(vs) = 1 + lp /\ \A j \in 1..lp : vs[1 + j] = pdu[j]
    BY <2>3, <2>4, <2>5
  <2>8. Len(vs) = l - 2
    BY <1>5
  <2>9. lp = l - 3
    BY <1>2, <2>7, <2>8
  <2>10. \A j \in 1..lp : pdu[j] = vs[j + 1]
    BY <2>7
  <2>. QED  BY <2>4, <2>6, <2>9, <2>10
<1>14. log[k].slave \in {i, BROADCAST}
  BY <1>6, <1>11, <1>13
<1>15. log[k].pdu = Body(m)
  <2>1. /\ Body(m) \in Seq(uint8_t) /\ Len(Body(m)) = l - 3
        /\ \A j \in 1..(l - 3) : Body(m)[j] = m[j + 1].v
    BY <1>2, BodyIs
  <2>2. ASSUME NEW j \in 1..(l - 3) PROVE pdu[j] = Body(m)[j]
    <3>1. j + 1 \in 1..(l - 2)
      BY <1>2
    <3>. QED  BY <3>1, <2>1, <1>5, <1>13
  <2>3. pdu = Body(m)
    BY <2>1, <2>2, <1>13
  <2>. QED  BY <2>3, <1>11
<1>. DEFINE h == [p \in 1..ly |-> g[l + p]]
<1>16. \A p \in 1..ly : l + p \in 1..Len(x)
  BY <1>3
<1>17. h \in [1..Len(y) -> Nat] /\ \A p \in 1..ly : h[p] = g[l + p]
  BY <1>2, <1>4, <1>16
<1>. HIDE DEF h
<1>18. ASSUME NEW p \in 1..ly, Carries(i, y[p])
       PROVE  h[p] \in (k + 1)..Len(log) /\ y[p].crc = <<log[h[p]].slave>> \o log[h[p]].pdu
  <2>1. PICK r \in 1..Len(x) : r = l + p
    BY <1>16
  <2>2. x[r] = y[p] /\ h[p] = g[r]
    BY <1>3, <1>17, <2>1
  <2>3. Carries(i, x[r])
    BY <1>18, <2>2
  <2>4. g[r] \in (n + 1)..Len(log) /\ x[r].crc = <<log[g[r]].slave>> \o log[g[r]].pdu
    BY <1>4, <2>3 DEF DueBy
  <2>5. l < r
    BY <2>1, <1>2
  <2>6. g[l] < g[r]
    BY <1>4, <1>6, <1>7, <2>3, <2>5 DEF DueBy
  <2>7. g[r] \in (k + 1)..Len(log)
    BY <1>8, <1>10, <2>4, <2>6
  <2>. QED  BY <2>2, <2>4, <2>7
<1>19. \A p, r \in 1..ly : p < r /\ Carries(i, y[p]) /\ Carries(i, y[r]) =>
         h[p] <= h[r] /\ (y[p].v = 2 => h[p] < h[r])
  <2>1. SUFFICES ASSUME NEW p \in 1..ly, NEW r \in 1..ly, p < r, Carries(i, y[p]), Carries(i, y[r])
                 PROVE  h[p] <= h[r] /\ (y[p].v = 2 => h[p] < h[r])
    OBVIOUS
  <2>2. PICK pp, rr : pp = l + p /\ rr = l + r
    OBVIOUS
  <2>3. pp \in 1..Len(x) /\ rr \in 1..Len(x)
    BY <1>16, <2>2
  <2>4. p < r
    BY <2>1
  <2>5. pp < rr
    BY <2>2, <2>3, <2>4
  <2>6. x[pp] = y[p] /\ h[p] = g[pp] /\ x[rr] = y[r] /\ h[r] = g[rr]
    BY <1>3, <1>17, <2>2
  <2>7. Carries(i, x[pp]) /\ Carries(i, x[rr])
    BY <2>1, <2>6
  <2>8. g[pp] <= g[rr] /\ (x[pp].v = 2 => g[pp] < g[rr])
    BY <1>4, <2>3, <2>5, <2>7 DEF DueBy
  <2>. QED  BY <2>6, <2>8
<1>20. DueBy(i, k, y, log, h)
  BY <1>2, <1>18, <1>19 DEF DueBy
<1>21. Due(i, k, y, log)
  BY <1>17, <1>20 DEF Due
<1>. QED  BY <1>9, <1>14, <1>15, <1>21

-----------------------------------------------------------------------------
(* What a slave has executed.                                              *)

\* The executed requests d are of the first n sent ones, for i, in order.
RanBy(i, d, log, f) ==
  /\ \A k \in 1..Len(d) : log[f[k]].slave \in {i, BROADCAST} /\ log[f[k]].pdu = d[k]
  /\ \A j, k \in 1..Len(d) : j < k => f[j] < f[k]
Ran(i, n, d, log) == \E f \in [1..Len(d) -> 1..n] : RanBy(i, d, log, f)

LEMMA RanNothing == \A i, log : Ran(i, 0, <<>>, log)
<1>. SUFFICES ASSUME NEW i, NEW log PROVE Ran(i, 0, <<>>, log)
  OBVIOUS
<1>1. \A p \in 1..Len(<<>>) : FALSE
  OBVIOUS
<1>2. [p \in 1..Len(<<>>) |-> 0] \in [1..Len(<<>>) -> 1..0]
  BY <1>1
<1>3. RanBy(i, <<>>, log, [p \in 1..Len(<<>>) |-> 0])
  BY <1>1 DEF RanBy
<1>. QED  BY <1>2, <1>3 DEF Ran

LEMMA RanMore ==
  ASSUME NEW i, NEW log \in Seq(Entry), NEW e \in Entry, NEW n \in Nat, n <= Len(log),
         NEW d \in Seq(Seq(uint8_t)), Ran(i, n, d, log)
  PROVE  Ran(i, n, d, Append(log, e))
<1>1. PICK more : more = Append(log, e)
  OBVIOUS
<1>2. \A k \in 1..n : more[k] = log[k]
  BY <1>1
<1>3. PICK f \in [1..Len(d) -> 1..n] : RanBy(i, d, log, f)
  BY DEF Ran
<1>4. RanBy(i, d, more, f)
  BY <1>2, <1>3 DEF RanBy
<1>. QED  BY <1>1, <1>3, <1>4 DEF Ran

LEMMA RanNext ==
  ASSUME NEW i, NEW log \in Seq(Entry), NEW n \in Nat,
         NEW d \in Seq(Seq(uint8_t)), Ran(i, n, d, log),
         NEW k \in (n + 1)..Len(log), log[k].slave \in {i, BROADCAST}, NEW q, log[k].pdu = q
  PROVE  Ran(i, k, Append(d, q), log)
<1>0. k \in 1..Len(log) /\ log[k] \in Entry /\ q \in Seq(uint8_t) /\ k \in Nat
  <2>1. k \in 1..Len(log) /\ k \in Nat
    OBVIOUS
  <2>2. log[k] \in Entry
    BY <2>1
  <2>. QED  BY <2>1, <2>2 DEF Entry
<1>1. PICK e : e = Append(d, q)
  OBVIOUS
<1>2. PICK l \in Nat : l = Len(d)
  OBVIOUS
<1>3. Len(e) = l + 1 /\ e[l + 1] = q /\ \A j \in 1..l : e[j] = d[j]
  BY <1>0, <1>1, <1>2
<1>4. PICK f \in [1..l -> 1..n] : RanBy(i, d, log, f)
  BY <1>2 DEF Ran
<1>. DEFINE h == [j \in 1..(l + 1) |-> IF j <= l THEN f[j] ELSE k]
<1>5. /\ h \in [1..Len(e) -> 1..k] /\ h[l + 1] = k
      /\ \A j \in 1..l : h[j] = f[j] /\ h[j] \in 1..n
  BY <1>3, <1>4
<1>. HIDE DEF h
<1>6. ASSUME NEW j \in 1..(l + 1) PROVE log[h[j]].slave \in {i, BROADCAST} /\ log[h[j]].pdu = e[j]
  <2>1. CASE j \in 1..l
    BY <2>1, <1>2, <1>3, <1>4, <1>5 DEF RanBy
  <2>2. CASE j = l + 1
    BY <2>2, <1>3, <1>5
  <2>. QED  BY <2>1, <2>2
<1>7. ASSUME NEW j \in 1..(l + 1), NEW r \in 1..(l + 1), j < r PROVE h[j] < h[r]
  <2>0. j \in 1..l
    BY <1>7
  <2>1. CASE r \in 1..l
    BY <2>0, <2>1, <1>2, <1>4, <1>5, <1>7 DEF RanBy
  <2>2. CASE r = l + 1
    BY <2>0, <2>2, <1>5
  <2>. QED  BY <2>1, <2>2
<1>8. RanBy(i, e, log, h)
  BY <1>3, <1>6, <1>7 DEF RanBy
<1>. QED  BY <1>1, <1>5, <1>8 DEF Ran

-----------------------------------------------------------------------------
(* The lengths of a message.                                               *)

Kind(c) == IF c THEN "CONFIRMATION" ELSE "INDICATION"
Meta(m, c) == compute_meta_length_after_function(m[2].v, Kind(c))
Data(m, c) == compute_data_length_after_meta(Values(Tail(m)), Kind(c), checksum_length)

LEMMA PduIs ==
  ASSUME NEW m \in Seq(BYTE), Len(m) >= 2
  PROVE  /\ \A j \in 1..(Len(m) - 1) : Values(Tail(m))[j] = m[j + 1].v
         /\ \A j \in 1..Len(m) : m[j].v \in Nat
<1>1. PICK l \in Nat : l = Len(m) /\ l >= 2
  OBVIOUS
<1>2. PICK t : t = Tail(m)
  OBVIOUS
<1>3. Len(t) = l - 1 /\ \A j \in 1..(l - 1) : t[j] = m[j + 1]
  BY <1>1, <1>2
<1>4. Values(t) = [j \in 1..(l - 1) |-> t[j].v]
  BY <1>3 DEF Values
<1>5. \A j \in 1..l : m[j] \in BYTE
  BY <1>1
<1>6. \A j \in 1..l : m[j].v \in Nat
  BY <1>5, ByteParts, Uint8
<1>. QED  BY <1>1, <1>2, <1>3, <1>4, <1>6

LEMMA MetaIs ==
  ASSUME NEW m \in Seq(BYTE), Len(m) >= 2, NEW c \in BOOLEAN
  PROVE  Meta(m, c) \in Nat /\ Meta(m, c) <= 9 /\ (c => Meta(m, c) > 0)
<1>1. PICK f \in Nat : f = m[2].v
  BY PduIs
<1>. QED  BY <1>1 DEF Meta, Kind, compute_meta_length_after_function

\* The confirmations that announce how many bytes they hold.
Counted(f) == f <= 4 \/ f \in {17, 23}

\* The announced bytes, by the function code and the counts of a message.
LEMMA DataIs ==
  ASSUME NEW m \in Seq(BYTE), Len(m) >= 2, NEW c \in BOOLEAN, Len(m) >= 2 + Meta(m, c)
  PROVE  /\ Data(m, c) \in Nat /\ Data(m, c) >= 2
         /\ ~c /\ m[2].v \in MultipleWrites =>
              Meta(m, c) = 5 /\ m[7].v \in Nat /\ Data(m, c) = 2 + m[7].v
         /\ ~c /\ m[2].v = 23 => Meta(m, c) = 9 /\ m[11].v \in Nat /\ Data(m, c) = 2 + m[11].v
         /\ ~c /\ m[2].v \notin MultipleWrites \cup {23} => Data(m, c) = 2
         /\ c /\ Counted(m[2].v) => m[3].v \in Nat /\ Data(m, c) = 2 + m[3].v
         /\ c /\ ~Counted(m[2].v) => Data(m, c) = 2
<1>1. PICK l \in Nat : l = Len(m) /\ l >= 2
  OBVIOUS
<1>2. PICK f \in Nat : f = m[2].v
  BY PduIs
<1>3. PICK pdu : pdu = Values(Tail(m))
  OBVIOUS
<1>4. \A j \in 1..(l - 1) : pdu[j] = m[j + 1].v /\ m[j + 1].v \in Nat
  <2>1. \A j \in 1..(l - 1) : pdu[j] = m[j + 1].v
    BY <1>1, <1>3, PduIs
  <2>2. \A j \in 1..l : m[j].v \in Nat
    BY <1>1, PduIs
  <2>. QED  BY <1>1, <2>1, <2>2
<1>5. pdu[1] = f
  BY <1>1, <1>2, <1>4
<1>6. CASE ~c
  <2>1. CASE f \in MultipleWrites
    <3>1. Meta(m, c) = 5
      BY <1>2, <1>6, <2>1 DEF Meta, Kind, MultipleWrites, compute_meta_length_after_function
    <3>2. 6 \in 1..(l - 1)
      BY <1>1, <3>1
    <3>3. pdu[6] = m[7].v /\ m[7].v \in Nat
      BY <1>4, <3>2
    <3>4. Data(m, c) = 2 + pdu[6]
      BY <1>3, <1>5, <1>6, <2>1 DEF Data, Kind, compute_data_length_after_meta, checksum_length, MultipleWrites
    <3>. QED  BY <1>2, <1>6, <2>1, <3>1, <3>3, <3>4 DEF MultipleWrites
  <2>2. CASE f = 23
    <3>1. Meta(m, c) = 9
      BY <1>2, <1>6, <2>2 DEF Meta, Kind, MultipleWrites, compute_meta_length_after_function
    <3>2. 10 \in 1..(l - 1)
      BY <1>1, <3>1
    <3>3. pdu[10] = m[11].v /\ m[11].v \in Nat
      BY <1>4, <3>2
    <3>4. Data(m, c) = 2 + pdu[10]
      BY <1>3, <1>5, <1>6, <2>2 DEF Data, Kind, compute_data_length_after_meta, checksum_length, MultipleWrites
    <3>. QED  BY <1>2, <1>6, <2>2, <3>1, <3>3, <3>4 DEF MultipleWrites
  <2>3. CASE f \notin MultipleWrites \cup {23}
    <3>1. Data(m, c) = 2
      BY <1>3, <1>5, <1>6, <2>3 DEF Data, Kind, compute_data_length_after_meta, checksum_length
    <3>. QED  BY <1>2, <1>6, <2>3, <3>1
  <2>. QED  BY <2>1, <2>2, <2>3
<1>7. CASE c
  <2>1. Meta(m, c) > 0 /\ Meta(m, c) \in Nat
    BY <1>7, MetaIs
  <2>2. 2 \in 1..(l - 1)
    BY <1>1, <2>1
  <2>3. pdu[2] = m[3].v /\ m[3].v \in Nat
    BY <1>4, <2>2
  <2>4. Data(m, c) = IF Counted(f) THEN 2 + pdu[2] ELSE 2
    BY <1>3, <1>5, <1>7 DEF Data, Kind, compute_data_length_after_meta, checksum_length, Counted
  <2>5. Data(m, c) \in Nat /\ Data(m, c) >= 2
    BY <2>3, <2>4
  <2>. QED  BY <1>2, <1>7, <2>3, <2>4, <2>5
<1>. QED  BY <1>6, <1>7

\* What is behind it does not change the lengths that a message announces.
LEMMA LengthsStay ==
  ASSUME NEW m \in Seq(BYTE), Len(m) >= 2, NEW c \in BOOLEAN, NEW s \in Seq(BYTE)
  PROVE  /\ Meta(m \o s, c) = Meta(m, c)
         /\ Len(m) >= 2 + Meta(m, c) => Data(m \o s, c) = Data(m, c)
<1>1. PICK w : w = m \o s
  OBVIOUS
<1>2. PICK l \in Nat : l = Len(m) /\ l >= 2
  OBVIOUS
<1>3. w \in Seq(BYTE) /\ Len(w) >= l /\ \A j \in 1..l : w[j] = m[j]
  BY <1>1, <1>2, CatIs
<1>4. w[2].v = m[2].v
  BY <1>2, <1>3
<1>5. Meta(w, c) = Meta(m, c)
  BY <1>4 DEF Meta
<1>6. PICK f \in Nat : f = m[2].v
  BY PduIs
<1>7. ASSUME ~c, Len(m) >= 2 + Meta(m, c) PROVE Data(w, c) = Data(m, c)
  <2>0. Meta(m, c) \in Nat
    BY MetaIs
  <2>1. Len(w) >= 2 /\ Len(w) >= 2 + Meta(w, c)
    BY <1>2, <1>3, <1>5, <1>7, <2>0
  <2>2. CASE f \in MultipleWrites
    <3>1. Data(m, c) = 2 + m[7].v /\ Meta(m, c) = 5
      BY <1>6, <1>7, <2>2, DataIs
    <3>2. Data(w, c) = 2 + w[7].v
      BY <1>3, <1>4, <1>6, <1>7, <2>1, <2>2, DataIs
    <3>3. w[7] = m[7]
      BY <1>2, <1>3, <1>7, <3>1
    <3>. QED  BY <3>1, <3>2, <3>3
  <2>3. CASE f = 23
    <3>1. Data(m, c) = 2 + m[11].v /\ Meta(m, c) = 9
      BY <1>6, <1>7, <2>3, DataIs
    <3>2. Data(w, c) = 2 + w[11].v
      BY <1>3, <1>4, <1>6, <1>7, <2>1, <2>3, DataIs
    <3>3. w[11] = m[11]
      BY <1>2, <1>3, <1>7, <3>1
    <3>. QED  BY <3>1, <3>2, <3>3
  <2>4. CASE f \notin MultipleWrites \cup {23}
    <3>1. Data(m, c) = 2
      BY <1>6, <1>7, <2>4, DataIs
    <3>2. Data(w, c) = 2
      BY <1>3, <1>4, <1>6, <1>7, <2>1, <2>4, DataIs
    <3>. QED  BY <3>1, <3>2
  <2>. QED  BY <2>2, <2>3, <2>4
<1>8. ASSUME c, Len(m) >= 2 + Meta(m, c) PROVE Data(w, c) = Data(m, c)
  <2>1. Meta(m, c) \in Nat /\ Meta(m, c) > 0
    BY <1>8, MetaIs
  <2>2. Len(w) >= 2 /\ Len(w) >= 2 + Meta(w, c) /\ l >= 3
    <3>1. PICK me \in Nat : me = Meta(m, c) /\ me > 0
      BY <2>1
    <3>2. l >= 2 + me /\ Len(w) \in Nat /\ Len(w) >= l
      <4>1. l >= 2 + me
        BY <1>2, <1>8, <3>1, Zenon
      <4>. QED  BY <1>3, <4>1
    <3>3. Len(w) >= 2 /\ Len(w) >= 2 + me /\ l >= 3
      BY ONLY <1>2, <3>1, <3>2
    <3>. QED  BY <1>5, <3>1, <3>3, Zenon
  <2>3. w[3] = m[3]
    BY <1>2, <1>3, <2>2
  <2>4. CASE Counted(f)
    <3>1. Data(m, c) = 2 + m[3].v
      BY <1>6, <1>8, <2>4, DataIs
    <3>2. Data(w, c) = 2 + w[3].v
      BY <1>3, <1>4, <1>6, <1>8, <2>2, <2>4, DataIs
    <3>. QED  BY <2>3, <3>1, <3>2
  <2>5. CASE ~Counted(f)
    <3>1. Data(m, c) = 2
      BY <1>6, <1>8, <2>5, DataIs
    <3>2. Data(w, c) = 2
      BY <1>3, <1>4, <1>6, <1>8, <2>2, <2>5, DataIs
    <3>. QED  BY <3>1, <3>2
  <2>. QED  BY <2>4, <2>5
<1>. QED  BY <1>1, <1>5, <1>7, <1>8

\* A message of the announced length; c tells a confirmation.
Ended(m, c) ==
  /\ Len(m) >= 2 /\ Len(m) >= 2 + Meta(m, c)
  /\ Len(m) = 2 + Meta(m, c) + Data(m, c)

\* It holds a whole request.
LEMMA WholeBody ==
  ASSUME NEW m \in Seq(BYTE), Ended(m, FALSE), Proper(Body(m))
  PROVE  WholeRequest(Body(m)) /\ Len(m) >= 4
<1>0. Len(m) >= 2 /\ Len(m) >= 2 + Meta(m, FALSE)
  BY Zenon DEF Ended
<1>1. PICK l \in Nat : l = Len(m) /\ l >= 2
  BY <1>0
<1>2. PICK f \in Nat : f = m[2].v
  BY <1>1, PduIs
<1>3. PICK me \in Nat, da \in Nat : me = Meta(m, FALSE) /\ da = Data(m, FALSE) /\ da >= 2
  BY <1>0, MetaIs, DataIs
<1>33. me \in Nat /\ da \in Nat /\ da >= 2 /\ l \in Nat
  BY <1>1, <1>3, Zenon
<1>4. l = 2 + me + da /\ l >= 4
  <2>1. l = 2 + me + da
    BY <1>1, <1>3, Zenon DEF Ended
  <2>. QED  BY <1>33, <2>1
<1>5. PICK q : q = Body(m)
  OBVIOUS
<1>6. q \in Seq(uint8_t) /\ Len(q) = l - 3 /\ \A j \in 1..(l - 3) : q[j] = m[j + 1].v
  <2>1. Len(m) >= 3
    BY <1>1, <1>4
  <2>. QED  BY <1>1, <1>5, <2>1, BodyIs
<1>7. q[1] = f
  BY <1>2, <1>4, <1>6
<1>8. compute_meta_length_after_function(q[1], "INDICATION") = me
  BY <1>2, <1>3, <1>7 DEF Meta, Kind
<1>9. compute_data_length_after_meta(q, "INDICATION", 0) = da - 2
  <2>1. CASE f \in MultipleWrites
    <3>1. me = 5 /\ m[7].v \in Nat /\ da = 2 + m[7].v
      BY <1>2, <1>3, <2>1, <1>0, DataIs
    <3>2. 6 \in 1..(l - 3)
      <4>1. me = 5
        BY <3>1
      <4>2. l = 7 + da
        BY <1>33, <1>4, <4>1
      <4>. QED  BY <1>33, <4>2
    <3>3. q[6] = m[7].v
      BY <1>6, <3>2
    <3>4. compute_data_length_after_meta(q, "INDICATION", 0) = 0 + q[6]
      BY <1>7, <2>1 DEF compute_data_length_after_meta, MultipleWrites
    <3>. QED  BY <3>1, <3>3, <3>4
  <2>2. CASE f = 23
    <3>1. me = 9 /\ m[11].v \in Nat /\ da = 2 + m[11].v
      BY <1>2, <1>3, <2>2, <1>0, DataIs
    <3>2. 10 \in 1..(l - 3)
      <4>1. me = 9
        BY <3>1
      <4>2. l = 11 + da
        BY <1>33, <1>4, <4>1
      <4>. QED  BY <1>33, <4>2
    <3>3. q[10] = m[11].v
      BY <1>6, <3>2
    <3>4. compute_data_length_after_meta(q, "INDICATION", 0) = 0 + q[10]
      BY <1>7, <2>2 DEF compute_data_length_after_meta, MultipleWrites
    <3>. QED  BY <3>1, <3>3, <3>4
  <2>3. CASE f \notin MultipleWrites \cup {23}
    <3>1. da = 2
      BY <1>2, <1>3, <2>3, <1>0, DataIs
    <3>2. compute_data_length_after_meta(q, "INDICATION", 0) = 0
      BY <1>7, <2>3 DEF compute_data_length_after_meta
    <3>. QED  BY <3>1, <3>2
  <2>. QED  BY <2>1, <2>2, <2>3
<1>10. Len(q) >= 1 + me /\ Len(q) = 1 + me + (da - 2)
  BY <1>33, <1>4, <1>6
<1>11. Proper(q)
  BY <1>5
<1>12. WholeRequest(q)
  BY <1>6, <1>8, <1>9, <1>10, <1>11 DEF WholeRequest
<1>. QED  BY <1>1, <1>4, <1>5, <1>12

-----------------------------------------------------------------------------
(* How far a slave has read.                                               *)

\* The message m read so far by slave i, in step st, and the n bytes that are
\* to be read: they end where the lengths announced by m say; c tells whether it is
\* read as a confirmation.  A message that waits for its answer is for i and has
\* the announced length.
Reading(i, m, st, n, c, p) ==
  /\ m \in Seq(BYTE) /\ n \in Nat /\ n > 0 /\ Len(m) <= max_adu_length
  /\ st \in {"function", "meta", "data"} /\ c \in BOOLEAN
  /\ p \in {"receive", "reply", "sleep"}
  /\ p # "reply" => Len(m) + n <= max_adu_length
  /\ p = "sleep" => m = <<>> /\ st = "function"
  /\ p # "reply" /\ st = "function" => Len(m) + n = 2
  /\ p # "reply" /\ st = "meta" => Len(m) >= 2 /\ Len(m) + n = 2 + Meta(m, c)
  /\ p # "reply" /\ st = "data" =>
       /\ Len(m) >= 2 /\ Len(m) >= 2 + Meta(m, c)
       /\ Len(m) + n = 2 + Meta(m, c) + Data(m, c)
  /\ p = "reply" => m[1].v \in {i, BROADCAST} /\ Ended(m, FALSE)

LEMMA ReadingBegins ==
  ASSUME NEW i, NEW c \in BOOLEAN, NEW p \in {"receive", "sleep"}
  PROVE  Reading(i, <<>>, "function", 2, c, p)
<1>1. <<>> \in Seq(BYTE) /\ Len(<<>>) = 0
  OBVIOUS
<1>2. 0 + 2 = 2 /\ 0 + 2 <= max_adu_length /\ 0 <= max_adu_length /\ 2 \in Nat /\ 2 > 0
  BY DEF max_adu_length
<1>3. p # "reply" /\ p \in {"receive", "reply", "sleep"}
  OBVIOUS
<1>4. "function" \in {"function", "meta", "data"} /\ "function" # "meta" /\ "function" # "data"
  OBVIOUS
<1>. QED  BY <1>1, <1>2, <1>3, <1>4, Zenon DEF Reading

LEMMA ReadingWakes ==
  ASSUME NEW i, NEW m, NEW st, NEW n, NEW c, Reading(i, m, st, n, c, "sleep")
  PROVE  Reading(i, m, st, n, c, "receive") /\ m = <<>>
<1>1. m = <<>> /\ st = "function"
  BY DEF Reading
<1>. QED  BY <1>1 DEF Reading

\* A part of the bytes that are to be read.
LEMMA ReadingGoesOn ==
  ASSUME NEW i, NEW m, NEW st, NEW n, NEW c, Reading(i, m, st, n, c, "receive"),
         NEW s \in Seq(BYTE), Len(s) < n
  PROVE  Reading(i, m \o s, st, n - Len(s), c, "receive")
<1>0. /\ m \in Seq(BYTE) /\ n \in Nat /\ Len(m) + n <= max_adu_length /\ c \in BOOLEAN
      /\ st \in {"function", "meta", "data"}
  BY DEF Reading
<1>1. PICK w, l, k, r : w = m \o s /\ l = Len(m) /\ k = Len(s) /\ r = n - k
  OBVIOUS
<1>2. l \in Nat /\ k \in Nat /\ r \in Nat /\ r > 0 /\ r = n - k /\ l + n <= max_adu_length
  BY <1>0, <1>1
<1>3. w \in Seq(BYTE) /\ Len(w) = l + k
  <2>1. w \in Seq(BYTE) /\ Len(w) = Len(m) + Len(s)
    BY <1>0, <1>1, CatIs
  <2>. QED  BY <1>1, <2>1
<1>4. Len(w) + r = l + n /\ Len(w) >= l /\ Len(w) <= max_adu_length /\ Len(w) \in Nat
  BY <1>0, <1>2, <1>3 DEF max_adu_length
<1>5. CASE st = "function"
  <2>1. l + n = 2
    BY <1>1, <1>5 DEF Reading
  <2>2. Len(w) + r = 2 /\ Len(w) + r <= max_adu_length
    BY <1>4, <2>1 DEF max_adu_length
  <2>3. Reading(i, w, st, r, c, "receive")
    BY <1>0, <1>2, <1>3, <1>4, <1>5, <2>2 DEF Reading
  <2>. QED  BY <1>1, <2>3
<1>6. CASE st = "meta"
  <2>1. l >= 2 /\ l + n = 2 + Meta(m, c)
    BY <1>1, <1>6 DEF Reading
  <2>2. Meta(w, c) = Meta(m, c)
    BY <1>0, <1>1, <2>1, LengthsStay
  <2>3. Len(w) + r = 2 + Meta(w, c) /\ Len(w) >= 2
    BY <1>2, <1>4, <2>1, <2>2
  <2>4. Len(w) + r <= max_adu_length
    BY <1>2, <1>4
  <2>5. Reading(i, w, st, r, c, "receive")
    BY <1>0, <1>2, <1>3, <1>4, <1>6, <2>3, <2>4 DEF Reading
  <2>. QED  BY <1>1, <2>5
<1>7. CASE st = "data"
  <2>1. l >= 2
    BY <1>1, <1>7 DEF Reading
  <2>2. Len(w) >= 2 /\ Len(w) + r <= max_adu_length
    BY <1>2, <1>4, <2>1
  <2>3. Len(w) >= 2 + Meta(w, c) /\ Len(w) + r = 2 + Meta(w, c) + Data(w, c)
    <3>1. l >= 2 + Meta(m, c) /\ l + n = 2 + Meta(m, c) + Data(m, c)
      BY <1>1, <1>7, Zenon DEF Reading
    <3>2. Meta(w, c) = Meta(m, c)
      BY <1>0, <1>1, <2>1, LengthsStay
    <3>3. Data(w, c) = Data(m, c)
      BY <1>0, <1>1, <2>1, <3>1, LengthsStay
    <3>4. Meta(m, c) \in Nat
      BY <1>0, <1>1, <2>1, MetaIs
    <3>5. PICK me \in Nat : me = Meta(m, c)
      BY <3>4
    <3>6. l >= 2 + me
      BY <3>1, <3>5, Zenon
    <3>7. Len(w) >= 2 + me
      <4>1. me \in Nat
        BY <3>5, Zenon
      <4>. QED  BY <1>2, <1>4, <3>6, <4>1
    <3>8. Len(w) >= 2 + Meta(w, c)
      BY <3>2, <3>5, <3>7, Zenon
    <3>. QED  BY <1>4, <3>1, <3>2, <3>3, <3>8, Zenon
  <2>4. r \in Nat /\ r > 0
    BY <1>2
  <2>5. Reading(i, w, st, r, c, "receive")
    BY <1>0, <1>3, <1>4, <1>7, <2>2, <2>3, <2>4, Zenon DEF Reading
  <2>. QED  BY <1>1, <2>5
<1>. QED  BY <1>0, <1>5, <1>6, <1>7

\* All the bytes that are to be read: the step is at its end.
LEMMA StepRead ==
  ASSUME NEW i, NEW m, NEW st, NEW n, NEW c, Reading(i, m, st, n, c, "receive"),
         NEW s \in Seq(BYTE), Len(s) = n
  PROVE  /\ m \o s \in Seq(BYTE) /\ Len(m \o s) >= 2 /\ Len(m \o s) <= max_adu_length
         /\ c \in BOOLEAN /\ st \in {"function", "meta", "data"}
         /\ st = "function" => Len(m \o s) = 2
         /\ st = "meta" => Len(m \o s) = 2 + Meta(m \o s, c)
         /\ st = "data" => Len(m \o s) >= 3 /\ Ended(m \o s, c)
<1>0. /\ m \in Seq(BYTE) /\ n \in Nat /\ n > 0 /\ Len(m) + n <= max_adu_length /\ c \in BOOLEAN
      /\ st \in {"function", "meta", "data"}
  BY DEF Reading
<1>1. PICK w, l : w = m \o s /\ l = Len(m)
  OBVIOUS
<1>2. l \in Nat /\ l + n <= max_adu_length
  BY <1>0, <1>1
<1>3. w \in Seq(BYTE) /\ Len(w) = l + n
  <2>1. w \in Seq(BYTE) /\ Len(w) = Len(m) + Len(s)
    BY <1>0, <1>1, CatIs
  <2>. QED  BY <1>1, <2>1
<1>4. Len(w) >= l /\ Len(w) \in Nat /\ Len(w) <= max_adu_length
  BY <1>0, <1>2, <1>3 DEF max_adu_length
<1>5. CASE st = "function"
  <2>1. l + n = 2
    BY <1>1, <1>5 DEF Reading
  <2>2. Len(w) = 2
    BY <1>3, <2>1
  <2>. QED  BY <1>0, <1>1, <1>3, <1>4, <1>5, <2>2
<1>6. CASE st = "meta"
  <2>1. l >= 2 /\ l + n = 2 + Meta(m, c)
    BY <1>1, <1>6 DEF Reading
  <2>2. Meta(w, c) = Meta(m, c)
    BY <1>0, <1>1, <2>1, LengthsStay
  <2>3. Len(w) = 2 + Meta(w, c) /\ Len(w) >= 2
    BY <1>2, <1>3, <1>4, <2>1, <2>2
  <2>. QED  BY <1>0, <1>1, <1>3, <1>4, <1>6, <2>3
<1>7. CASE st = "data"
  <2>1. l >= 2
    BY <1>1, <1>7 DEF Reading
  <2>2. Len(w) >= 3 /\ Len(w) >= 2
    BY <1>0, <1>2, <1>3, <2>1
  <2>3. Ended(w, c)
    <3>1. l >= 2 + Meta(m, c) /\ l + n = 2 + Meta(m, c) + Data(m, c)
      BY <1>1, <1>7, Zenon DEF Reading
    <3>2. Meta(w, c) = Meta(m, c)
      BY <1>0, <1>1, <2>1, LengthsStay
    <3>3. Data(w, c) = Data(m, c)
      BY <1>0, <1>1, <2>1, <3>1, LengthsStay
    <3>4. Meta(m, c) \in Nat
      BY <1>0, <1>1, <2>1, MetaIs
    <3>5. PICK me \in Nat : me = Meta(m, c)
      BY <3>4
    <3>6. l >= 2 + me
      BY <3>1, <3>5, Zenon
    <3>7. Len(w) >= 2 + me
      <4>1. me \in Nat
        BY <3>5, Zenon
      <4>. QED  BY <1>2, <1>4, <3>6, <4>1
    <3>8. Len(w) >= 2 + Meta(w, c)
      BY <3>2, <3>5, <3>7, Zenon
    <3>9. Len(w) = 2 + Meta(w, c) + Data(w, c)
      BY <1>3, <3>1, <3>2, <3>3, Zenon
    <3>. QED  BY <2>2, <3>8, <3>9, Zenon DEF Ended
  <2>. QED  BY <1>0, <1>1, <1>3, <1>4, <1>7, <2>2, <2>3
<1>. QED  BY <1>0, <1>5, <1>6, <1>7

LEMMA ReadingMeta ==
  ASSUME NEW i, NEW w \in Seq(BYTE), Len(w) = 2, NEW c \in BOOLEAN, Meta(w, c) > 0
  PROVE  Reading(i, w, "meta", Meta(w, c), c, "receive")
<1>1. Meta(w, c) \in Nat /\ Meta(w, c) <= 9
  BY MetaIs
<1>2. PICK me : me = Meta(w, c)
  OBVIOUS
<1>3. me \in Nat /\ me > 0 /\ me <= 9
  BY <1>1, <1>2
<1>4. Len(w) <= max_adu_length /\ Len(w) + me <= max_adu_length /\ Len(w) >= 2
  BY <1>3 DEF max_adu_length
<1>5. Len(w) + me = 2 + Meta(w, c)
  BY <1>2
<1>6. "meta" \in {"function", "meta", "data"} /\ "meta" # "function" /\ "meta" # "data"
  OBVIOUS
<1>7. "receive" \in {"receive", "reply", "sleep"} /\ "receive" # "reply" /\ "receive" # "sleep"
  OBVIOUS
<1>8. Reading(i, w, "meta", me, c, "receive")
  BY <1>3, <1>4, <1>5, <1>6, <1>7, Zenon DEF Reading
<1>. QED  BY <1>2, <1>8

LEMMA ReadingData ==
  ASSUME NEW i, NEW w \in Seq(BYTE), Len(w) >= 2, NEW c \in BOOLEAN,
         Len(w) = 2 + Meta(w, c), Len(w) + Data(w, c) <= max_adu_length
  PROVE  Reading(i, w, "data", Data(w, c), c, "receive")
<1>1. Meta(w, c) \in Nat
  BY MetaIs
<1>2. Len(w) >= 2 + Meta(w, c)
  BY <1>1
<1>3. Data(w, c) \in Nat /\ Data(w, c) >= 2
  BY <1>2, DataIs
<1>4. PICK da : da = Data(w, c)
  OBVIOUS
<1>5. da \in Nat /\ da > 0 /\ Len(w) + da <= max_adu_length
  BY <1>3, <1>4
<1>6. Len(w) <= max_adu_length
  BY <1>5 DEF max_adu_length
<1>7. Len(w) >= 2 + Meta(w, c) /\ Len(w) + da = 2 + Meta(w, c) + Data(w, c)
  BY <1>2, <1>4, Zenon
<1>8. "data" \in {"function", "meta", "data"} /\ "data" # "function" /\ "meta" # "data"
  OBVIOUS
<1>9. "receive" \in {"receive", "reply", "sleep"} /\ "receive" # "reply" /\ "receive" # "sleep"
  OBVIOUS
<1>10. Reading(i, w, "data", da, c, "receive")
  BY <1>5, <1>6, <1>7, <1>8, <1>9, Zenon DEF Reading
<1>. QED  BY <1>4, <1>10

LEMMA ReadingEnds ==
  ASSUME NEW i, NEW m, NEW st, NEW n, NEW c, Reading(i, m, st, n, c, "receive"),
         NEW w \in Seq(BYTE), Len(w) <= max_adu_length, w[1].v \in {i, BROADCAST}, Ended(w, FALSE),
         NEW d \in BOOLEAN
  PROVE  Reading(i, w, st, n, d, "reply")
BY DEF Reading

-----------------------------------------------------------------------------
(* What a slave has executed and what it may still execute.                *)

\* Slave i has executed requests of the first n sent ones, and what it has
\* read and has not read is due after these; while it is about to answer, its
\* message is the k-th request and what it has not read is due after that.
OwedAt(i, x, m, p, d, log, n) ==
  /\ Ran(i, n, d, log)
  /\ p # "reply" => Due(i, n, m \o x, log)
  /\ p = "reply" => \E k \in (n + 1)..Len(log) :
       log[k].slave \in {i, BROADCAST} /\ log[k].pdu = Body(m) /\ Due(i, k, x, log)
Owed(i, x, m, p, d, log) == \E n \in 0..Len(log) : OwedAt(i, x, m, p, d, log, n)

LEMMA CatAgain ==
  ASSUME NEW a \in Seq(BYTE), NEW b \in Seq(BYTE), NEW c \in Seq(BYTE)
  PROVE  (a \o b) \o c = a \o (b \o c)
<1>1. PICK ab, bc, u, w : ab = a \o b /\ bc = b \o c /\ u = ab \o c /\ w = a \o bc
  OBVIOUS
<1>2. PICK la \in Nat, lb \in Nat, lc \in Nat : la = Len(a) /\ lb = Len(b) /\ lc = Len(c)
  OBVIOUS
<1>3. /\ ab \in Seq(BYTE) /\ Len(ab) = la + lb
      /\ \A k \in 1..la : ab[k] = a[k]
      /\ \A k \in 1..lb : ab[la + k] = b[k]
  <2>1. /\ ab \in Seq(BYTE) /\ Len(ab) = Len(a) + Len(b)
        /\ \A k \in 1..Len(a) : ab[k] = a[k]
        /\ \A k \in 1..Len(b) : ab[Len(a) + k] = b[k]
    BY <1>1, CatIs
  <2>. QED  BY <1>2, <2>1
<1>4. /\ bc \in Seq(BYTE) /\ Len(bc) = lb + lc
      /\ \A k \in 1..lb : bc[k] = b[k]
      /\ \A k \in 1..lc : bc[lb + k] = c[k]
  <2>1. /\ bc \in Seq(BYTE) /\ Len(bc) = Len(b) + Len(c)
        /\ \A k \in 1..Len(b) : bc[k] = b[k]
        /\ \A k \in 1..Len(c) : bc[Len(b) + k] = c[k]
    BY <1>1, CatIs
  <2>. QED  BY <1>2, <2>1
<1>5. /\ u \in Seq(BYTE) /\ Len(u) = la + lb + lc
      /\ \A k \in 1..(la + lb) : u[k] = ab[k]
      /\ \A k \in 1..lc : u[la + lb + k] = c[k]
  <2>0. ab \in Seq(BYTE)
    BY <1>3
  <2>1. /\ u \in Seq(BYTE) /\ Len(u) = Len(ab) + Len(c)
        /\ \A k \in 1..Len(ab) : u[k] = ab[k]
        /\ \A k \in 1..Len(c) : u[Len(ab) + k] = c[k]
    BY <1>1, <2>0, CatIs
  <2>. QED  BY <1>2, <1>3, <2>1
<1>6. /\ w \in Seq(BYTE) /\ Len(w) = la + lb + lc
      /\ \A k \in 1..la : w[k] = a[k]
      /\ \A k \in 1..(lb + lc) : w[la + k] = bc[k]
  <2>0. bc \in Seq(BYTE)
    BY <1>4
  <2>1. /\ w \in Seq(BYTE) /\ Len(w) = Len(a) + Len(bc)
        /\ \A k \in 1..Len(a) : w[k] = a[k]
        /\ \A k \in 1..Len(bc) : w[Len(a) + k] = bc[k]
    BY <1>1, <2>0, CatIs
  <2>2. la + (lb + lc) = la + lb + lc
    OBVIOUS
  <2>. QED  BY <1>2, <1>4, <2>1, <2>2
<1>7. ASSUME NEW k \in 1..(la + lb + lc) PROVE u[k] = w[k]
  <2>1. CASE k \in 1..la
    <3>1. k \in 1..(la + lb)
      BY <2>1
    <3>. QED  BY <2>1, <3>1, <1>3, <1>5, <1>6
  <2>2. CASE k \in (la + 1)..(la + lb)
    <3>1. PICK j : j = k - la
      OBVIOUS
    <3>2. j \in 1..lb /\ k = la + j /\ j \in 1..(lb + lc) /\ k \in 1..(la + lb)
      BY <2>2, <3>1
    <3>3. u[k] = ab[k] /\ ab[la + j] = b[j]
      BY <3>2, <1>3, <1>5
    <3>4. w[la + j] = bc[j] /\ bc[j] = b[j]
      BY <3>2, <1>4, <1>6
    <3>. QED  BY <3>2, <3>3, <3>4
  <2>3. CASE k \in (la + lb + 1)..(la + lb + lc)
    <3>1. PICK j, r : j = k - la - lb /\ r = k - la
      OBVIOUS
    <3>2. j \in 1..lc /\ k = la + lb + j /\ r \in 1..(lb + lc) /\ k = la + r /\ r = lb + j
      BY <2>3, <3>1
    <3>3. u[la + lb + j] = c[j]
      BY <3>2, <1>5
    <3>4. w[la + r] = bc[r] /\ bc[lb + j] = c[j]
      BY <3>2, <1>4, <1>6
    <3>. QED  BY <3>2, <3>3, <3>4
  <2>. QED  BY <2>1, <2>2, <2>3
<1>8. u = w
  <2>1. PICK l \in Nat : l = la + lb + lc
    OBVIOUS
  <2>2. u \in Seq(BYTE) /\ w \in Seq(BYTE) /\ Len(u) = l /\ Len(w) = l /\ \A k \in 1..l : u[k] = w[k]
    BY <2>1, <1>5, <1>6, <1>7
  <2>. QED  BY <2>2
<1>. QED  BY <1>1, <1>8

LEMMA NothingBefore == \A x \in Seq(BYTE) : <<>> \o x = x
OBVIOUS

LEMMA OwedAtFirst ==
  ASSUME NEW i, NEW log \in Seq(Entry)
  PROVE  Owed(i, <<>>, <<>>, "receive", <<>>, log)
<1>1. <<>> \o <<>> = <<>>
  OBVIOUS
<1>2. Due(i, 0, <<>> \o <<>>, log)
  BY <1>1, DueNothing
<1>3. Ran(i, 0, <<>>, log)
  BY RanNothing
<1>4. "receive" # "reply"
  OBVIOUS
<1>5. OwedAt(i, <<>>, <<>>, "receive", <<>>, log, 0)
  BY <1>2, <1>3, <1>4, Zenon DEF OwedAt
<1>6. 0 \in 0..Len(log)
  OBVIOUS
<1>. QED  BY <1>5, <1>6, Zenon DEF Owed

\* Some of what has come in is read.
LEMMA OwedRead ==
  ASSUME NEW i, NEW log \in Seq(Entry), NEW m \in Seq(BYTE), NEW x \in Seq(BYTE), NEW d,
         Owed(i, x, m, "receive", d, log),
         NEW s \in Seq(BYTE), NEW y \in Seq(BYTE), x = s \o y
  PROVE  Owed(i, y, m \o s, "receive", d, log)
<1>1. PICK n \in 0..Len(log) : OwedAt(i, x, m, "receive", d, log, n)
  BY Zenon DEF Owed
<1>2. "receive" # "reply"
  OBVIOUS
<1>3. Ran(i, n, d, log) /\ Due(i, n, m \o x, log)
  BY <1>1, <1>2, Zenon DEF OwedAt
<1>4. m \o x = (m \o s) \o y
  BY CatAgain
<1>5. Due(i, n, (m \o s) \o y, log)
  BY <1>3, <1>4, Zenon
<1>6. OwedAt(i, y, m \o s, "receive", d, log, n)
  BY <1>2, <1>3, <1>5, Zenon DEF OwedAt
<1>. QED  BY <1>1, <1>6, Zenon DEF Owed

\* What was read is dropped, and perhaps what was not read.
LEMMA OwedDropped ==
  ASSUME NEW i, NEW log \in Seq(Entry), NEW m \in Seq(BYTE), NEW x \in Seq(BYTE), NEW d,
         NEW p \in {"receive", "sleep"}, NEW r \in {"receive", "sleep"},
         Owed(i, x, m, p, d, log), NEW y \in {x, <<>>}
  PROVE  Owed(i, y, <<>>, r, d, log)
<1>1. PICK n \in 0..Len(log) : OwedAt(i, x, m, p, d, log, n)
  BY Zenon DEF Owed
<1>2. p # "reply" /\ r # "reply"
  OBVIOUS
<1>3. Ran(i, n, d, log) /\ Due(i, n, m \o x, log)
  BY <1>1, <1>2, Zenon DEF OwedAt
<1>4. Due(i, n, <<>> \o y, log)
  <2>1. CASE y = x
    <3>1. n \in Nat
      OBVIOUS
    <3>2. Due(i, n, x, log)
      BY <1>3, <3>1, DueRest
    <3>3. <<>> \o x = x
      BY NothingBefore
    <3>. QED  BY <2>1, <3>2, <3>3, Zenon
  <2>2. CASE y = <<>>
    <3>1. <<>> \o y = <<>>
      BY <2>2
    <3>. QED  BY <3>1, DueNothing, Zenon
  <2>. QED  BY <2>1, <2>2
<1>5. OwedAt(i, y, <<>>, r, d, log, n)
  BY <1>2, <1>3, <1>4, Zenon DEF OwedAt
<1>. QED  BY <1>1, <1>5, Zenon DEF Owed

\* A whole request was read.
LEMMA OwedTaken ==
  ASSUME NEW i, NEW log \in Seq(Entry), NEW w \in Seq(BYTE), NEW y \in Seq(BYTE), NEW d,
         Owed(i, y, w, "receive", d, log),
         Len(w) >= 3, crc_matches(w), w[1].v \in {i, BROADCAST}
  PROVE  Owed(i, y, w, "reply", d, log)
<1>1. PICK n \in 0..Len(log) : OwedAt(i, y, w, "receive", d, log, n)
  BY Zenon DEF Owed
<1>2. "receive" # "reply"
  OBVIOUS
<1>3. Ran(i, n, d, log) /\ Due(i, n, w \o y, log)
  BY <1>1, <1>2, Zenon DEF OwedAt
<1>4. n \in Nat
  OBVIOUS
<1>5. \E k \in (n + 1)..Len(log) :
        log[k].slave \in {i, BROADCAST} /\ log[k].pdu = Body(w) /\ Due(i, k, y, log)
  BY <1>3, <1>4, DueTaken
<1>6. OwedAt(i, y, w, "reply", d, log, n)
  BY <1>3, <1>5, Zenon DEF OwedAt
<1>. QED  BY <1>1, <1>6, Zenon DEF Owed

\* The request is executed.
LEMMA OwedExecuted ==
  ASSUME NEW i, NEW log \in Seq(Entry), NEW m \in Seq(BYTE), NEW x \in Seq(BYTE),
         NEW d \in Seq(Seq(uint8_t)), Owed(i, x, m, "reply", d, log), NEW r \in {"receive", "sleep"}
  PROVE  /\ Owed(i, x, <<>>, r, Append(d, Body(m)), log)
         /\ \E k \in 1..Len(log) : log[k].pdu = Body(m)
<1>1. PICK n \in 0..Len(log) : OwedAt(i, x, m, "reply", d, log, n)
  BY Zenon DEF Owed
<1>2. PICK q : q = Body(m)
  OBVIOUS
<1>3. Ran(i, n, d, log)
  BY <1>1, Zenon DEF OwedAt
<1>4. PICK k \in (n + 1)..Len(log) :
        log[k].slave \in {i, BROADCAST} /\ log[k].pdu = q /\ Due(i, k, x, log)
  BY <1>1, <1>2, Zenon DEF OwedAt
<1>5. n \in Nat /\ k \in 1..Len(log) /\ k \in 0..Len(log)
  OBVIOUS
<1>6. Ran(i, k, Append(d, q), log)
  BY <1>3, <1>4, <1>5, RanNext
<1>7. <<>> \o x = x
  BY NothingBefore
<1>8. Due(i, k, <<>> \o x, log)
  BY <1>4, <1>7, Zenon
<1>9. r # "reply"
  OBVIOUS
<1>10. OwedAt(i, x, <<>>, r, Append(d, q), log, k)
  BY <1>6, <1>8, <1>9, Zenon DEF OwedAt
<1>11. Owed(i, x, <<>>, r, Append(d, q), log)
  BY <1>5, <1>10, Zenon DEF Owed
<1>. QED  BY <1>2, <1>4, <1>5, <1>11, Zenon

\* Slave i hears y: a request, or an answer of another slave.
LEMMA OwedHears ==
  ASSUME NEW i, NEW log \in Seq(Entry), NEW m \in Seq(BYTE), NEW x \in Seq(BYTE),
         NEW d \in Seq(Seq(uint8_t)), NEW p, Owed(i, x, m, p, d, log),
         NEW e \in Entry, NEW y \in Seq(BYTE), NEW vs, Cargo(y, vs),
         NEW more, more \in {log, Append(log, e)},
         \/ more = Append(log, e) /\ vs = <<e.slave>> \o e.pdu
         \/ vs # <<>> => vs[1] \notin {i, BROADCAST}
  PROVE  Owed(i, x \o y, m, p, d, more)
<1>1. PICK n \in 0..Len(log) : OwedAt(i, x, m, p, d, log, n)
  BY Zenon DEF Owed
<1>2. n \in Nat /\ n <= Len(log) /\ n \in 0..Len(more)
  <2>1. CASE more = log
    BY <2>1
  <2>2. CASE more = Append(log, e)
    BY <2>2
  <2>. QED  BY <2>1, <2>2
<1>3. Ran(i, n, d, more)
  <2>1. Ran(i, n, d, log)
    BY <1>1, Zenon DEF OwedAt
  <2>2. Ran(i, n, d, Append(log, e))
    BY <1>2, <2>1, RanMore
  <2>. QED  BY <2>1, <2>2
<1>4. ASSUME p # "reply" PROVE Due(i, n, m \o (x \o y), more)
  <2>1. Due(i, n, m \o x, log)
    BY <1>1, <1>4, Zenon DEF OwedAt
  <2>2. PICK z : z = m \o x
    OBVIOUS
  <2>3. z \in Seq(BYTE)
    BY <2>2, CatIs
  <2>4. Due(i, n, z \o y, more)
    BY <1>2, <2>1, <2>2, <2>3, DueMore
  <2>5. z \o y = m \o (x \o y)
    BY <2>2, CatAgain
  <2>. QED  BY <2>4, <2>5, Zenon
<1>5. ASSUME p = "reply"
      PROVE  \E k \in (n + 1)..Len(more) :
               more[k].slave \in {i, BROADCAST} /\ more[k].pdu = Body(m) /\ Due(i, k, x \o y, more)
  <2>1. PICK k \in (n + 1)..Len(log) :
          log[k].slave \in {i, BROADCAST} /\ log[k].pdu = Body(m) /\ Due(i, k, x, log)
    BY <1>1, <1>5, Zenon DEF OwedAt
  <2>2. k \in Nat /\ k <= Len(log) /\ k \in 1..Len(log)
    BY <1>2, <2>1
  <2>3. Due(i, k, x \o y, more)
    BY <2>1, <2>2, DueMore
  <2>4. k \in (n + 1)..Len(more) /\ more[k] = log[k]
    <3>1. CASE more = log
      BY <2>1, <3>1
    <3>2. CASE more = Append(log, e)
      BY <1>2, <2>1, <2>2, <3>2
    <3>. QED  BY <3>1, <3>2
  <2>. QED  BY <2>1, <2>3, <2>4, Zenon
<1>6. OwedAt(i, x \o y, m, p, d, more, n)
  BY <1>3, <1>4, <1>5, Zenon DEF OwedAt
<1>. QED  BY <1>2, <1>6, Zenon DEF Owed

-----------------------------------------------------------------------------
(* One slave.                                                              *)

\* The answer that waits, if there is one, is a frame of the slave itself.
Waiting(i, r) == r = <<>> \/ \E pdu \in Seq(uint8_t) : Len(pdu) > 0 /\ r = Frame(i, pdu)

\* x has come in, m was read of it in step st, n bytes are to be read, c is
\* confirmation_to_ignore, p where the slave is, r the answer that waits, t its
\* tables, d what it has executed, log what was sent.
SlaveIs(i, x, m, st, n, c, p, r, t, d, log) ==
  /\ x \in Seq(BYTE) /\ d \in Seq(Seq(uint8_t))
  /\ Reading(i, m, st, n, c, p) /\ Waiting(i, r) /\ MapIs(t)
  /\ Owed(i, x, m, p, d, log)

LEMMA SlaveParts ==
  ASSUME NEW i, NEW x, NEW m, NEW st, NEW n, NEW c, NEW p, NEW r, NEW t, NEW d, NEW log,
         SlaveIs(i, x, m, st, n, c, p, r, t, d, log)
  PROVE  /\ x \in Seq(BYTE) /\ m \in Seq(BYTE) /\ d \in Seq(Seq(uint8_t)) /\ n \in Nat /\ c \in BOOLEAN
         /\ st \in {"function", "meta", "data"} /\ p \in {"receive", "reply", "sleep"}
BY DEF SlaveIs, Reading

LEMMA SlaveStarts ==
  ASSUME NEW i, NEW log \in Seq(Entry)
  PROVE  SlaveIs(i, <<>>, <<>>, "function", 2, FALSE, "receive", <<>>, Mapping, <<>>, log)
<1>1. Reading(i, <<>>, "function", 2, FALSE, "receive")
  <2>1. FALSE \in BOOLEAN /\ "receive" \in {"receive", "sleep"}
    OBVIOUS
  <2>. QED  BY <2>1, ReadingBegins, Zenon
<1>2. Owed(i, <<>>, <<>>, "receive", <<>>, log)
  BY OwedAtFirst
<1>3. <<>> \in Seq(BYTE) /\ <<>> \in Seq(Seq(uint8_t))
  OBVIOUS
<1>4. Waiting(i, <<>>)
  BY DEF Waiting
<1>. QED  BY <1>1, <1>2, <1>3, <1>4, MappingIs DEF SlaveIs

\* It hears a request, or an answer of another slave.
LEMMA SlaveHears ==
  ASSUME NEW i, NEW x, NEW m, NEW st, NEW n, NEW c, NEW p, NEW r, NEW t, NEW d,
         NEW log \in Seq(Entry), SlaveIs(i, x, m, st, n, c, p, r, t, d, log),
         NEW e \in Entry, NEW y, NEW vs, Cargo(y, vs),
         NEW more, more \in {log, Append(log, e)},
         \/ more = Append(log, e) /\ vs = <<e.slave>> \o e.pdu
         \/ vs # <<>> => vs[1] \notin {i, BROADCAST}
  PROVE  SlaveIs(i, x \o y, m, st, n, c, p, r, t, d, more)
<1>1. x \in Seq(BYTE) /\ m \in Seq(BYTE) /\ d \in Seq(Seq(uint8_t))
  BY SlaveParts
<1>2. y \in Seq(BYTE)
  BY DEF Cargo
<1>3. Owed(i, x, m, p, d, log)
  BY DEF SlaveIs
<1>4. Owed(i, x \o y, m, p, d, more)
  BY <1>1, <1>2, <1>3, OwedHears
<1>5. x \o y \in Seq(BYTE)
  BY <1>1, <1>2, CatIs
<1>6. Reading(i, m, st, n, c, p) /\ Waiting(i, r) /\ MapIs(t)
  BY DEF SlaveIs
<1>. QED  BY <1>1, <1>4, <1>5, <1>6, Zenon DEF SlaveIs

\* It reads on.
LEMMA SlaveReads ==
  ASSUME NEW i, NEW x, NEW m, NEW st, NEW n, NEW c, NEW r, NEW t, NEW d,
         NEW log \in Seq(Entry), SlaveIs(i, x, m, st, n, c, "receive", r, t, d, log),
         NEW s \in Seq(BYTE), NEW y \in Seq(BYTE), x = s \o y,
         NEW stt, NEW k, Reading(i, m \o s, stt, k, c, "receive")
  PROVE  SlaveIs(i, y, m \o s, stt, k, c, "receive", r, t, d, log)
<1>1. x \in Seq(BYTE) /\ m \in Seq(BYTE) /\ d \in Seq(Seq(uint8_t))
  BY SlaveParts
<1>2. Owed(i, x, m, "receive", d, log)
  BY DEF SlaveIs
<1>3. Owed(i, y, m \o s, "receive", d, log)
  BY <1>1, <1>2, OwedRead
<1>4. Waiting(i, r) /\ MapIs(t)
  BY DEF SlaveIs
<1>. QED  BY <1>1, <1>3, <1>4, Zenon DEF SlaveIs

\* s was read of x and y was not; z is left of that.
Split(x, s, y) == s \in Seq(BYTE) /\ y \in Seq(BYTE) /\ x = s \o y
Left(y, z, b, p) == z \in {y, <<>>} /\ b \in BOOLEAN /\ p \in {"receive", "sleep"}

\* It drops what it has read, and perhaps the rest.
LEMMA SlaveDrops ==
  ASSUME NEW i, NEW x, NEW m, NEW st, NEW n, NEW c, NEW r, NEW t, NEW d,
         NEW log \in Seq(Entry), SlaveIs(i, x, m, st, n, c, "receive", r, t, d, log),
         NEW s, NEW y, Split(x, s, y), NEW z, NEW b, NEW p, Left(y, z, b, p)
  PROVE  SlaveIs(i, z, <<>>, "function", 2, b, p, r, t, d, log)
<1>0. /\ s \in Seq(BYTE) /\ y \in Seq(BYTE) /\ x = s \o y
      /\ z \in {y, <<>>} /\ b \in BOOLEAN /\ p \in {"receive", "sleep"}
  BY DEF Split, Left
<1>1. x \in Seq(BYTE) /\ m \in Seq(BYTE) /\ d \in Seq(Seq(uint8_t))
  BY SlaveParts
<1>2. Owed(i, x, m, "receive", d, log)
  BY DEF SlaveIs
<1>3. Owed(i, y, m \o s, "receive", d, log)
  BY <1>0, <1>1, <1>2, OwedRead
<1>4. m \o s \in Seq(BYTE)
  BY <1>0, <1>1, CatIs
<1>5. Owed(i, z, <<>>, p, d, log)
  BY <1>0, <1>3, <1>4, OwedDropped
<1>6. Reading(i, <<>>, "function", 2, b, p)
  BY <1>0, ReadingBegins
<1>7. Waiting(i, r) /\ MapIs(t)
  BY DEF SlaveIs
<1>8. z \in Seq(BYTE)
  <2>1. <<>> \in Seq(BYTE)
    BY ONLY EmptyIs
  <2>. QED  BY <1>0, <2>1, Zenon
<1>. QED  BY <1>1, <1>5, <1>6, <1>7, <1>8, Zenon DEF SlaveIs

\* It has read a whole request for it, which it will answer.
LEMMA SlaveTakes ==
  ASSUME NEW i, NEW x, NEW m, NEW st, NEW n, NEW c, NEW r, NEW t, NEW d,
         NEW log \in Seq(Entry), SlaveIs(i, x, m, st, n, c, "receive", r, t, d, log),
         NEW s \in Seq(BYTE), NEW y \in Seq(BYTE), x = s \o y,
         NEW w, w = m \o s, Len(w) >= 3, Len(w) <= max_adu_length, Ended(w, FALSE),
         crc_matches(w), w[1].v \in {i, BROADCAST}, NEW b \in BOOLEAN
  PROVE  SlaveIs(i, y, w, st, n, b, "reply", r, t, d, log)
<1>1. x \in Seq(BYTE) /\ m \in Seq(BYTE) /\ d \in Seq(Seq(uint8_t))
  BY SlaveParts
<1>2. Owed(i, x, m, "receive", d, log) /\ Reading(i, m, st, n, c, "receive")
  BY DEF SlaveIs
<1>3. Owed(i, y, w, "receive", d, log)
  BY <1>1, <1>2, OwedRead
<1>4. w \in Seq(BYTE)
  BY <1>1, CatIs
<1>5. Owed(i, y, w, "reply", d, log)
  BY <1>3, <1>4, OwedTaken
<1>6. Reading(i, w, st, n, b, "reply")
  BY <1>2, <1>4, ReadingEnds
<1>7. Waiting(i, r) /\ MapIs(t)
  BY DEF SlaveIs
<1>. QED  BY <1>1, <1>5, <1>6, <1>7, Zenon DEF SlaveIs

\* The request q in m is executed on the tables t: u are the tables then, and a
\* waits, which is nothing or the answer.
Execution(m, q, t, u, p, a) ==
  /\ q = Body(m) /\ u \in {t, modbus_reply(t, q).map} /\ p \in {"receive", "sleep"}
  /\ a = <<>> \/ (m[1].v # BROADCAST /\ a = Frame(m[1].v, modbus_reply(t, q).pdu))

\* It executes the request it has taken.
LEMMA SlaveExecutes ==
  ASSUME NEW i, NEW x, NEW m, NEW st, NEW n, NEW c, NEW r, NEW t, NEW d,
         NEW log \in Seq(Entry), SlaveIs(i, x, m, st, n, c, "reply", r, t, d, log),
         \A k \in 1..Len(log) : Proper(log[k].pdu),
         NEW q, NEW u, NEW p, NEW a, Execution(m, q, t, u, p, a)
  PROVE  /\ SlaveIs(i, x, <<>>, "function", 2, c, p, a, u, Append(d, q), log)
         /\ m[1].v \in {i, BROADCAST}
         /\ modbus_reply(t, q).pdu \in Seq(uint8_t) /\ Len(modbus_reply(t, q).pdu) > 0
<1>0. /\ q = Body(m) /\ u \in {t, modbus_reply(t, q).map} /\ p \in {"receive", "sleep"}
      /\ a = <<>> \/ (m[1].v # BROADCAST /\ a = Frame(m[1].v, modbus_reply(t, q).pdu))
  BY DEF Execution
<1>1. x \in Seq(BYTE) /\ m \in Seq(BYTE) /\ d \in Seq(Seq(uint8_t)) /\ c \in BOOLEAN
  BY SlaveParts
<1>2. Owed(i, x, m, "reply", d, log) /\ Reading(i, m, st, n, c, "reply") /\ MapIs(t)
  BY DEF SlaveIs
<1>3. m[1].v \in {i, BROADCAST} /\ Ended(m, FALSE)
  BY <1>2 DEF Reading
<1>4. Owed(i, x, <<>>, p, Append(d, q), log) /\ \E k \in 1..Len(log) : log[k].pdu = q
  BY <1>0, <1>1, <1>2, OwedExecuted
<1>5. Proper(Body(m))
  BY <1>0, <1>4
<1>6. WholeRequest(q)
  BY <1>0, <1>1, <1>3, <1>5, WholeBody
<1>7. Good(modbus_reply(t, q))
  BY <1>2, <1>6, ReplyGood
<1>8. MapIs(u)
  BY <1>0, <1>2, <1>7 DEF Good
<1>9. modbus_reply(t, q).pdu \in Seq(uint8_t) /\ Len(modbus_reply(t, q).pdu) > 0
  BY <1>7 DEF Good
<1>10. Waiting(i, a)
  BY <1>0, <1>3, <1>9, Zenon DEF Waiting
<1>11. Reading(i, <<>>, "function", 2, c, p)
  BY <1>0, <1>1, ReadingBegins
<1>12. Append(d, q) \in Seq(Seq(uint8_t))
  BY <1>1, <1>6 DEF WholeRequest
<1>. QED  BY <1>1, <1>3, <1>4, <1>8, <1>9, <1>10, <1>11, <1>12, Zenon DEF SlaveIs

\* It wakes up: what has come in is flushed, and the answer that waited is sent.
LEMMA SlaveWakes ==
  ASSUME NEW i, NEW x, NEW m, NEW st, NEW n, NEW c, NEW r, NEW t, NEW d,
         NEW log \in Seq(Entry), SlaveIs(i, x, m, st, n, c, "sleep", r, t, d, log)
  PROVE  SlaveIs(i, <<>>, m, st, n, c, "receive", <<>>, t, d, log)
<1>1. x \in Seq(BYTE) /\ m \in Seq(BYTE) /\ d \in Seq(Seq(uint8_t))
  BY SlaveParts
<1>2. Owed(i, x, m, "sleep", d, log) /\ Reading(i, m, st, n, c, "sleep") /\ MapIs(t)
  BY DEF SlaveIs
<1>3. Reading(i, m, st, n, c, "receive") /\ m = <<>>
  BY <1>2, ReadingWakes
<1>4. Owed(i, <<>>, <<>>, "receive", d, log)
  <2>1. "sleep" \in {"receive", "sleep"} /\ "receive" \in {"receive", "sleep"} /\ <<>> \in {x, <<>>}
    OBVIOUS
  <2>. QED  BY <1>1, <1>2, <2>1, OwedDropped
<1>5. Waiting(i, <<>>) /\ <<>> \in Seq(BYTE)
  BY DEF Waiting
<1>. QED  BY <1>1, <1>2, <1>3, <1>4, <1>5, Zenon DEF SlaveIs

-----------------------------------------------------------------------------
(* All slaves.                                                             *)

Typed ==
  /\ rx \in [Slaves -> Seq(BYTE)] /\ msg \in [Slaves -> Seq(BYTE)] /\ rsp \in [Slaves -> Seq(BYTE)]
  /\ step \in [Slaves -> {"function", "meta", "data"}] /\ to_read \in [Slaves -> Nat]
  /\ confirmation_to_ignore \in [Slaves -> BOOLEAN]
  /\ pc \in [Slaves -> {"receive", "reply", "sleep"}]
  /\ map = [i \in Slaves |-> map[i]] /\ done \in [Slaves -> Seq(Seq(uint8_t))]
  /\ master \in {"idle", "wait", "rest"} /\ faults \in 0..MaxFaults

Sent == sent \in Seq(Entry) /\ \A k \in 1..Len(sent) : Proper(sent[k].pdu)

At(i) == SlaveIs(i, rx[i], msg[i], step[i], to_read[i], confirmation_to_ignore[i],
                 pc[i], rsp[i], map[i], done[i], sent)

Inv == Typed /\ Sent /\ \A i \in Slaves : At(i)

\* Nothing of slave j changes but what it hears.
Alone(j) ==
  /\ msg'[j] = msg[j] /\ step'[j] = step[j] /\ to_read'[j] = to_read[j]
  /\ confirmation_to_ignore'[j] = confirmation_to_ignore[j] /\ pc'[j] = pc[j]
  /\ rsp'[j] = rsp[j] /\ map'[j] = map[j] /\ done'[j] = done[j]

LEMMA StaysAlone ==
  ASSUME NEW j, At(j), Alone(j), rx'[j] = rx[j], sent' = sent
  PROVE  At(j)'
BY DEF At, Alone

\* The first steps of Recv: what is read, and what is made of it.
LEMMA RecvIs ==
  ASSUME NEW i \in Slaves, Typed, At(i), Recv(i)
  PROVE  \E s \in Seq(BYTE), y \in Seq(BYTE) :
           LET w == msg[i] \o s
               c == confirmation_to_ignore[i]
           IN  /\ rx[i] = s \o y
               /\ \/ /\ Len(s) < to_read[i]
                     /\ More(i, w, y, step[i], to_read[i] - Len(s))
                  \/ /\ Len(s) = to_read[i] /\ Len(w) = 2 /\ Meta(w, c) > 0
                     /\ More(i, w, y, "meta", Meta(w, c))
                  \/ /\ Len(s) = to_read[i] /\ Len(w) = 2 + Meta(w, c)
                     /\ Len(w) + Data(w, c) <= max_adu_length
                     /\ More(i, w, y, "data", Data(w, c))
                  \/ /\ Len(s) = to_read[i] /\ Len(w) = 2 + Meta(w, c)
                     /\ Len(w) + Data(w, c) > max_adu_length
                     /\ GiveUp(i, y)
                  \/ /\ Len(s) = to_read[i] /\ step[i] = "data"
                     /\ Complete(i, w, y)
<1>. DEFINE k == IF Len(rx[i]) < to_read[i] THEN Len(rx[i]) ELSE to_read[i]
            m == msg[i] \o SubSeq(rx[i], 1, k)
            rest == SubSeq(rx[i], k + 1, Len(rx[i]))
            pdu == Values(Tail(m))
            meta == compute_meta_length_after_function(pdu[1], msg_type(i))
            data == compute_data_length_after_meta(pdu, msg_type(i), checksum_length)
            whole == k = to_read[i]
            to_meta == whole /\ step[i] = "function" /\ meta > 0
            to_data == whole /\ step[i] # "data" /\ ~to_meta
<1>1. \/ ~whole /\ More(i, m, rest, step[i], to_read[i] - k)
      \/ to_meta /\ More(i, m, rest, "meta", meta)
      \/ to_data /\ ~TooManyData(m, data) /\ More(i, m, rest, "data", data)
      \/ to_data /\ TooManyData(m, data) /\ GiveUp(i, rest)
      \/ whole /\ step[i] = "data" /\ Complete(i, m, rest)
  <2>1. (CASE ~whole -> More(i, m, rest, step[i], to_read[i] - k)
          [] to_meta -> More(i, m, rest, "meta", meta)
          [] to_data /\ ~TooManyData(m, data) -> More(i, m, rest, "data", data)
          [] to_data /\ TooManyData(m, data) -> GiveUp(i, rest)
          [] OTHER -> Complete(i, m, rest))
    BY DEF Recv
  <2>. HIDE DEF k, m, rest, meta, data, pdu
  <2>. QED  BY <2>1
<1>2. rx[i] \in Seq(BYTE) /\ to_read[i] \in Nat /\ confirmation_to_ignore[i] \in BOOLEAN
  BY DEF Typed
<1>3. k \in Nat /\ k <= Len(rx[i]) /\ k <= to_read[i]
  BY <1>2
<1>4. PICK s, y, w, kk : s = SubSeq(rx[i], 1, k) /\ y = rest /\ w = m /\ kk = k
  OBVIOUS
<1>5. s \in Seq(BYTE) /\ y \in Seq(BYTE) /\ Len(s) = kk /\ rx[i] = s \o y /\ w = msg[i] \o s
  <2>. HIDE DEF k
  <2>. QED  BY <1>2, <1>3, <1>4, PartsAre
<1>6. PICK c, n, st : c = confirmation_to_ignore[i] /\ n = to_read[i] /\ st = step[i]
  OBVIOUS
<1>7. Reading(i, msg[i], st, n, c, "receive")
  <2>1. pc[i] = "receive"
    BY DEF Recv
  <2>. QED  BY <1>6, <2>1 DEF At, SlaveIs
<1>8. ASSUME whole
      PROVE  /\ Len(s) = n /\ w \in Seq(BYTE) /\ Len(w) >= 2 /\ meta = Meta(w, c) /\ data = Data(w, c)
             /\ st = "function" => Len(w) = 2
             /\ st = "meta" => Len(w) = 2 + Meta(w, c)
  <2>1. Len(s) = n
    BY <1>4, <1>5, <1>6, <1>8
  <2>2. /\ w \in Seq(BYTE) /\ Len(w) >= 2 /\ (st = "function" => Len(w) = 2)
        /\ (st = "meta" => Len(w) = 2 + Meta(w, c)) /\ c \in BOOLEAN
    <3>. HIDE DEF k, m, rest, whole, pdu, meta, data
    <3>1. PICK mm : mm = msg[i]
      OBVIOUS
    <3>2. Reading(i, mm, st, n, c, "receive") /\ s \in Seq(BYTE) /\ w = mm \o s
      BY <1>5, <1>7, <3>1
    <3>3. /\ mm \o s \in Seq(BYTE) /\ Len(mm \o s) >= 2 /\ c \in BOOLEAN
          /\ st = "function" => Len(mm \o s) = 2
          /\ st = "meta" => Len(mm \o s) = 2 + Meta(mm \o s, c)
      BY <2>1, <3>2, StepRead
    <3>. QED  BY <3>2, <3>3, Zenon
  <2>3. Values(Tail(w))[1] = w[2].v
    BY <2>2, PduIs
  <2>4. msg_type(i) = Kind(c)
    BY <1>6 DEF msg_type, Kind
  <2>5. meta = Meta(w, c) /\ data = Data(w, c)
    <3>1. pdu = Values(Tail(w))
      BY <1>4
    <3>. HIDE DEF pdu
    <3>. QED  BY <2>3, <2>4, <3>1 DEF Meta, Data
  <2>. QED  BY <2>1, <2>2, <2>5
<1>. HIDE DEF k, m, rest, pdu, meta, data
<1>9. CASE ~whole /\ More(i, m, rest, step[i], to_read[i] - k)
  <2>1. Len(s) < to_read[i]
    BY <1>2, <1>3, <1>4, <1>5, <1>9
  <2>. QED  BY <1>4, <1>5, <1>9, <2>1
<1>10. CASE to_meta /\ More(i, m, rest, "meta", meta)
  <2>1. Len(s) = n /\ Len(w) = 2 /\ meta = Meta(w, c) /\ meta > 0
    BY <1>6, <1>8, <1>10
  <2>. QED  BY <1>4, <1>5, <1>6, <1>10, <2>1
<1>11. ASSUME to_data
       PROVE  /\ Len(s) = n /\ data = Data(w, c) /\ Len(w) = 2 + Meta(w, c)
              /\ w \in Seq(BYTE) /\ Data(w, c) \in Nat
  <2>1. Len(s) = n /\ meta = Meta(w, c) /\ data = Data(w, c) /\ w \in Seq(BYTE) /\ Len(w) >= 2 /\ c \in BOOLEAN
    BY <1>2, <1>6, <1>8, <1>11
  <2>2. Meta(w, c) \in Nat
    BY <2>1, MetaIs
  <2>3. Len(w) = 2 + Meta(w, c)
    <3>1. CASE st = "function"
      <4>1. Len(w) = 2 /\ ~(meta > 0)
        BY <1>6, <1>8, <1>11, <3>1
      <4>2. Meta(w, c) = 0
        BY <2>1, <2>2, <4>1
      <4>. QED  BY <4>1, <4>2
    <3>2. CASE st = "meta"
      BY <1>8, <1>11, <3>2
    <3>3. st \in {"function", "meta", "data"} /\ st # "data"
      BY <1>6, <1>7, <1>11 DEF Reading
    <3>. QED  BY <3>1, <3>2, <3>3
  <2>4. Len(w) >= 2 + Meta(w, c)
    BY <2>2, <2>3
  <2>5. Data(w, c) \in Nat
    BY <2>1, <2>4, DataIs
  <2>. QED  BY <2>1, <2>3, <2>5
<1>12. CASE to_data /\ ~TooManyData(m, data) /\ More(i, m, rest, "data", data)
  <2>1. Len(w) + Data(w, c) <= max_adu_length
    <3>1. ~(Len(w) + Data(w, c) > max_adu_length)
      BY <1>4, <1>11, <1>12 DEF TooManyData
    <3>. QED  BY <1>11, <1>12, <3>1 DEF max_adu_length
  <2>. QED  BY <1>4, <1>5, <1>6, <1>11, <1>12, <2>1
<1>13. CASE to_data /\ TooManyData(m, data) /\ GiveUp(i, rest)
  <2>1. Len(w) + Data(w, c) > max_adu_length
    BY <1>4, <1>11, <1>13 DEF TooManyData
  <2>. QED  BY <1>4, <1>5, <1>6, <1>11, <1>13, <2>1
<1>14. CASE whole /\ step[i] = "data" /\ Complete(i, m, rest)
  <2>1. Len(s) = to_read[i]
    BY <1>6, <1>8, <1>14
  <2>. QED  BY <1>4, <1>5, <1>14, <2>1
<1>. QED  BY <1>1, <1>9, <1>10, <1>12, <1>13, <1>14

-----------------------------------------------------------------------------
(* Steps of a slave.                                                       *)

\* Slave j hears nothing, or an answer of another slave.
Overhears(j) ==
  \/ rx'[j] = rx[j]
  \/ \E g, vs : Cargo(g, vs) /\ vs # <<>> /\ vs[1] \notin {j, BROADCAST} /\ rx'[j] = rx[j] \o g

\* Slave i changes and the others hear at most its answer.
LEMMA SlaveMoves ==
  ASSUME Inv, NEW i \in Slaves, NEW x, NEW m, NEW st, NEW n, NEW c, NEW p, NEW r, NEW t, NEW d,
         SlaveIs(i, x, m, st, n, c, p, r, t, d, sent), r \in Seq(BYTE),
         rx' \in [Slaves -> Seq(BYTE)], rx'[i] = x,
         msg' = [msg EXCEPT ![i] = m], step' = [step EXCEPT ![i] = st],
         to_read' = [to_read EXCEPT ![i] = n],
         confirmation_to_ignore' = [confirmation_to_ignore EXCEPT ![i] = c],
         pc' = [pc EXCEPT ![i] = p], rsp' = [rsp EXCEPT ![i] = r], map' = [map EXCEPT ![i] = t],
         done' = [done EXCEPT ![i] = d], sent' = sent,
         master' \in {"idle", "wait", "rest"}, faults' \in 0..MaxFaults,
         \A j \in Slaves \ {i} : Overhears(j)
  PROVE  Inv'
<1>1. Typed /\ Sent
  BY DEF Inv
<1>2. /\ m \in Seq(BYTE) /\ d \in Seq(Seq(uint8_t)) /\ n \in Nat /\ c \in BOOLEAN
      /\ st \in {"function", "meta", "data"} /\ p \in {"receive", "reply", "sleep"}
  BY SlaveParts
<1>3. Typed'
  BY <1>1, <1>2 DEF Typed
<1>4. Sent'
  BY <1>1 DEF Sent
<1>5. At(i)'
  <2>1. /\ msg'[i] = m /\ step'[i] = st /\ to_read'[i] = n /\ confirmation_to_ignore'[i] = c
        /\ pc'[i] = p /\ rsp'[i] = r /\ map'[i] = t /\ done'[i] = d
    BY <1>1 DEF Typed
  <2>. QED  BY <2>1, Zenon DEF At
<1>6. ASSUME NEW j \in Slaves \ {i} PROVE At(j)'
  <2>1. Alone(j)
    BY <1>1 DEF Typed, Alone
  <2>2. At(j)
    BY DEF Inv
  <2>3. CASE rx'[j] = rx[j]
    BY <2>1, <2>2, <2>3, StaysAlone
  <2>4. CASE \E g, vs : Cargo(g, vs) /\ vs # <<>> /\ vs[1] \notin {j, BROADCAST} /\ rx'[j] = rx[j] \o g
    <3>1. PICK g, vs : Cargo(g, vs) /\ vs # <<>> /\ vs[1] \notin {j, BROADCAST} /\ rx'[j] = rx[j] \o g
      BY <2>4
    <3>2. PICK e : e = [slave |-> 0, pdu |-> <<>>, hit |-> FALSE]
      OBVIOUS
    <3>3. e \in Entry
      BY ONLY <3>2 DEF Entry
    <3>4. PICK log : log = sent
      OBVIOUS
    <3>5. log \in Seq(Entry) /\ log \in {log, Append(log, e)}
      BY <1>1, <3>4 DEF Sent
    <3>6. PICK xj, mj, sj, nj, cj, pj, rj, tj, dj :
            /\ xj = rx[j] /\ mj = msg[j] /\ sj = step[j] /\ nj = to_read[j]
            /\ cj = confirmation_to_ignore[j] /\ pj = pc[j] /\ rj = rsp[j] /\ tj = map[j] /\ dj = done[j]
      OBVIOUS
    <3>7. SlaveIs(j, xj, mj, sj, nj, cj, pj, rj, tj, dj, log)
      BY <2>2, <3>4, <3>6, Zenon DEF At
    <3>8. SlaveIs(j, xj \o g, mj, sj, nj, cj, pj, rj, tj, dj, log)
      BY <3>1, <3>3, <3>5, <3>7, SlaveHears
    <3>9. /\ rx'[j] = xj \o g /\ msg'[j] = mj /\ step'[j] = sj /\ to_read'[j] = nj
          /\ confirmation_to_ignore'[j] = cj /\ pc'[j] = pj /\ rsp'[j] = rj /\ map'[j] = tj
          /\ done'[j] = dj /\ sent' = log
      BY <2>1, <3>1, <3>4, <3>6, Zenon DEF Alone
    <3>. QED  BY <3>8, <3>9, Zenon DEF At
  <2>. QED  BY <2>3, <2>4 DEF Overhears
<1>. QED  BY <1>3, <1>4, <1>5, <1>6 DEF Inv

\* Slave i reads: nothing is heard and nothing executed.
LEMMA SlaveStays ==
  ASSUME Inv, NEW i \in Slaves, NEW x, NEW m, NEW st, NEW n, NEW c, NEW p,
         SlaveIs(i, x, m, st, n, c, p, rsp[i], map[i], done[i], sent),
         rx' = [rx EXCEPT ![i] = x],
         msg' = [msg EXCEPT ![i] = m], step' = [step EXCEPT ![i] = st],
         to_read' = [to_read EXCEPT ![i] = n],
         confirmation_to_ignore' = [confirmation_to_ignore EXCEPT ![i] = c],
         pc' = [pc EXCEPT ![i] = p],
         UNCHANGED <<rsp, map, done, master, sent, faults>>
  PROVE  Inv'
<1>1. Typed
  BY DEF Inv
<1>2. PICK r, t, d : r = rsp[i] /\ t = map[i] /\ d = done[i]
  OBVIOUS
<1>3. SlaveIs(i, x, m, st, n, c, p, r, t, d, sent)
  BY <1>2, Zenon
<1>4. x \in Seq(BYTE)
  BY <1>3, SlaveParts
<1>5. r \in Seq(BYTE)
  BY <1>1, <1>2 DEF Typed
<1>6. rx' \in [Slaves -> Seq(BYTE)] /\ rx'[i] = x /\ \A j \in Slaves \ {i} : rx'[j] = rx[j]
  BY <1>1, <1>4 DEF Typed
<1>7. /\ rsp' = [rsp EXCEPT ![i] = r] /\ done' = [done EXCEPT ![i] = d]
      /\ master' \in {"idle", "wait", "rest"} /\ faults' \in 0..MaxFaults
  BY <1>1, <1>2 DEF Typed
<1>8. map' = [map EXCEPT ![i] = t]
  BY <1>1, <1>2 DEF Typed
<1>9. \A j \in Slaves \ {i} : Overhears(j)
  BY <1>6 DEF Overhears
<1>. QED  BY <1>3, <1>5, <1>6, <1>7, <1>8, <1>9, SlaveMoves

LEMMA RecvKeeps ==
  ASSUME Inv, NEW i \in Slaves, Recv(i)
  PROVE  Inv'
<1>1. Typed /\ Sent /\ At(i) /\ pc[i] = "receive"
  BY DEF Inv, Recv
<1>2. UNCHANGED <<rsp, map, done, master, sent, faults>>
  BY DEF Recv
<1>3. PICK x, m, st, n, c, r, t, d, log :
        /\ x = rx[i] /\ m = msg[i] /\ st = step[i] /\ n = to_read[i] /\ c = confirmation_to_ignore[i]
        /\ r = rsp[i] /\ t = map[i] /\ d = done[i] /\ log = sent
  OBVIOUS
<1>4. SlaveIs(i, x, m, st, n, c, "receive", r, t, d, log) /\ log \in Seq(Entry)
  BY <1>1, <1>3, Zenon DEF At, Sent
<1>5. Reading(i, m, st, n, c, "receive") /\ c \in BOOLEAN /\ m \in Seq(BYTE)
  BY <1>4 DEF SlaveIs, Reading
<1>6. PICK s \in Seq(BYTE), y \in Seq(BYTE), w \in Seq(BYTE) :
        /\ x = s \o y /\ w = m \o s
        /\ \/ Len(s) < n /\ More(i, w, y, st, n - Len(s))
           \/ Len(s) = n /\ Len(w) = 2 /\ Meta(w, c) > 0 /\ More(i, w, y, "meta", Meta(w, c))
           \/ /\ Len(s) = n /\ Len(w) = 2 + Meta(w, c)
              /\ Len(w) + Data(w, c) <= max_adu_length
              /\ More(i, w, y, "data", Data(w, c))
           \/ GiveUp(i, y)
           \/ Len(s) = n /\ st = "data" /\ Complete(i, w, y)
  BY <1>1, <1>3, <1>5, CatIs, RecvIs
<1>7. w \in Seq(BYTE)
  BY <1>5, <1>6, CatIs
<1>8. ASSUME NEW stt, NEW k, Reading(i, w, stt, k, c, "receive"), More(i, w, y, stt, k)
      PROVE  Inv'
  <2>1. SlaveIs(i, y, w, stt, k, c, "receive", r, t, d, log)
    BY <1>4, <1>6, <1>8, SlaveReads
  <2>2. SlaveIs(i, y, w, stt, k, c, "receive", rsp[i], map[i], done[i], sent)
    BY <1>3, <2>1, Zenon
  <2>3. /\ rx' = [rx EXCEPT ![i] = y] /\ msg' = [msg EXCEPT ![i] = w]
        /\ step' = [step EXCEPT ![i] = stt] /\ to_read' = [to_read EXCEPT ![i] = k]
    BY <1>8 DEF More
  <2>4. /\ confirmation_to_ignore' = [confirmation_to_ignore EXCEPT ![i] = c]
        /\ pc' = [pc EXCEPT ![i] = "receive"]
    BY <1>1, <1>3, <1>8 DEF More, Typed
  <2>. QED  BY <1>2, <2>2, <2>3, <2>4, SlaveStays
<1>9. ASSUME NEW z \in {y, <<>>}, NEW b \in BOOLEAN, Restart(i), rx' = [rx EXCEPT ![i] = z],
             confirmation_to_ignore' = [confirmation_to_ignore EXCEPT ![i] = b], UNCHANGED pc
      PROVE  Inv'
  <2>1. SlaveIs(i, z, <<>>, "function", 2, b, "receive", r, t, d, log)
    <3>1. "receive" \in {"receive", "sleep"}
      OBVIOUS
    <3>2. Split(x, s, y) /\ Left(y, z, b, "receive")
      BY <1>6, <1>9, <3>1 DEF Split, Left
    <3>. QED  BY <1>4, <3>2, SlaveDrops, Zenon
  <2>2. SlaveIs(i, z, <<>>, "function", 2, b, "receive", rsp[i], map[i], done[i], sent)
    BY <1>3, <2>1, Zenon
  <2>3. /\ msg' = [msg EXCEPT ![i] = <<>>] /\ step' = [step EXCEPT ![i] = "function"]
        /\ to_read' = [to_read EXCEPT ![i] = 2]
    BY <1>9 DEF Restart
  <2>4. pc' = [pc EXCEPT ![i] = "receive"]
    BY <1>1, <1>9 DEF Typed
  <2>. QED  BY <1>2, <1>9, <2>2, <2>3, <2>4, SlaveStays
<1>10. CASE Len(s) < n /\ More(i, w, y, st, n - Len(s))
  <2>1. Reading(i, w, st, n - Len(s), c, "receive")
    BY <1>5, <1>6, <1>10, ReadingGoesOn
  <2>. QED  BY <1>8, <1>10, <2>1
<1>11. CASE Len(s) = n /\ Len(w) = 2 /\ Meta(w, c) > 0 /\ More(i, w, y, "meta", Meta(w, c))
  <2>1. Reading(i, w, "meta", Meta(w, c), c, "receive")
    BY <1>5, <1>7, <1>11, ReadingMeta
  <2>. QED  BY <1>8, <1>11, <2>1
<1>12. CASE /\ Len(s) = n /\ Len(w) = 2 + Meta(w, c) /\ Len(w) + Data(w, c) <= max_adu_length
            /\ More(i, w, y, "data", Data(w, c))
  <2>1. Len(w) >= 2
    BY <1>5, <1>6, <1>12, StepRead
  <2>2. Reading(i, w, "data", Data(w, c), c, "receive")
    BY <1>5, <1>7, <1>12, <2>1, ReadingData
  <2>. QED  BY <1>8, <1>12, <2>2
<1>13. CASE GiveUp(i, y)
  <2>1. PICK b : b = (~c /\ -1 = 0)
    OBVIOUS
  <2>2. confirmation_to_ignore' = [confirmation_to_ignore EXCEPT ![i] = b] /\ b \in BOOLEAN
    BY <1>3, <1>13, <2>1 DEF GiveUp, receive
  <2>3. Restart(i) /\ rx' = [rx EXCEPT ![i] = y] /\ UNCHANGED pc /\ y \in {y, <<>>}
    BY <1>13 DEF GiveUp
  <2>. QED  BY <1>9, <2>2, <2>3
<1>14. CASE Len(s) = n /\ st = "data" /\ Complete(i, w, y)
  <2>1. /\ Len(w) >= 3 /\ Len(w) <= max_adu_length /\ (~c => Ended(w, FALSE))
    BY <1>5, <1>6, <1>14, StepRead
  <2>2. PICK rc : rc = check_integrity(i, w)
    OBVIOUS
  <2>3. PICK b : b = (~c /\ rc = 0)
    OBVIOUS
  <2>4. confirmation_to_ignore' = [confirmation_to_ignore EXCEPT ![i] = b] /\ b \in BOOLEAN
    BY <1>3, <1>14, <2>2, <2>3 DEF Complete, receive
  <2>5. PICK z : z = IF rc = -1 /\ "PROTOCOL" \in error_recovery THEN <<>> ELSE y
    OBVIOUS
  <2>6. rx' = [rx EXCEPT ![i] = z] /\ z \in {y, <<>>}
    BY <1>14, <2>2, <2>5 DEF Complete
  <2>7. CASE ~(rc > 0 /\ ~c)
    <3>1. Restart(i) /\ UNCHANGED pc
      BY <1>3, <1>14, <2>2, <2>7 DEF Complete
    <3>. QED  BY <1>9, <2>4, <2>6, <3>1
  <2>8. CASE rc > 0 /\ ~c
    <3>1. /\ msg' = [msg EXCEPT ![i] = w] /\ pc' = [pc EXCEPT ![i] = "reply"]
          /\ UNCHANGED <<step, to_read>>
      BY <1>3, <1>14, <2>2, <2>8 DEF Complete
    <3>2. w[1].v \in {i, BROADCAST} /\ crc_matches(w)
      BY <2>2, <2>8 DEF check_integrity
    <3>3. z = y
      BY <2>5, <2>8
    <3>4. SlaveIs(i, y, w, st, n, b, "reply", r, t, d, log)
      BY <1>4, <1>6, <2>1, <2>4, <2>8, <3>2, SlaveTakes
    <3>5. SlaveIs(i, z, w, st, n, b, "reply", rsp[i], map[i], done[i], sent)
      BY <1>3, <3>3, <3>4, Zenon
    <3>6. step' = [step EXCEPT ![i] = st] /\ to_read' = [to_read EXCEPT ![i] = n]
      BY <1>1, <1>3, <3>1 DEF Typed
    <3>. QED  BY <1>2, <2>4, <2>6, <3>1, <3>5, <3>6, SlaveStays
  <2>. QED  BY <2>7, <2>8
<1>. QED  BY <1>6, <1>10, <1>11, <1>12, <1>13, <1>14

LEMMA TimeoutKeeps ==
  ASSUME Inv, NEW i \in Slaves, Timeout(i)
  PROVE  Inv'
<1>1. Typed /\ Sent /\ At(i) /\ pc[i] = "receive"
  BY DEF Inv, Timeout
<1>2. UNCHANGED <<rsp, map, done, master, sent, faults>> /\ rx' = rx
  BY DEF Timeout
<1>3. PICK x, m, st, n, c, r, t, d, log :
        /\ x = rx[i] /\ m = msg[i] /\ st = step[i] /\ n = to_read[i] /\ c = confirmation_to_ignore[i]
        /\ r = rsp[i] /\ t = map[i] /\ d = done[i] /\ log = sent
  OBVIOUS
<1>4. SlaveIs(i, x, m, st, n, c, "receive", r, t, d, log) /\ log \in Seq(Entry)
  BY <1>1, <1>3, Zenon DEF At, Sent
<1>5. x \in Seq(BYTE) /\ <<>> \in Seq(BYTE) /\ x \in {x, <<>>}
  BY <1>4, SlaveParts
<1>6. x = <<>> \o x
  BY <1>5, NothingBefore
<1>7. PICK b : b = (~c /\ -1 = 0)
  OBVIOUS
<1>8. confirmation_to_ignore' = [confirmation_to_ignore EXCEPT ![i] = b] /\ b \in BOOLEAN
  BY <1>3, <1>7 DEF Timeout, receive
<1>9. PICK p : p = IF "LINK" \in error_recovery THEN "sleep" ELSE pc[i]
  OBVIOUS
<1>10. pc' = [pc EXCEPT ![i] = p] /\ p \in {"receive", "sleep"}
  BY <1>1, <1>9 DEF Timeout
<1>11. /\ msg' = [msg EXCEPT ![i] = <<>>] /\ step' = [step EXCEPT ![i] = "function"]
       /\ to_read' = [to_read EXCEPT ![i] = 2]
  BY DEF Timeout, Restart
<1>12. SlaveIs(i, x, <<>>, "function", 2, b, p, r, t, d, log)
  <2>1. Split(x, <<>>, x) /\ Left(x, x, b, p)
    BY <1>5, <1>6, <1>8, <1>10, Zenon DEF Split, Left
  <2>. QED  BY <1>4, <2>1, SlaveDrops, Zenon
<1>13. SlaveIs(i, x, <<>>, "function", 2, b, p, rsp[i], map[i], done[i], sent)
  BY <1>3, <1>12, Zenon
<1>14. rx' = [rx EXCEPT ![i] = x]
  BY <1>1, <1>2, <1>3 DEF Typed
<1>. QED  BY <1>2, <1>8, <1>10, <1>11, <1>13, <1>14, SlaveStays

-----------------------------------------------------------------------------
(* Answers.                                                                *)

LEMMA SlaveId == \A i \in Slaves : i \in uint8_t /\ i # BROADCAST
<1>. SUFFICES ASSUME NEW i \in Slaves PROVE i \in uint8_t /\ i # BROADCAST
  OBVIOUS
<1>1. i \in 1..247
  BY SlavesAssumption
<1>2. i \in Nat /\ i <= 255 /\ i # 0
  BY ONLY <1>1
<1>. QED  BY <1>2, Uint8 DEF BROADCAST

\* What becomes of an answer of slave i, heard being what has come in before.
Spreads(i, heard) ==
  /\ master' \in {"idle", "wait", "rest"} /\ faults' \in 0..MaxFaults
  /\ rx' \in [Slaves -> Seq(BYTE)] /\ rx'[i] = heard[i]
  /\ \A j \in Slaves \ {i} : \E g, vs :
       Cargo(g, vs) /\ vs # <<>> /\ vs[1] \notin {j, BROADCAST} /\ rx'[j] = heard[j] \o g

\* The answer of slave i, or what noise makes of it, reaches the others.
LEMMA SendIs ==
  ASSUME NEW i \in Slaves, NEW pdu \in Seq(uint8_t), Len(pdu) > 0,
         NEW heard \in [Slaves -> Seq(BYTE)], Typed, Send(i, heard, Frame(i, pdu))
  PROVE  Spreads(i, heard)
<1>1. PICK f : f = Frame(i, pdu)
  OBVIOUS
<1>2. PICK hit \in BOOLEAN :
        /\ Transmit(heard, f, Slaves \ {i}, hit)
        /\ master' = IF master # "wait" THEN master
                     ELSE IF hit \/ (f[2].v >= 128 /\ "exception" \in waits) THEN "rest" ELSE "idle"
  BY <1>1 DEF Send
<1>3. PICK g \in Noisy(f) \cup {f} :
        /\ hit => faults < MaxFaults
        /\ faults' = faults + (IF hit THEN 1 ELSE 0)
        /\ rx' = [j \in Slaves |-> IF j \in Slaves \ {i} THEN heard[j] \o g ELSE heard[j]]
  BY <1>2 DEF Transmit
<1>4. PICK vs : vs = <<i>> \o pdu
  OBVIOUS
<1>5. Cargo(g, vs)
  BY <1>1, <1>3, <1>4, NoisyIs, SlaveId
<1>6. vs # <<>> /\ vs[1] = i
  BY <1>4
<1>7. g \in Seq(BYTE)
  BY <1>5 DEF Cargo
<1>8. master' \in {"idle", "wait", "rest"}
  BY <1>2 DEF Typed
<1>9. faults' \in 0..MaxFaults
  <2>1. faults \in 0..MaxFaults /\ MaxFaults \in Nat
    BY FaultsAssumption DEF Typed
  <2>. QED  BY <1>2, <1>3, <2>1
<1>10. rx'[i] = heard[i] /\ \A j \in Slaves \ {i} : rx'[j] = heard[j] \o g
  BY <1>3
<1>11. rx' \in [Slaves -> Seq(BYTE)]
  <2>1. \A j \in Slaves : heard[j] \in Seq(BYTE) /\ heard[j] \o g \in Seq(BYTE)
    BY <1>7, CatIs
  <2>. QED  BY <1>3, <2>1
<1>12. ASSUME NEW j \in Slaves \ {i} PROVE vs[1] \notin {j, BROADCAST}
  BY <1>6, SlaveId
<1>. QED  BY <1>5, <1>6, <1>8, <1>9, <1>10, <1>11, <1>12, Zenon DEF Spreads

LEMMA ReplyKeeps ==
  ASSUME Inv, NEW i \in Slaves, Reply(i)
  PROVE  Inv'
<1>1. Typed /\ Sent /\ At(i) /\ pc[i] = "reply"
  BY DEF Inv, Reply
<1>2. PICK x, m, st, n, c, r, t, d, log, q :
        /\ x = rx[i] /\ m = msg[i] /\ st = step[i] /\ n = to_read[i] /\ c = confirmation_to_ignore[i]
        /\ r = rsp[i] /\ t = map[i] /\ d = done[i] /\ log = sent /\ q = Body(msg[i])
  OBVIOUS
<1>3. SlaveIs(i, x, m, st, n, c, "reply", r, t, d, log)
  BY <1>1, <1>2, Zenon DEF At
<1>4. log \in Seq(Entry) /\ \A k \in 1..Len(log) : Proper(log[k].pdu)
  BY <1>1, <1>2 DEF Sent
<1>. DEFINE answered == q[1] # Unanswered /\ m[1].v # BROADCAST
            sleeps == q[1] # Unanswered /\ modbus_reply(t, q).to_flush
<1>5. PICK u, p, a, f :
        /\ u = IF q[1] = Unanswered THEN t ELSE modbus_reply(t, q).map
        /\ p = IF sleeps THEN "sleep" ELSE "receive"
        /\ f = Frame(m[1].v, modbus_reply(t, q).pdu)
        /\ a = IF answered /\ sleeps THEN f ELSE <<>>
  OBVIOUS
<1>6. /\ done' = [done EXCEPT ![i] = Append(d, q)]
      /\ map' = [map EXCEPT ![i] = u]
      /\ pc' = [pc EXCEPT ![i] = p]
      /\ rsp' = [rsp EXCEPT ![i] = a]
      /\ IF answered /\ ~sleeps THEN Send(i, rx, f) ELSE UNCHANGED <<rx, master, faults>>
      /\ UNCHANGED <<confirmation_to_ignore, sent>>
  BY <1>2, <1>5 DEF Reply, Body
<1>7. /\ msg' = [msg EXCEPT ![i] = <<>>] /\ step' = [step EXCEPT ![i] = "function"]
      /\ to_read' = [to_read EXCEPT ![i] = 2]
  BY DEF Reply, Restart
<1>8. confirmation_to_ignore' = [confirmation_to_ignore EXCEPT ![i] = c]
  BY <1>1, <1>2, <1>6 DEF Typed
<1>9. /\ u \in {t, modbus_reply(t, q).map} /\ p \in {"receive", "sleep"}
      /\ a = <<>> \/ (m[1].v # BROADCAST /\ a = Frame(m[1].v, modbus_reply(t, q).pdu))
  BY <1>5
<1>11. Execution(m, q, t, u, p, a)
  BY <1>2, <1>9, Zenon DEF Execution
<1>10. PICK pdu : pdu = modbus_reply(t, q).pdu
  OBVIOUS
<1>12. /\ SlaveIs(i, x, <<>>, "function", 2, c, p, a, u, Append(d, q), log)
       /\ m[1].v \in {i, BROADCAST} /\ pdu \in Seq(uint8_t) /\ Len(pdu) > 0
  BY <1>3, <1>4, <1>11, <1>10, SlaveExecutes
<1>13. SlaveIs(i, x, <<>>, "function", 2, c, p, a, u, Append(d, q), sent)
  BY <1>2, <1>12, Zenon
<1>14. a \in Seq(BYTE)
  <2>1. CASE a = <<>>
    BY <2>1
  <2>2. CASE a # <<>>
    <3>1. a = Frame(i, pdu)
      BY <1>9, <1>10, <1>12, <2>2, Zenon
    <3>. QED  BY <1>12, <3>1, FrameIs, SlaveId
  <2>. QED  BY <2>1, <2>2
<1>15. /\ rx' \in [Slaves -> Seq(BYTE)] /\ rx'[i] = x
       /\ master' \in {"idle", "wait", "rest"} /\ faults' \in 0..MaxFaults
       /\ \A j \in Slaves \ {i} : Overhears(j)
  <2>1. CASE answered /\ ~sleeps
    <3>1. f = Frame(i, pdu)
      BY <1>5, <1>10, <1>12, <2>1, Zenon
    <3>2. Send(i, rx, Frame(i, pdu))
      BY <1>6, <2>1, <3>1
    <3>3. PICK heard : heard = rx
      OBVIOUS
    <3>4. Send(i, heard, Frame(i, pdu)) /\ heard \in [Slaves -> Seq(BYTE)]
      BY <1>1, <3>2, <3>3 DEF Typed
    <3>5. Spreads(i, heard)
      BY <1>1, <1>12, <3>4, SendIs
    <3>. QED  BY <1>2, <3>3, <3>5, Zenon DEF Overhears, Spreads
  <2>2. CASE ~(answered /\ ~sleeps)
    <3>1. UNCHANGED <<rx, master, faults>>
      BY <1>6, <2>2
    <3>. QED  BY <1>1, <1>2, <3>1 DEF Typed, Overhears
  <2>. QED  BY <2>1, <2>2
<1>16. sent' = sent
  BY <1>6
<1>. QED  BY <1>6, <1>7, <1>8, <1>13, <1>14, <1>15, <1>16, SlaveMoves

LEMMA WakeUpKeeps ==
  ASSUME Inv, NEW i \in Slaves, WakeUp(i)
  PROVE  Inv'
<1>1. Typed /\ Sent /\ At(i) /\ pc[i] = "sleep"
  BY DEF Inv, WakeUp
<1>2. PICK x, m, st, n, c, r, t, d, log :
        /\ x = rx[i] /\ m = msg[i] /\ st = step[i] /\ n = to_read[i] /\ c = confirmation_to_ignore[i]
        /\ r = rsp[i] /\ t = map[i] /\ d = done[i] /\ log = sent
  OBVIOUS
<1>3. SlaveIs(i, x, m, st, n, c, "sleep", r, t, d, log) /\ log \in Seq(Entry)
  BY <1>1, <1>2, Zenon DEF At, Sent
<1>4. SlaveIs(i, <<>>, m, st, n, c, "receive", <<>>, t, d, log)
  BY <1>3, SlaveWakes
<1>5. SlaveIs(i, <<>>, m, st, n, c, "receive", <<>>, t, d, sent)
  BY <1>2, <1>4, Zenon
<1>6. /\ pc' = [pc EXCEPT ![i] = "receive"] /\ rsp' = [rsp EXCEPT ![i] = <<>>] /\ sent' = sent
      /\ UNCHANGED <<msg, step, to_read, confirmation_to_ignore, map, done>>
  BY DEF WakeUp
<1>7. /\ msg' = [msg EXCEPT ![i] = m] /\ step' = [step EXCEPT ![i] = st]
      /\ to_read' = [to_read EXCEPT ![i] = n]
      /\ confirmation_to_ignore' = [confirmation_to_ignore EXCEPT ![i] = c]
      /\ done' = [done EXCEPT ![i] = d]
  BY <1>1, <1>2, <1>6 DEF Typed
<1>8. map' = [map EXCEPT ![i] = t]
  BY <1>1, <1>2, <1>6 DEF Typed
<1>9. PICK heard : heard = [rx EXCEPT ![i] = <<>>]
  OBVIOUS
<1>10. /\ heard \in [Slaves -> Seq(BYTE)] /\ heard[i] = <<>> /\ <<>> \in Seq(BYTE)
       /\ \A j \in Slaves \ {i} : heard[j] = rx[j]
  BY <1>1, <1>9 DEF Typed
<1>11. IF r = <<>> THEN rx' = heard /\ UNCHANGED <<master, faults>> ELSE Send(i, heard, r)
  BY <1>2, <1>9 DEF WakeUp
<1>12. /\ rx' \in [Slaves -> Seq(BYTE)] /\ rx'[i] = <<>>
       /\ master' \in {"idle", "wait", "rest"} /\ faults' \in 0..MaxFaults
       /\ \A j \in Slaves \ {i} : Overhears(j)
  <2>1. CASE r = <<>>
    BY <1>1, <1>10, <1>11, <2>1 DEF Typed, Overhears
  <2>2. CASE r # <<>>
    <3>1. PICK pdu \in Seq(uint8_t) : Len(pdu) > 0 /\ r = Frame(i, pdu)
      BY <1>3, <2>2 DEF SlaveIs, Waiting
    <3>2. Send(i, heard, Frame(i, pdu))
      BY <1>11, <2>2, <3>1
    <3>3. Spreads(i, heard)
      BY <1>1, <1>10, <3>1, <3>2, SendIs
    <3>. QED  BY <1>10, <3>3, Zenon DEF Overhears, Spreads
  <2>. QED  BY <2>1, <2>2
<1>13. pc' = [pc EXCEPT ![i] = "receive"] /\ rsp' = [rsp EXCEPT ![i] = <<>>] /\ sent' = sent
  BY <1>6
<1>14. <<>> \in Seq(BYTE)
  BY <1>10
<1>. QED  BY <1>5, <1>7, <1>8, <1>12, <1>13, <1>14, SlaveMoves

-----------------------------------------------------------------------------
(* The master, and the theorems.                                           *)

LEMMA MasterSendsKeeps ==
  ASSUME Inv, MasterSends
  PROVE  Inv'
<1>1. Typed /\ Sent /\ \A i \in Slaves : At(i)
  BY DEF Inv
<1>2. PICK log : log = sent
  OBVIOUS
<1>3. log \in Seq(Entry) /\ \A k \in 1..Len(log) : Proper(log[k].pdu)
  BY <1>1, <1>2 DEF Sent
<1>4. PICK r \in Requests[Len(log) + 1], hit \in BOOLEAN :
        /\ Transmit(rx, Frame(r[1], r[2]), Slaves, hit)
        /\ sent' = Append(log, [slave |-> r[1], pdu |-> r[2], hit |-> hit])
  BY <1>2 DEF MasterSends
<1>5. PICK k : k = Len(log) + 1
  OBVIOUS
<1>6. k \in 1..Len(Requests) /\ Requests[k] \subseteq (0..247) \X Seq(uint8_t)
  <2>1. Len(log) < Len(Requests) /\ Len(log) \in Nat
    BY <1>2, <1>3 DEF MasterSends
  <2>2. Requests \in Seq(SUBSET ((0..247) \X Seq(uint8_t)))
    BY RequestsAssumption
  <2>3. Len(Requests) \in Nat
    BY <2>2
  <2>4. k \in 1..Len(Requests)
    BY <1>5, <2>1, <2>3
  <2>. QED  BY <2>2, <2>4
<1>7. PICK id, pdu : id = r[1] /\ pdu = r[2]
  OBVIOUS
<1>8. id \in 0..247 /\ pdu \in Seq(uint8_t)
  BY <1>4, <1>5, <1>6, <1>7
<1>9. Proper(pdu) /\ Len(pdu) > 0
  BY <1>4, <1>5, <1>6, <1>7, RequestsAssumption DEF Proper
<1>10. id \in uint8_t
  <2>1. id \in 0..247
    BY <1>8
  <2>2. id \in Nat /\ id <= 255
    BY ONLY <2>1
  <2>. QED  BY <2>2, Uint8
<1>11. PICK e : e = [slave |-> id, pdu |-> pdu, hit |-> hit]
  OBVIOUS
<1>12. e \in Entry /\ e.slave = id /\ e.pdu = pdu
  BY <1>8, <1>11 DEF Entry
<1>13. PICK more : more = Append(log, e)
  OBVIOUS
<1>14. sent' = more
  BY <1>4, <1>7, <1>11, <1>13
<1>15. PICK f, vs : f = Frame(id, pdu) /\ vs = <<id>> \o pdu
  OBVIOUS
<1>16. PICK g \in Noisy(f) \cup {f} :
         /\ hit => faults < MaxFaults
         /\ faults' = faults + (IF hit THEN 1 ELSE 0)
         /\ rx' = [j \in Slaves |-> IF j \in Slaves THEN rx[j] \o g ELSE rx[j]]
  BY <1>4, <1>7, <1>15 DEF Transmit
<1>17. Cargo(g, vs)
  BY <1>8, <1>9, <1>10, <1>15, <1>16, NoisyIs
<1>18. g \in Seq(BYTE)
  BY <1>17 DEF Cargo
<1>19. /\ UNCHANGED <<msg, step, to_read, confirmation_to_ignore, pc, rsp, map, done>>
       /\ master' = "wait"
  BY DEF MasterSends, slave
<1>20. \A j \in Slaves : rx'[j] = rx[j] \o g
  BY <1>16
<1>21. Typed'
  <2>1. faults' \in 0..MaxFaults
    <3>1. faults \in 0..MaxFaults /\ MaxFaults \in Nat
      BY <1>1, FaultsAssumption DEF Typed
    <3>. QED  BY <1>4, <1>16, <3>1
  <2>2. rx' \in [Slaves -> Seq(BYTE)]
    <3>1. \A j \in Slaves : rx[j] \in Seq(BYTE)
      BY <1>1 DEF Typed
    <3>2. \A j \in Slaves : rx[j] \o g \in Seq(BYTE)
      BY <1>18, <3>1, CatIs
    <3>. QED  BY <1>16, <3>2
  <2>. QED  BY <1>1, <1>19, <2>1, <2>2 DEF Typed
<1>22. Sent'
  <2>1. more \in Seq(Entry) /\ Len(more) = Len(log) + 1
    BY <1>3, <1>12, <1>13
  <2>2. ASSUME NEW j \in 1..Len(more) PROVE Proper(more[j].pdu)
    <3>1. CASE j \in 1..Len(log)
      <4>1. more[j] = log[j]
        BY <1>3, <1>12, <1>13, <3>1
      <4>. QED  BY <1>3, <3>1, <4>1
    <3>2. CASE j = Len(log) + 1
      <4>1. more[j] = e
        BY <1>3, <1>12, <1>13, <3>2
      <4>. QED  BY <1>9, <1>12, <4>1
    <3>3. j \in 1..Len(log) \/ j = Len(log) + 1
      BY <1>3, <2>1
    <3>. QED  BY <3>1, <3>2, <3>3
  <2>. QED  BY <1>14, <2>1, <2>2 DEF Sent
<1>23. ASSUME NEW j \in Slaves PROVE At(j)'
  <2>1. PICK x, m, s, n, c, p, r1, t, d :
          /\ x = rx[j] /\ m = msg[j] /\ s = step[j] /\ n = to_read[j]
          /\ c = confirmation_to_ignore[j] /\ p = pc[j] /\ r1 = rsp[j] /\ t = map[j] /\ d = done[j]
    OBVIOUS
  <2>2. SlaveIs(j, x, m, s, n, c, p, r1, t, d, log)
    BY <1>1, <1>2, <2>1, Zenon DEF At
  <2>3. more = Append(log, e) /\ vs = <<e.slave>> \o e.pdu /\ more \in {log, Append(log, e)}
    BY <1>12, <1>13, <1>15
  <2>4. SlaveIs(j, x \o g, m, s, n, c, p, r1, t, d, more)
    BY <1>3, <1>12, <1>17, <2>2, <2>3, SlaveHears
  <2>5. /\ rx'[j] = x \o g /\ msg'[j] = m /\ step'[j] = s /\ to_read'[j] = n
        /\ confirmation_to_ignore'[j] = c /\ pc'[j] = p /\ rsp'[j] = r1 /\ map'[j] = t
        /\ done'[j] = d /\ sent' = more
    BY <1>14, <1>19, <1>20, <2>1
  <2>. QED  BY <2>4, <2>5, Zenon DEF At
<1>. QED  BY <1>21, <1>22, <1>23 DEF Inv

\* Only the master changes, or nothing.
LEMMA OthersKeep ==
  ASSUME Inv, UNCHANGED <<rx, slave, sent, faults>>, master' \in {"idle", "wait", "rest"}
  PROVE  Inv'
BY DEF Inv, Typed, Sent, At, slave

LEMMA InvHolds == Spec => []Inv
<1>1. Init => Inv
  <2>. SUFFICES ASSUME Init PROVE Inv
    OBVIOUS
  <2>1. <<>> \in Seq(BYTE) /\ <<>> \in Seq(Seq(uint8_t)) /\ <<>> \in Seq(Entry) /\ Len(<<>>) = 0
    OBVIOUS
  <2>2. Typed
    BY <2>1, FaultsAssumption DEF Init, Typed
  <2>3. Sent
    BY <2>1 DEF Init, Sent
  <2>4. ASSUME NEW i \in Slaves PROVE At(i)
    <3>1. SlaveIs(i, <<>>, <<>>, "function", 2, FALSE, "receive", <<>>, Mapping, <<>>, <<>>)
      BY <2>1, SlaveStarts
    <3>2. /\ rx[i] = <<>> /\ msg[i] = <<>> /\ step[i] = "function" /\ to_read[i] = 2
          /\ confirmation_to_ignore[i] = FALSE /\ pc[i] = "receive" /\ rsp[i] = <<>>
          /\ map[i] = Mapping /\ done[i] = <<>> /\ sent = <<>>
      BY DEF Init
    <3>. QED  BY <3>1, <3>2, Zenon DEF At
  <2>. QED  BY <2>2, <2>3, <2>4 DEF Inv
<1>2. Inv /\ [Next]_vars => Inv'
  <2>. SUFFICES ASSUME Inv, [Next]_vars PROVE Inv'
    OBVIOUS
  <2>0. Typed
    BY DEF Inv
  <2>1. ASSUME NEW i \in Slaves, Recv(i) PROVE Inv'
    BY <2>1, RecvKeeps
  <2>2. ASSUME NEW i \in Slaves, Timeout(i) PROVE Inv'
    BY <2>2, TimeoutKeeps
  <2>3. ASSUME NEW i \in Slaves, Reply(i) PROVE Inv'
    BY <2>3, ReplyKeeps
  <2>4. ASSUME NEW i \in Slaves, WakeUp(i) PROVE Inv'
    BY <2>4, WakeUpKeeps
  <2>5. CASE MasterSends
    BY <2>5, MasterSendsKeeps
  <2>6. CASE MasterTimeout
    BY <2>6, OthersKeep DEF MasterTimeout
  <2>7. CASE MasterRested
    BY <2>7, OthersKeep DEF MasterRested
  <2>8. CASE Done \/ UNCHANGED vars
    <3>1. UNCHANGED <<rx, slave, sent, faults>> /\ master' \in {"idle", "wait", "rest"}
      BY <2>0, <2>8 DEF Done, vars, slave, Typed
    <3>. QED  BY <3>1, OthersKeep
  <2>. QED  BY <2>1, <2>2, <2>3, <2>4, <2>5, <2>6, <2>7, <2>8 DEF Next
<1>. QED  BY <1>1, <1>2, PTL DEF Spec

\* A slave never reads more into its message than modbus_receive has room for
\* (MAX_MESSAGE_LENGTH), whatever lengths the bytes on the line announce, its
\* next read always asks for at least one byte, and all that is on the line is
\* bytes: no answer of modbus_reply holds a value that is none.
THEOREM TypeCorrect == Spec => []TypeOK
<1>1. Inv => TypeOK
  <2>. SUFFICES ASSUME Inv PROVE TypeOK
    OBVIOUS
  <2>1. Typed
    BY DEF Inv
  <2>2. ASSUME NEW i \in Slaves
        PROVE  /\ to_read[i] > 0 /\ Len(msg[i]) <= max_adu_length
               /\ pc[i] = "receive" => Len(msg[i]) + to_read[i] <= max_adu_length
    <3>1. At(i)
      BY DEF Inv
    <3>2. Reading(i, msg[i], step[i], to_read[i], confirmation_to_ignore[i], pc[i])
      BY <3>1 DEF At, SlaveIs
    <3>. QED  BY <3>2 DEF Reading
  <2>. QED  BY <2>1, <2>2, ByteSeqIs, Zenon DEF TypeOK, Typed
<1>. QED  BY <1>1, InvHolds, PTL

\* modbus_receive and modbus_reply execute what the master has sent to this
\* slave or to all, each request at most once and in the order it was sent:
\* never a request of another slave or an answer of one, whatever noise,
\* timeouts and confirmations to ignore do to the borders of the messages.
THEOREM ExecutesOwnOnly == Spec => []ExecutesOwn
<1>1. Inv => ExecutesOwn
  <2>. SUFFICES ASSUME Inv, NEW i \in Slaves
                PROVE  \E f \in [1..Len(done[i]) -> 1..Len(sent)] :
                         /\ \A k \in 1..Len(done[i]) :
                              sent[f[k]].slave \in {i, BROADCAST} /\ sent[f[k]].pdu = done[i][k]
                         /\ \A j, k \in 1..Len(done[i]) : j < k => f[j] < f[k]
    BY DEF ExecutesOwn
  <2>1. PICK d, log : d = done[i] /\ log = sent
    OBVIOUS
  <2>2. log \in Seq(Entry) /\ d \in Seq(Seq(uint8_t))
    BY <2>1 DEF Inv, Sent, Typed
  <2>3. Owed(i, rx[i], msg[i], pc[i], d, log)
    BY <2>1 DEF Inv, At, SlaveIs
  <2>4. PICK n \in 0..Len(log) : Ran(i, n, d, log)
    BY <2>3, Zenon DEF Owed, OwedAt
  <2>5. PICK f \in [1..Len(d) -> 1..n] : RanBy(i, d, log, f)
    BY <2>4 DEF Ran
  <2>6. f \in [1..Len(d) -> 1..Len(log)]
    BY <2>2, <2>4, <2>5
  <2>. QED  BY <2>1, <2>5, <2>6, Zenon DEF RanBy
<1>. QED  BY <1>1, InvHolds, PTL

\* modbus_reply stores nothing outside of the tables it was given, when the
\* registers begin at address 0: the write address of "write and read registers"
\* is not checked against the begin of the table (modbus.c:954).
THEOREM StoresInTable == Mapping.registers.start = 0 => (Spec => []InTable)
<1>. SUFFICES ASSUME Mapping.registers.start = 0 PROVE Spec => []InTable
  OBVIOUS
<1>1. Inv => InTable
  <2>. SUFFICES ASSUME Inv, NEW i \in Slaves
                PROVE  /\ DOMAIN map[i].bits.tab = 0..(map[i].bits.nb - 1)
                       /\ DOMAIN map[i].registers.tab = 0..(map[i].registers.nb - 1)
    BY DEF InTable
  <2>1. MapIs(map[i])
    BY DEF Inv, At, SlaveIs
  <2>. QED  BY <2>1 DEF MapIs, Exact
<1>. QED  BY <1>1, InvHolds, PTL

-----------------------------------------------------------------------------
(* A stream of messages.                                                   *)

LEMMA SameBytes ==
  \A a, b \in Seq(BYTE) : Len(a) = Len(b) /\ (\A k \in 1..Len(a) : a[k] = b[k]) => a = b
OBVIOUS

LEMMA NothingBehind == \A x \in Seq(BYTE) : x \o <<>> = x
OBVIOUS

LEMMA NothingIs == <<>> \in Seq(BYTE) /\ Len(<<>>) = 0
OBVIOUS

LEMMA CatOf ==
  ASSUME NEW a \in Seq(BYTE), NEW b \in Seq(BYTE), NEW x, x = a \o b
  PROVE  /\ x \in Seq(BYTE) /\ Len(x) = Len(a) + Len(b)
         /\ \A k \in 1..Len(a) : x[k] = a[k]
         /\ \A k \in 1..Len(b) : x[Len(a) + k] = b[k]
BY CatIs

LEMMA CatIsNone ==
  ASSUME NEW a \in Seq(BYTE), NEW b \in Seq(BYTE), a \o b = <<>>
  PROVE  a = <<>> /\ b = <<>>
<1>1. PICK x : x = a \o b /\ x = <<>>
  OBVIOUS
<1>2. x \in Seq(BYTE) /\ Len(x) = Len(a) + Len(b)
  BY <1>1, CatOf
<1>3. Len(a) = 0 /\ Len(b) = 0
  BY <1>1, <1>2
<1>. QED  BY <1>3, EmptyIs

\* The same bytes, cut at the same place.
LEMMA SameParts ==
  ASSUME NEW a \in Seq(BYTE), NEW b \in Seq(BYTE), NEW f \in Seq(BYTE), NEW z \in Seq(BYTE),
         a \o b = f \o z, Len(a) = Len(f)
  PROVE  a = f /\ b = z
<1>1. PICK x, u : x = a \o b /\ u = f \o z
  OBVIOUS
<1>2. PICK l \in Nat : l = Len(a) /\ l = Len(f)
  OBVIOUS
<1>3. /\ Len(x) = l + Len(b) /\ \A k \in 1..l : x[k] = a[k]
      /\ \A k \in 1..Len(b) : x[l + k] = b[k]
  <2>1. /\ Len(x) = Len(a) + Len(b) /\ \A k \in 1..Len(a) : x[k] = a[k]
        /\ \A k \in 1..Len(b) : x[Len(a) + k] = b[k]
    BY ONLY <1>1, CatOf
  <2>. QED  BY <1>2, <2>1, Zenon
<1>4. /\ Len(x) = l + Len(z) /\ \A k \in 1..l : x[k] = f[k]
      /\ \A k \in 1..Len(z) : x[l + k] = z[k]
  <2>1. /\ Len(u) = Len(f) + Len(z) /\ \A k \in 1..Len(f) : u[k] = f[k]
        /\ \A k \in 1..Len(z) : u[Len(f) + k] = z[k]
    BY ONLY <1>1, CatOf
  <2>2. x = u
    BY <1>1
  <2>. QED  BY <1>2, <2>1, <2>2, Zenon
<1>5. Len(b) = Len(z) /\ Len(b) \in Nat
  BY <1>3, <1>4
<1>6. \A k \in 1..Len(a) : a[k] = f[k]
  BY <1>2, <1>3, <1>4
<1>7. \A k \in 1..Len(b) : b[k] = z[k]
  BY <1>3, <1>4, <1>5
<1>8. a = f
  BY <1>2, <1>6, SameBytes
<1>9. b = z
  BY <1>5, <1>7, SameBytes
<1>. QED  BY <1>8, <1>9

\* x can be cut into pieces of F; the cuts are at the positions B.
Cut(x, F) ==
  \E B \in SUBSET Nat :
    /\ 0 \in B
    /\ \A b \in B : \/ b = Len(x)
                    \/ \E f \in F : /\ b + Len(f) \in B /\ b + Len(f) <= Len(x)
                                    /\ \A j \in 1..Len(f) : x[b + j] = f[j]

LEMMA CutNone == ASSUME NEW F, NEW x, x = <<>> PROVE Cut(x, F)
<1>1. {0} \in SUBSET Nat /\ 0 \in {0} /\ \A b \in {0} : b = Len(x)
  OBVIOUS
<1>. QED  BY <1>1, Zenon DEF Cut

LEMMA CutAppend ==
  ASSUME NEW F, F \subseteq Seq(BYTE), NEW x \in Seq(BYTE), Cut(x, F), NEW g \in F, NEW z, z = x \o g
  PROVE  Cut(z, F)
<1>1. PICK B \in SUBSET Nat :
        /\ 0 \in B
        /\ \A b \in B : \/ b = Len(x)
                        \/ \E f \in F : /\ b + Len(f) \in B /\ b + Len(f) <= Len(x)
                                        /\ \A j \in 1..Len(f) : x[b + j] = f[j]
  BY Zenon DEF Cut
<1>2. PICK l \in Nat, k \in Nat : l = Len(x) /\ k = Len(g)
  OBVIOUS
<1>3. /\ z \in Seq(BYTE) /\ Len(z) = l + k
      /\ \A j \in 1..l : z[j] = x[j]
      /\ \A j \in 1..k : z[l + j] = g[j]
  <2>1. /\ z \in Seq(BYTE) /\ Len(z) = Len(x) + Len(g)
        /\ \A j \in 1..Len(x) : z[j] = x[j]
        /\ \A j \in 1..Len(g) : z[Len(x) + j] = g[j]
    BY CatIs
  <2>. QED  BY <1>2, <2>1, Zenon
<1>4. PICK C : C = B \cup {l + k}
  OBVIOUS
<1>5. C \in SUBSET Nat /\ 0 \in C
  <2>1. l + k \in Nat
    OBVIOUS
  <2>. QED  BY <1>1, <1>4, <2>1, Zenon
<1>6. ASSUME NEW b \in C
      PROVE  \/ b = Len(z)
             \/ \E f \in F : /\ b + Len(f) \in C /\ b + Len(f) <= Len(z)
                             /\ \A j \in 1..Len(f) : z[b + j] = f[j]
  <2>1. CASE b = l + k
    BY <1>3, <2>1
  <2>2. CASE b = l
    <3>1. b + Len(g) \in C /\ b + Len(g) <= Len(z)
      BY <1>2, <1>3, <1>4, <2>2
    <3>2. \A j \in 1..Len(g) : z[b + j] = g[j]
      BY <1>2, <1>3, <2>2
    <3>. QED  BY <3>1, <3>2
  <2>3. CASE b \in B /\ b # l
    <3>1. PICK f \in F : /\ b + Len(f) \in B /\ b + Len(f) <= Len(x)
                         /\ \A j \in 1..Len(f) : x[b + j] = f[j]
      BY <1>1, <1>2, <2>3
    <3>2. PICK n \in Nat : n = Len(f)
      <4>1. f \in Seq(BYTE)
        OBVIOUS
      <4>. QED  BY <4>1
    <3>3. b \in Nat /\ b + n <= l
      BY <1>2, <2>3, <3>1, <3>2
    <3>4. b + Len(f) \in C /\ b + Len(f) <= Len(z)
      BY <1>2, <1>3, <1>4, <3>1, <3>2, <3>3
    <3>5. ASSUME NEW j \in 1..n PROVE z[b + j] = f[j]
      <4>1. b + j \in 1..l
        BY <1>2, <3>2, <3>3
      <4>. QED  BY <1>3, <3>1, <3>2, <4>1
    <3>. QED  BY <3>2, <3>4, <3>5
  <2>. QED  BY <1>4, <2>1, <2>2, <2>3
<1>. QED  BY <1>5, <1>6, Zenon DEF Cut

\* The first piece, and the others.
LEMMA CutFirst ==
  ASSUME NEW F, F \subseteq Seq(BYTE), NEW x \in Seq(BYTE), x # <<>>, Cut(x, F)
  PROVE  \E f \in F : \E y \in Seq(BYTE) : x = f \o y /\ Cut(y, F)
<1>1. PICK B \in SUBSET Nat :
        /\ 0 \in B
        /\ \A b \in B : \/ b = Len(x)
                        \/ \E f \in F : /\ b + Len(f) \in B /\ b + Len(f) <= Len(x)
                                        /\ \A j \in 1..Len(f) : x[b + j] = f[j]
  BY Zenon DEF Cut
<1>2. PICK l \in Nat : l = Len(x) /\ l # 0
  BY EmptyIs
<1>3. PICK f \in F : /\ 0 + Len(f) \in B /\ 0 + Len(f) <= Len(x)
                     /\ \A j \in 1..Len(f) : x[0 + j] = f[j]
  BY <1>1, <1>2
<1>4. PICK k \in Nat : k = Len(f) /\ f \in Seq(BYTE)
  <2>1. f \in Seq(BYTE)
    OBVIOUS
  <2>. QED  BY <2>1
<1>5. k \in B /\ k <= l /\ \A j \in 1..k : x[j] = f[j]
  BY <1>2, <1>3, <1>4
<1>6. PICK a, y : a = SubSeq(x, 1, k) /\ y = SubSeq(x, k + 1, l)
  OBVIOUS
<1>7. /\ a \in Seq(BYTE) /\ Len(a) = k /\ \A j \in 1..k : a[j] = x[j]
      /\ y \in Seq(BYTE) /\ Len(y) = l - k /\ \A j \in 1..(l - k) : y[j] = x[k + j]
  BY <1>2, <1>5, <1>6
<1>8. a \o y = x
  BY <1>2, <1>5, <1>6, PartsAre
<1>9. a = f
  <2>1. Len(a) = Len(f) /\ \A j \in 1..Len(a) : a[j] = f[j]
    BY <1>4, <1>5, <1>7
  <2>. QED  BY <1>4, <1>7, <2>1, SameBytes
<1>10. PICK C : C = {n \in Nat : n + k \in B}
  OBVIOUS
<1>11. C \in SUBSET Nat /\ 0 \in C
  BY <1>4, <1>5, <1>10
<1>12. ASSUME NEW b \in C
       PROVE  \/ b = Len(y)
              \/ \E g \in F : /\ b + Len(g) \in C /\ b + Len(g) <= Len(y)
                              /\ \A j \in 1..Len(g) : y[b + j] = g[j]
  <2>1. b \in Nat /\ b + k \in B
    BY <1>10
  <2>2. CASE b + k = l
    <3>1. b = l - k
      BY <2>1, <2>2
    <3>. QED  BY <1>7, <3>1, Zenon
  <2>3. CASE b + k # l
    <3>1. PICK g \in F : /\ (b + k) + Len(g) \in B /\ (b + k) + Len(g) <= Len(x)
                         /\ \A j \in 1..Len(g) : x[(b + k) + j] = g[j]
      BY <1>1, <1>2, <2>1, <2>3
    <3>2. PICK n \in Nat : n = Len(g)
      <4>1. g \in Seq(BYTE)
        OBVIOUS
      <4>. QED  BY <4>1
    <3>3. (b + k) + n = (b + n) + k /\ b + n \in Nat /\ b + n <= l - k
      BY <1>2, <1>4, <2>1, <3>1, <3>2
    <3>4. b + Len(g) \in C /\ b + Len(g) <= Len(y)
      BY <1>7, <1>10, <3>1, <3>2, <3>3
    <3>5. ASSUME NEW j \in 1..n PROVE y[b + j] = g[j]
      <4>1. b + j \in 1..(l - k) /\ k + (b + j) = (b + k) + j
        BY <1>2, <1>4, <2>1, <3>2, <3>3
      <4>. QED  BY <1>7, <3>1, <3>2, <4>1
    <3>. QED  BY <3>2, <3>4, <3>5
  <2>. QED  BY <2>2, <2>3
<1>13. Cut(y, F)
  BY <1>11, <1>12, Zenon DEF Cut
<1>. QED  BY <1>7, <1>8, <1>9, <1>13

\* The ways to take a sequence apart, put as facts about its parts.
LEMMA SplitIs ==
  ASSUME NEW x, NEW a, NEW b, Split(x, a, b)
  PROVE  /\ x \in Seq(BYTE) /\ a \in Seq(BYTE) /\ b \in Seq(BYTE)
         /\ Len(x) = Len(a) + Len(b)
         /\ \A k \in 1..Len(a) : x[k] = a[k]
         /\ \A k \in 1..Len(b) : x[Len(a) + k] = b[k]
<1>1. a \in Seq(BYTE) /\ b \in Seq(BYTE) /\ x = a \o b
  BY Zenon DEF Split
<1>. QED  BY <1>1, CatOf

LEMMA SplitCat ==
  ASSUME NEW a \in Seq(BYTE), NEW b \in Seq(BYTE)
  PROVE  Split(a \o b, a, b)
BY Zenon DEF Split

LEMMA SplitNone ==
  ASSUME NEW x \in Seq(BYTE)
  PROVE  /\ Split(x, <<>>, x) /\ Split(x, x, <<>>)
         /\ \A b : Split(x, <<>>, b) => b = x
         /\ \A a : Split(x, a, <<>>) => a = x
<1>1. x = <<>> \o x /\ x = x \o <<>>
  BY NothingBefore, NothingBehind
<1>2. ASSUME NEW b, Split(x, <<>>, b) PROVE b = x
  <2>1. b \in Seq(BYTE) /\ x = <<>> \o b
    BY <1>2, Zenon DEF Split
  <2>. QED  BY <2>1, NothingBefore
<1>3. ASSUME NEW a, Split(x, a, <<>>) PROVE a = x
  <2>1. a \in Seq(BYTE) /\ x = a \o <<>>
    BY <1>3, Zenon DEF Split
  <2>. QED  BY <2>1, NothingBehind
<1>. QED  BY <1>1, <1>2, <1>3, NothingIs, Zenon DEF Split

LEMMA SplitRight ==
  ASSUME NEW x, NEW u, NEW c, Split(x, u, c), NEW a, NEW b, Split(u, a, b)
  PROVE  Split(b \o c, b, c) /\ Split(x, a, b \o c)
<1>1. /\ u \in Seq(BYTE) /\ c \in Seq(BYTE) /\ x = u \o c
      /\ a \in Seq(BYTE) /\ b \in Seq(BYTE) /\ u = a \o b
  BY Zenon DEF Split
<1>2. b \o c \in Seq(BYTE)
  BY <1>1, CatIs
<1>3. x = a \o (b \o c)
  BY <1>1, CatAgain
<1>. QED  BY <1>1, <1>2, <1>3, Zenon DEF Split

LEMMA SplitLeft ==
  ASSUME NEW x, NEW a, NEW v, Split(x, a, v), NEW b, NEW c, Split(v, b, c)
  PROVE  Split(a \o b, a, b) /\ Split(x, a \o b, c)
<1>1. /\ a \in Seq(BYTE) /\ v \in Seq(BYTE) /\ x = a \o v
      /\ b \in Seq(BYTE) /\ c \in Seq(BYTE) /\ v = b \o c
  BY Zenon DEF Split
<1>2. a \o b \in Seq(BYTE)
  BY <1>1, CatIs
<1>3. x = (a \o b) \o c
  BY <1>1, CatAgain
<1>. QED  BY <1>1, <1>2, <1>3, Zenon DEF Split

-----------------------------------------------------------------------------
(* The messages a slave finds in it.                                       *)

\* A message that a slave reads as a whole; c tells a confirmation.
Whole(f, c) == f \in Seq(BYTE) /\ Len(f) <= max_adu_length /\ Ended(f, c)

\* The end of a message is told by its own bytes.
LEMMA EndTold ==
  ASSUME NEW w \in Seq(BYTE), NEW y \in Seq(BYTE), NEW c \in BOOLEAN, Ended(w, c)
  PROVE  Len(w) = 2 + Meta(w \o y, c) + Data(w \o y, c)
<1>1. Len(w) >= 2 /\ Len(w) >= 2 + Meta(w, c) /\ Len(w) = 2 + Meta(w, c) + Data(w, c)
  BY DEF Ended
<1>2. Meta(w \o y, c) = Meta(w, c) /\ Data(w \o y, c) = Data(w, c)
  BY <1>1, LengthsStay
<1>. QED  BY <1>1, <1>2, Zenon

\* A message that cannot become one.
TooLong(w, c) == Len(w) = 2 + Meta(w, c) /\ Len(w) + Data(w, c) > max_adu_length

\* A slave that has read all the bytes it asked for, when a whole message is
\* in front of it: it has read that message, or goes on.
LEMMA ReadsFirst ==
  ASSUME NEW i, NEW m, NEW st, NEW n, NEW c, Reading(i, m, st, n, c, "receive"),
         NEW s, Len(s) = n, NEW w, Split(w, m, s), NEW x, NEW y, Split(x, w, y),
         NEW f, Whole(f, c), NEW z, Split(x, f, z)
  PROVE  (st = "data" => w = f /\ y = z) /\ ~TooLong(w, c)
<1>0. /\ s \in Seq(BYTE) /\ w = m \o s /\ w \in Seq(BYTE) /\ y \in Seq(BYTE) /\ z \in Seq(BYTE)
      /\ w \o y = f \o z
  BY Zenon DEF Split
<1>1. w \in Seq(BYTE) /\ Len(w) >= 2 /\ c \in BOOLEAN /\ (st = "data" => Ended(w, c))
  BY <1>0, StepRead
<1>2. f \in Seq(BYTE) /\ Len(f) <= max_adu_length /\ Ended(f, c)
  BY DEF Whole
<1>3. ASSUME st = "data" PROVE w = f /\ y = z
  <2>1. Len(w) = 2 + Meta(w \o y, c) + Data(w \o y, c)
    BY <1>0, <1>1, <1>3, EndTold
  <2>2. Len(f) = 2 + Meta(f \o z, c) + Data(f \o z, c)
    BY <1>0, <1>1, <1>2, EndTold
  <2>3. Len(w) = Len(f)
    BY <1>0, <2>1, <2>2, Zenon
  <2>. QED  BY <1>0, <1>1, <1>2, <2>3, SameParts, Zenon
<1>4. ASSUME Len(w) = 2 + Meta(w, c), Len(w) + Data(w, c) > max_adu_length PROVE FALSE
  <2>1. Meta(w, c) \in Nat
    BY <1>1, MetaIs
  <2>2. Len(w) >= 2 + Meta(w, c)
    BY <1>4, <2>1
  <2>3. Meta(w \o y, c) = Meta(w, c) /\ Data(w \o y, c) = Data(w, c)
    BY <1>0, <1>1, <2>2, LengthsStay
  <2>4. Len(f) >= 2 /\ Len(f) >= 2 + Meta(f, c) /\ Len(f) = 2 + Meta(f, c) + Data(f, c)
    BY <1>2 DEF Ended
  <2>5. Meta(f \o z, c) = Meta(f, c) /\ Data(f \o z, c) = Data(f, c)
    BY <1>0, <1>1, <1>2, <2>4, LengthsStay
  <2>6. Len(f) = Len(w) + Data(w, c)
    BY <1>0, <1>4, <2>3, <2>4, <2>5, Zenon
  <2>7. Len(f) \in Nat
    BY <1>2
  <2>. QED  BY <1>2, <1>4, <2>6, <2>7 DEF max_adu_length
<1>. QED  BY <1>3, <1>4 DEF TooLong

\* It does not stop in front of one that has arrived.
LEMMA NeverStuck ==
  ASSUME NEW i, NEW m, NEW st, NEW n, NEW c, Reading(i, m, st, n, c, "receive"),
         NEW f, Whole(f, c), NEW z, Split(m, f, z)
  PROVE  FALSE
<1>0. z \in Seq(BYTE) /\ m = f \o z
  BY Zenon DEF Split
<1>1. /\ m \in Seq(BYTE) /\ n \in Nat /\ n > 0 /\ c \in BOOLEAN /\ st \in {"function", "meta", "data"}
      /\ st = "function" => Len(m) + n = 2
      /\ st = "meta" => Len(m) + n = 2 + Meta(m, c)
      /\ st = "data" => Len(m) + n = 2 + Meta(m, c) + Data(m, c)
  BY DEF Reading
<1>2. f \in Seq(BYTE) /\ Len(f) >= 2 /\ Len(f) >= 2 + Meta(f, c) /\ Len(f) = 2 + Meta(f, c) + Data(f, c)
  BY DEF Whole, Ended
<1>3. Meta(m, c) = Meta(f, c) /\ Data(m, c) = Data(f, c)
  BY <1>0, <1>1, <1>2, LengthsStay
<1>4. PICK l \in Nat, k \in Nat : l = Len(m) /\ k = Len(f) /\ l >= k
  <2>1. f \in Seq(BYTE)
    BY <1>2
  <2>2. Len(m) = Len(f) + Len(z)
    BY <1>0, <2>1, CatIs
  <2>. QED  BY <2>1, <2>2
<1>5. PICK me \in Nat, da \in Nat : me = Meta(f, c) /\ da = Data(f, c)
  BY <1>1, <1>2, MetaIs, DataIs
<1>6. k >= 2 /\ k >= 2 + me /\ k = 2 + me + da
  BY <1>2, <1>4, <1>5, Zenon
<1>7. /\ st = "function" => l + n = 2
      /\ st = "meta" => l + n = 2 + me
      /\ st = "data" => l + n = 2 + me + da
  BY <1>1, <1>3, <1>4, <1>5, Zenon
<1>8. me \in Nat /\ da \in Nat /\ l \in Nat /\ k \in Nat /\ n \in Nat /\ n > 0 /\ l >= k
  BY <1>1, <1>4, <1>5, Zenon
<1>9. ~(l + n = 2) /\ ~(l + n = 2 + me) /\ ~(l + n = 2 + me + da)
  BY ONLY <1>6, <1>8
<1>. QED  BY <1>1, <1>7, <1>9

-----------------------------------------------------------------------------
(* What a slave overhears.                                                 *)

\* No byte of x is of a checksum of a message to slave j or to all.
Deaf(j, x) == \A k \in 1..Len(x) : ~Carries(j, x[k])

\* A message of others.
Other(j, f) == f[1].v \notin {j, BROADCAST} /\ Deaf(j, f)

LEMMA DeafCat ==
  ASSUME NEW j, NEW x \in Seq(BYTE), NEW y \in Seq(BYTE)
  PROVE  Deaf(j, x \o y) <=> Deaf(j, x) /\ Deaf(j, y)
<1>1. PICK u : u = x \o y
  OBVIOUS
<1>2. PICK a \in Nat, b \in Nat : a = Len(x) /\ b = Len(y)
  OBVIOUS
<1>3. /\ Len(u) = a + b
      /\ \A k \in 1..a : u[k] = x[k]
      /\ \A k \in 1..b : u[a + k] = y[k]
  <2>1. /\ Len(u) = Len(x) + Len(y)
        /\ \A k \in 1..Len(x) : u[k] = x[k]
        /\ \A k \in 1..Len(y) : u[Len(x) + k] = y[k]
    BY <1>1, CatOf
  <2>. QED  BY <1>2, <2>1, Zenon
<1>4. ASSUME Deaf(j, u) PROVE Deaf(j, x) /\ Deaf(j, y)
  <2>1. ASSUME NEW k \in 1..a PROVE ~Carries(j, x[k])
    <3>1. k \in 1..(a + b)
      OBVIOUS
    <3>. QED  BY <1>3, <1>4, <3>1 DEF Deaf
  <2>2. ASSUME NEW k \in 1..b PROVE ~Carries(j, y[k])
    <3>1. a + k \in 1..(a + b)
      OBVIOUS
    <3>. QED  BY <1>3, <1>4, <3>1 DEF Deaf
  <2>. QED  BY <1>2, <2>1, <2>2, Zenon DEF Deaf
<1>5. ASSUME Deaf(j, x), Deaf(j, y) PROVE Deaf(j, u)
  <2>1. ASSUME NEW k \in 1..(a + b) PROVE ~Carries(j, u[k])
    <3>1. CASE k <= a
      <4>1. k \in 1..a
        BY <3>1
      <4>. QED  BY <1>2, <1>3, <1>5, <4>1 DEF Deaf
    <3>2. CASE ~(k <= a)
      <4>1. k - a \in 1..b /\ a + (k - a) = k
        BY <3>2
      <4>2. u[k] = y[k - a]
        BY <1>3, <4>1
      <4>. QED  BY <1>2, <1>5, <4>1, <4>2 DEF Deaf
    <3>. QED  BY <3>1, <3>2
  <2>. QED  BY <1>3, <2>1, Zenon DEF Deaf
<1>. QED  BY <1>1, <1>4, <1>5

LEMMA DeafNone == \A j : Deaf(j, <<>>)
BY DEF Deaf

\* A request of others and its answer.
Pairs(j) ==
  {p \in Seq(BYTE) : \E q, a \in Seq(BYTE) :
     p = q \o a /\ Whole(q, FALSE) /\ Other(j, q) /\ Whole(a, TRUE) /\ Other(j, a)}

\* Any number of them.
Chain(j, p) == p \in Seq(BYTE) /\ Deaf(j, p) /\ Cut(p, Pairs(j))

LEMMA ChainNone == \A j : Chain(j, <<>>)
<1>. SUFFICES ASSUME NEW j PROVE Chain(j, <<>>)
  OBVIOUS
<1>1. Cut(<<>>, Pairs(j))
  BY CutNone
<1>. QED  BY <1>1, DeafNone, NothingIs DEF Chain

LEMMA ChainMore ==
  ASSUME NEW j, NEW p, Chain(j, p), NEW q, Whole(q, FALSE), Other(j, q), NEW a, Whole(a, TRUE), Other(j, a)
  PROVE  Chain(j, p \o (q \o a))
<1>1. p \in Seq(BYTE) /\ Deaf(j, p) /\ Cut(p, Pairs(j)) /\ q \in Seq(BYTE) /\ a \in Seq(BYTE)
  BY DEF Chain, Whole
<1>2. PICK g : g = q \o a
  OBVIOUS
<1>3. g \in Seq(BYTE)
  BY <1>1, <1>2, CatOf
<1>4. g \in Pairs(j)
  BY <1>1, <1>2, <1>3, Zenon DEF Pairs
<1>5. Deaf(j, g)
  BY <1>1, <1>2, DeafCat DEF Other
<1>6. PICK z : z = p \o g
  OBVIOUS
<1>7. z \in Seq(BYTE)
  BY <1>1, <1>3, <1>6, CatOf
<1>8. Deaf(j, z)
  BY <1>1, <1>3, <1>5, <1>6, DeafCat
<1>9. Pairs(j) \subseteq Seq(BYTE)
  BY Zenon DEF Pairs
<1>10. Cut(z, Pairs(j))
  BY <1>1, <1>4, <1>6, <1>9, CutAppend
<1>. QED  BY <1>2, <1>6, <1>7, <1>8, <1>10, Zenon DEF Chain

LEMMA ChainFirst ==
  ASSUME NEW j, NEW p, Chain(j, p), p # <<>>
  PROVE  \E q, a, r, u \in Seq(BYTE) :
           /\ Split(p, q, u) /\ Split(u, a, r) /\ Chain(j, r)
           /\ Whole(q, FALSE) /\ Other(j, q) /\ Whole(a, TRUE) /\ Other(j, a)
<1>1. p \in Seq(BYTE) /\ Deaf(j, p) /\ Cut(p, Pairs(j))
  BY DEF Chain
<1>2. Pairs(j) \subseteq Seq(BYTE)
  BY Zenon DEF Pairs
<1>3. PICK g \in Pairs(j) : \E r \in Seq(BYTE) : p = g \o r /\ Cut(r, Pairs(j))
  BY <1>1, <1>2, CutFirst
<1>4. PICK r \in Seq(BYTE) : p = g \o r /\ Cut(r, Pairs(j))
  BY <1>3
<1>5. PICK q \in Seq(BYTE), a \in Seq(BYTE) :
        g = q \o a /\ Whole(q, FALSE) /\ Other(j, q) /\ Whole(a, TRUE) /\ Other(j, a)
  BY Zenon DEF Pairs
<1>6. g \in Seq(BYTE)
  BY <1>2
<1>7. Deaf(j, r)
  BY <1>1, <1>4, <1>6, DeafCat
<1>8. PICK u : u = a \o r
  OBVIOUS
<1>9. u \in Seq(BYTE)
  BY <1>8, CatOf
<1>10. p = q \o u
  BY <1>4, <1>5, <1>8, CatAgain
<1>11. Chain(j, r)
  BY <1>4, <1>7, Zenon DEF Chain
<1>12. Split(p, q, u) /\ Split(u, a, r)
  BY <1>8, <1>9, <1>10, Zenon DEF Split
<1>. QED  BY <1>5, <1>9, <1>11, <1>12, Zenon

-----------------------------------------------------------------------------
(* A slave in step with the line: what it has not worked off are requests  *)
(* of others with their answers, and then t.                               *)

Row(j, x, t) == \E p : Chain(j, p) /\ Split(x, p, t)

Lined(j, c, x, t) ==
  IF c THEN \E a, z : Whole(a, TRUE) /\ Other(j, a) /\ Row(j, z, t) /\ Split(x, a, z)
       ELSE Row(j, x, t)

LEMMA RowAlone == ASSUME NEW j, NEW t \in Seq(BYTE) PROVE Row(j, t, t)
<1>1. Chain(j, <<>>) /\ Split(t, <<>>, t)
  BY ChainNone, SplitNone
<1>. QED  BY <1>1, Zenon DEF Row

LEMMA RowMore ==
  ASSUME NEW j, NEW x, Row(j, x, <<>>), NEW t, NEW y, Split(y, x, t)
  PROVE  Row(j, y, t)
<1>1. PICK p : Chain(j, p) /\ Split(x, p, <<>>)
  BY Zenon DEF Row
<1>2. x \in Seq(BYTE)
  BY <1>1, SplitIs
<1>3. x = p
  BY <1>1, <1>2, SplitNone
<1>. QED  BY <1>1, <1>3, Zenon DEF Row

LEMMA RowAnswer ==
  ASSUME NEW j, NEW q, Whole(q, FALSE), Other(j, q), NEW a, Whole(a, TRUE), Other(j, a),
         NEW x, Row(j, x, q), NEW y, Split(y, x, a)
  PROVE  Row(j, y, <<>>)
<1>1. PICK p : Chain(j, p) /\ Split(x, p, q)
  BY Zenon DEF Row
<1>2. Split(y, p, q \o a)
  BY <1>1, SplitRight
<1>3. y = p \o (q \o a)
  BY <1>2 DEF Split
<1>4. Chain(j, p \o (q \o a))
  BY <1>1, ChainMore
<1>5. Chain(j, y)
  BY <1>3, <1>4, Zenon
<1>6. y \in Seq(BYTE)
  BY <1>2, SplitIs
<1>7. Split(y, y, <<>>)
  BY <1>6, SplitNone
<1>. QED  BY <1>5, <1>7, Zenon DEF Row

LEMMA RowDeaf ==
  ASSUME NEW j, NEW t, NEW x, Row(j, x, t)
  PROVE  \E d : Deaf(j, d) /\ Split(x, d, t)
<1>1. PICK p : Chain(j, p) /\ Split(x, p, t)
  BY Zenon DEF Row
<1>3. Deaf(j, p)
  BY <1>1 DEF Chain
<1>. QED  BY <1>1, <1>3, Zenon

LEMMA RowFirst ==
  ASSUME NEW j, NEW t, NEW x, Row(j, x, t), x # t
  PROVE  \E q, z : Whole(q, FALSE) /\ Other(j, q) /\ Split(x, q, z) /\ Lined(j, TRUE, z, t)
<1>1. PICK p : Chain(j, p) /\ Split(x, p, t)
  BY Zenon DEF Row
<1>0. x \in Seq(BYTE) /\ p \in Seq(BYTE) /\ t \in Seq(BYTE)
  BY <1>1, SplitIs
<1>2. p # <<>>
  BY <1>0, <1>1, SplitNone
<1>3. PICK q, a, r, u :
        /\ Split(p, q, u) /\ Split(u, a, r) /\ Chain(j, r)
        /\ Whole(q, FALSE) /\ Other(j, q) /\ Whole(a, TRUE) /\ Other(j, a)
  BY <1>1, <1>2, ChainFirst, Zenon
<1>4. Split(x, q, u \o t) /\ Split(u \o t, u, t)
  BY <1>1, <1>3, SplitRight, Zenon
<1>5. Split(r \o t, r, t) /\ Split(u \o t, a, r \o t)
  BY <1>3, <1>4, SplitRight, Zenon
<1>6. Row(j, r \o t, t)
  BY <1>3, <1>5, Zenon DEF Row
<1>7. Lined(j, TRUE, u \o t, t)
  BY <1>3, <1>5, <1>6, Zenon DEF Lined
<1>. QED  BY <1>3, <1>4, <1>7, Zenon

LEMMA LinedFirst ==
  ASSUME NEW j, NEW a, Whole(a, TRUE), Other(j, a)
  PROVE  Lined(j, TRUE, a, <<>>)
<1>1. Split(a, a, <<>>)
  BY SplitNone DEF Whole
<1>2. Row(j, <<>>, <<>>)
  BY RowAlone, NothingIs
<1>. QED  BY <1>1, <1>2, Zenon DEF Lined

LEMMA LinedMore ==
  ASSUME NEW j, NEW c \in BOOLEAN, NEW x, Lined(j, c, x, <<>>), NEW t, NEW y, Split(y, x, t)
  PROVE  Lined(j, c, y, t)
<1>1. CASE ~c
  BY <1>1, RowMore, Zenon DEF Lined
<1>2. CASE c
  <2>1. PICK a, z : Whole(a, TRUE) /\ Other(j, a) /\ Row(j, z, <<>>) /\ Split(x, a, z)
    BY <1>2, Zenon DEF Lined
  <2>2. Split(z \o t, z, t) /\ Split(y, a, z \o t)
    BY <2>1, SplitRight, Zenon
  <2>3. Row(j, z \o t, t)
    BY <2>1, <2>2, RowMore, Zenon
  <2>. QED  BY <1>2, <2>1, <2>2, <2>3, Zenon DEF Lined
<1>. QED  BY <1>1, <1>2

LEMMA LinedAnswer ==
  ASSUME NEW j, NEW c \in BOOLEAN, NEW q, Whole(q, FALSE), Other(j, q),
         NEW b, Whole(b, TRUE), Other(j, b), NEW x, Lined(j, c, x, q), NEW y, Split(y, x, b)
  PROVE  Lined(j, c, y, <<>>)
<1>1. CASE ~c
  BY <1>1, RowAnswer, Zenon DEF Lined
<1>2. CASE c
  <2>1. PICK a, z : Whole(a, TRUE) /\ Other(j, a) /\ Row(j, z, q) /\ Split(x, a, z)
    BY <1>2, Zenon DEF Lined
  <2>2. Split(z \o b, z, b) /\ Split(y, a, z \o b)
    BY <2>1, SplitRight, Zenon
  <2>3. Row(j, z \o b, <<>>)
    BY <2>1, <2>2, RowAnswer, Zenon
  <2>. QED  BY <1>2, <2>1, <2>2, <2>3, Zenon DEF Lined
<1>. QED  BY <1>1, <1>2

LEMMA LinedDeaf ==
  ASSUME NEW j, NEW c \in BOOLEAN, NEW t, NEW x, Lined(j, c, x, t)
  PROVE  \E d : Deaf(j, d) /\ Split(x, d, t)
<1>1. CASE ~c
  BY <1>1, RowDeaf, Zenon DEF Lined
<1>2. CASE c
  <2>1. PICK a, z : Whole(a, TRUE) /\ Other(j, a) /\ Row(j, z, t) /\ Split(x, a, z)
    BY <1>2, Zenon DEF Lined
  <2>2. PICK d : Deaf(j, d) /\ Split(z, d, t)
    BY <2>1, RowDeaf, Zenon
  <2>3. Split(a \o d, a, d) /\ Split(x, a \o d, t)
    BY <2>1, <2>2, SplitLeft, Zenon
  <2>4. a \in Seq(BYTE) /\ d \in Seq(BYTE)
    BY <2>3, SplitIs, Zenon
  <2>5. Deaf(j, a \o d)
    BY <2>1, <2>2, <2>4, DeafCat DEF Other
  <2>. QED  BY <2>3, <2>5, Zenon
<1>. QED  BY <1>1, <1>2

\* If nothing more has arrived, it has come to the end of t.
LEMMA LinedStuck ==
  ASSUME NEW i, NEW m, NEW st, NEW n, NEW c, Reading(i, m, st, n, c, "receive"),
         NEW t, t = <<>> \/ Whole(t, FALSE), Lined(i, c, m, t)
  PROVE  t = <<>> /\ m = <<>> /\ ~c
<1>0. c \in BOOLEAN
  BY DEF Reading
<1>1. ASSUME c PROVE FALSE
  <2>1. PICK a, z : Whole(a, TRUE) /\ Other(i, a) /\ Row(i, z, t) /\ Split(m, a, z)
    BY <1>1, Zenon DEF Lined
  <2>2. Whole(a, c)
    BY <1>0, <1>1, <2>1
  <2>. QED  BY <2>1, <2>2, NeverStuck, Zenon
<1>2. Row(i, m, t)
  BY <1>1, Zenon DEF Lined
<1>3. m = t
  <2>1. ASSUME m # t PROVE FALSE
    <3>1. PICK q, z : Whole(q, FALSE) /\ Other(i, q) /\ Split(m, q, z) /\ Lined(i, TRUE, z, t)
      BY <1>2, <2>1, RowFirst, Zenon
    <3>2. Whole(q, c)
      BY <1>0, <1>1, <3>1
    <3>. QED  BY <3>1, <3>2, NeverStuck, Zenon
  <2>. QED  BY <2>1
<1>4. t = <<>>
  <2>1. ASSUME Whole(t, FALSE) PROVE FALSE
    <3>1. Whole(t, c)
      BY <1>0, <1>1, <2>1
    <3>2. Split(t, t, <<>>)
      BY <2>1, SplitNone DEF Whole
    <3>. QED  BY <1>3, <3>1, <3>2, NeverStuck, Zenon
  <2>. QED  BY <2>1
<1>. QED  BY <1>1, <1>3, <1>4

-----------------------------------------------------------------------------
(* What cannot be taken for a request.                                     *)

\* A message with its checksum ends at position b.
EndsAt(x, b) ==
  /\ x[b].v = 2 /\ Len(x[b].crc) + 2 <= b /\ x[b - 1] = [v |-> 201, crc |-> x[b].crc]
  /\ \A k \in 1..Len(x[b].crc) : x[b - Len(x[b].crc) - 2 + k].v = x[b].crc[k]

\* None for slave j or for all.
Mute(j, x) == x \in Seq(BYTE) /\ \A b \in 1..Len(x) : ~(Carries(j, x[b]) /\ EndsAt(x, b))

LEMMA DeafMute == ASSUME NEW j, NEW x \in Seq(BYTE), Deaf(j, x) PROVE Mute(j, x)
BY Zenon DEF Deaf, Mute

LEMMA CrcLen == \A x \in Seq(BYTE) : \A b \in 1..Len(x) : Len(x[b].crc) \in Nat
<1>. SUFFICES ASSUME NEW x \in Seq(BYTE), NEW b \in 1..Len(x) PROVE Len(x[b].crc) \in Nat
  OBVIOUS
<1>1. x[b] \in BYTE
  OBVIOUS
<1>2. x[b].crc \in Seq(uint8_t)
  BY <1>1, ByteParts
<1>. QED  BY <1>2

LEMMA MuteRest ==
  ASSUME NEW j, NEW x, Mute(j, x), NEW s, NEW y, Split(x, s, y)
  PROVE  Mute(j, y)
<1>0. /\ x \in Seq(BYTE) /\ s \in Seq(BYTE) /\ y \in Seq(BYTE) /\ Len(x) = Len(s) + Len(y)
      /\ \A k \in 1..Len(y) : x[Len(s) + k] = y[k]
  BY SplitIs
<1>1. PICK n \in Nat, l \in Nat : n = Len(s) /\ l = Len(y)
  BY <1>0
<1>2. ASSUME NEW b \in 1..l, Carries(j, y[b]), EndsAt(y, b) PROVE FALSE
  <2>1. n + b \in 1..(n + l) /\ n + b \in 1..Len(x) /\ x[n + b] = y[b]
    BY <1>0, <1>1
  <2>2. PICK c \in Nat : c = Len(y[b].crc)
    BY <1>0, <1>1, CrcLen
  <2>3. /\ y[b].v = 2 /\ c + 2 <= b /\ y[b - 1] = [v |-> 201, crc |-> y[b].crc]
        /\ \A k \in 1..c : y[b - c - 2 + k].v = y[b].crc[k]
    BY <1>2, <2>2 DEF EndsAt
  <2>4. x[(n + b) - 1] = y[b - 1]
    <3>1. b - 1 \in 1..l /\ (n + b) - 1 = n + (b - 1)
      BY <2>3
    <3>. QED  BY <1>0, <1>1, <3>1
  <2>5. ASSUME NEW k \in 1..c PROVE x[(n + b) - c - 2 + k].v = y[b].crc[k]
    <3>1. b - c - 2 + k \in 1..l /\ (n + b) - c - 2 + k = n + (b - c - 2 + k)
      BY <2>3
    <3>2. x[n + (b - c - 2 + k)] = y[b - c - 2 + k]
      BY <1>0, <1>1, <3>1
    <3>. QED  BY <2>3, <3>1, <3>2
  <2>6. c + 2 <= n + b
    BY <2>3
  <2>7. EndsAt(x, n + b)
    BY <2>1, <2>2, <2>3, <2>4, <2>5, <2>6 DEF EndsAt
  <2>. QED  BY <1>2, <2>1, <2>7 DEF Mute
<1>. QED  BY <1>0, <1>1, <1>2, Zenon DEF Mute

LEMMA MuteMore ==
  ASSUME NEW j, NEW x, Mute(j, x), NEW z, Deaf(j, z), NEW y, Split(y, x, z)
  PROVE  Mute(j, y)
<1>0. /\ x \in Seq(BYTE) /\ y \in Seq(BYTE) /\ z \in Seq(BYTE) /\ Len(y) = Len(x) + Len(z)
      /\ \A k \in 1..Len(x) : y[k] = x[k]
      /\ \A k \in 1..Len(z) : y[Len(x) + k] = z[k]
  BY SplitIs
<1>1. PICK n \in Nat, l \in Nat : n = Len(x) /\ l = Len(z)
  BY <1>0
<1>2. ASSUME NEW b \in 1..(n + l), Carries(j, y[b]), EndsAt(y, b) PROVE FALSE
  <2>1. CASE b <= n
    <3>1. b \in 1..n /\ y[b] = x[b]
      BY <1>0, <1>1, <2>1
    <3>2. PICK c \in Nat : c = Len(y[b].crc)
      BY <1>0, <1>1, CrcLen
    <3>3. /\ y[b].v = 2 /\ c + 2 <= b /\ y[b - 1] = [v |-> 201, crc |-> y[b].crc]
          /\ \A k \in 1..c : y[b - c - 2 + k].v = y[b].crc[k]
      BY <1>2, <3>2 DEF EndsAt
    <3>4. x[b - 1] = y[b - 1]
      <4>1. b - 1 \in 1..n
        BY <2>1, <3>3
      <4>. QED  BY <1>0, <1>1, <4>1
    <3>5. ASSUME NEW k \in 1..c PROVE x[b - c - 2 + k].v = y[b].crc[k]
      <4>1. b - c - 2 + k \in 1..n
        BY <2>1, <3>3
      <4>2. y[b - c - 2 + k] = x[b - c - 2 + k]
        BY <1>0, <1>1, <4>1
      <4>. QED  BY <3>3, <4>2
    <3>6. EndsAt(x, b)
      BY <3>1, <3>2, <3>3, <3>4, <3>5 DEF EndsAt
    <3>. QED  BY <1>1, <1>2, <3>1, <3>6 DEF Mute
  <2>2. CASE ~(b <= n)
    <3>1. b - n \in 1..l /\ n + (b - n) = b
      BY <2>2
    <3>2. y[b] = z[b - n]
      BY <1>0, <1>1, <3>1
    <3>. QED  BY <1>1, <1>2, <3>1, <3>2 DEF Deaf
  <2>. QED  BY <2>1, <2>2
<1>3. Len(y) = n + l
  BY <1>0, <1>1
<1>. QED  BY <1>0, <1>2, <1>3, Zenon DEF Mute

LEMMA MuteMatch ==
  ASSUME NEW j, NEW x, Mute(j, x), NEW w, NEW y, Split(x, w, y), Len(w) >= 3, w[1].v \in {j, BROADCAST}
  PROVE  ~crc_matches(w)
<1>0. /\ x \in Seq(BYTE) /\ w \in Seq(BYTE) /\ y \in Seq(BYTE) /\ Len(x) = Len(w) + Len(y)
      /\ \A k \in 1..Len(w) : x[k] = w[k]
  BY SplitIs
<1>1. SUFFICES ASSUME crc_matches(w) PROVE FALSE
  OBVIOUS
<1>2. PICK n \in Nat, l \in Nat : n = Len(w) /\ n >= 3 /\ l = Len(y)
  BY <1>0
<1>3. PICK vs \in Seq(uint8_t) :
        /\ w[n].v = 2 /\ w[n].crc = vs /\ Len(vs) = n - 2
        /\ \A k \in 1..(n - 2) : vs[k] = w[k].v
        /\ w[n - 1] = [v |-> 201, crc |-> vs]
  BY <1>0, <1>1, <1>2, MatchIs
<1>4. n \in 1..Len(x) /\ x[n] = w[n] /\ x[n - 1] = w[n - 1]
  BY <1>0, <1>2
<1>5. Carries(j, x[n])
  <2>1. vs # <<>> /\ vs[1] = w[1].v
    BY <1>2, <1>3
  <2>. QED  BY <1>3, <1>4, <2>1 DEF Carries
<1>6. ASSUME NEW k \in 1..(n - 2) PROVE x[n - (n - 2) - 2 + k].v = vs[k]
  <2>1. n - (n - 2) - 2 + k = k /\ k \in 1..n
    BY <1>2
  <2>. QED  BY <1>0, <1>2, <1>3, <2>1
<1>7. EndsAt(x, n)
  <2>1. Len(x[n].crc) = n - 2 /\ x[n].crc = vs /\ x[n].v = 2 /\ x[n - 1] = [v |-> 201, crc |-> vs]
    BY <1>3, <1>4
  <2>2. (n - 2) + 2 <= n
    BY <1>2
  <2>. QED  BY <1>6, <2>1, <2>2 DEF EndsAt
<1>. QED  BY <1>4, <1>5, <1>7 DEF Mute

-----------------------------------------------------------------------------
(* Frames, whole and damaged.                                              *)

\* A frame, by the values vs it carries.
Framed(f, vs) ==
  /\ f \in Seq(BYTE) /\ vs \in Seq(uint8_t) /\ Len(vs) >= 2 /\ Len(f) = Len(vs) + 2
  /\ \A k \in 1..Len(vs) : f[k].v = vs[k] /\ f[k].crc = <<>>
  /\ f[Len(vs) + 1].v = 201 /\ f[Len(vs) + 1].crc = vs
  /\ f[Len(vs) + 2].v = 2 /\ f[Len(vs) + 2].crc = vs

LEMMA FrameParts ==
  ASSUME NEW id \in uint8_t, NEW pdu \in Seq(uint8_t), Len(pdu) > 0
  PROVE  /\ Framed(Frame(id, pdu), <<id>> \o pdu)
         /\ Len(<<id>> \o pdu) = Len(pdu) + 1 /\ (<<id>> \o pdu)[1] = id
         /\ \A k \in 1..Len(pdu) : (<<id>> \o pdu)[k + 1] = pdu[k]
<1>0. PICK vs : vs = <<id>> \o pdu
  OBVIOUS
<1>1. PICK n \in Nat : n = Len(pdu) + 1 /\ vs = <<id>> \o pdu
  BY <1>0
<1>2. /\ vs \in Seq(uint8_t) /\ Len(vs) = n /\ n >= 2 /\ vs[1] = id
      /\ \A k \in 1..Len(pdu) : vs[k + 1] = pdu[k]
  BY <1>1
<1>3. PICK b, c : b = Bytes(vs) /\ c = crc16(vs)
  OBVIOUS
<1>4. \A k \in 1..n : vs[k] \in uint8_t
  BY <1>2
<1>5. b = [k \in 1..n |-> Byte(vs[k])]
  BY <1>2, <1>3 DEF Bytes
<1>6. b \in Seq(BYTE) /\ Len(b) = n /\ \A k \in 1..n : b[k].v = vs[k] /\ b[k].crc = <<>>
  <2>1. \A k \in 1..n : Byte(vs[k]) \in BYTE
    BY <1>4, ByteIs
  <2>. QED  BY <1>5, <2>1 DEF Byte
<1>7. /\ c \in Seq(BYTE) /\ Len(c) = 2
      /\ c[1].v = 201 /\ c[1].crc = vs /\ c[2].v = 2 /\ c[2].crc = vs
  <2>1. 201 \in uint8_t /\ 2 \in uint8_t
    BY Uint8
  <2>2. [v |-> 201, crc |-> vs] \in BYTE /\ [v |-> 2, crc |-> vs] \in BYTE
    BY <1>2, <2>1 DEF BYTE
  <2>. QED  BY <1>3, <2>2 DEF crc16
<1>8. PICK f : f = b \o c
  OBVIOUS
<1>9. /\ f \in Seq(BYTE) /\ Len(f) = Len(b) + Len(c)
      /\ \A k \in 1..Len(b) : f[k] = b[k]
      /\ \A k \in 1..Len(c) : f[Len(b) + k] = c[k]
  <2>1. b \in Seq(BYTE) /\ c \in Seq(BYTE)
    BY <1>6, <1>7
  <2>. QED  BY <1>8, <2>1, CatOf
<1>10. f[n + 1] = c[1] /\ f[n + 2] = c[2]
  BY <1>6, <1>7, <1>9
<1>11. Len(f) = n + 2 /\ \A k \in 1..n : f[k].v = vs[k] /\ f[k].crc = <<>>
  BY <1>6, <1>7, <1>9
<1>12. Framed(f, vs)
  BY <1>2, <1>7, <1>9, <1>10, <1>11 DEF Framed
<1>13. f = Frame(id, pdu)
  BY <1>1, <1>3, <1>8, Zenon DEF Frame
<1>. QED  BY <1>1, <1>2, <1>12, <1>13

\* A frame is a message whose checksum matches.
LEMMA FramedMatches ==
  ASSUME NEW f, NEW vs, Framed(f, vs)
  PROVE  crc_matches(f)
<1>1. PICK n \in Nat :
        /\ n = Len(vs) /\ Len(f) = n + 2 /\ n >= 2 /\ f \in Seq(BYTE) /\ vs \in Seq(uint8_t)
        /\ \A k \in 1..n : f[k].v = vs[k] /\ f[k].crc = <<>>
        /\ f[n + 1].v = 201 /\ f[n + 1].crc = vs /\ f[n + 2].v = 2 /\ f[n + 2].crc = vs
  BY DEF Framed
<1>2. (n + 2) - 2 = n /\ (n + 2) - 1 = n + 1
  OBVIOUS
<1>3. PICK s, e : s = SubSeq(f, 1, n) /\ e = SubSeq(f, n + 1, n + 2)
  OBVIOUS
<1>4. s \in Seq(BYTE) /\ Len(s) = n /\ \A k \in 1..n : s[k] = f[k]
  BY <1>1, <1>3
<1>5. Values(s) = vs
  <2>1. Values(s) = [k \in 1..n |-> s[k].v]
    BY <1>4 DEF Values
  <2>2. \A k \in 1..n : s[k].v = vs[k]
    BY <1>1, <1>4
  <2>3. vs = [k \in 1..n |-> vs[k]]
    BY <1>1
  <2>. QED  BY <2>1, <2>2, <2>3
<1>6. e = crc16(vs)
  <2>1. e \in Seq(BYTE) /\ Len(e) = 2 /\ e[1] = f[n + 1] /\ e[2] = f[n + 2]
    <3>1. 1 <= n + 1 /\ n + 2 <= Len(f) /\ n + 1 \in Nat /\ n + 2 \in Nat /\ (n + 2) - (n + 1) + 1 = 2
      BY <1>1
    <3>. QED  BY <1>1, <1>3, <3>1
  <2>2. e[1] \in BYTE /\ e[2] \in BYTE
    <3>1. n + 1 \in 1..Len(f) /\ n + 2 \in 1..Len(f)
      BY <1>1
    <3>2. f[n + 1] \in BYTE /\ f[n + 2] \in BYTE
      BY <1>1, <3>1
    <3>. QED  BY <2>1, <3>2, Zenon
  <2>3. e[1] = [v |-> 201, crc |-> vs] /\ e[2] = [v |-> 2, crc |-> vs]
    BY <1>1, <2>1, <2>2 DEF BYTE
  <2>. QED  BY <2>1, <2>3 DEF crc16
<1>. QED  BY <1>1, <1>2, <1>3, <1>5, <1>6 DEF crc_matches

LEMMA FrameBody ==
  ASSUME NEW id \in uint8_t, NEW pdu \in Seq(uint8_t), Len(pdu) > 0
  PROVE  Body(Frame(id, pdu)) = pdu /\ Frame(id, pdu)[1].v = id
<1>1. PICK f, vs : f = Frame(id, pdu) /\ vs = <<id>> \o pdu
  OBVIOUS
<1>2. PICK n \in Nat : n = Len(pdu) /\ n > 0
  OBVIOUS
<1>3. Framed(f, vs) /\ Len(vs) = n + 1 /\ vs[1] = id /\ \A k \in 1..n : vs[k + 1] = pdu[k]
  <2>1. Framed(f, vs) /\ Len(vs) = Len(pdu) + 1 /\ vs[1] = id /\ \A k \in 1..Len(pdu) : vs[k + 1] = pdu[k]
    BY <1>1, FrameParts
  <2>. QED  BY <1>2, <2>1
<1>4. f \in Seq(BYTE) /\ Len(f) = n + 3 /\ \A k \in 1..(n + 1) : f[k].v = vs[k]
  BY <1>2, <1>3 DEF Framed
<1>5. Body(f) \in Seq(uint8_t) /\ Len(Body(f)) = n /\ \A k \in 1..n : Body(f)[k] = f[k + 1].v
  <2>1. Len(f) >= 3 /\ Len(f) - 3 = n
    BY <1>2, <1>4
  <2>. QED  BY <1>4, <2>1, BodyIs
<1>6. \A k \in 1..n : Body(f)[k] = pdu[k]
  BY <1>3, <1>4, <1>5
<1>7. Body(f) = pdu
  BY <1>2, <1>5, <1>6
<1>8. f[1].v = id
  BY <1>2, <1>3, <1>4
<1>. QED  BY <1>1, <1>7, <1>8

\* Of a frame that has lost its beginning nothing is left to take.
LEMMA MuteEnd ==
  ASSUME NEW f, NEW vs, Framed(f, vs), NEW s, NEW y, Split(f, s, y), Len(s) > 0, NEW j
  PROVE  Mute(j, y)
<1>1. PICK n \in Nat :
        /\ n = Len(vs) /\ Len(f) = n + 2 /\ n >= 2 /\ f \in Seq(BYTE) /\ vs \in Seq(uint8_t)
        /\ \A k \in 1..n : f[k].v = vs[k] /\ f[k].crc = <<>>
        /\ f[n + 1].v = 201 /\ f[n + 1].crc = vs /\ f[n + 2].v = 2 /\ f[n + 2].crc = vs
  BY DEF Framed
<1>2. /\ s \in Seq(BYTE) /\ y \in Seq(BYTE) /\ Len(f) = Len(s) + Len(y)
      /\ \A k \in 1..Len(y) : f[Len(s) + k] = y[k]
  BY SplitIs
<1>3. PICK a \in Nat, l \in Nat : a = Len(s) /\ a > 0 /\ l = Len(y) /\ a + l = n + 2
  BY <1>1, <1>2
<1>4. ASSUME NEW b \in 1..l, Carries(j, y[b]), EndsAt(y, b) PROVE FALSE
  <2>1. a + b \in 1..(n + 2) /\ y[b] = f[a + b]
    BY <1>2, <1>3
  <2>2. y[b].crc # <<>>
    BY <1>4 DEF Carries
  <2>3. ~(a + b \in 1..n)
    BY <1>1, <2>1, <2>2
  <2>4. a + b = n + 1 \/ a + b = n + 2
    BY <2>1, <2>3
  <2>5. y[b].crc = vs
    BY <1>1, <2>1, <2>4
  <2>6. n + 2 <= b
    BY <1>1, <1>4, <2>5 DEF EndsAt
  <2>. QED  BY <1>3, <2>6
<1>. QED  BY <1>2, <1>3, <1>4, Zenon DEF Mute

\* A byte in front of the checksum's end is not what it was.
Marred(g, f) ==
  /\ g \in Seq(BYTE) /\ Len(g) = Len(f) /\ g # f
  /\ \A k \in 1..Len(f) : g[k].crc = f[k].crc
  /\ g[Len(f) - 1].v # 2

LEMMA MuteMarred ==
  ASSUME NEW f, NEW vs, Framed(f, vs), NEW g, Marred(g, f), NEW j, NEW d, Deaf(j, d),
         NEW x, Split(x, d, g)
  PROVE  Mute(j, x)
<1>1. PICK n \in Nat :
        /\ n = Len(vs) /\ Len(f) = n + 2 /\ n >= 2 /\ f \in Seq(BYTE) /\ vs \in Seq(uint8_t)
        /\ \A k \in 1..n : f[k].v = vs[k] /\ f[k].crc = <<>>
        /\ f[n + 1].v = 201 /\ f[n + 1].crc = vs /\ f[n + 2].v = 2 /\ f[n + 2].crc = vs
  BY DEF Framed
<1>2. g \in Seq(BYTE) /\ Len(g) = n + 2 /\ g # f /\ g[n + 1].v # 2 /\ \A k \in 1..(n + 2) : g[k].crc = f[k].crc
  <2>1. (n + 2) - 1 = n + 1
    OBVIOUS
  <2>. QED  BY <1>1, <2>1 DEF Marred
<1>3. /\ x \in Seq(BYTE) /\ d \in Seq(BYTE) /\ Len(x) = Len(d) + Len(g)
      /\ \A k \in 1..Len(d) : x[k] = d[k]
      /\ \A k \in 1..Len(g) : x[Len(d) + k] = g[k]
  BY SplitIs
<1>4. PICK a \in Nat : a = Len(d)
  BY <1>3
<1>5. Len(x) = a + (n + 2) /\ \A k \in 1..(n + 2) : x[a + k] = g[k]
  BY <1>2, <1>3, <1>4
<1>6. ASSUME NEW b \in 1..(a + (n + 2)), Carries(j, x[b]), EndsAt(x, b) PROVE FALSE
  <2>1. ~(b <= a)
    <3>1. ASSUME b <= a PROVE FALSE
      <4>1. b \in 1..Len(d) /\ x[b] = d[b]
        BY <1>3, <1>4, <3>1
      <4>. QED  BY <1>6, <4>1 DEF Deaf
    <3>. QED  BY <3>1
  <2>2. PICK k \in 1..(n + 2) : b = a + k
    <3>1. b - a \in 1..(n + 2) /\ b = a + (b - a)
      BY <2>1
    <3>. QED  BY <3>1
  <2>3. x[b] = g[k] /\ g[k].crc # <<>> /\ g[k].v = 2
    BY <1>5, <1>6, <2>2 DEF Carries, EndsAt
  <2>4. ~(k \in 1..n) /\ k # n + 1
    BY <1>1, <1>2, <2>3
  <2>5. k = n + 2
    BY <2>2, <2>4
  <2>6. x[b].crc = vs /\ Len(x[b].crc) = n
    BY <1>1, <1>2, <2>3, <2>5
  <2>7. b - n - 2 = a /\ b - 1 = a + (n + 1)
    BY <2>2, <2>5
  <2>8. \A p \in 1..n : x[a + p].v = vs[p]
    BY <1>6, <2>6, <2>7 DEF EndsAt
  <2>9. x[a + (n + 1)] = [v |-> 201, crc |-> vs]
    BY <1>6, <2>6, <2>7 DEF EndsAt
  <2>10. ASSUME NEW p \in 1..(n + 2) PROVE g[p] = f[p]
    <3>0. g[p] \in BYTE /\ f[p] \in BYTE
      BY <1>1, <1>2
    <3>1. g[p].crc = f[p].crc
      BY <1>2
    <3>2. g[p].v = f[p].v
      <4>1. CASE p \in 1..n
        <5>1. x[a + p] = g[p]
          BY <1>5
        <5>2. g[p].v = vs[p]
          BY <2>8, <4>1, <5>1
        <5>. QED  BY <1>1, <4>1, <5>2
      <4>2. CASE p = n + 1
        <5>1. x[a + p] = g[p]
          BY <1>5
        <5>. QED  BY <1>1, <2>9, <4>2, <5>1
      <4>3. CASE p = n + 2
        BY <1>1, <2>3, <2>5, <4>3
      <4>. QED  BY <4>1, <4>2, <4>3
    <3>. QED  BY <3>0, <3>1, <3>2 DEF BYTE
  <2>11. g = f
    <3>1. Len(g) = Len(f) /\ \A p \in 1..Len(g) : g[p] = f[p]
      BY <1>1, <1>2, <2>10
    <3>. QED  BY <1>1, <1>2, <3>1, SameBytes
  <2>. QED  BY <1>2, <2>11
<1>. QED  BY <1>3, <1>5, <1>6, Zenon DEF Mute

\* What noise makes of a frame.
LEMMA NoiseIs ==
  ASSUME NEW f, NEW vs, Framed(f, vs), NEW g \in Noisy(f) \ {f}
  PROVE  Marred(g, f) \/ Split(g, <<Byte(255)>>, f)
<1>1. PICK n \in Nat :
        /\ n = Len(vs) /\ Len(f) = n + 2 /\ n >= 2 /\ f \in Seq(BYTE) /\ vs \in Seq(uint8_t)
        /\ f[n + 1].v = 201 /\ f[n + 1].crc = vs /\ f[n + 2].v = 2 /\ f[n + 2].crc = vs
  BY DEF Framed
<1>2. ASSUME NEW k \in 1..3, NEW v \in uint8_t, v # 2 \/ k # 3, g = Changed(f, k, v)
      PROVE  Marred(g, f)
  <2>1. k \in 1..(n + 2) /\ f[k] \in BYTE
    BY <1>1
  <2>2. [v |-> v, crc |-> f[k].crc] \in BYTE
    BY <2>1 DEF BYTE
  <2>3. /\ g \in Seq(BYTE) /\ Len(g) = n + 2 /\ g[k].v = v /\ g[k].crc = f[k].crc
        /\ \A p \in 1..(n + 2) : p # k => g[p] = f[p]
    BY <1>1, <1>2, <2>1, <2>2 DEF Changed
  <2>4. \A p \in 1..(n + 2) : g[p].crc = f[p].crc
    BY <2>3
  <2>5. g[n + 1].v # 2
    <3>1. CASE k = n + 1
      <4>1. k = 3
        BY <1>1, <3>1
      <4>. QED  BY <1>2, <2>3, <3>1, <4>1
    <3>2. CASE k # n + 1
      BY <1>1, <2>3, <3>2
    <3>. QED  BY <3>1, <3>2
  <2>6. (n + 2) - 1 = n + 1
    OBVIOUS
  <2>. QED  BY <1>1, <2>3, <2>4, <2>5, <2>6 DEF Marred
<1>3. ASSUME g = <<Byte(255)>> \o f PROVE Split(g, <<Byte(255)>>, f)
  <2>1. 255 \in uint8_t
    BY Uint8
  <2>2. <<Byte(255)>> \in Seq(BYTE)
    BY <2>1, ByteIs
  <2>. QED  BY <1>1, <1>3, <2>2, Zenon DEF Split
<1>4. \/ g = <<Byte(255)>> \o f
      \/ \E k \in 1..3, v \in {2, 16, 253} : (v # 2 \/ k # 3) /\ g = Changed(f, k, v)
  BY DEF Noisy
<1>5. 2 \in uint8_t /\ 16 \in uint8_t /\ 253 \in uint8_t
  BY Uint8
<1>. QED  BY <1>2, <1>3, <1>4, <1>5

-----------------------------------------------------------------------------
(* Requests and answers are whole messages.                                *)

\* The values of an answer that is not an exception.
AnswerIs(pdu) ==
  \/ pdu[1] \in {5, 6, 15, 16} /\ Len(pdu) = 5
  \/ pdu[1] = 22 /\ Len(pdu) = 7
  \/ /\ pdu[1] \in {1, 2, 3, 4, 17, 23} /\ pdu[2] \in Nat /\ pdu[2] <= 250
     /\ Len(pdu) = 2 + pdu[2]

Refused(pdu) == pdu[1] >= 128
Answered(r) == Refused(r.pdu) \/ (~r.to_flush /\ AnswerIs(r.pdu))

LEMMA ExceptionAnswered ==
  ASSUME NEW m, NEW q, q[1] \in Nat
  PROVE  /\ Answered(IllegalFunction(m, q)) /\ Answered(IllegalAddress(m, q))
         /\ Answered(IllegalCount(m, q)) /\ Answered(IllegalValue(m, q))
<1>1. ASSUME NEW code, NEW flush PROVE Answered(response_exception(m, q, code, flush))
  <2>1. response_exception(m, q, code, flush).pdu[1] = q[1] + 128
    BY DEF response_exception
  <2>. QED  BY <2>1 DEF Answered, Refused
<1>. QED  BY <1>1 DEF IllegalFunction, IllegalAddress, IllegalCount, IllegalValue

LEMMA ListIs ==
  ASSUME NEW n \in Nat, NEW data, data = [i \in 1..n |-> data[i]]
  PROVE  \E S : data \in Seq(S) /\ Len(data) = n
<1>1. PICK S : S = {data[i] : i \in 1..n}
  OBVIOUS
<1>2. data \in Seq(S) /\ Len(data) = n
  BY <1>1
<1>. QED  BY <1>2

LEMMA DataAnswered ==
  ASSUME NEW m, NEW f \in {1, 2, 3, 4, 17, 23}, NEW n \in Nat, n <= 250,
         NEW data, data = [i \in 1..n |-> data[i]]
  PROVE  Answered(Answers(m, <<f, n>> \o data))
<1>1. PICK S : data \in Seq(S) /\ Len(data) = n
  BY ListIs
<1>2. PICK T : T = S \cup {f, n}
  OBVIOUS
<1>3. data \in Seq(T) /\ <<f, n>> \in Seq(T) /\ Len(<<f, n>>) = 2
  BY <1>1, <1>2
<1>4. PICK pdu : pdu = <<f, n>> \o data
  OBVIOUS
<1>5. Len(pdu) = 2 + n /\ pdu[1] = f /\ pdu[2] = n
  BY <1>1, <1>3, <1>4
<1>6. AnswerIs(pdu)
  BY <1>5 DEF AnswerIs
<1>. QED  BY <1>4, <1>6 DEF Answered, Answers

LEMMA ReadBitsAnswered ==
  ASSUME NEW m, NEW q, WholeRequest(q), q[1] \in {1, 2}
  PROVE  Answered(reply_read_bits(m, q))
<1>0. q \in Seq(uint8_t) /\ Len(q) = 5 /\ q[1] \in Nat
  BY WholeLengths
<1>. DEFINE t == IF q[1] = 2 THEN m.input_bits ELSE m.bits
            nb == word(q, 4)
            a == address(q) - t.start
<1>1. nb \in Nat
  <2>1. 4 \in Nat \ {0} /\ 4 + 1 <= Len(q)
    BY <1>0
  <2>2. word(q, 4) \in uint16_t
    BY <1>0, <2>1, WordIs
  <2>. QED  BY <2>2, Uint16
<1>4. CASE nb < 1 \/ nb > MODBUS_MAX_READ_BITS
  BY <1>0, <1>4, ExceptionAnswered DEF reply_read_bits
<1>5. CASE ~(nb < 1 \/ nb > MODBUS_MAX_READ_BITS) /\ Outside(t, a, nb)
  BY <1>0, <1>5, ExceptionAnswered DEF reply_read_bits
<1>6. CASE ~(nb < 1 \/ nb > MODBUS_MAX_READ_BITS) /\ ~Outside(t, a, nb)
  <2>1. PICK n, data : n = BytesOfBits(nb) /\ data = response_io_status(t, a, nb)
    OBVIOUS
  <2>2. data = [i \in 1..n |-> data[i]]
    BY <2>1 DEF response_io_status
  <2>3. n \in Nat /\ n <= 250
    <3>1. nb <= 2000
      BY <1>1, <1>6 DEF MODBUS_MAX_READ_BITS
    <3>. HIDE DEF nb
    <3>2. 8 * n <= nb + 7 /\ n \in Nat
      BY <1>1, <2>1, BytesOfBitsIs
    <3>. QED  BY <1>1, <3>1, <3>2
  <2>4. reply_read_bits(m, q) = Answers(m, <<q[1], n>> \o data)
    BY <1>6, <2>1 DEF reply_read_bits
  <2>. HIDE DEF t, nb, a
  <2>5. q[1] \in {1, 2, 3, 4, 17, 23}
    OBVIOUS
  <2>. QED  BY <2>2, <2>3, <2>4, <2>5, DataAnswered
<1>. QED  BY <1>4, <1>5, <1>6

LEMMA ReadRegistersAnswered ==
  ASSUME NEW m, NEW q, WholeRequest(q), q[1] \in {3, 4}
  PROVE  Answered(reply_read_registers(m, q))
<1>0. q \in Seq(uint8_t) /\ Len(q) = 5 /\ q[1] \in Nat
  BY WholeLengths
<1>. DEFINE t == IF q[1] = 4 THEN m.input_registers ELSE m.registers
            nb == word(q, 4)
            a == address(q) - t.start
<1>1. nb \in Nat
  <2>1. 4 \in Nat \ {0} /\ 4 + 1 <= Len(q)
    BY <1>0
  <2>2. word(q, 4) \in uint16_t
    BY <1>0, <2>1, WordIs
  <2>. QED  BY <2>2, Uint16
<1>4. CASE nb < 1 \/ nb > MODBUS_MAX_READ_REGISTERS
  BY <1>0, <1>4, ExceptionAnswered DEF reply_read_registers
<1>5. CASE ~(nb < 1 \/ nb > MODBUS_MAX_READ_REGISTERS) /\ Outside(t, a, nb)
  BY <1>0, <1>5, ExceptionAnswered DEF reply_read_registers
<1>6. CASE ~(nb < 1 \/ nb > MODBUS_MAX_READ_REGISTERS) /\ ~Outside(t, a, nb)
  <2>1. PICK n, data : n = 2 * nb /\ data = RegisterBytes(t, a, nb)
    OBVIOUS
  <2>2. data = [i \in 1..n |-> data[i]]
    BY <2>1 DEF RegisterBytes
  <2>3. n \in Nat /\ n <= 250
    BY <1>1, <1>6, <2>1 DEF MODBUS_MAX_READ_REGISTERS
  <2>4. reply_read_registers(m, q) = Answers(m, <<q[1], n>> \o data)
    BY <1>6, <2>1 DEF reply_read_registers
  <2>. HIDE DEF t, nb, a
  <2>5. q[1] \in {1, 2, 3, 4, 17, 23}
    OBVIOUS
  <2>. QED  BY <2>2, <2>3, <2>4, <2>5, DataAnswered
<1>. QED  BY <1>4, <1>5, <1>6

LEMMA WriteAndReadAnswered ==
  ASSUME NEW m, NEW q, WholeRequest(q), q[1] = 23
  PROVE  Answered(reply_write_and_read_registers(m, q))
<1>0. q \in Seq(uint8_t) /\ Len(q) >= 5 /\ q[1] \in Nat
  BY WholeLengths
<1>. DEFINE nb == word(q, 4)
            nb_write == word(q, 8)
            a == address(q) - m.registers.start
            w == word(q, 6) - m.registers.start
            written == Store(m.registers, w, words(q, 11, nb_write))
            bad == \/ nb_write < 1 \/ nb_write > MODBUS_MAX_WR_WRITE_REGISTERS
                   \/ nb < 1 \/ nb > MODBUS_MAX_READ_REGISTERS
                   \/ q[10] # 2 * nb_write
            out == Outside(m.registers, a, nb) \/ w + nb_write > m.registers.nb
<1>1. nb \in Nat
  <2>1. 4 \in Nat \ {0} /\ 4 + 1 <= Len(q)
    BY <1>0
  <2>2. word(q, 4) \in uint16_t
    BY <1>0, <2>1, WordIs
  <2>. QED  BY <2>2, Uint16
<1>4. CASE bad
  BY <1>0, <1>4, ExceptionAnswered DEF reply_write_and_read_registers
<1>5. CASE ~bad /\ out
  BY <1>0, <1>5, ExceptionAnswered DEF reply_write_and_read_registers
<1>6. CASE ~bad /\ ~out
  <2>1. PICK n, data : n = 2 * nb /\ data = RegisterBytes(written, a, nb)
    OBVIOUS
  <2>2. data = [i \in 1..n |-> data[i]]
    BY <2>1 DEF RegisterBytes
  <2>3. n \in Nat /\ n <= 250
    BY <1>1, <1>6, <2>1 DEF MODBUS_MAX_READ_REGISTERS
  <2>4. reply_write_and_read_registers(m, q) =
          Answers(WithRegisters(m, written), <<q[1], n>> \o data)
    BY <1>6, <2>1 DEF reply_write_and_read_registers
  <2>. HIDE DEF nb, nb_write, a, w, written, bad, out
  <2>5. q[1] \in {1, 2, 3, 4, 17, 23}
    OBVIOUS
  <2>. QED  BY <2>2, <2>3, <2>4, <2>5, DataAnswered
<1>. QED  BY <1>4, <1>5, <1>6

LEMMA EchoAnswered ==
  ASSUME NEW m, NEW q, q \in Seq(uint8_t),
         (q[1] \in {5, 6} /\ Len(q) = 5) \/ (q[1] = 22 /\ Len(q) = 7)
  PROVE  Answered(Answers(m, q))
BY DEF Answered, Answers, AnswerIs

LEMMA ShortAnswered ==
  ASSUME NEW m, NEW q, q \in Seq(uint8_t), q[1] \in {15, 16}, Len(q) >= 6
  PROVE  Answered(Answers(m, SubSeq(q, 1, 5)))
<1>1. PICK p : p = SubSeq(q, 1, 5)
  OBVIOUS
<1>2. Len(p) = 5 /\ p[1] = q[1]
  BY <1>1
<1>3. AnswerIs(p)
  BY <1>2 DEF AnswerIs
<1>. QED  BY <1>1, <1>3 DEF Answered, Answers

\* What modbus_reply answers: an exception, or at once what its master expects.
LEMMA ReplyAnswered ==
  ASSUME NEW m, NEW q, WholeRequest(q)
  PROVE  Answered(modbus_reply(m, q))
<1>0. /\ q \in Seq(uint8_t) /\ Len(q) > 0 /\ q[1] \in Nat /\ q[1] < 128
      /\ q[1] \in {1, 2, 3, 4, 5, 6} => Len(q) = 5
      /\ q[1] \in {15, 16} => Len(q) >= 6
      /\ q[1] = 22 => Len(q) = 7
  BY WholeLengths
<1>1. CASE q[1] \in BitReads
  BY <1>1, ReadBitsAnswered DEF modbus_reply, BitReads
<1>2. CASE q[1] \in {3, 4}
  BY <1>2, ReadRegistersAnswered DEF modbus_reply, BitReads
<1>3. CASE q[1] = 5
  <2>1. modbus_reply(m, q) = reply_write_bit(m, q)
    BY <1>3 DEF modbus_reply, BitReads
  <2>. QED  BY <1>0, <1>3, <2>1, EchoAnswered, ExceptionAnswered DEF reply_write_bit
<1>4. CASE q[1] = 6
  <2>1. modbus_reply(m, q) = reply_write_register(m, q)
    BY <1>4 DEF modbus_reply, BitReads
  <2>. QED  BY <1>0, <1>4, <2>1, EchoAnswered, ExceptionAnswered DEF reply_write_register
<1>5. CASE q[1] = 15
  <2>1. modbus_reply(m, q) = reply_write_bits(m, q)
    BY <1>5 DEF modbus_reply, BitReads
  <2>2. \E u : modbus_reply(m, q) \in {IllegalCount(m, q), IllegalAddress(m, q), Answers(u, SubSeq(q, 1, 5))}
    BY <2>1 DEF reply_write_bits
  <2>3. \A u : Answered(Answers(u, SubSeq(q, 1, 5)))
    BY <1>0, <1>5, ShortAnswered
  <2>. QED  BY <1>0, <2>2, <2>3, ExceptionAnswered
<1>6. CASE q[1] = 16
  <2>1. modbus_reply(m, q) = reply_write_registers(m, q)
    BY <1>6 DEF modbus_reply, BitReads
  <2>2. \E u : modbus_reply(m, q) \in {IllegalCount(m, q), IllegalAddress(m, q), Answers(u, SubSeq(q, 1, 5))}
    BY <2>1 DEF reply_write_registers
  <2>3. \A u : Answered(Answers(u, SubSeq(q, 1, 5)))
    BY <1>0, <1>6, ShortAnswered
  <2>. QED  BY <1>0, <2>2, <2>3, ExceptionAnswered
<1>7. CASE q[1] = 17
  <2>1. modbus_reply(m, q) = Answers(m, <<17, 2, 180, 255>>)
    BY <1>7 DEF modbus_reply, BitReads, reply_report_slave_id
  <2>2. AnswerIs(<<17, 2, 180, 255>>)
    BY DEF AnswerIs
  <2>. QED  BY <2>1, <2>2 DEF Answered, Answers
<1>8. CASE q[1] = 22
  <2>1. modbus_reply(m, q) = reply_mask_write_register(m, q)
    BY <1>8 DEF modbus_reply, BitReads
  <2>. QED  BY <1>0, <1>8, <2>1, EchoAnswered, ExceptionAnswered DEF reply_mask_write_register
<1>9. CASE q[1] = 23
  BY <1>9, WriteAndReadAnswered DEF modbus_reply, BitReads
<1>10. CASE q[1] \notin BitReads \cup {3, 4, 5, 6, 15, 16, 17, 22, 23}
  BY <1>0, <1>10, ExceptionAnswered DEF modbus_reply
<1>. QED  BY <1>1, <1>2, <1>3, <1>4, <1>5, <1>6, <1>7, <1>8, <1>9, <1>10

\* The bytes of a frame, from the function code on.
LEMMA FrameValues ==
  ASSUME NEW id \in uint8_t, NEW pdu \in Seq(uint8_t), NEW n \in Nat, n = Len(pdu), n > 0,
         NEW f, f = Frame(id, pdu)
  PROVE  f \in Seq(BYTE) /\ Len(f) = n + 3 /\ \A k \in 1..n : f[k + 1].v = pdu[k]
<1>1. PICK vs : vs = <<id>> \o pdu
  OBVIOUS
<1>2. Framed(f, vs) /\ Len(vs) = Len(pdu) + 1 /\ \A k \in 1..Len(pdu) : vs[k + 1] = pdu[k]
  BY <1>1, FrameParts
<1>3. f \in Seq(BYTE) /\ Len(f) = Len(vs) + 2 /\ \A k \in 1..Len(vs) : f[k].v = vs[k]
  BY <1>2 DEF Framed
<1>4. Len(f) = n + 3
  BY <1>2, <1>3
<1>5. ASSUME NEW k \in 1..n PROVE f[k + 1].v = pdu[k]
  <2>1. k + 1 \in 1..Len(vs)
    BY <1>2
  <2>. QED  BY <1>2, <1>3, <2>1
<1>. QED  BY <1>3, <1>4, <1>5

LEMMA LengthAdds ==
  ASSUME NEW mt \in Nat, NEW k \in Nat, NEW n, n = 1 + mt + (0 + k), NEW l, l = n + 3,
         NEW da, da = 2 + k
  PROVE  l = 2 + mt + da
OBVIOUS

\* A request is a whole indication.
LEMMA RequestWhole ==
  ASSUME NEW id \in uint8_t, NEW q, WholeRequest(q), Len(q) <= 253
  PROVE  Whole(Frame(id, q), FALSE)
<1>1. q \in Seq(uint8_t) /\ Len(q) > 0 /\ q[1] \in Nat
  BY WholeLengths
<1>0. PICK f : f = Frame(id, q)
  OBVIOUS
<1>2. PICK n \in Nat : n = Len(q) /\ n > 0 /\ n <= 253 /\ f = Frame(id, q)
  BY <1>0, <1>1
<1>3. f \in Seq(BYTE) /\ Len(f) = n + 3 /\ \A k \in 1..n : f[k + 1].v = q[k]
  BY <1>1, <1>2, FrameValues
<1>4. f[2].v = q[1]
  <2>1. 1 \in 1..n /\ 1 + 1 = 2
    BY <1>2
  <2>. QED  BY <1>3, <2>1
<1>5. PICK mt : mt = Meta(f, FALSE) /\ mt = compute_meta_length_after_function(q[1], "INDICATION")
  BY <1>4 DEF Meta, Kind
<1>6. Len(f) >= 2 /\ mt \in Nat
  <2>1. Len(f) >= 2
    BY <1>2, <1>3
  <2>. QED  BY <1>3, <1>5, <2>1, MetaIs
<1>7. /\ n >= 1 + mt
      /\ n = 1 + mt + compute_data_length_after_meta(q, "INDICATION", 0)
  BY <1>2, <1>5 DEF WholeRequest
<1>8. Len(f) >= 2 + mt
  BY <1>2, <1>3, <1>6, <1>7
<1>9. PICK da : da = Data(f, FALSE)
  OBVIOUS
<1>10. /\ q[1] \in MultipleWrites => mt = 5 /\ f[7].v \in Nat /\ da = 2 + f[7].v
       /\ q[1] = 23 => mt = 9 /\ f[11].v \in Nat /\ da = 2 + f[11].v
       /\ q[1] \notin MultipleWrites \cup {23} => da = 2
  BY <1>3, <1>4, <1>5, <1>6, <1>8, <1>9, DataIs
<1>11. Len(f) = 2 + mt + da
  <2>1. CASE q[1] \in MultipleWrites
    <3>1. compute_data_length_after_meta(q, "INDICATION", 0) = 0 + q[6]
      BY <2>1 DEF compute_data_length_after_meta, MultipleWrites
    <3>2. 6 \in 1..n /\ 6 + 1 = 7
      BY <1>7, <1>10, <2>1
    <3>3. f[7].v = q[6]
      BY <1>3, <3>2
    <3>4. PICK k : k = q[6]
      OBVIOUS
    <3>5. k \in Nat /\ da = 2 + k
      BY <1>10, <2>1, <3>3, <3>4
    <3>6. n = 1 + mt + (0 + k)
      BY <1>7, <3>1, <3>4
    <3>7. Len(f) = n + 3 /\ mt \in Nat
      BY <1>3, <1>6
    <3>. QED  BY <3>5, <3>6, <3>7, LengthAdds
  <2>2. CASE q[1] = 23
    <3>1. compute_data_length_after_meta(q, "INDICATION", 0) = 0 + q[10]
      BY <2>2 DEF compute_data_length_after_meta, MultipleWrites
    <3>2. 10 \in 1..n /\ 10 + 1 = 11
      BY <1>7, <1>10, <2>2
    <3>3. f[11].v = q[10]
      BY <1>3, <3>2
    <3>4. PICK k : k = q[10]
      OBVIOUS
    <3>5. k \in Nat /\ da = 2 + k
      BY <1>10, <2>2, <3>3, <3>4
    <3>6. n = 1 + mt + (0 + k)
      BY <1>7, <3>1, <3>4
    <3>7. Len(f) = n + 3 /\ mt \in Nat
      BY <1>3, <1>6
    <3>. QED  BY <3>5, <3>6, <3>7, LengthAdds
  <2>3. CASE q[1] \notin MultipleWrites \cup {23}
    <3>1. compute_data_length_after_meta(q, "INDICATION", 0) = 0 + 0
      BY <2>3 DEF compute_data_length_after_meta
    <3>2. da = 2
      BY <1>10, <2>3
    <3>3. n = 1 + mt
      BY <1>6, <1>7, <3>1
    <3>4. Len(f) = n + 3
      BY <1>3
    <3>. QED  BY ONLY <1>6, <3>2, <3>3, <3>4
  <2>. QED  BY <2>1, <2>2, <2>3
<1>12. Len(f) <= max_adu_length
  BY <1>2, <1>3 DEF max_adu_length
<1>13. Ended(f, FALSE)
  BY <1>5, <1>6, <1>8, <1>9, <1>11 DEF Ended
<1>. QED  BY <1>2, <1>3, <1>12, <1>13 DEF Whole

\* An answer that is not an exception is a whole confirmation.
LEMMA AnswerWhole ==
  ASSUME NEW id \in uint8_t, NEW pdu \in Seq(uint8_t), AnswerIs(pdu)
  PROVE  Whole(Frame(id, pdu), TRUE)
<1>1. PICK f : f = Frame(id, pdu)
  OBVIOUS
<1>2. PICK n \in Nat : n = Len(pdu) /\ n >= 2 /\ n <= 252
  <2>1. \/ Len(pdu) = 5 \/ Len(pdu) = 7
        \/ pdu[2] \in Nat /\ pdu[2] <= 250 /\ Len(pdu) = 2 + pdu[2]
    BY Zenon DEF AnswerIs
  <2>2. PICK n \in Nat : n = Len(pdu)
    OBVIOUS
  <2>3. CASE pdu[2] \in Nat /\ pdu[2] <= 250 /\ Len(pdu) = 2 + pdu[2]
    <3>1. PICK k \in Nat : k = pdu[2] /\ k <= 250 /\ n = 2 + k
      BY <2>2, <2>3
    <3>. QED  BY <2>2, <3>1
  <2>4. CASE Len(pdu) = 5 \/ Len(pdu) = 7
    <3>1. n = 5 \/ n = 7
      BY <2>2, <2>4, Zenon
    <3>2. n >= 2 /\ n <= 252
      BY ONLY <3>1
    <3>. QED  BY <2>2, <3>2, Zenon
  <2>. QED  BY <2>1, <2>3, <2>4
<1>3. f \in Seq(BYTE) /\ Len(f) = n + 3 /\ \A k \in 1..n : f[k + 1].v = pdu[k]
  BY <1>1, <1>2, FrameValues
<1>4. f[2].v = pdu[1] /\ f[3].v = pdu[2]
  <2>1. 1 \in 1..n /\ 1 + 1 = 2 /\ 2 \in 1..n /\ 2 + 1 = 3
    BY <1>2
  <2>. QED  BY <1>3, <2>1
<1>5. PICK mt, da : mt = Meta(f, TRUE) /\ da = Data(f, TRUE)
  OBVIOUS
<1>6. mt = compute_meta_length_after_function(pdu[1], "CONFIRMATION")
  BY <1>4, <1>5 DEF Meta, Kind
<1>7. Len(f) >= 2
  BY <1>2, <1>3
<1>8. CASE pdu[1] \in {5, 6, 15, 16} /\ Len(pdu) = 5
  <2>1. mt = 4
    BY <1>6, <1>8 DEF compute_meta_length_after_function, SingleWrites, MultipleWrites
  <2>2. Len(f) = 8
    BY <1>2, <1>3, <1>8
  <2>3. ~Counted(pdu[1])
    BY <1>8 DEF Counted
  <2>4. Len(f) >= 2 + mt
    BY <2>1, <2>2
  <2>5. da = 2
    BY <1>3, <1>4, <1>5, <1>7, <2>3, <2>4, DataIs
  <2>6. Len(f) = 2 + mt + da /\ Len(f) <= 256
    BY <2>1, <2>2, <2>5
  <2>7. Ended(f, TRUE)
    BY <1>5, <1>7, <2>4, <2>6 DEF Ended
  <2>. QED  BY <1>1, <1>3, <2>6, <2>7 DEF Whole, max_adu_length
<1>9. CASE pdu[1] = 22 /\ Len(pdu) = 7
  <2>1. mt = 6
    BY <1>6, <1>9 DEF compute_meta_length_after_function, SingleWrites, MultipleWrites
  <2>2. Len(f) = 10
    BY <1>2, <1>3, <1>9
  <2>3. ~Counted(pdu[1])
    BY <1>9 DEF Counted
  <2>4. Len(f) >= 2 + mt
    BY <2>1, <2>2
  <2>5. da = 2
    BY <1>3, <1>4, <1>5, <1>7, <2>3, <2>4, DataIs
  <2>6. Len(f) = 2 + mt + da /\ Len(f) <= 256
    BY <2>1, <2>2, <2>5
  <2>7. Ended(f, TRUE)
    BY <1>5, <1>7, <2>4, <2>6 DEF Ended
  <2>. QED  BY <1>1, <1>3, <2>6, <2>7 DEF Whole, max_adu_length
<1>10. CASE /\ pdu[1] \in {1, 2, 3, 4, 17, 23} /\ pdu[2] \in Nat /\ pdu[2] <= 250
            /\ Len(pdu) = 2 + pdu[2]
  <2>1. mt = 1
    BY <1>6, <1>10 DEF compute_meta_length_after_function, SingleWrites, MultipleWrites
  <2>2. Len(f) = 5 + pdu[2]
    BY <1>2, <1>3, <1>10
  <2>3. Counted(pdu[1])
    BY <1>10 DEF Counted
  <2>4. Len(f) >= 2 + mt
    BY <1>10, <2>1, <2>2
  <2>5. da = 2 + pdu[2]
    BY <1>3, <1>4, <1>5, <1>7, <2>3, <2>4, DataIs
  <2>6. Len(f) = 2 + mt + da /\ Len(f) <= 256
    BY <1>10, <2>1, <2>2, <2>5
  <2>7. Ended(f, TRUE)
    BY <1>5, <1>7, <2>4, <2>6 DEF Ended
  <2>. QED  BY <1>1, <1>3, <2>6, <2>7 DEF Whole, max_adu_length
<1>. QED  BY <1>8, <1>9, <1>10 DEF AnswerIs

\* What a slave hears of messages of others tells it nothing.
LEMMA CargoDeaf ==
  ASSUME NEW j, NEW g, NEW vs, Cargo(g, vs), vs[1] \notin {j, BROADCAST}
  PROVE  g \in Seq(BYTE) /\ Deaf(j, g)
BY DEF Cargo, Deaf, Carries

LEMMA FrameOther ==
  ASSUME NEW id \in uint8_t, NEW pdu \in Seq(uint8_t), Len(pdu) > 0, NEW j, id \notin {j, BROADCAST}
  PROVE  Other(j, Frame(id, pdu))
<1>1. PICK f, vs : f = Frame(id, pdu) /\ vs = <<id>> \o pdu
  OBVIOUS
<1>2. Cargo(f, vs)
  BY <1>1, NoisyIs
<1>3. vs[1] = id
  BY <1>1, FrameParts
<1>4. Deaf(j, f)
  BY <1>2, <1>3, CargoDeaf
<1>5. f[1].v = id
  BY <1>1, FrameBody
<1>. QED  BY <1>1, <1>4, <1>5 DEF Other

-----------------------------------------------------------------------------
(* What a slave has executed, compared with what was sent.                 *)

HeededBy(i, d, log, f) ==
  /\ \A k \in 1..Len(d) : Mine(i, log[f[k]]) /\ log[f[k]].pdu = d[k]
  /\ \A j, k \in 1..Len(d) : j < k => f[j] < f[k]
  /\ \A n \in 1..Len(log) : Mine(i, log[n]) => \E k \in 1..Len(d) : f[k] = n
Heeded(i, d, log) == \E f \in [1..Len(d) -> 1..Len(log)] : HeededBy(i, d, log, f)

LEMMA HeededNone == ASSUME NEW i PROVE Heeded(i, <<>>, <<>>)
<1>1. PICK f : f = [k \in 1..0 |-> 1]
  OBVIOUS
<1>2. f \in [1..Len(<<>>) -> 1..Len(<<>>)] /\ HeededBy(i, <<>>, <<>>, f)
  BY <1>1 DEF HeededBy
<1>. QED  BY <1>2, Zenon DEF Heeded

LEMMA HeededSkip ==
  ASSUME NEW i, NEW d \in Seq(Seq(uint8_t)), NEW log \in Seq(Entry), Heeded(i, d, log),
         NEW e \in Entry, ~Mine(i, e)
  PROVE  Heeded(i, d, Append(log, e))
<1>1. PICK more : more = Append(log, e)
  OBVIOUS
<1>2. PICK n \in Nat, l \in Nat : n = Len(d) /\ l = Len(log)
  OBVIOUS
<1>3. Len(more) = l + 1 /\ more[l + 1] = e /\ \A k \in 1..l : more[k] = log[k]
  BY <1>1, <1>2
<1>4. PICK f \in [1..n -> 1..l] :
        /\ \A k \in 1..n : Mine(i, log[f[k]]) /\ log[f[k]].pdu = d[k]
        /\ \A j, k \in 1..n : j < k => f[j] < f[k]
        /\ \A p \in 1..l : Mine(i, log[p]) => \E k \in 1..n : f[k] = p
  BY <1>2 DEF Heeded, HeededBy
<1>5. f \in [1..n -> 1..(l + 1)]
  BY <1>4
<1>6. \A k \in 1..n : Mine(i, more[f[k]]) /\ more[f[k]].pdu = d[k]
  <2>1. \A k \in 1..n : f[k] \in 1..l
    BY <1>4
  <2>. QED  BY <1>3, <1>4, <2>1
<1>7. \A p \in 1..(l + 1) : Mine(i, more[p]) => \E k \in 1..n : f[k] = p
  <2>1. SUFFICES ASSUME NEW p \in 1..(l + 1), Mine(i, more[p]) PROVE \E k \in 1..n : f[k] = p
    OBVIOUS
  <2>2. p # l + 1
    BY <1>3, <2>1
  <2>3. p \in 1..l
    BY <2>2
  <2>. QED  BY <1>3, <1>4, <2>1, <2>3
<1>8. HeededBy(i, d, more, f)
  BY <1>2, <1>3, <1>4, <1>6, <1>7 DEF HeededBy
<1>. QED  BY <1>1, <1>2, <1>3, <1>5, <1>8 DEF Heeded

LEMMA HeededNext ==
  ASSUME NEW i, NEW d \in Seq(Seq(uint8_t)), NEW log \in Seq(Entry), Heeded(i, d, log),
         NEW e \in Entry, Mine(i, e)
  PROVE  Heeded(i, Append(d, e.pdu), Append(log, e))
<1>1. PICK more, all : more = Append(log, e) /\ all = Append(d, e.pdu)
  OBVIOUS
<1>2. PICK n \in Nat, l \in Nat : n = Len(d) /\ l = Len(log)
  OBVIOUS
<1>3. Len(more) = l + 1 /\ more[l + 1] = e /\ \A k \in 1..l : more[k] = log[k]
  BY <1>1, <1>2
<1>4. Len(all) = n + 1 /\ all[n + 1] = e.pdu /\ \A k \in 1..n : all[k] = d[k]
  <2>1. e.pdu \in Seq(uint8_t)
    BY DEF Entry
  <2>. QED  BY <1>1, <1>2, <2>1
<1>5. PICK f \in [1..n -> 1..l] :
        /\ \A k \in 1..n : Mine(i, log[f[k]]) /\ log[f[k]].pdu = d[k]
        /\ \A j, k \in 1..n : j < k => f[j] < f[k]
        /\ \A p \in 1..l : Mine(i, log[p]) => \E k \in 1..n : f[k] = p
  BY <1>2 DEF Heeded, HeededBy
<1>6. PICK g : g = [k \in 1..(n + 1) |-> IF k = n + 1 THEN l + 1 ELSE f[k]]
  OBVIOUS
<1>7. \A k \in 1..n : k \in 1..(n + 1) /\ k # n + 1 /\ f[k] \in 1..l
  BY <1>5
<1>8. g[n + 1] = l + 1 /\ \A k \in 1..n : g[k] = f[k]
  BY <1>6, <1>7
<1>9. g \in [1..(n + 1) -> 1..(l + 1)]
  <2>1. ASSUME NEW k \in 1..(n + 1) PROVE g[k] \in 1..(l + 1)
    <3>1. CASE k = n + 1
      BY <1>8, <3>1
    <3>2. CASE k \in 1..n
      <4>1. g[k] \in 1..l
        BY <1>7, <1>8, <3>2
      <4>. QED  BY <4>1
    <3>. QED  BY <3>1, <3>2
  <2>2. \A k \in 1..(n + 1) : g[k] \in 1..(l + 1)
    BY <2>1
  <2>. QED  BY <1>6, <2>2
<1>10. ASSUME NEW k \in 1..(n + 1) PROVE Mine(i, more[g[k]]) /\ more[g[k]].pdu = all[k]
  <2>1. CASE k = n + 1
    BY <1>3, <1>4, <1>8, <2>1
  <2>2. CASE k \in 1..n
    <3>1. more[g[k]] = log[f[k]]
      BY <1>3, <1>7, <1>8, <2>2
    <3>. QED  BY <1>4, <1>5, <2>2, <3>1
  <2>. QED  BY <2>1, <2>2
<1>11. ASSUME NEW j \in 1..(n + 1), NEW k \in 1..(n + 1), j < k PROVE g[j] < g[k]
  <2>1. j \in 1..n
    BY <1>11
  <2>2. CASE k = n + 1
    BY <1>7, <1>8, <2>1, <2>2
  <2>3. CASE k \in 1..n
    BY <1>5, <1>8, <1>11, <2>1, <2>3
  <2>. QED  BY <2>2, <2>3
<1>12. ASSUME NEW p \in 1..(l + 1), Mine(i, more[p]) PROVE \E k \in 1..(n + 1) : g[k] = p
  <2>1. CASE p = l + 1
    BY <1>8, <2>1
  <2>2. CASE p \in 1..l
    <3>1. PICK k \in 1..n : f[k] = p
      BY <1>3, <1>5, <1>12, <2>2
    <3>. QED  BY <1>7, <1>8, <3>1
  <2>. QED  BY <2>1, <2>2
<1>13. HeededBy(i, all, more, g)
  BY <1>3, <1>4, <1>10, <1>11, <1>12 DEF HeededBy
<1>. QED  BY <1>1, <1>3, <1>4, <1>9, <1>13 DEF Heeded

-----------------------------------------------------------------------------
(* What becomes of the bytes x a slave has before it when it reads: m are  *)
(* those it has read then, y the others.                                   *)

\* A message w was read to its end, and a whole message in front of x is w.
Found(x, c, w, y) ==
  /\ Split(x, w, y) /\ Len(w) >= 3
  /\ \A f, z : Whole(f, c) /\ Split(x, f, z) => w = f /\ y = z

\* No message fits in front of x, and some bytes are dropped.
Lost(x, c, y) ==
  /\ \E w : Split(x, w, y) /\ Len(w) >= 2
  /\ \A f, z : ~(Whole(f, c) /\ Split(x, f, z))

Fresh(m, p) == m = <<>> /\ p = "receive"

Outcome(i, x, c, m, y, b, p) ==
  \/ Split(x, m, y) /\ b = c /\ p = "receive"
  \/ Lost(x, c, y) /\ ~b /\ Fresh(m, p)
  \/ \E w : Found(x, c, w, y) /\ w[1].v \notin {i, BROADCAST} /\ b = ~c /\ Fresh(m, p)
  \/ \E w, z : /\ Found(x, c, w, z) /\ w[1].v \in {i, BROADCAST} /\ ~crc_matches(w)
               /\ y \in {z, <<>>} /\ ~b /\ Fresh(m, p)
  \/ \E w : /\ Found(x, c, w, y) /\ w[1].v \in {i, BROADCAST} /\ crc_matches(w) /\ ~b
            /\ IF c THEN Fresh(m, p) ELSE m = w /\ p = "reply"

\* It reads the messages of others in step, until it comes to t.
LEMMA LinedReads ==
  ASSUME NEW i, NEW x, NEW c \in BOOLEAN, NEW m, NEW y, NEW b \in BOOLEAN, NEW p,
         Outcome(i, x, c, m, y, b, p), NEW t, Lined(i, c, x, t), c \/ x # t
  PROVE  p = "receive" /\ Lined(i, b, m \o y, t)
<1>1. PICK f, z : Whole(f, c) /\ Other(i, f) /\ Split(x, f, z) /\ Lined(i, ~c, z, t)
  <2>1. CASE c
    <3>1. PICK a, z : Whole(a, TRUE) /\ Other(i, a) /\ Row(i, z, t) /\ Split(x, a, z)
      BY <2>1, Zenon DEF Lined
    <3>2. Whole(a, c) /\ Lined(i, ~c, z, t)
      BY <2>1, <3>1 DEF Lined
    <3>. QED  BY <3>1, <3>2, Zenon
  <2>2. CASE ~c
    <3>1. Row(i, x, t)
      BY <2>2, Zenon DEF Lined
    <3>2. PICK q, z : Whole(q, FALSE) /\ Other(i, q) /\ Split(x, q, z) /\ Lined(i, TRUE, z, t)
      BY <2>2, <3>1, RowFirst, Zenon
    <3>3. Whole(q, c) /\ Lined(i, ~c, z, t)
      BY <2>2, <3>2
    <3>. QED  BY <3>2, <3>3, Zenon
  <2>. QED  BY <2>1, <2>2
<1>2. f[1].v \notin {i, BROADCAST}
  BY <1>1 DEF Other
<1>3. CASE Split(x, m, y) /\ b = c /\ p = "receive"
  <2>1. x = m \o y
    BY <1>3, Zenon DEF Split
  <2>. QED  BY <1>3, <2>1, Zenon
<1>4. ~Lost(x, c, y)
  BY <1>1, Zenon DEF Lost
<1>5. ASSUME NEW w, NEW r, Found(x, c, w, r) PROVE w = f /\ r = z
  BY <1>1, <1>5, Zenon DEF Found
<1>6. CASE \E w : Found(x, c, w, y) /\ w[1].v \notin {i, BROADCAST} /\ b = ~c /\ Fresh(m, p)
  <2>1. y = z /\ b = ~c /\ Fresh(m, p)
    BY <1>5, <1>6, Zenon
  <2>2. m = <<>> /\ p = "receive"
    BY <2>1 DEF Fresh
  <2>3. z \in Seq(BYTE)
    BY <1>1, SplitIs, Zenon
  <2>4. m \o y = z
    BY <2>1, <2>2, <2>3, NothingBefore
  <2>. QED  BY <1>1, <2>1, <2>2, <2>4, Zenon
<1>. QED  BY <1>2, <1>3, <1>4, <1>5, <1>6, Zenon DEF Outcome

\* It finds a whole request.
Progress(i, x, m, y, b, p) ==
  \/ Split(x, m, y) /\ ~b /\ p = "receive"
  \/ x[1].v \notin {i, BROADCAST} /\ b /\ m = <<>> /\ y = <<>> /\ p = "receive"
  \/ x[1].v \in {i, BROADCAST} /\ ~b /\ m = x /\ y = <<>> /\ p = "reply"

LEMMA RequestRead ==
  ASSUME NEW i, NEW x, NEW m, NEW y, NEW b, NEW p,
         Outcome(i, x, FALSE, m, y, b, p), Whole(x, FALSE), crc_matches(x)
  PROVE  Progress(i, x, m, y, b, p)
<1>1. Split(x, x, <<>>)
  BY SplitNone DEF Whole
<1>2. ~Lost(x, FALSE, y)
  BY <1>1, Zenon DEF Lost
<1>3. ASSUME NEW w, NEW r, Found(x, FALSE, w, r) PROVE w = x /\ r = <<>>
  BY <1>1, <1>3, Zenon DEF Found
<1>4. CASE Split(x, m, y) /\ b = FALSE /\ p = "receive"
  BY <1>4, Zenon DEF Progress
<1>5. CASE \E w : Found(x, FALSE, w, y) /\ w[1].v \notin {i, BROADCAST} /\ b = ~FALSE /\ Fresh(m, p)
  <2>1. PICK w : Found(x, FALSE, w, y) /\ w[1].v \notin {i, BROADCAST} /\ b = ~FALSE /\ Fresh(m, p)
    BY <1>5
  <2>2. w = x /\ y = <<>>
    BY <1>3, <2>1
  <2>. QED  BY <2>1, <2>2, Zenon DEF Fresh, Progress
<1>6. ~\E w, z : Found(x, FALSE, w, z) /\ ~crc_matches(w)
  BY <1>3, Zenon
<1>7. CASE \E w : /\ Found(x, FALSE, w, y) /\ w[1].v \in {i, BROADCAST} /\ crc_matches(w) /\ ~b
                  /\ m = w /\ p = "reply"
  <2>1. PICK w : /\ Found(x, FALSE, w, y) /\ w[1].v \in {i, BROADCAST} /\ crc_matches(w) /\ ~b
                 /\ m = w /\ p = "reply"
    BY <1>7
  <2>2. w = x /\ y = <<>>
    BY <1>3, <2>1
  <2>. QED  BY <2>1, <2>2, Zenon DEF Progress
<1>. QED  BY <1>2, <1>4, <1>5, <1>6, <1>7, Zenon DEF Outcome, Progress

\* It finds nothing to answer where there is nothing.
LEMMA MuteReads ==
  ASSUME NEW i, NEW x, NEW c \in BOOLEAN, NEW m, NEW y, NEW b \in BOOLEAN, NEW p,
         Outcome(i, x, c, m, y, b, p), Mute(i, x)
  PROVE  p = "receive" /\ Mute(i, m \o y)
<1>1. CASE Split(x, m, y) /\ b = c /\ p = "receive"
  <2>1. x = m \o y
    BY <1>1, Zenon DEF Split
  <2>. QED  BY <1>1, <2>1, Zenon
<1>2. ASSUME NEW w, NEW z, Split(x, w, z), y \in {z, <<>>}, Fresh(m, p)
      PROVE  p = "receive" /\ Mute(i, m \o y)
  <2>1. Mute(i, z) /\ z \in Seq(BYTE)
    BY <1>2, MuteRest, SplitIs, Zenon
  <2>2. Mute(i, <<>>)
    BY DeafMute, DeafNone, NothingIs
  <2>3. m = <<>> /\ p = "receive"
    BY <1>2 DEF Fresh
  <2>4. y \in Seq(BYTE) /\ Mute(i, y)
    BY <1>2, <2>1, <2>2, NothingIs, Zenon
  <2>5. m \o y = y
    BY <2>3, <2>4, NothingBefore
  <2>. QED  BY <2>3, <2>4, <2>5, Zenon
<1>3. ASSUME NEW w, NEW z, Found(x, c, w, z), w[1].v \in {i, BROADCAST} PROVE ~crc_matches(w)
  <2>1. Split(x, w, z) /\ Len(w) >= 3
    BY <1>3, Zenon DEF Found
  <2>. QED  BY <1>3, <2>1, MuteMatch, Zenon
<1>4. CASE Lost(x, c, y) /\ ~b /\ Fresh(m, p)
  <2>1. PICK w : Split(x, w, y)
    BY <1>4, Zenon DEF Lost
  <2>2. y \in {y, <<>>}
    OBVIOUS
  <2>. QED  BY <1>2, <1>4, <2>1, <2>2, Zenon
<1>5. CASE \E w : Found(x, c, w, y) /\ w[1].v \notin {i, BROADCAST} /\ b = ~c /\ Fresh(m, p)
  <2>1. PICK w : Split(x, w, y) /\ Fresh(m, p)
    BY <1>5, Zenon DEF Found
  <2>2. y \in {y, <<>>}
    OBVIOUS
  <2>. QED  BY <1>2, <2>1, <2>2, Zenon
<1>6. CASE \E w, z : /\ Found(x, c, w, z) /\ w[1].v \in {i, BROADCAST} /\ ~crc_matches(w)
                     /\ y \in {z, <<>>} /\ ~b /\ Fresh(m, p)
  <2>1. PICK w, z : Split(x, w, z) /\ y \in {z, <<>>} /\ Fresh(m, p)
    BY <1>6, Zenon DEF Found
  <2>. QED  BY <1>2, <2>1, Zenon
<1>. QED  BY <1>1, <1>3, <1>4, <1>5, <1>6, Zenon DEF Outcome

\* A byte of noise in front of a frame: the message that begins with it is
\* nobody's, and takes a part of the frame with it.
LEMMA OddRest ==
  ASSUME NEW f, NEW vs, Framed(f, vs), NEW x, Split(x, <<Byte(255)>>, f),
         NEW w, NEW y, Split(x, w, y), Len(w) >= 2, NEW j
  PROVE  Mute(j, y) /\ w[1] = Byte(255)
<1>0. PICK o : o = <<Byte(255)>>
  OBVIOUS
<1>1. Len(o) = 1 /\ o[1] = Byte(255)
  BY <1>0
<1>2. /\ x \in Seq(BYTE) /\ f \in Seq(BYTE) /\ Len(x) = 1 + Len(f) /\ x[1] = o[1]
      /\ \A k \in 1..Len(f) : x[1 + k] = f[k]
  <2>1. /\ x \in Seq(BYTE) /\ f \in Seq(BYTE) /\ Len(x) = Len(o) + Len(f)
        /\ \A k \in 1..Len(o) : x[k] = o[k]
        /\ \A k \in 1..Len(f) : x[Len(o) + k] = f[k]
    <3>1. Split(x, o, f)
      BY <1>0, Zenon
    <3>. QED  BY ONLY <3>1, SplitIs
  <2>. QED  BY <1>1, <2>1
<1>3. /\ w \in Seq(BYTE) /\ y \in Seq(BYTE) /\ Len(x) = Len(w) + Len(y)
      /\ \A k \in 1..Len(w) : x[k] = w[k]
      /\ \A k \in 1..Len(y) : x[Len(w) + k] = y[k]
  BY SplitIs
<1>4. PICK a \in Nat, l \in Nat : a = Len(w) /\ a >= 2 /\ l = Len(y) /\ Len(f) = (a - 1) + l
  BY <1>2, <1>3
<1>5. PICK s : s = SubSeq(f, 1, a - 1)
  OBVIOUS
<1>6. PICK r : r = SubSeq(f, (a - 1) + 1, Len(f))
  OBVIOUS
<1>7. s \in Seq(BYTE) /\ Len(s) = a - 1 /\ r \in Seq(BYTE) /\ s \o r = f
  <2>1. a - 1 \in Nat /\ a - 1 <= Len(f)
    BY <1>4
  <2>. QED  BY <1>2, <1>5, <1>6, <2>1, PartsAre
<1>8. /\ Len(f) = Len(s) + Len(r)
      /\ \A k \in 1..Len(r) : f[Len(s) + k] = r[k]
  BY <1>7, CatOf
<1>9. Len(r) = l
  <2>1. Len(r) \in Nat
    BY <1>7
  <2>. QED  BY <1>4, <1>7, <1>8, <2>1
<1>10. ASSUME NEW k \in 1..l PROVE r[k] = y[k]
  <2>1. f[(a - 1) + k] = r[k]
    BY <1>7, <1>8, <1>9
  <2>2. x[a + k] = y[k]
    BY <1>3, <1>4
  <2>3. (a - 1) + k \in 1..Len(f) /\ 1 + ((a - 1) + k) = a + k
    BY <1>4
  <2>4. x[a + k] = f[(a - 1) + k]
    BY <1>2, <2>3
  <2>. QED  BY <2>1, <2>2, <2>4
<1>11. r = y
  <2>1. Len(r) = Len(y) /\ \A k \in 1..Len(r) : r[k] = y[k]
    BY <1>4, <1>9, <1>10
  <2>. QED  BY <1>3, <1>7, <2>1, SameBytes
<1>12. Split(f, s, y)
  BY <1>3, <1>7, <1>11, Zenon DEF Split
<1>13. Len(s) > 0
  BY <1>4, <1>7
<1>14. Mute(j, y)
  BY <1>12, <1>13, MuteEnd, Zenon
<1>15. w[1] = Byte(255)
  <2>1. 1 \in 1..Len(w)
    BY <1>4
  <2>2. x[1] = w[1]
    BY <1>3, <2>1
  <2>. QED  BY <1>1, <1>2, <2>2, Zenon
<1>. QED  BY <1>14, <1>15

LEMMA OddReads ==
  ASSUME NEW f, NEW vs, Framed(f, vs), NEW x, Split(x, <<Byte(255)>>, f),
         NEW i, i # 255, NEW m, NEW y, NEW b \in BOOLEAN, NEW p, Outcome(i, x, FALSE, m, y, b, p)
  PROVE  p = "receive" /\ ((Split(x, m, y) /\ ~b) \/ Mute(i, m \o y))
<1>1. CASE Split(x, m, y) /\ b = FALSE /\ p = "receive"
  BY <1>1
<1>2. ASSUME NEW w, Split(x, w, y), Len(w) >= 2, Fresh(m, p)
      PROVE  p = "receive" /\ Mute(i, m \o y)
  <2>1. Mute(i, y)
    BY <1>2, OddRest, Zenon
  <2>2. y \in Seq(BYTE)
    BY <1>2, SplitIs, Zenon
  <2>3. m = <<>> /\ p = "receive"
    BY <1>2 DEF Fresh
  <2>4. m \o y = y
    BY <2>2, <2>3, NothingBefore
  <2>. QED  BY <2>1, <2>3, <2>4, Zenon
<1>3. ASSUME NEW w, NEW z, Found(x, FALSE, w, z) PROVE Split(x, w, z) /\ Len(w) >= 2 /\ w[1].v \notin {i, BROADCAST}
  <2>1. Split(x, w, z) /\ Len(w) >= 3
    BY <1>3, Zenon DEF Found
  <2>2. w \in Seq(BYTE)
    BY <2>1, SplitIs, Zenon
  <2>3. Len(w) >= 2
    BY <2>1, <2>2
  <2>4. Mute(i, z) /\ w[1] = Byte(255)
    BY <2>1, <2>3, OddRest, Zenon
  <2>5. w[1].v = 255
    BY <2>4 DEF Byte
  <2>. QED  BY <2>1, <2>3, <2>5 DEF BROADCAST
<1>4. CASE Lost(x, FALSE, y) /\ ~b /\ Fresh(m, p)
  <2>1. PICK w : Split(x, w, y) /\ Len(w) >= 2
    BY <1>4, Zenon DEF Lost
  <2>. QED  BY <1>2, <1>4, <2>1, Zenon
<1>5. CASE \E w : Found(x, FALSE, w, y) /\ w[1].v \notin {i, BROADCAST} /\ b = ~FALSE /\ Fresh(m, p)
  <2>1. PICK w : Found(x, FALSE, w, y) /\ Fresh(m, p)
    BY <1>5, Zenon
  <2>. QED  BY <1>2, <1>3, <2>1, Zenon
<1>. QED  BY <1>1, <1>3, <1>4, <1>5, Zenon DEF Outcome

LEMMA FailedIs ==
  ASSUME NEW i \in Slaves, confirmation_to_ignore \in [Slaves -> BOOLEAN], receive(i, -1)
  PROVE  confirmation_to_ignore'[i] = FALSE
<1>1. ~(-1 = 0)
  OBVIOUS
<1>. QED  BY <1>1 DEF receive

\* Recv, as seen by the slave.
LEMMA RecvOutcome ==
  ASSUME NEW i \in Slaves, Typed, At(i), Recv(i)
  PROVE  /\ Outcome(i, msg[i] \o rx[i], confirmation_to_ignore[i],
                    msg'[i], rx'[i], confirmation_to_ignore'[i], pc'[i])
         /\ msg[i] \in Seq(BYTE) /\ rx[i] \in Seq(BYTE) /\ rx[i] # <<>>
         /\ confirmation_to_ignore[i] \in BOOLEAN /\ confirmation_to_ignore'[i] \in BOOLEAN
<1>. DEFINE c == confirmation_to_ignore[i]
            m == msg[i]
            x == m \o rx[i]
<1>1. /\ Reading(i, m, step[i], to_read[i], c, "receive") /\ m \in Seq(BYTE) /\ rx[i] \in Seq(BYTE)
      /\ c \in BOOLEAN /\ rx[i] # <<>>
  <2>1. pc[i] = "receive" /\ rx[i] # <<>>
    BY DEF Recv
  <2>2. Reading(i, m, step[i], to_read[i], c, pc[i])
    BY DEF At, SlaveIs
  <2>. QED  BY <2>1, <2>2 DEF Typed
<1>2. PICK s \in Seq(BYTE), y \in Seq(BYTE) :
        /\ rx[i] = s \o y
        /\ \/ /\ Len(s) < to_read[i]
              /\ More(i, m \o s, y, step[i], to_read[i] - Len(s))
           \/ /\ Len(s) = to_read[i] /\ Len(m \o s) = 2 /\ Meta(m \o s, c) > 0
              /\ More(i, m \o s, y, "meta", Meta(m \o s, c))
           \/ /\ Len(s) = to_read[i] /\ Len(m \o s) = 2 + Meta(m \o s, c)
              /\ Len(m \o s) + Data(m \o s, c) <= max_adu_length
              /\ More(i, m \o s, y, "data", Data(m \o s, c))
           \/ /\ Len(s) = to_read[i] /\ Len(m \o s) = 2 + Meta(m \o s, c)
              /\ Len(m \o s) + Data(m \o s, c) > max_adu_length
              /\ GiveUp(i, y)
           \/ /\ Len(s) = to_read[i] /\ step[i] = "data"
              /\ Complete(i, m \o s, y)
  BY RecvIs
<1>3. PICK w : w = m \o s
  OBVIOUS
<1>4. Split(w, m, s) /\ Split(x, w, y)
  <2>1. w \in Seq(BYTE)
    BY <1>1, <1>3, CatOf
  <2>2. x = w \o y
    <3>1. (m \o s) \o y = m \o (s \o y)
      BY <1>1, CatAgain
    <3>2. rx[i] = s \o y
      BY <1>2
    <3>. QED  BY <1>3, <3>1, <3>2, Zenon
  <2>. QED  BY <1>1, <1>3, <2>1, <2>2, Zenon DEF Split
<1>5. ASSUME Len(s) = to_read[i], NEW f, NEW z, Whole(f, c), Split(x, f, z)
      PROVE  (step[i] = "data" => w = f /\ y = z) /\ ~TooLong(w, c)
  <2>1. PICK k, n, st, a, u : k = c /\ n = to_read[i] /\ st = step[i] /\ a = m /\ u = x
    OBVIOUS
  <2>2. /\ Reading(i, a, st, n, k, "receive") /\ Len(s) = n /\ Split(w, a, s) /\ Split(u, w, y)
        /\ Whole(f, k) /\ Split(u, f, z)
    BY <1>1, <1>4, <1>5, <2>1, Zenon
  <2>3. (st = "data" => w = f /\ y = z) /\ ~TooLong(w, k)
    BY <2>2, ReadsFirst, Zenon
  <2>. QED  BY <2>1, <2>3, Zenon
<1>6. ASSUME Len(s) = to_read[i] PROVE Len(w) >= 2 /\ (step[i] = "data" => Len(w) >= 3)
  BY <1>1, <1>3, <1>6, StepRead
<1>7. /\ rx \in [Slaves -> Seq(BYTE)] /\ msg \in [Slaves -> Seq(BYTE)]
      /\ confirmation_to_ignore \in [Slaves -> BOOLEAN] /\ pc \in [Slaves -> {"receive", "reply", "sleep"}]
      /\ pc[i] = "receive"
  BY DEF Typed, Recv
<1>8. ASSUME NEW st, NEW n, More(i, w, y, st, n)
      PROVE  msg'[i] = w /\ rx'[i] = y /\ confirmation_to_ignore'[i] = c /\ pc'[i] = "receive"
  BY <1>7, <1>8 DEF More
<1>9. CASE \E st, n : More(i, w, y, st, n)
  BY <1>1, <1>4, <1>8, <1>9 DEF Outcome
<1>10. CASE Len(s) = to_read[i] /\ TooLong(w, c) /\ GiveUp(i, y)
  <2>1. /\ msg'[i] = <<>> /\ rx'[i] = y /\ confirmation_to_ignore'[i] = FALSE /\ pc'[i] = "receive"
    <3>1. receive(i, -1) /\ Restart(i) /\ rx' = [rx EXCEPT ![i] = y] /\ pc' = pc
      BY <1>10 DEF GiveUp
    <3>2. confirmation_to_ignore'[i] = FALSE
      BY <1>7, <3>1, FailedIs
    <3>. QED  BY <1>7, <3>1, <3>2 DEF Restart
  <2>2. Lost(x, c, y)
    BY <1>4, <1>5, <1>6, <1>10, Zenon DEF Lost
  <2>. HIDE DEF c, m, x
  <2>3. Outcome(i, x, c, msg'[i], rx'[i], confirmation_to_ignore'[i], pc'[i])
    BY <2>1, <2>2 DEF Outcome, Fresh
  <2>. QED  BY <1>1, <2>1, <2>3 DEF c, m, x
<1>11. CASE Len(s) = to_read[i] /\ step[i] = "data" /\ Complete(i, w, y)
  <2>1. Found(x, c, w, y)
    BY <1>4, <1>5, <1>6, <1>11, Zenon DEF Found
  <2>2. CASE w[1].v \notin {i, BROADCAST}
    <3>1. check_integrity(i, w) = 0
      BY <2>2 DEF check_integrity
    <3>2. msg'[i] = <<>> /\ rx'[i] = y /\ confirmation_to_ignore'[i] = ~c /\ pc'[i] = "receive"
      BY <1>7, <1>11, <3>1 DEF Complete, Restart, receive
    <3>. HIDE DEF c, m, x
    <3>3. Outcome(i, x, c, msg'[i], rx'[i], confirmation_to_ignore'[i], pc'[i])
      BY <2>1, <2>2, <3>2 DEF Outcome, Fresh
    <3>. QED  BY <1>1, <3>2, <3>3 DEF c, m, x
  <2>3. CASE w[1].v \in {i, BROADCAST} /\ ~crc_matches(w)
    <3>1. check_integrity(i, w) = -1
      BY <2>3 DEF check_integrity
    <3>2. msg'[i] = <<>> /\ rx'[i] \in {y, <<>>} /\ confirmation_to_ignore'[i] = FALSE /\ pc'[i] = "receive"
      <4>1. receive(i, -1) /\ Restart(i) /\ pc' = pc
        BY <1>11, <3>1 DEF Complete
      <4>2. rx' = [rx EXCEPT ![i] = IF "PROTOCOL" \in error_recovery THEN <<>> ELSE y]
        BY <1>11, <3>1 DEF Complete
      <4>3. confirmation_to_ignore'[i] = FALSE
        BY <1>7, <4>1, FailedIs
      <4>. QED  BY <1>7, <4>1, <4>2, <4>3 DEF Restart
    <3>. HIDE DEF c, m, x
    <3>3. Outcome(i, x, c, msg'[i], rx'[i], confirmation_to_ignore'[i], pc'[i])
      BY <2>1, <2>3, <3>2 DEF Outcome, Fresh
    <3>. QED  BY <1>1, <3>2, <3>3 DEF c, m, x
  <2>4. CASE w[1].v \in {i, BROADCAST} /\ crc_matches(w)
    <3>0. Len(w) \in Nat /\ Len(w) >= 3
      <4>1. w \in Seq(BYTE)
        BY <1>4, SplitIs
      <4>. QED  BY <1>6, <1>11, <4>1
    <3>1. check_integrity(i, w) = Len(w)
      BY <2>4 DEF check_integrity
    <3>2. Len(w) # 0 /\ Len(w) # -1 /\ Len(w) > 0
      BY <3>0
    <3>3. /\ rx'[i] = y /\ confirmation_to_ignore'[i] = FALSE
          /\ IF c THEN msg'[i] = <<>> /\ pc'[i] = "receive" ELSE msg'[i] = w /\ pc'[i] = "reply"
      BY <1>1, <1>7, <1>11, <3>1, <3>2 DEF Complete, Restart, receive
    <3>. HIDE DEF c, m, x
    <3>4. Outcome(i, x, c, msg'[i], rx'[i], confirmation_to_ignore'[i], pc'[i])
      BY <1>1, <2>1, <2>4, <3>3 DEF Outcome, Fresh
    <3>. QED  BY <1>1, <3>3, <3>4 DEF c, m, x
  <2>. QED  BY <2>2, <2>3, <2>4
<1>. HIDE DEF c, m, x
<1>12. \/ \E st, n : More(i, w, y, st, n)
       \/ Len(s) = to_read[i] /\ TooLong(w, c) /\ GiveUp(i, y)
       \/ Len(s) = to_read[i] /\ step[i] = "data" /\ Complete(i, w, y)
  BY <1>2, <1>3, Zenon DEF TooLong
<1>. QED  BY <1>9, <1>10, <1>11, <1>12

-----------------------------------------------------------------------------
(* How the master and the slaves stand to each other, when the master lets *)
(* the line fall silent after every failure.                               *)

Last == sent[Len(sent)]
Wire(e) == Frame(e.slave, e.pdu)
Own(j, e) == e.slave \in {j, BROADCAST}

\* What slave j will have executed with e.
Executed(j, e) == IF Own(j, e) THEN Append(done[j], e.pdu) ELSE done[j]

Stream(j) == msg[j] \o rx[j]
InStep(j, t) ==
  pc[j] = "receive" /\ rsp[j] = <<>> /\ Lined(j, confirmation_to_ignore[j], Stream(j), t)
Drained(j) == msg[j] = <<>> /\ rx[j] = <<>>

\* An answer that waits is an exception.
Held(j) == rsp[j] # <<>> => pc[j] = "sleep" /\ rsp[j][2].v >= 128

\* Request e is on its way to slave j, it has taken it, it has executed it, or
\* it has seen that it is for another slave.
Coming(j, e) == InStep(j, Wire(e)) /\ Heeded(j, Executed(j, e), sent)
Taken(j, e) ==
  /\ Own(j, e) /\ pc[j] = "reply" /\ rsp[j] = <<>> /\ msg[j] = Wire(e) /\ rx[j] = <<>>
  /\ ~confirmation_to_ignore[j] /\ Heeded(j, Append(done[j], e.pdu), sent)
Finished(j, e) ==
  /\ Own(j, e) /\ pc[j] # "reply" /\ Held(j) /\ (rsp[j] # <<>> => e.slave = j) /\ Drained(j)
  /\ ~confirmation_to_ignore[j] /\ Heeded(j, done[j], sent)
Seen(j, e) ==
  /\ ~Own(j, e) /\ pc[j] = "receive" /\ rsp[j] = <<>> /\ Drained(j)
  /\ confirmation_to_ignore[j] /\ Heeded(j, done[j], sent)

InOrder(j) == InStep(j, <<>>) /\ Heeded(j, done[j], sent)
HasAsked(j, e) == Coming(j, e) \/ Taken(j, e) \/ Finished(j, e) \/ Seen(j, e)
NoMore(j) == pc[j] # "reply" /\ Held(j) /\ Heeded(j, done[j], sent) /\ Mute(j, Stream(j))
Shifted(j, e) ==
  \E t : Split(t, <<Byte(255)>>, Wire(e)) /\ InStep(j, t) /\ Heeded(j, done[j], sent)

\* All is in order; a request that is whole is being worked off; nothing is left
\* to execute; or what is left is a request behind a byte of noise.
Orderly == master = "idle" /\ \A j \in Slaves : InOrder(j)
Asked == master = "wait" /\ Len(sent) > 0 /\ \A j \in Slaves : HasAsked(j, Last)
Spent == master # "idle" /\ \A j \in Slaves : NoMore(j)
Odd ==
  /\ master # "idle" /\ Len(sent) > 0
  /\ \A j \in Slaves : (NoMore(j) /\ rsp[j] = <<>>) \/ Shifted(j, Last)

Told == \A k \in 1..Len(sent) : WholeRequest(sent[k].pdu) /\ Len(sent[k].pdu) <= 253
Hear == Told /\ (Orderly \/ Asked \/ Spent \/ Odd)

LEMMA SlaveIn == \A j \in Slaves : j \in 1..247 /\ j # 255 /\ j \in uint8_t
<1>1. \A j \in Slaves : j \in 1..247
  BY SlavesAssumption
<1>. QED  BY <1>1, Uint8

LEMMA EntryIs ==
  ASSUME NEW e \in Entry, WholeRequest(e.pdu), Len(e.pdu) <= 253
  PROVE  /\ e.slave \in uint8_t /\ e.pdu \in Seq(uint8_t) /\ Len(e.pdu) > 0
         /\ Framed(Wire(e), <<e.slave>> \o e.pdu) /\ Whole(Wire(e), FALSE) /\ crc_matches(Wire(e))
         /\ Wire(e)[1].v = e.slave /\ Body(Wire(e)) = e.pdu
         /\ Wire(e) \in Seq(BYTE) /\ Wire(e) # <<>>
<1>1. e.slave \in uint8_t
  <2>1. e.slave \in 0..247
    BY DEF Entry
  <2>2. e.slave \in Nat /\ e.slave <= 255
    BY ONLY <2>1
  <2>. QED  BY <2>2, Uint8
<1>2. e.pdu \in Seq(uint8_t) /\ Len(e.pdu) > 0
  BY WholeLengths
<1>3. PICK f : f = Wire(e) /\ f = Frame(e.slave, e.pdu)
  BY DEF Wire
<1>4. Framed(f, <<e.slave>> \o e.pdu)
  BY <1>1, <1>2, <1>3, FrameParts
<1>5. crc_matches(f)
  BY <1>4, FramedMatches
<1>6. Whole(f, FALSE)
  BY <1>1, <1>3, RequestWhole
<1>7. f[1].v = e.slave /\ Body(f) = e.pdu
  BY <1>1, <1>2, <1>3, FrameBody
<1>8. f \in Seq(BYTE) /\ Len(f) >= 2
  BY <1>6 DEF Whole, Ended
<1>9. f # <<>>
  <2>1. Len(<<>>) = 0
    OBVIOUS
  <2>. QED  BY <1>8, <2>1
<1>. QED  BY <1>1, <1>2, <1>3, <1>4, <1>5, <1>6, <1>7, <1>8, <1>9, Zenon

LEMMA LastIs ==
  ASSUME Inv, Told, Len(sent) > 0
  PROVE  Last \in Entry /\ WholeRequest(Last.pdu) /\ Len(Last.pdu) <= 253
<1>1. sent \in Seq(Entry)
  BY DEF Inv, Sent
<1>2. Len(sent) \in 1..Len(sent)
  BY <1>1
<1>. QED  BY <1>1, <1>2 DEF Last, Told

LEMMA SlaveState ==
  ASSUME Inv, NEW j \in Slaves
  PROVE  /\ Reading(j, msg[j], step[j], to_read[j], confirmation_to_ignore[j], pc[j])
         /\ msg[j] \in Seq(BYTE) /\ rx[j] \in Seq(BYTE) /\ Stream(j) \in Seq(BYTE)
         /\ Split(Stream(j), msg[j], rx[j])
         /\ confirmation_to_ignore[j] \in BOOLEAN /\ done[j] \in Seq(Seq(uint8_t))
         /\ At(j) /\ Waiting(j, rsp[j])
<1>1. At(j)
  BY DEF Inv
<1>2. /\ Reading(j, msg[j], step[j], to_read[j], confirmation_to_ignore[j], pc[j])
      /\ Waiting(j, rsp[j]) /\ rx[j] \in Seq(BYTE) /\ done[j] \in Seq(Seq(uint8_t))
  BY <1>1 DEF At, SlaveIs
<1>3. msg[j] \in Seq(BYTE) /\ confirmation_to_ignore[j] \in BOOLEAN
  BY <1>2 DEF Reading
<1>4. Split(Stream(j), msg[j], rx[j])
  BY <1>2, <1>3, SplitCat DEF Stream
<1>5. Stream(j) \in Seq(BYTE)
  BY <1>4, SplitIs
<1>. QED  BY <1>1, <1>2, <1>3, <1>4, <1>5

LEMMA MuteNone == \A j : Mute(j, <<>>)
BY DeafMute, DeafNone, NothingIs

LEMMA DrainedStream ==
  ASSUME NEW j, Drained(j)
  PROVE  Stream(j) = <<>> /\ Mute(j, Stream(j)) /\ (~confirmation_to_ignore[j] => Lined(j, confirmation_to_ignore[j], Stream(j), <<>>))
<1>1. Stream(j) = <<>>
  BY NothingBefore, NothingIs DEF Stream, Drained
<1>2. Mute(j, Stream(j))
  BY <1>1, MuteNone
<1>3. ASSUME ~confirmation_to_ignore[j] PROVE Lined(j, confirmation_to_ignore[j], Stream(j), <<>>)
  BY <1>1, <1>3, RowAlone, NothingIs DEF Lined
<1>. QED  BY <1>1, <1>2, <1>3

LEMMA DrainedPrime ==
  ASSUME NEW j, Drained(j)'
  PROVE  /\ Mute(j, Stream(j))'
         /\ ~confirmation_to_ignore'[j] => Lined(j, confirmation_to_ignore[j], Stream(j), <<>>)'
<1>1. Stream(j)' = <<>>
  BY NothingBefore, NothingIs DEF Stream, Drained
<1>2. Mute(j, Stream(j))'
  BY <1>1, MuteNone DEF Mute, Carries, EndsAt
<1>3. ASSUME ~confirmation_to_ignore'[j] PROVE Lined(j, confirmation_to_ignore[j], Stream(j), <<>>)'
  BY <1>1, <1>3, RowAlone, NothingIs DEF Lined
<1>. QED  BY <1>1, <1>2, <1>3

\* A slave that nothing happens to.
Idles(j) == Alone(j) /\ rx'[j] = rx[j]

LEMMA IdlesKeeps ==
  ASSUME NEW j, Idles(j), sent' = sent
  PROVE  /\ InOrder(j) => InOrder(j)'
         /\ NoMore(j) => NoMore(j)'
         /\ \A e : HasAsked(j, e) => HasAsked(j, e)'
         /\ \A e : Shifted(j, e) => Shifted(j, e)'
         /\ rsp'[j] = rsp[j]
<1>1. /\ msg'[j] = msg[j] /\ confirmation_to_ignore'[j] = confirmation_to_ignore[j] /\ pc'[j] = pc[j]
      /\ rsp'[j] = rsp[j] /\ done'[j] = done[j] /\ rx'[j] = rx[j] /\ sent' = sent
  BY DEF Idles, Alone
<1>2. Stream(j)' = Stream(j)
  BY <1>1 DEF Stream
<1>3. ASSUME NEW t, InStep(j, t) PROVE InStep(j, t)'
  BY <1>1, <1>2, <1>3, Zenon DEF InStep
<1>4. (Drained(j)' <=> Drained(j)) /\ (Held(j)' <=> Held(j))
  BY <1>1 DEF Drained, Held
<1>5. ASSUME NEW e PROVE Executed(j, e)' = Executed(j, e)
  BY <1>1 DEF Executed
<1>6. InOrder(j) => InOrder(j)'
  BY <1>1, <1>3, Zenon DEF InOrder
<1>7. NoMore(j) => NoMore(j)'
  BY <1>1, <1>2, <1>4, Zenon DEF NoMore
<1>8. ASSUME NEW e PROVE HasAsked(j, e) => HasAsked(j, e)'
  <2>1. ASSUME Coming(j, e) PROVE Coming(j, e)'
    BY <1>1, <1>3, <1>5, <2>1, Zenon DEF Coming
  <2>2. ASSUME Taken(j, e) PROVE Taken(j, e)'
    BY <1>1, <2>2, Zenon DEF Taken
  <2>3. ASSUME Finished(j, e) PROVE Finished(j, e)'
    BY <1>1, <1>4, <2>3, Zenon DEF Finished
  <2>4. ASSUME Seen(j, e) PROVE Seen(j, e)'
    BY <1>1, <1>4, <2>4, Zenon DEF Seen
  <2>. QED  BY <2>1, <2>2, <2>3, <2>4, Zenon DEF HasAsked
<1>9. ASSUME NEW e PROVE Shifted(j, e) => Shifted(j, e)'
  BY <1>1, <1>3, Zenon DEF Shifted
<1>. QED  BY <1>1, <1>6, <1>7, <1>8, <1>9, Zenon

-----------------------------------------------------------------------------
(* A slave reads.                                                          *)

LEMMA RecvReads ==
  ASSUME Inv, NEW i \in Slaves, Recv(i)
  PROVE  /\ \E x, c, m, y, b, p :
              /\ x = Stream(i) /\ c = confirmation_to_ignore[i] /\ c \in BOOLEAN /\ x # <<>>
              /\ m = msg'[i] /\ y = rx'[i] /\ b = confirmation_to_ignore'[i] /\ b \in BOOLEAN
              /\ p = pc'[i] /\ Outcome(i, x, c, m, y, b, p)
         /\ pc[i] = "receive" /\ rsp'[i] = rsp[i] /\ done'[i] = done[i]
         /\ sent' = sent /\ master' = master
         /\ \A j \in Slaves \ {i} : Idles(j)
<1>1. Typed /\ At(i)
  BY DEF Inv
<1>2. /\ Outcome(i, msg[i] \o rx[i], confirmation_to_ignore[i],
                 msg'[i], rx'[i], confirmation_to_ignore'[i], pc'[i])
      /\ msg[i] \in Seq(BYTE) /\ rx[i] \in Seq(BYTE) /\ rx[i] # <<>>
      /\ confirmation_to_ignore[i] \in BOOLEAN /\ confirmation_to_ignore'[i] \in BOOLEAN
  BY <1>1, RecvOutcome
<1>3. Stream(i) = msg[i] \o rx[i] /\ Stream(i) # <<>>
  BY <1>2, CatIsNone DEF Stream
<1>4. /\ pc[i] = "receive" /\ rsp' = rsp /\ done' = done /\ map' = map
      /\ sent' = sent /\ master' = master
  BY DEF Recv
<1>5. ASSUME NEW j \in Slaves \ {i} PROVE Idles(j)
  <2>1. PICK s \in Seq(BYTE), y \in Seq(BYTE) :
          LET w == msg[i] \o s
              c == confirmation_to_ignore[i]
          IN  \/ More(i, w, y, step[i], to_read[i] - Len(s))
              \/ More(i, w, y, "meta", Meta(w, c))
              \/ More(i, w, y, "data", Data(w, c))
              \/ GiveUp(i, y)
              \/ Complete(i, w, y)
    <3>1. PICK s \in Seq(BYTE), y \in Seq(BYTE) :
        /\ rx[i] = s \o y
        /\ \/ /\ Len(s) < to_read[i]
              /\ More(i, msg[i] \o s, y, step[i], to_read[i] - Len(s))
           \/ /\ Len(s) = to_read[i] /\ Len(msg[i] \o s) = 2 /\ Meta(msg[i] \o s, confirmation_to_ignore[i]) > 0
              /\ More(i, msg[i] \o s, y, "meta", Meta(msg[i] \o s, confirmation_to_ignore[i]))
           \/ /\ Len(s) = to_read[i] /\ Len(msg[i] \o s) = 2 + Meta(msg[i] \o s, confirmation_to_ignore[i])
              /\ Len(msg[i] \o s) + Data(msg[i] \o s, confirmation_to_ignore[i]) <= max_adu_length
              /\ More(i, msg[i] \o s, y, "data", Data(msg[i] \o s, confirmation_to_ignore[i]))
           \/ /\ Len(s) = to_read[i] /\ Len(msg[i] \o s) = 2 + Meta(msg[i] \o s, confirmation_to_ignore[i])
              /\ Len(msg[i] \o s) + Data(msg[i] \o s, confirmation_to_ignore[i]) > max_adu_length
              /\ GiveUp(i, y)
           \/ /\ Len(s) = to_read[i] /\ step[i] = "data"
              /\ Complete(i, msg[i] \o s, y)
      BY <1>1, RecvIs
    <3>. QED  BY <3>1
  <2>. QED
    BY <1>1, <1>4, <2>1 DEF Typed, More, GiveUp, Complete, Restart, receive, Idles, Alone
<1>. QED  BY <1>2, <1>3, <1>4, <1>5, Zenon

LEMMA RecvInOrder ==
  ASSUME Inv, NEW i \in Slaves, Recv(i), InOrder(i)
  PROVE  InOrder(i)'
<1>1. PICK x, c, m, y, b, p :
        /\ x = Stream(i) /\ c = confirmation_to_ignore[i] /\ c \in BOOLEAN /\ x # <<>>
        /\ m = msg'[i] /\ y = rx'[i] /\ b = confirmation_to_ignore'[i] /\ b \in BOOLEAN
        /\ p = pc'[i] /\ Outcome(i, x, c, m, y, b, p)
  BY RecvReads
<1>0. Outcome(i, x, c, m, y, b, p) /\ c \in BOOLEAN /\ b \in BOOLEAN /\ x # <<>>
  BY <1>1
<1>2. rsp'[i] = <<>> /\ Heeded(i, done'[i], sent')
  BY RecvReads DEF InOrder, InStep
<1>3. Lined(i, c, x, <<>>)
  BY <1>1, Zenon DEF InOrder, InStep
<1>4. p = "receive" /\ Lined(i, b, m \o y, <<>>)
  BY <1>0, <1>3, LinedReads
<1>. QED  BY <1>1, <1>2, <1>4, Zenon DEF InOrder, InStep, Stream

LEMMA RecvComing ==
  ASSUME Inv, NEW i \in Slaves, Recv(i),
         NEW e \in Entry, WholeRequest(e.pdu), Len(e.pdu) <= 253, HasAsked(i, e)
  PROVE  HasAsked(i, e)'
<1>1. PICK x, c, m, y, b, p :
        /\ x = Stream(i) /\ c = confirmation_to_ignore[i] /\ c \in BOOLEAN /\ x # <<>>
        /\ m = msg'[i] /\ y = rx'[i] /\ b = confirmation_to_ignore'[i] /\ b \in BOOLEAN
        /\ p = pc'[i] /\ Outcome(i, x, c, m, y, b, p)
  BY RecvReads
<1>0. Outcome(i, x, c, m, y, b, p) /\ c \in BOOLEAN /\ b \in BOOLEAN /\ x # <<>>
  BY <1>1
<1>2. Coming(i, e)
  <2>1. pc[i] = "receive" /\ Stream(i) # <<>>
    BY <1>1, RecvReads
  <2>2. ~Drained(i)
    BY <2>1, DrainedStream
  <2>. QED  BY <2>1, <2>2 DEF HasAsked, Taken, Finished, Seen
<1>3. PICK t : t = Wire(e) /\ Whole(t, FALSE) /\ crc_matches(t) /\ t[1].v = e.slave /\ t \in Seq(BYTE)
  BY EntryIs
<1>4. rsp'[i] = <<>> /\ Heeded(i, Executed(i, e), sent') /\ Executed(i, e)' = Executed(i, e)
  BY <1>2, RecvReads DEF Coming, InStep, Executed
<1>5. Lined(i, c, x, t)
  BY <1>1, <1>2, <1>3, Zenon DEF Coming, InStep
<1>6. ASSUME p = "receive", Lined(i, b, m \o y, t) PROVE HasAsked(i, e)'
  <2>1. Wire(e)' = Wire(e)
    BY DEF Wire
  <2>2. InStep(i, Wire(e))'
    BY <1>1, <1>3, <1>4, <1>6, <2>1, Zenon DEF InStep, Stream
  <2>3. Heeded(i, Executed(i, e)', sent')
    BY <1>4, Zenon
  <2>. QED  BY <2>2, <2>3, Zenon DEF HasAsked, Coming
<1>7. CASE c \/ x # t
  BY <1>0, <1>5, <1>6, <1>7, LinedReads
<1>8. CASE ~c /\ x = t
  <2>1. Outcome(i, x, FALSE, m, y, b, p) /\ Whole(x, FALSE) /\ crc_matches(x) /\ x[1].v = e.slave
    BY <1>1, <1>3, <1>8
  <2>2. CASE Split(x, m, y) /\ ~b /\ p = "receive"
    <3>1. m \o y = t
      BY <1>8, <2>2, Zenon DEF Split
    <3>2. Lined(i, b, t, t)
      BY <1>3, <2>2, RowAlone DEF Lined
    <3>3. p = "receive" /\ Lined(i, b, m \o y, t)
      BY <2>2, <3>1, <3>2
    <3>. QED  BY <1>6, <3>3
  <2>3. CASE e.slave \notin {i, BROADCAST} /\ b /\ m = <<>> /\ y = <<>> /\ p = "receive"
    <3>1. ~Own(i, e) /\ Executed(i, e) = done'[i]
      BY <1>4, <2>3, RecvReads DEF Own, Executed
    <3>2. Seen(i, e)'
      BY <1>1, <1>4, <2>3, <3>1 DEF Seen, Own, Drained
    <3>. QED  BY <3>2 DEF HasAsked
  <2>4. CASE e.slave \in {i, BROADCAST} /\ ~b /\ m = x /\ y = <<>> /\ p = "reply"
    <3>1. Own(i, e) /\ Executed(i, e) = Append(done'[i], e.pdu)
      BY <1>4, <2>4, RecvReads DEF Own, Executed
    <3>2. Taken(i, e)'
      BY <1>1, <1>3, <1>4, <1>8, <2>4, <3>1 DEF Taken, Own, Wire
    <3>. QED  BY <3>2 DEF HasAsked
  <2>5. Progress(i, x, m, y, b, p)
    BY <2>1, RequestRead
  <2>. QED  BY <2>1, <2>2, <2>3, <2>4, <2>5, Zenon DEF Progress
<1>. QED  BY <1>7, <1>8

LEMMA RecvNoMore ==
  ASSUME Inv, NEW i \in Slaves, Recv(i), NoMore(i)
  PROVE  NoMore(i)' /\ rsp'[i] = <<>>
<1>1. PICK x, c, m, y, b, p :
        /\ x = Stream(i) /\ c = confirmation_to_ignore[i] /\ c \in BOOLEAN /\ x # <<>>
        /\ m = msg'[i] /\ y = rx'[i] /\ b = confirmation_to_ignore'[i] /\ b \in BOOLEAN
        /\ p = pc'[i] /\ Outcome(i, x, c, m, y, b, p)
  BY RecvReads
<1>0. Outcome(i, x, c, m, y, b, p) /\ c \in BOOLEAN /\ b \in BOOLEAN /\ x # <<>>
  BY <1>1
<1>2. rsp'[i] = <<>> /\ Heeded(i, done'[i], sent')
  BY RecvReads DEF NoMore, Held
<1>3. Mute(i, x)
  BY <1>1 DEF NoMore
<1>4. p = "receive" /\ Mute(i, m \o y)
  BY <1>0, <1>3, MuteReads
<1>. QED  BY <1>1, <1>2, <1>4 DEF NoMore, Held, Stream

LEMMA RecvShifted ==
  ASSUME Inv, NEW i \in Slaves, Recv(i),
         NEW e \in Entry, WholeRequest(e.pdu), Len(e.pdu) <= 253, Shifted(i, e)
  PROVE  (NoMore(i)' /\ rsp'[i] = <<>>) \/ Shifted(i, e)'
<1>1. PICK x, c, m, y, b, p :
        /\ x = Stream(i) /\ c = confirmation_to_ignore[i] /\ c \in BOOLEAN /\ x # <<>>
        /\ m = msg'[i] /\ y = rx'[i] /\ b = confirmation_to_ignore'[i] /\ b \in BOOLEAN
        /\ p = pc'[i] /\ Outcome(i, x, c, m, y, b, p)
  BY RecvReads
<1>0. Outcome(i, x, c, m, y, b, p) /\ c \in BOOLEAN /\ b \in BOOLEAN /\ x # <<>>
  BY <1>1
<1>2. PICK t : Split(t, <<Byte(255)>>, Wire(e)) /\ InStep(i, t)
  BY DEF Shifted
<1>3. rsp'[i] = <<>> /\ Heeded(i, done'[i], sent')
  BY <1>2, RecvReads DEF Shifted, InStep
<1>4. Lined(i, c, x, t)
  BY <1>1, <1>2, Zenon DEF InStep
<1>5. ASSUME p = "receive", Lined(i, b, m \o y, t) PROVE Shifted(i, e)'
  <2>1. Split(t, <<Byte(255)>>, Wire(e))'
    BY <1>2 DEF Split, Wire
  <2>2. InStep(i, t)'
    BY <1>1, <1>3, <1>5, Zenon DEF InStep, Stream
  <2>. QED  BY <1>3, <2>1, <2>2, Zenon DEF Shifted
<1>6. CASE c \/ x # t
  BY <1>0, <1>4, <1>5, <1>6, LinedReads
<1>7. CASE ~c /\ x = t
  <2>1. PICK f, vs : f = Wire(e) /\ Framed(f, vs)
    BY EntryIs, Zenon
  <2>2. i # 255
    BY SlaveIn
  <2>3. Outcome(i, x, FALSE, m, y, b, p)
    BY <1>1, <1>7
  <2>4. Split(x, <<Byte(255)>>, f)
    BY <1>2, <1>7, <2>1, Zenon
  <2>5. p = "receive" /\ ((Split(x, m, y) /\ ~b) \/ Mute(i, m \o y))
    BY <1>0, <2>1, <2>2, <2>3, <2>4, OddReads
  <2>6. CASE Split(x, m, y) /\ ~b
    <3>1. m \o y = t /\ t \in Seq(BYTE)
      BY <1>7, <2>6, SplitIs, Zenon DEF Split
    <3>2. Lined(i, b, t, t)
      BY <2>6, <3>1, RowAlone DEF Lined
    <3>. QED  BY <1>5, <2>5, <3>1, <3>2, Zenon
  <2>7. CASE Mute(i, m \o y)
    BY <1>1, <1>3, <2>5, <2>7 DEF NoMore, Held, Stream
  <2>. QED  BY <2>5, <2>6, <2>7
<1>. QED  BY <1>6, <1>7

LEMMA RecvHears ==
  ASSUME Inv, Told, NEW i \in Slaves, Recv(i), Orderly \/ Asked \/ Spent \/ Odd
  PROVE  (Orderly \/ Asked \/ Spent \/ Odd)'
<1>1. sent' = sent /\ master' = master /\ \A j \in Slaves \ {i} : Idles(j)
  BY RecvReads
<1>2. Last' = Last
  BY <1>1 DEF Last
<1>3. PICK e : e = Last
  OBVIOUS
<1>4. Last = e /\ Last' = e
  BY <1>2, <1>3
<1>5. Len(sent) > 0 => e \in Entry /\ WholeRequest(e.pdu) /\ Len(e.pdu) <= 253
  BY <1>4, LastIs
<1>6. CASE Orderly
  <2>1. \A j \in Slaves : InOrder(j)'
    BY <1>1, <1>6, RecvInOrder, IdlesKeeps DEF Orderly
  <2>. QED  BY <1>1, <1>6, <2>1 DEF Orderly
<1>7. CASE Asked
  <2>1. Len(sent) > 0 /\ \A j \in Slaves : HasAsked(j, e)
    BY <1>4, <1>7 DEF Asked
  <2>2. HasAsked(i, e)'
    BY <1>5, <2>1, RecvComing
  <2>3. \A j \in Slaves : HasAsked(j, e)'
    BY <1>1, <2>1, <2>2, IdlesKeeps
  <2>. QED  BY <1>1, <1>4, <1>7, <2>3 DEF Asked
<1>8. CASE Spent
  <2>1. \A j \in Slaves : NoMore(j)'
    BY <1>1, <1>8, RecvNoMore, IdlesKeeps DEF Spent
  <2>. QED  BY <1>1, <1>8, <2>1 DEF Spent
<1>9. CASE Odd
  <2>1. Len(sent) > 0 /\ \A j \in Slaves : (NoMore(j) /\ rsp[j] = <<>>) \/ Shifted(j, e)
    BY <1>4, <1>9 DEF Odd
  <2>2. (NoMore(i)' /\ rsp'[i] = <<>>) \/ Shifted(i, e)'
    BY <1>5, <2>1, RecvNoMore, RecvShifted
  <2>3. \A j \in Slaves : (NoMore(j)' /\ rsp'[j] = <<>>) \/ Shifted(j, e)'
    <3>1. SUFFICES ASSUME NEW j \in Slaves \ {i}
                   PROVE  (NoMore(j)' /\ rsp'[j] = <<>>) \/ Shifted(j, e)'
      BY <2>2
    <3>2. Idles(j)
      BY <1>1
    <3>. QED  BY <1>1, <2>1, <3>2, IdlesKeeps
  <2>. QED  BY <1>1, <1>4, <1>9, <2>3 DEF Odd
<1>. QED  BY <1>6, <1>7, <1>8, <1>9

-----------------------------------------------------------------------------
(* Silence.                                                                *)

LEMMA SilentStream ==
  ASSUME Inv, NEW j \in Slaves, rx[j] = <<>>
  PROVE  Stream(j) = msg[j]
<1>1. msg[j] \in Seq(BYTE)
  BY SlaveState
<1>. QED  BY <1>1, NothingBehind DEF Stream

\* A slave that reads only messages of others, and has nothing to read, is
\* between two pairs of them.
Awaited(t) == t = <<>> \/ Whole(t, FALSE)

LEMMA SilentInStep ==
  ASSUME Inv, NEW j \in Slaves, rx[j] = <<>>, NEW t, Awaited(t), InStep(j, t)
  PROVE  t = <<>> /\ msg[j] = <<>> /\ ~confirmation_to_ignore[j]
<1>1. PICK m, st, n, c : m = msg[j] /\ st = step[j] /\ n = to_read[j] /\ c = confirmation_to_ignore[j]
  OBVIOUS
<1>2. Reading(j, m, st, n, c, "receive")
  BY <1>1, SlaveState DEF InStep
<1>3. Lined(j, c, m, t)
  BY <1>1, SilentStream DEF InStep
<1>4. t = <<>> /\ m = <<>> /\ ~c
  BY <1>2, <1>3, LinedStuck DEF Awaited
<1>. QED  BY <1>1, <1>4

LEMMA SilentAsked ==
  ASSUME Inv, NEW j \in Slaves, rx[j] = <<>>, pc[j] # "reply",
         NEW e \in Entry, WholeRequest(e.pdu), Len(e.pdu) <= 253, HasAsked(j, e)
  PROVE  NoMore(j)
<1>1. ~Coming(j, e)
  <2>1. PICK t : t = Wire(e) /\ Whole(t, FALSE) /\ t # <<>>
    BY EntryIs
  <2>2. ASSUME Coming(j, e) PROVE FALSE
    <3>1. InStep(j, t)
      BY <2>1, <2>2 DEF Coming
    <3>2. t = <<>>
      <4>1. Awaited(t)
        BY <2>1 DEF Awaited
      <4>. QED  BY <3>1, <4>1, SilentInStep
    <3>. QED  BY <2>1, <3>2
  <2>. QED  BY <2>2
<1>2. ~Taken(j, e)
  BY DEF Taken
<1>3. CASE Finished(j, e)
  BY <1>3, DrainedStream DEF Finished, NoMore
<1>4. CASE Seen(j, e)
  BY <1>4, DrainedStream DEF Seen, NoMore, Held
<1>. QED  BY <1>1, <1>2, <1>3, <1>4 DEF HasAsked

LEMMA HushedSpent ==
  ASSUME Inv, Told, Hushed, Asked
  PROVE  Spent
<1>1. PICK e : e = Last
  OBVIOUS
<1>2. e \in Entry /\ WholeRequest(e.pdu) /\ Len(e.pdu) <= 253 /\ \A j \in Slaves : HasAsked(j, e)
  BY <1>1, LastIs DEF Asked
<1>3. \A j \in Slaves : rx[j] = <<>> /\ pc[j] # "reply"
  BY DEF Hushed
<1>4. \A j \in Slaves : NoMore(j)
  BY <1>2, <1>3, SilentAsked
<1>. QED  BY <1>4 DEF Spent, Asked

LEMMA ReadyInOrder ==
  ASSUME NEW j, rx[j] = <<>>, Ready(j), NoMore(j) \/ \E e : Shifted(j, e)
  PROVE  InOrder(j)
<1>1. pc[j] = "receive" /\ Drained(j) /\ ~confirmation_to_ignore[j]
  BY DEF Ready, Drained
<1>2. Lined(j, confirmation_to_ignore[j], Stream(j), <<>>)
  BY <1>1, DrainedStream
<1>3. rsp[j] = <<>> /\ Heeded(j, done[j], sent)
  BY <1>1 DEF NoMore, Held, Shifted, InStep
<1>. QED  BY <1>1, <1>2, <1>3 DEF InOrder, InStep

LEMMA TimeoutHears ==
  ASSUME Inv, Told, NEW i \in Slaves, Timeout(i), Orderly \/ Asked \/ Spent \/ Odd
  PROVE  (Orderly \/ Asked \/ Spent \/ Odd)'
<1>1. /\ Typed /\ Hushed /\ rx[i] = <<>> /\ pc[i] = "receive"
      /\ (msg[i] # <<>> \/ confirmation_to_ignore[i])
      /\ sent' = sent /\ master' = master /\ rx' = rx /\ rsp' = rsp /\ done' = done
  BY DEF Inv, Timeout, Hushed
<1>2. msg'[i] = <<>> /\ pc'[i] # "reply"
  BY <1>1 DEF Typed, Timeout, Restart
<1>3. \A j \in Slaves \ {i} : Idles(j)
  BY <1>1 DEF Typed, Timeout, Restart, receive, Idles, Alone
<1>4. ~Orderly
  BY <1>1, SilentInStep DEF Orderly, InOrder, Awaited
<1>5. ASSUME rsp[i] = <<>>, Heeded(i, done[i], sent)
      PROVE  NoMore(i)' /\ rsp'[i] = <<>>
  <2>1. Stream(i)' = <<>> /\ Mute(i, <<>>)
    BY <1>1, <1>2, MuteNone, NothingBefore, NothingIs DEF Stream
  <2>. QED  BY <1>1, <1>2, <1>5, <2>1 DEF NoMore, Held
<1>6. ASSUME Spent PROVE Spent'
  <2>1. NoMore(i)'
    BY <1>1, <1>5, <1>6 DEF Spent, NoMore, Held
  <2>2. \A j \in Slaves : NoMore(j)'
    BY <1>1, <1>3, <1>6, <2>1, IdlesKeeps DEF Spent
  <2>. QED  BY <1>1, <1>6, <2>2 DEF Spent
<1>7. CASE Asked
  BY <1>1, <1>6, <1>7, HushedSpent
<1>8. CASE Odd
  <2>1. PICK e : e = Last /\ e = Last'
    BY <1>1 DEF Last
  <2>2. Len(sent) > 0 /\ \A j \in Slaves : (NoMore(j) /\ rsp[j] = <<>>) \/ Shifted(j, e)
    BY <1>8, <2>1 DEF Odd
  <2>3. NoMore(i)' /\ rsp'[i] = <<>>
    BY <1>5, <2>2 DEF NoMore, Shifted, InStep
  <2>4. \A j \in Slaves : (NoMore(j)' /\ rsp'[j] = <<>>) \/ Shifted(j, e)'
    <3>1. SUFFICES ASSUME NEW j \in Slaves \ {i}
                   PROVE  (NoMore(j)' /\ rsp'[j] = <<>>) \/ Shifted(j, e)'
      BY <2>3
    <3>2. Idles(j)
      BY <1>3
    <3>. QED  BY <1>1, <2>2, <3>2, IdlesKeeps
  <2>. QED  BY <1>1, <1>8, <2>1, <2>4 DEF Odd
<1>. QED  BY <1>4, <1>6, <1>7, <1>8

\* The master gives up, and lets the line fall silent.
LEMMA MasterTimeoutHears ==
  ASSUME Inv, Told, MasterTimeout, "timeout" \in waits, Orderly \/ Asked \/ Spent \/ Odd
  PROVE  (Orderly \/ Asked \/ Spent \/ Odd)'
<1>1. /\ Hushed /\ master = "wait" /\ master' = "rest" /\ sent' = sent
      /\ UNCHANGED <<rx, msg, confirmation_to_ignore, pc, rsp, done>>
      /\ \A j \in Slaves : Idles(j)
  BY DEF MasterTimeout, slave, Idles, Alone
<1>2. ASSUME Spent PROVE Spent'
  <2>1. \A j \in Slaves : NoMore(j)'
    BY <1>1, <1>2, IdlesKeeps DEF Spent
  <2>. QED  BY <1>1, <2>1 DEF Spent
<1>3. CASE Asked
  BY <1>1, <1>2, <1>3, HushedSpent
<1>4. CASE Odd
  <2>1. PICK e : e = Last /\ e = Last'
    BY <1>1 DEF Last
  <2>2. Len(sent) > 0 /\ \A j \in Slaves : (NoMore(j) /\ rsp[j] = <<>>) \/ Shifted(j, e)
    BY <1>4, <2>1 DEF Odd
  <2>3. \A j \in Slaves : (NoMore(j)' /\ rsp'[j] = <<>>) \/ Shifted(j, e)'
    <3>1. SUFFICES ASSUME NEW j \in Slaves
                   PROVE  (NoMore(j)' /\ rsp'[j] = <<>>) \/ Shifted(j, e)'
      OBVIOUS
    <3>2. Idles(j)
      BY <1>1
    <3>. QED  BY <1>1, <2>2, <3>2, IdlesKeeps
  <2>. QED  BY <1>1, <1>4, <2>1, <2>3 DEF Odd
<1>. QED  BY <1>1, <1>2, <1>3, <1>4 DEF Orderly

\* The line has been silent.
LEMMA MasterRestedHears ==
  ASSUME Inv, Told, MasterRested, Orderly \/ Asked \/ Spent \/ Odd
  PROVE  Orderly'
<1>1. /\ AllReady /\ master = "rest" /\ master' = "idle" /\ sent' = sent
      /\ \A j \in Slaves : Idles(j)
  BY DEF MasterRested, slave, Idles, Alone
<1>2. Spent \/ Odd
  BY <1>1 DEF Orderly, Asked
<1>3. \A j \in Slaves : NoMore(j) \/ \E e : Shifted(j, e)
  BY <1>2 DEF Spent, Odd
<1>4. \A j \in Slaves : InOrder(j)
  BY <1>1, <1>3, ReadyInOrder DEF AllReady
<1>5. \A j \in Slaves : InOrder(j)'
  BY <1>1, <1>4, IdlesKeeps
<1>. QED  BY <1>1, <1>5 DEF Orderly

-----------------------------------------------------------------------------
(* What a slave says to the others.                                        *)

\* Slave i says f: the others hear g, which is f unless noise hits it.
Says(i, heard, f, g, hit) ==
  /\ g \in Seq(BYTE) /\ (~hit => g = f) /\ rx'[i] = heard[i]
  /\ \A j \in Slaves \ {i} : rx'[j] = heard[j] \o g /\ Deaf(j, g)
  /\ master' = IF master # "wait" THEN master
               ELSE IF hit \/ (f[2].v >= 128 /\ "exception" \in waits) THEN "rest" ELSE "idle"

LEMMA SendSays ==
  ASSUME NEW i \in Slaves, NEW pdu \in Seq(uint8_t), Len(pdu) > 0, NEW f, f = Frame(i, pdu),
         NEW heard \in [Slaves -> Seq(BYTE)], Send(i, heard, f)
  PROVE  \E g : \E hit \in BOOLEAN : Says(i, heard, f, g, hit)
<1>1. PICK hit \in BOOLEAN :
        /\ Transmit(heard, f, Slaves \ {i}, hit)
        /\ master' = IF master # "wait" THEN master
                     ELSE IF hit \/ (f[2].v >= 128 /\ "exception" \in waits) THEN "rest" ELSE "idle"
  BY DEF Send
<1>2. PICK g \in IF hit THEN Noisy(f) \ {f} ELSE {f} :
        rx' = [j \in Slaves |-> IF j \in Slaves \ {i} THEN heard[j] \o g ELSE heard[j]]
  BY <1>1 DEF Transmit
<1>3. g \in Noisy(f) \cup {f} /\ (~hit => g = f)
  BY <1>2
<1>4. PICK vs : vs = <<i>> \o pdu
  OBVIOUS
<1>5. Cargo(g, vs) /\ vs[1] = i
  BY <1>3, <1>4, NoisyIs, SlaveId
<1>6. ASSUME NEW j \in Slaves \ {i} PROVE Deaf(j, g)
  <2>1. vs[1] \notin {j, BROADCAST}
    BY <1>5, SlaveId
  <2>. QED  BY <1>5, <2>1, CargoDeaf
<1>7. g \in Seq(BYTE)
  BY <1>5 DEF Cargo
<1>8. rx'[i] = heard[i] /\ \A j \in Slaves \ {i} : rx'[j] = heard[j] \o g
  BY <1>2
<1>9. Says(i, heard, f, g, hit)
  BY <1>1, <1>3, <1>6, <1>7, <1>8 DEF Says
<1>. QED  BY <1>9

LEMMA StreamGrows ==
  ASSUME Inv, NEW j \in Slaves, msg'[j] = msg[j], NEW g \in Seq(BYTE), rx'[j] = rx[j] \o g
  PROVE  Split(Stream(j)', Stream(j), g)
<1>1. PICK m \in Seq(BYTE), x \in Seq(BYTE) : m = msg[j] /\ x = rx[j]
  BY SlaveState
<1>2. Stream(j) = m \o x /\ Stream(j)' = m \o (x \o g)
  BY <1>1 DEF Stream
<1>3. (m \o x) \o g = m \o (x \o g) /\ m \o x \in Seq(BYTE)
  BY CatAgain, CatIs
<1>4. Split((m \o x) \o g, m \o x, g)
  BY <1>3, SplitCat
<1>. QED  BY <1>2, <1>3, <1>4, Zenon

LEMMA HearsDeaf ==
  ASSUME Inv, NEW j \in Slaves, Alone(j), sent' = sent, NoMore(j),
         NEW g \in Seq(BYTE), Deaf(j, g), rx'[j] = rx[j] \o g
  PROVE  NoMore(j)'
<1>1. /\ msg'[j] = msg[j] /\ pc'[j] = pc[j] /\ rsp'[j] = rsp[j] /\ done'[j] = done[j]
  BY DEF Alone
<1>2. PICK x, y : x = Stream(j) /\ y = Stream(j)'
  OBVIOUS
<1>3. Split(y, x, g) /\ Mute(j, x)
  BY <1>1, <1>2, StreamGrows DEF NoMore
<1>4. Mute(j, y)
  BY <1>3, MuteMore
<1>5. Held(j)' /\ pc'[j] # "reply" /\ Heeded(j, done'[j], sent')
  BY <1>1, Zenon DEF NoMore, Held
<1>. QED  BY <1>2, <1>4, <1>5, Zenon DEF NoMore

\* A request for another slave is nothing to answer.
LEMMA ForeignNoMore ==
  ASSUME Inv, NEW j \in Slaves, NEW e \in Entry, WholeRequest(e.pdu), Len(e.pdu) <= 253,
         ~Own(j, e), HasAsked(j, e)
  PROVE  NoMore(j)
<1>1. PICK t : t = Wire(e) /\ Other(j, t)
  BY EntryIs, FrameOther DEF Wire, Own
<1>2. CASE Coming(j, e)
  <2>1. PICK x, c : x = Stream(j) /\ c = confirmation_to_ignore[j] /\ c \in BOOLEAN
    BY SlaveState
  <2>2. Lined(j, c, x, t) /\ rsp[j] = <<>> /\ pc[j] = "receive" /\ Heeded(j, done[j], sent)
    BY <1>1, <1>2, <2>1 DEF Coming, InStep, Executed
  <2>3. PICK d : Deaf(j, d) /\ Split(x, d, t)
    BY <2>1, <2>2, LinedDeaf
  <2>4. d \in Seq(BYTE) /\ t \in Seq(BYTE) /\ x = d \o t /\ x \in Seq(BYTE)
    BY <2>3, SplitIs DEF Split
  <2>5. Deaf(j, x)
    BY <1>1, <2>3, <2>4, DeafCat DEF Other
  <2>6. Mute(j, x)
    BY <2>4, <2>5, DeafMute
  <2>. QED  BY <2>1, <2>2, <2>6 DEF NoMore, Held
<1>3. CASE Seen(j, e)
  BY <1>3, DrainedStream DEF Seen, NoMore, Held
<1>. QED  BY <1>2, <1>3 DEF HasAsked, Taken, Finished

\* A slave that waits for the answer of another one hears it.
LEMMA AnswerInOrder ==
  ASSUME Inv, NEW j \in Slaves, NEW e \in Entry, WholeRequest(e.pdu), Len(e.pdu) <= 253,
         ~Own(j, e), HasAsked(j, e), Alone(j), sent' = sent,
         NEW f, Whole(f, TRUE), Other(j, f), rx'[j] = rx[j] \o f
  PROVE  InOrder(j)'
<1>1. PICK t : t = Wire(e) /\ Other(j, t) /\ Whole(t, FALSE)
  BY EntryIs, FrameOther DEF Wire, Own
<1>2. PICK x, c, y : /\ x = Stream(j) /\ c = confirmation_to_ignore[j] /\ c \in BOOLEAN
                     /\ y = Stream(j)'
  BY SlaveState
<1>3. /\ msg'[j] = msg[j] /\ pc'[j] = pc[j] /\ rsp'[j] = rsp[j] /\ done'[j] = done[j]
      /\ confirmation_to_ignore'[j] = c
  BY <1>2 DEF Alone
<1>4. f \in Seq(BYTE)
  BY DEF Whole
<1>5. Split(y, x, f)
  BY <1>2, <1>3, <1>4, StreamGrows
<1>6. pc[j] = "receive" /\ rsp[j] = <<>> /\ Heeded(j, done[j], sent) /\ Lined(j, c, y, <<>>)
  <2>1. CASE Coming(j, e)
    <3>1. Lined(j, c, x, t) /\ rsp[j] = <<>> /\ pc[j] = "receive" /\ Heeded(j, done[j], sent)
      BY <1>1, <1>2, <2>1 DEF Coming, InStep, Executed
    <3>2. Lined(j, c, y, <<>>)
      BY <1>1, <1>2, <1>5, <3>1, LinedAnswer
    <3>. QED  BY <3>1, <3>2
  <2>2. CASE Seen(j, e)
    <3>1. x = <<>> /\ c = TRUE
      BY <1>2, <2>2, DrainedStream DEF Seen
    <3>2. y = f
      <4>1. y = <<>> \o f
        BY <1>5, <3>1 DEF Split
      <4>. QED  BY <1>4, <4>1, NothingBefore
    <3>3. Lined(j, TRUE, f, <<>>)
      BY LinedFirst
    <3>. QED  BY <2>2, <3>1, <3>2, <3>3 DEF Seen
  <2>. QED  BY <2>1, <2>2 DEF HasAsked, Taken, Finished
<1>. QED  BY <1>2, <1>3, <1>6, Zenon DEF InOrder, InStep

-----------------------------------------------------------------------------
(* The answer.                                                             *)

\* Slave i has executed e and answers with pdu, to which the others listen.
Replied(i, e, pdu) ==
  /\ e.slave = i /\ pdu \in Seq(uint8_t) /\ Len(pdu) > 0 /\ (Refused(pdu) \/ AnswerIs(pdu))
  /\ Send(i, rx, Frame(i, pdu)) /\ InOrder(i)'

LEMMA ReplyIs ==
  ASSUME Inv, NEW i \in Slaves, Reply(i),
         NEW e \in Entry, WholeRequest(e.pdu), Len(e.pdu) <= 253, Taken(i, e)
  PROVE  /\ Finished(i, e)' /\ sent' = sent
         /\ \A j \in Slaves \ {i} : Alone(j)
         /\ \/ rx' = rx /\ master' = master
            \/ \E pdu : Replied(i, e, pdu)
<1>1. Typed /\ Sent /\ At(i) /\ pc[i] = "reply"
  BY DEF Inv, Reply
<1>2. PICK m, q, t, pdu, flush :
        /\ m = msg[i] /\ q = Body(m) /\ t = map[i]
        /\ pdu = modbus_reply(t, q).pdu /\ flush = modbus_reply(t, q).to_flush
  OBVIOUS
<1>3. m = Wire(e) /\ q = e.pdu /\ m[1].v = e.slave
  BY <1>2, EntryIs DEF Taken
<1>4. MapIs(t)
  BY <1>1, <1>2 DEF At, SlaveIs
<1>5. pdu \in Seq(uint8_t) /\ Len(pdu) > 0
  BY <1>2, <1>3, <1>4, ReplyGood DEF Good
<1>6. Refused(pdu) \/ (~flush /\ AnswerIs(pdu))
  BY <1>2, <1>3, ReplyAnswered DEF Answered
<1>. DEFINE answered == q[1] # Unanswered /\ m[1].v # BROADCAST
            sleeps == q[1] # Unanswered /\ flush
<1>7. PICK p, a, f :
        /\ p = IF sleeps THEN "sleep" ELSE "receive"
        /\ f = Frame(m[1].v, pdu)
        /\ a = IF answered /\ sleeps THEN f ELSE <<>>
  OBVIOUS
<1>8. /\ done' = [done EXCEPT ![i] = Append(done[i], q)]
      /\ map' = [map EXCEPT ![i] = IF q[1] = Unanswered THEN t ELSE modbus_reply(t, q).map]
      /\ pc' = [pc EXCEPT ![i] = p]
      /\ rsp' = [rsp EXCEPT ![i] = a]
      /\ IF answered /\ ~sleeps THEN Send(i, rx, f) ELSE UNCHANGED <<rx, master, faults>>
      /\ confirmation_to_ignore' = confirmation_to_ignore /\ sent' = sent
  BY <1>2, <1>7 DEF Reply, Body
<1>9. /\ msg' = [msg EXCEPT ![i] = <<>>] /\ step' = [step EXCEPT ![i] = "function"]
      /\ to_read' = [to_read EXCEPT ![i] = 2]
  BY DEF Reply, Restart
<1>10. ASSUME NEW j \in Slaves \ {i} PROVE Alone(j)
  BY <1>1, <1>8, <1>9 DEF Typed, Alone
<1>11. /\ done'[i] = Append(done[i], e.pdu) /\ pc'[i] = p /\ rsp'[i] = a /\ msg'[i] = <<>>
       /\ ~confirmation_to_ignore'[i]
  BY <1>1, <1>3, <1>8, <1>9 DEF Typed, Taken
<1>12. answered => e.slave = i
  BY <1>3 DEF Taken, Own
<1>13. rx[i] = <<>> /\ Own(i, e) /\ Heeded(i, done'[i], sent')
  BY <1>8, <1>11 DEF Taken
<1>14. rx'[i] = <<>>
  <2>1. CASE answered /\ ~sleeps
    <3>1. Send(i, rx, Frame(i, pdu))
      BY <1>3, <1>7, <1>8, <1>12, <2>1
    <3>2. PICK heard : heard = rx
      OBVIOUS
    <3>3. heard \in [Slaves -> Seq(BYTE)] /\ Send(i, heard, Frame(i, pdu))
      BY <1>1, <3>1, <3>2 DEF Typed
    <3>4. \E g : \E hit \in BOOLEAN : Says(i, heard, Frame(i, pdu), g, hit)
      BY <1>5, <3>3, SendSays
    <3>5. rx'[i] = heard[i]
      BY <3>4 DEF Says
    <3>. QED  BY <1>13, <3>2, <3>5
  <2>2. CASE ~(answered /\ ~sleeps)
    BY <1>8, <1>13, <2>2
  <2>. QED  BY <2>1, <2>2
<1>15. Drained(i)'
  BY <1>11, <1>14 DEF Drained
<1>16. a # <<>> => p = "sleep" /\ a[2].v >= 128 /\ e.slave = i
  <2>. SUFFICES ASSUME a # <<>> PROVE p = "sleep" /\ a[2].v >= 128 /\ e.slave = i
    OBVIOUS
  <2>1. answered /\ sleeps /\ a = f
    BY <1>7
  <2>2. pdu[1] >= 128
    BY <1>6, <2>1 DEF Refused
  <2>3. f = Frame(i, pdu) /\ i \in uint8_t
    BY <1>3, <1>7, <1>12, <2>1, SlaveId
  <2>4. PICK n \in Nat : n = Len(pdu) /\ n > 0 /\ 1 \in 1..n
    BY <1>5
  <2>5. \A k \in 1..n : f[k + 1].v = pdu[k]
    BY <1>5, <2>3, <2>4, FrameValues
  <2>6. f[1 + 1].v = pdu[1]
    BY <2>4, <2>5
  <2>7. f[2].v = pdu[1]
    BY <2>6
  <2>. QED  BY <1>7, <1>12, <2>1, <2>2, <2>7
<1>17. p # "reply"
  BY <1>7
<1>18. Finished(i, e)'
  <2>1. Held(i)' /\ pc'[i] # "reply" /\ (rsp'[i] # <<>> => e.slave = i)
    BY <1>11, <1>16, <1>17 DEF Held
  <2>2. Own(i, e)'
    BY <1>13 DEF Own
  <2>. QED  BY <1>11, <1>13, <1>15, <2>1, <2>2 DEF Finished
<1>19. CASE answered /\ ~sleeps
  <2>1. p = "receive" /\ a = <<>>
    BY <1>7, <1>19
  <2>2. Lined(i, confirmation_to_ignore[i], Stream(i), <<>>)'
    BY <1>11, <1>15, DrainedPrime
  <2>3. InOrder(i)'
    BY <1>11, <1>13, <2>1, <2>2 DEF InOrder, InStep
  <2>4. Send(i, rx, Frame(i, pdu)) /\ e.slave = i
    BY <1>3, <1>7, <1>8, <1>12, <1>19
  <2>5. Replied(i, e, pdu)
    BY <1>5, <1>6, <2>3, <2>4 DEF Replied
  <2>. QED  BY <1>8, <1>10, <1>18, <2>5
<1>20. CASE ~(answered /\ ~sleeps)
  BY <1>8, <1>10, <1>18, <1>20
<1>. QED  BY <1>19, <1>20

LEMMA ReplyHears ==
  ASSUME Inv, Told, NEW i \in Slaves, Reply(i), "exception" \in waits, Orderly \/ Asked \/ Spent \/ Odd
  PROVE  (Orderly \/ Asked \/ Spent \/ Odd)'
<1>1. pc[i] = "reply" /\ Typed
  BY DEF Inv, Reply
<1>2. Asked
  BY <1>1 DEF Orderly, InOrder, InStep, Spent, Odd, NoMore, Shifted
<1>3. PICK e : e = Last
  OBVIOUS
<1>4. /\ e \in Entry /\ WholeRequest(e.pdu) /\ Len(e.pdu) <= 253
      /\ master = "wait" /\ Len(sent) > 0 /\ \A j \in Slaves : HasAsked(j, e)
  BY <1>2, <1>3, LastIs DEF Asked
<1>5. Taken(i, e)
  <2>1. HasAsked(i, e)
    BY <1>4
  <2>. QED  BY <1>1, <2>1 DEF HasAsked, Coming, InStep, Finished, Seen
<1>6. /\ Finished(i, e)' /\ sent' = sent
      /\ \A j \in Slaves \ {i} : Alone(j)
      /\ \/ rx' = rx /\ master' = master
         \/ \E pdu : Replied(i, e, pdu)
  BY <1>4, <1>5, ReplyIs
<1>7. Last' = e
  BY <1>3, <1>6 DEF Last
<1>8. CASE rx' = rx /\ master' = master
  <2>1. \A j \in Slaves \ {i} : Idles(j)
    BY <1>6, <1>8 DEF Idles
  <2>2. \A j \in Slaves \ {i} : HasAsked(j, e)'
    BY <1>4, <1>6, <2>1, IdlesKeeps
  <2>3. HasAsked(i, e)'
    BY <1>6 DEF HasAsked
  <2>4. \A j \in Slaves : HasAsked(j, e)'
    BY <2>2, <2>3
  <2>. QED  BY <1>4, <1>6, <1>7, <1>8, <2>4 DEF Asked
<1>9. CASE \E pdu : Replied(i, e, pdu)
  <2>1. PICK pdu : Replied(i, e, pdu)
    BY <1>9
  <2>2. PICK f, heard : f = Frame(i, pdu) /\ heard = rx
    OBVIOUS
  <2>3. /\ e.slave = i /\ pdu \in Seq(uint8_t) /\ Len(pdu) > 0
        /\ (Refused(pdu) \/ AnswerIs(pdu)) /\ InOrder(i)'
        /\ Send(i, heard, f) /\ heard \in [Slaves -> Seq(BYTE)]
    BY <1>1, <2>1, <2>2 DEF Replied, Typed
  <2>4. PICK g : \E hit \in BOOLEAN : Says(i, heard, f, g, hit)
    BY <2>2, <2>3, SendSays
  <2>5. PICK hit \in BOOLEAN : Says(i, heard, f, g, hit)
    BY <2>4
  <2>6. /\ g \in Seq(BYTE) /\ (~hit => g = f)
        /\ \A j \in Slaves \ {i} : rx'[j] = rx[j] \o g /\ Deaf(j, g)
        /\ master' = IF hit \/ f[2].v >= 128 THEN "rest" ELSE "idle"
    BY <1>4, <2>2, <2>5 DEF Says
  <2>7. f[2].v = pdu[1]
    <3>1. PICK n \in Nat : n = Len(pdu) /\ n > 0 /\ 1 \in 1..n
      BY <2>3
    <3>2. \A k \in 1..n : f[k + 1].v = pdu[k]
      BY <2>2, <2>3, <3>1, FrameValues, SlaveId
    <3>3. f[1 + 1].v = pdu[1]
      BY <3>1, <3>2
    <3>. QED  BY <3>3
  <2>8. \A j \in Slaves \ {i} : ~Own(j, e) /\ HasAsked(j, e)
    BY <1>4, <2>3, SlaveId DEF Own
  <2>9. CASE hit \/ Refused(pdu)
    <3>1. master' = "rest"
      BY <2>6, <2>7, <2>9 DEF Refused
    <3>2. ASSUME NEW j \in Slaves \ {i} PROVE NoMore(j)'
      <4>1. NoMore(j)
        BY <1>4, <2>8, ForeignNoMore
      <4>. QED  BY <1>6, <2>6, <4>1, HearsDeaf
    <3>3. NoMore(i)'
      BY <1>6, DrainedPrime DEF Finished, NoMore
    <3>4. \A j \in Slaves : NoMore(j)'
      BY <3>2, <3>3
    <3>. QED  BY <3>1, <3>4 DEF Spent
  <2>10. CASE ~hit /\ ~Refused(pdu)
    <3>1. AnswerIs(pdu) /\ g = f
      BY <2>3, <2>6, <2>10
    <3>2. master' = "idle"
      BY <2>6, <2>7, <2>10 DEF Refused
    <3>3. Whole(f, TRUE)
      BY <2>2, <2>3, <3>1, AnswerWhole, SlaveId
    <3>4. ASSUME NEW j \in Slaves \ {i} PROVE InOrder(j)'
      <4>1. Other(j, f)
        BY <2>2, <2>3, FrameOther, SlaveId
      <4>2. Alone(j) /\ sent' = sent /\ rx'[j] = rx[j] \o f
        BY <1>6, <2>6, <3>1
      <4>. QED  BY <1>4, <2>8, <3>3, <4>1, <4>2, AnswerInOrder
    <3>5. \A j \in Slaves : InOrder(j)'
      BY <2>3, <3>4
    <3>. QED  BY <3>2, <3>5 DEF Orderly
  <2>. QED  BY <2>9, <2>10
<1>. QED  BY <1>6, <1>8, <1>9

-----------------------------------------------------------------------------
(* A slave that slept.                                                     *)

LEMMA WakeUpIs ==
  ASSUME Inv, NEW i \in Slaves, WakeUp(i)
  PROVE  /\ Typed /\ pc[i] = "sleep" /\ pc'[i] = "receive" /\ rsp'[i] = <<>>
         /\ Drained(i)' /\ done'[i] = done[i] /\ sent' = sent
         /\ confirmation_to_ignore'[i] = confirmation_to_ignore[i]
         /\ \A j \in Slaves \ {i} : Alone(j)
         /\ \/ rsp[i] = <<>> /\ master' = master /\ \A j \in Slaves \ {i} : Idles(j)
            \/ /\ rsp[i] # <<>>
               /\ \E g : \E hit \in BOOLEAN :
                    /\ g \in Seq(BYTE)
                    /\ \A j \in Slaves \ {i} : rx'[j] = rx[j] \o g /\ Deaf(j, g)
                    /\ master' = IF master # "wait" THEN master
                                 ELSE IF hit \/ (rsp[i][2].v >= 128 /\ "exception" \in waits)
                                   THEN "rest" ELSE "idle"
<1>1. Typed /\ pc[i] = "sleep"
  BY DEF Inv, WakeUp
<1>2. msg[i] = <<>>
  <2>1. Reading(i, msg[i], step[i], to_read[i], confirmation_to_ignore[i], "sleep")
    BY <1>1, SlaveState
  <2>. QED  BY <2>1, ReadingWakes
<1>3. /\ pc' = [pc EXCEPT ![i] = "receive"] /\ rsp' = [rsp EXCEPT ![i] = <<>>] /\ sent' = sent
      /\ UNCHANGED <<msg, step, to_read, confirmation_to_ignore, map, done>>
  BY DEF WakeUp
<1>4. \A j \in Slaves \ {i} : Alone(j)
  BY <1>1, <1>3 DEF Typed, Alone
<1>5. /\ pc'[i] = "receive" /\ rsp'[i] = <<>> /\ msg'[i] = <<>> /\ done'[i] = done[i]
      /\ confirmation_to_ignore'[i] = confirmation_to_ignore[i]
  BY <1>1, <1>2, <1>3 DEF Typed
<1>6. PICK heard : heard = [rx EXCEPT ![i] = <<>>]
  OBVIOUS
<1>7. /\ heard \in [Slaves -> Seq(BYTE)] /\ heard[i] = <<>>
      /\ \A j \in Slaves \ {i} : heard[j] = rx[j]
  BY <1>1, <1>6 DEF Typed
<1>8. PICK r : r = rsp[i]
  OBVIOUS
<1>9. IF r = <<>> THEN rx' = heard /\ UNCHANGED <<master, faults>> ELSE Send(i, heard, r)
  BY <1>6, <1>8 DEF WakeUp
<1>10. CASE r = <<>>
  <2>1. rx' = heard /\ master' = master
    BY <1>9, <1>10
  <2>2. \A j \in Slaves \ {i} : Idles(j)
    BY <1>4, <1>7, <2>1 DEF Idles
  <2>3. Drained(i)'
    BY <1>5, <1>7, <2>1 DEF Drained
  <2>. QED  BY <1>1, <1>3, <1>4, <1>5, <1>8, <1>10, <2>1, <2>2, <2>3
<1>11. CASE r # <<>>
  <2>1. Waiting(i, r)
    BY <1>8, SlaveState
  <2>2. PICK pdu \in Seq(uint8_t) : Len(pdu) > 0 /\ r = Frame(i, pdu)
    BY <1>11, <2>1 DEF Waiting
  <2>3. PICK g : \E hit \in BOOLEAN : Says(i, heard, r, g, hit)
    BY <1>7, <1>9, <1>11, <2>2, SendSays
  <2>4. PICK hit \in BOOLEAN : Says(i, heard, r, g, hit)
    BY <2>3
  <2>5. /\ g \in Seq(BYTE) /\ rx'[i] = <<>>
        /\ \A j \in Slaves \ {i} : rx'[j] = rx[j] \o g /\ Deaf(j, g)
        /\ master' = IF master # "wait" THEN master
                     ELSE IF hit \/ (rsp[i][2].v >= 128 /\ "exception" \in waits) THEN "rest" ELSE "idle"
    BY <1>7, <1>8, <2>4 DEF Says
  <2>6. Drained(i)'
    BY <1>5, <2>5 DEF Drained
  <2>. QED  BY <1>1, <1>3, <1>4, <1>5, <1>8, <1>11, <2>5, <2>6
<1>. QED  BY <1>10, <1>11

LEMMA AwakeNoMore ==
  ASSUME Inv, NEW i \in Slaves, WakeUp(i), Heeded(i, done[i], sent)
  PROVE  NoMore(i)'
<1>1. /\ pc'[i] = "receive" /\ rsp'[i] = <<>> /\ Drained(i)' /\ done'[i] = done[i] /\ sent' = sent
  BY WakeUpIs
<1>2. Mute(i, Stream(i))'
  BY <1>1, DrainedPrime
<1>. QED  BY <1>1, <1>2 DEF NoMore, Held

LEMMA WakeUpHears ==
  ASSUME Inv, Told, NEW i \in Slaves, WakeUp(i), "exception" \in waits, Orderly \/ Asked \/ Spent \/ Odd
  PROVE  (Orderly \/ Asked \/ Spent \/ Odd)'
<1>1. /\ pc[i] = "sleep" /\ pc'[i] = "receive" /\ rsp'[i] = <<>>
      /\ Drained(i)' /\ done'[i] = done[i] /\ sent' = sent
      /\ confirmation_to_ignore'[i] = confirmation_to_ignore[i]
      /\ \A j \in Slaves \ {i} : Alone(j)
  BY WakeUpIs
<1>2. PICK e : e = Last /\ e = Last'
  BY <1>1 DEF Last
<1>3. ~Orderly
  BY <1>1 DEF Orderly, InOrder, InStep
<1>4. Heeded(i, done[i], sent) /\ Held(i)
  <2>1. CASE Asked
    <3>1. HasAsked(i, e)
      BY <1>2, <2>1 DEF Asked
    <3>2. Finished(i, e)
      BY <1>1, <3>1 DEF HasAsked, Coming, InStep, Taken, Seen
    <3>. QED  BY <3>2 DEF Finished
  <2>2. CASE Spent
    BY <2>2 DEF Spent, NoMore
  <2>3. CASE Odd
    BY <1>1, <2>3 DEF Odd, NoMore, Shifted, InStep
  <2>. QED  BY <1>3, <2>1, <2>2, <2>3
<1>5. NoMore(i)'
  BY <1>4, AwakeNoMore
<1>6. CASE rsp[i] = <<>>
  <2>1. master' = master /\ \A j \in Slaves \ {i} : Idles(j)
    BY <1>6, WakeUpIs
  <2>2. CASE Asked
    <3>1. Finished(i, e)
      BY <1>1, <1>2, <2>2 DEF Asked, HasAsked, Coming, InStep, Taken, Seen
    <3>2. Finished(i, e)'
      BY <1>1, <3>1 DEF Finished, Own, Held
    <3>3. \A j \in Slaves : HasAsked(j, e)'
      BY <1>1, <1>2, <2>1, <2>2, <3>2, IdlesKeeps DEF Asked, HasAsked
    <3>. QED  BY <1>1, <1>2, <2>1, <2>2, <3>3 DEF Asked
  <2>3. CASE Spent
    <3>1. \A j \in Slaves : NoMore(j)'
      BY <1>1, <1>5, <2>1, <2>3, IdlesKeeps DEF Spent
    <3>. QED  BY <2>1, <2>3, <3>1 DEF Spent
  <2>4. CASE Odd
    <3>1. Len(sent) > 0 /\ \A j \in Slaves : (NoMore(j) /\ rsp[j] = <<>>) \/ Shifted(j, e)
      BY <1>2, <2>4 DEF Odd
    <3>2. \A j \in Slaves : (NoMore(j)' /\ rsp'[j] = <<>>) \/ Shifted(j, e)'
      <4>1. SUFFICES ASSUME NEW j \in Slaves \ {i}
                     PROVE  (NoMore(j)' /\ rsp'[j] = <<>>) \/ Shifted(j, e)'
        BY <1>1, <1>5
      <4>2. Idles(j)
        BY <2>1
      <4>. QED  BY <1>1, <3>1, <4>2, IdlesKeeps
    <3>. QED  BY <1>1, <1>2, <2>1, <2>4, <3>2 DEF Odd
  <2>. QED  BY <1>3, <2>2, <2>3, <2>4
<1>7. CASE rsp[i] # <<>>
  <2>1. PICK g : \E hit \in BOOLEAN :
          /\ g \in Seq(BYTE)
          /\ \A j \in Slaves \ {i} : rx'[j] = rx[j] \o g /\ Deaf(j, g)
          /\ master' = IF master # "wait" THEN master
                       ELSE IF hit \/ (rsp[i][2].v >= 128 /\ "exception" \in waits) THEN "rest" ELSE "idle"
    BY <1>7, WakeUpIs
  <2>2. /\ g \in Seq(BYTE)
        /\ \A j \in Slaves \ {i} : rx'[j] = rx[j] \o g /\ Deaf(j, g)
    BY <2>1
  <2>3. master # "idle" => master' # "idle"
    <3>1. rsp[i][2].v >= 128
      BY <1>4, <1>7 DEF Held
    <3>. QED  BY <2>1, <3>1
  <2>4. master # "idle" /\ \A j \in Slaves \ {i} : NoMore(j)
    <3>1. CASE Asked
      <4>1. Finished(i, e)
        BY <1>1, <1>2, <3>1 DEF Asked, HasAsked, Coming, InStep, Taken, Seen
      <4>2. e.slave = i
        BY <1>7, <4>1 DEF Finished
      <4>3. e \in Entry /\ WholeRequest(e.pdu) /\ Len(e.pdu) <= 253
        BY <1>2, <3>1, LastIs DEF Asked
      <4>4. \A j \in Slaves \ {i} : ~Own(j, e) /\ HasAsked(j, e)
        BY <1>2, <3>1, <4>2, SlaveId DEF Asked, Own
      <4>5. \A j \in Slaves \ {i} : NoMore(j)
        BY <4>3, <4>4, ForeignNoMore
      <4>. QED  BY <3>1, <4>5 DEF Asked
    <3>2. CASE Spent
      BY <3>2 DEF Spent
    <3>3. ~Odd
      BY <1>1, <1>7 DEF Odd, Shifted, InStep
    <3>. QED  BY <1>3, <3>1, <3>2, <3>3
  <2>5. ASSUME NEW j \in Slaves \ {i} PROVE NoMore(j)'
    BY <1>1, <2>2, <2>4, HearsDeaf
  <2>6. \A j \in Slaves : NoMore(j)'
    BY <1>5, <2>5
  <2>. QED  BY <2>3, <2>4, <2>6 DEF Spent
<1>. QED  BY <1>6, <1>7

-----------------------------------------------------------------------------
(* A request.                                                              *)

\* The requests have all the bytes that their function codes and counts announce,
\* and fit into a message.
Announced ==
  \A k \in 1..Len(Requests) : \A r \in Requests[k] : WholeRequest(r[2]) /\ Len(r[2]) <= 253

LEMMA SendsIs ==
  ASSUME Inv, Announced, MasterSends
  PROVE  \E e \in Entry, g \in Seq(BYTE) :
           /\ WholeRequest(e.pdu) /\ Len(e.pdu) <= 253 /\ sent' = Append(sent, e)
           /\ IF e.hit THEN g \in Noisy(Wire(e)) \ {Wire(e)} ELSE g = Wire(e)
           /\ master = "idle" /\ master' = "wait"
           /\ \A j \in Slaves : Alone(j) /\ rx'[j] = rx[j] \o g
<1>1. PICK log : log = sent /\ log \in Seq(Entry)
  BY DEF Inv, Sent
<1>2. PICK r \in Requests[Len(log) + 1], hit \in BOOLEAN :
        /\ Transmit(rx, Frame(r[1], r[2]), Slaves, hit)
        /\ sent' = Append(log, [slave |-> r[1], pdu |-> r[2], hit |-> hit])
  BY <1>1 DEF MasterSends
<1>3. PICK k : k = Len(log) + 1
  OBVIOUS
<1>4. k \in 1..Len(Requests) /\ Requests[k] \subseteq (0..247) \X Seq(uint8_t)
  <2>1. Len(log) < Len(Requests) /\ Len(log) \in Nat
    BY <1>1 DEF MasterSends
  <2>2. Requests \in Seq(SUBSET ((0..247) \X Seq(uint8_t)))
    BY RequestsAssumption
  <2>3. Len(Requests) \in Nat
    BY <2>2
  <2>4. k \in 1..Len(Requests)
    BY <1>3, <2>1, <2>3
  <2>. QED  BY <2>2, <2>4
<1>5. PICK id, pdu : id = r[1] /\ pdu = r[2]
  OBVIOUS
<1>6. id \in 0..247 /\ pdu \in Seq(uint8_t)
  BY <1>2, <1>3, <1>4, <1>5
<1>7. WholeRequest(pdu) /\ Len(pdu) <= 253
  BY <1>2, <1>3, <1>4, <1>5 DEF Announced
<1>8. PICK e : e = [slave |-> id, pdu |-> pdu, hit |-> hit]
  OBVIOUS
<1>9. e \in Entry /\ e.slave = id /\ e.pdu = pdu /\ e.hit = hit
  BY <1>6, <1>8 DEF Entry
<1>10. sent' = Append(sent, e) /\ Frame(r[1], r[2]) = Wire(e)
  BY <1>1, <1>2, <1>5, <1>8, <1>9 DEF Wire
<1>11. PICK f : f = Wire(e)
  OBVIOUS
<1>12. PICK g \in IF hit THEN Noisy(f) \ {f} ELSE {f} :
         rx' = [j \in Slaves |-> IF j \in Slaves THEN rx[j] \o g ELSE rx[j]]
  BY <1>2, <1>10, <1>11 DEF Transmit
<1>13. g \in Seq(BYTE)
  <2>1. g \in Noisy(f) \cup {f}
    BY <1>12
  <2>2. e.slave \in uint8_t /\ e.pdu \in Seq(uint8_t) /\ Len(e.pdu) > 0
    BY <1>7, <1>9, EntryIs
  <2>3. Cargo(g, <<e.slave>> \o e.pdu)
    BY <1>11, <2>1, <2>2, NoisyIs DEF Wire
  <2>. QED  BY <2>3 DEF Cargo
<1>14. IF e.hit THEN g \in Noisy(Wire(e)) \ {Wire(e)} ELSE g = Wire(e)
  BY <1>9, <1>11, <1>12
<1>15. /\ master = "idle" /\ master' = "wait"
       /\ \A j \in Slaves : Alone(j) /\ rx'[j] = rx[j] \o g
  BY <1>12 DEF MasterSends, slave, Alone
<1>. QED  BY <1>7, <1>9, <1>10, <1>13, <1>14, <1>15

LEMMA MasterSendsHears ==
  ASSUME Inv, Told, Announced, MasterSends, Orderly \/ Asked \/ Spent \/ Odd
  PROVE  Hear'
<1>1. PICK e \in Entry, g \in Seq(BYTE) :
        /\ WholeRequest(e.pdu) /\ Len(e.pdu) <= 253 /\ sent' = Append(sent, e)
        /\ IF e.hit THEN g \in Noisy(Wire(e)) \ {Wire(e)} ELSE g = Wire(e)
        /\ master = "idle" /\ master' = "wait"
        /\ \A j \in Slaves : Alone(j) /\ rx'[j] = rx[j] \o g
  BY SendsIs
<1>2. sent \in Seq(Entry) /\ \A j \in Slaves : InOrder(j)
  BY <1>1 DEF Inv, Sent, Orderly, Asked, Spent, Odd
<1>3. Len(sent') > 0 /\ Last' = e
  BY <1>1, <1>2 DEF Last
<1>4. Told'
  <2>1. PICK log, n : log = sent' /\ n = Len(sent) /\ n \in Nat
    BY <1>2
  <2>2. Len(log) = n + 1 /\ log[n + 1] = e /\ \A k \in 1..n : log[k] = sent[k]
    BY <1>1, <1>2, <2>1
  <2>3. ASSUME NEW k \in 1..(n + 1) PROVE WholeRequest(log[k].pdu) /\ Len(log[k].pdu) <= 253
    <3>1. CASE k \in 1..n
      BY <2>1, <2>2, <3>1 DEF Told
    <3>2. CASE k = n + 1
      BY <1>1, <2>2, <3>2
    <3>. QED  BY <2>1, <3>1, <3>2
  <2>. QED  BY <2>1, <2>2, <2>3 DEF Told
<1>5. PICK f, vs : f = Wire(e) /\ Framed(f, vs) /\ f \in Seq(BYTE)
  BY <1>1, EntryIs, Zenon
<1>6. ASSUME NEW j \in Slaves
      PROVE  /\ Split(Stream(j)', Stream(j), g) /\ confirmation_to_ignore[j] \in BOOLEAN
             /\ Lined(j, confirmation_to_ignore[j], Stream(j), <<>>)
             /\ pc'[j] = "receive" /\ rsp'[j] = <<>> /\ done'[j] = done[j]
             /\ confirmation_to_ignore'[j] = confirmation_to_ignore[j]
             /\ Heeded(j, done[j], sent) /\ done[j] \in Seq(Seq(uint8_t))
  <2>1. /\ msg'[j] = msg[j] /\ pc'[j] = pc[j] /\ rsp'[j] = rsp[j] /\ done'[j] = done[j]
        /\ confirmation_to_ignore'[j] = confirmation_to_ignore[j] /\ rx'[j] = rx[j] \o g
    BY <1>1 DEF Alone
  <2>2. Split(Stream(j)', Stream(j), g)
    BY <2>1, StreamGrows
  <2>3. confirmation_to_ignore[j] \in BOOLEAN /\ done[j] \in Seq(Seq(uint8_t))
    BY SlaveState
  <2>. QED  BY <1>2, <2>1, <2>2, <2>3 DEF InOrder, InStep
<1>7. ASSUME NEW j \in Slaves, e.hit PROVE Heeded(j, done'[j], sent')
  <2>1. ~Mine(j, e)
    BY <1>7 DEF Mine
  <2>2. Heeded(j, done[j], Append(sent, e))
    BY <1>2, <1>6, <2>1, HeededSkip
  <2>. QED  BY <1>1, <1>6, <2>2
<1>8. ASSUME NEW j \in Slaves PROVE InStep(j, g)'
  <2>1. PICK x, y, c : x = Stream(j) /\ y = Stream(j)' /\ c = confirmation_to_ignore[j]
    OBVIOUS
  <2>2. Split(y, x, g) /\ c \in BOOLEAN /\ Lined(j, c, x, <<>>)
    BY <1>6, <2>1
  <2>3. Lined(j, c, y, g)
    BY <2>2, LinedMore
  <2>4. pc'[j] = "receive" /\ rsp'[j] = <<>> /\ confirmation_to_ignore'[j] = c
    BY <1>6, <2>1
  <2>. QED  BY <2>1, <2>3, <2>4, Zenon DEF InStep
<1>9. CASE ~e.hit
  <2>1. g = Wire(e)
    BY <1>1, <1>9
  <2>2. ASSUME NEW j \in Slaves PROVE HasAsked(j, e)'
    <3>1. InStep(j, Wire(e))'
      BY <1>8, <2>1 DEF InStep
    <3>2. Heeded(j, Executed(j, e)', sent')
      <4>1. CASE Own(j, e)
        <5>1. Mine(j, e)
          BY <1>9, <4>1 DEF Mine, Own
        <5>2. Heeded(j, Append(done[j], e.pdu), Append(sent, e))
          BY <1>2, <1>6, <5>1, HeededNext
        <5>. QED  BY <1>1, <1>6, <4>1, <5>2 DEF Executed, Own
      <4>2. CASE ~Own(j, e)
        <5>1. ~Mine(j, e)
          BY <4>2 DEF Mine, Own
        <5>2. Heeded(j, done[j], Append(sent, e))
          BY <1>2, <1>6, <5>1, HeededSkip
        <5>. QED  BY <1>1, <1>6, <4>2, <5>2 DEF Executed, Own
      <4>. QED  BY <4>1, <4>2
    <3>3. Coming(j, e)'
      BY <3>1, <3>2 DEF Coming
    <3>. QED  BY <3>3 DEF HasAsked
  <2>3. Asked'
    BY <1>1, <1>3, <2>2 DEF Asked
  <2>. QED  BY <1>4, <2>3 DEF Hear
<1>10. CASE e.hit
  <2>1. g \in Noisy(f) \ {f}
    BY <1>1, <1>5, <1>10
  <2>2. Marred(g, f) \/ Split(g, <<Byte(255)>>, f)
    BY <1>5, <2>1, NoiseIs
  <2>3. ASSUME NEW j \in Slaves, Marred(g, f) PROVE NoMore(j)' /\ rsp'[j] = <<>>
    <3>1. PICK x, y, c : x = Stream(j) /\ y = Stream(j)' /\ c = confirmation_to_ignore[j]
      OBVIOUS
    <3>2. Split(y, x, g) /\ c \in BOOLEAN /\ Lined(j, c, x, <<>>)
      BY <1>6, <3>1
    <3>3. PICK d : Deaf(j, d) /\ Split(x, d, <<>>)
      BY <3>2, LinedDeaf
    <3>4. d = x
      <4>1. d \in Seq(BYTE) /\ x = d \o <<>>
        BY <3>3 DEF Split
      <4>. QED  BY <4>1, NothingBehind
    <3>5. Mute(j, y)
      BY <1>5, <2>3, <3>2, <3>3, <3>4, MuteMarred
    <3>6. Mute(j, Stream(j))'
      BY <3>1, <3>5 DEF Mute, Carries, EndsAt
    <3>. QED  BY <1>6, <1>7, <1>10, <3>6 DEF NoMore, Held
  <2>4. ASSUME NEW j \in Slaves, Split(g, <<Byte(255)>>, f) PROVE Shifted(j, e)'
    <3>1. Split(g, <<Byte(255)>>, Wire(e))'
      BY <1>5, <2>4 DEF Split, Wire
    <3>. QED  BY <1>7, <1>8, <1>10, <3>1 DEF Shifted
  <2>5. Odd'
    BY <1>1, <1>3, <2>2, <2>3, <2>4 DEF Odd
  <2>. QED  BY <1>4, <2>5 DEF Hear
<1>. QED  BY <1>9, <1>10

-----------------------------------------------------------------------------

Rests == waits = {"timeout", "exception"}

\* It follows that every slave has executed what it had to when all are ready.
LEMMA HearHeard ==
  ASSUME Inv, Hear, AllReady
  PROVE  AllExecuted
<1>1. \A j \in Slaves : rx[j] = <<>> /\ Ready(j)
  BY DEF AllReady
<1>2. ASSUME NEW j \in Slaves PROVE Heeded(j, done[j], sent)
  <2>1. CASE Orderly
    BY <2>1 DEF Orderly, InOrder
  <2>2. CASE Asked
    <3>1. pc[j] # "reply"
      BY <1>1 DEF Ready
    <3>2. PICK e : e = Last
      OBVIOUS
    <3>3. e \in Entry /\ WholeRequest(e.pdu) /\ Len(e.pdu) <= 253 /\ HasAsked(j, e)
      BY <2>2, <3>2, LastIs DEF Asked, Hear
    <3>4. NoMore(j)
      BY <1>1, <3>1, <3>3, SilentAsked
    <3>. QED  BY <3>4 DEF NoMore
  <2>3. CASE Spent
    BY <2>3 DEF Spent, NoMore
  <2>4. CASE Odd
    BY <2>4 DEF Odd, NoMore, Shifted
  <2>. QED  BY <2>1, <2>2, <2>3, <2>4 DEF Hear
<1>. QED  BY <1>2, Zenon DEF AllExecuted, Heeded, HeededBy

\* When the line rests, every slave has executed every request that reached it
\* undamaged, for every number of slaves and requests and whatever noise hits,
\* if the requests are whole and the master lets the line fall silent after every
\* answer that stayed away, was damaged or was an exception.
THEOREM HearsAll == Announced => (Spec => []Heard)
<1>. SUFFICES ASSUME Announced PROVE Spec => []Heard
  OBVIOUS
<1>1. Init => (Rests => Hear)
  <2>. SUFFICES ASSUME Init PROVE Hear
    OBVIOUS
  <2>1. sent = <<>> /\ Len(sent) = 0 /\ master = "idle"
    BY NothingIs DEF Init
  <2>2. ASSUME NEW j \in Slaves PROVE InOrder(j)
    <3>1. /\ Drained(j) /\ ~confirmation_to_ignore[j] /\ pc[j] = "receive" /\ rsp[j] = <<>>
          /\ done[j] = <<>>
      BY DEF Init, Drained
    <3>2. Lined(j, confirmation_to_ignore[j], Stream(j), <<>>)
      BY <3>1, DrainedStream
    <3>3. Heeded(j, done[j], sent)
      BY <2>1, <3>1, HeededNone
    <3>. QED  BY <3>1, <3>2, <3>3 DEF InOrder, InStep
  <2>3. Told
    BY <2>1 DEF Told
  <2>. QED  BY <2>1, <2>2, <2>3 DEF Hear, Orderly
<1>2. Inv /\ (Rests => Hear) /\ [Next]_vars => (Rests => Hear)'
  <2>. SUFFICES ASSUME Inv, Rests => Hear, [Next]_vars, Rests' PROVE Hear'
    OBVIOUS
  <2>1. waits' = waits
    BY DEF Next, Recv, Timeout, Reply, WakeUp, MasterSends, MasterTimeout, MasterRested, Done, vars, config
  <2>2. "timeout" \in waits /\ "exception" \in waits /\ Hear
    BY <2>1 DEF Rests
  <2>3. Told /\ (Orderly \/ Asked \/ Spent \/ Odd)
    BY <2>2 DEF Hear
  <2>4. ASSUME sent' = sent PROVE Told'
    BY <2>3, <2>4 DEF Told
  <2>5. ASSUME NEW i \in Slaves, Recv(i) PROVE Hear'
    BY <2>3, <2>4, <2>5, RecvHears DEF Hear, Recv
  <2>6. ASSUME NEW i \in Slaves, Timeout(i) PROVE Hear'
    BY <2>3, <2>4, <2>6, TimeoutHears DEF Hear, Timeout
  <2>7. ASSUME NEW i \in Slaves, Reply(i) PROVE Hear'
    BY <2>2, <2>3, <2>4, <2>7, ReplyHears DEF Hear, Reply
  <2>8. ASSUME NEW i \in Slaves, WakeUp(i) PROVE Hear'
    BY <2>2, <2>3, <2>4, <2>8, WakeUpHears DEF Hear, WakeUp
  <2>9. CASE MasterSends
    BY <2>3, <2>9, MasterSendsHears
  <2>10. CASE MasterTimeout
    BY <2>2, <2>3, <2>4, <2>10, MasterTimeoutHears DEF Hear, MasterTimeout
  <2>11. CASE MasterRested
    BY <2>3, <2>4, <2>11, MasterRestedHears DEF Hear, MasterRested
  <2>12. CASE Done \/ UNCHANGED vars
    <3>1. /\ sent' = sent /\ master' = master /\ \A j \in Slaves : Idles(j)
      BY <2>12 DEF Done, vars, Idles, Alone
    <3>2. Last' = Last
      BY <3>1 DEF Last
    <3>3. PICK e : e = Last /\ e = Last'
      BY <3>2
    <3>4. CASE Orderly
      <4>1. \A j \in Slaves : InOrder(j)'
        BY <3>1, <3>4, IdlesKeeps DEF Orderly
      <4>. QED  BY <2>4, <3>1, <3>4, <4>1 DEF Orderly, Hear
    <3>5. CASE Asked
      <4>1. \A j \in Slaves : HasAsked(j, e)'
        BY <3>1, <3>3, <3>5, IdlesKeeps DEF Asked
      <4>. QED  BY <2>4, <3>1, <3>3, <3>5, <4>1 DEF Asked, Hear
    <3>6. CASE Spent
      <4>1. \A j \in Slaves : NoMore(j)'
        BY <3>1, <3>6, IdlesKeeps DEF Spent
      <4>. QED  BY <2>4, <3>1, <3>6, <4>1 DEF Spent, Hear
    <3>7. CASE Odd
      <4>1. \A j \in Slaves : (NoMore(j) /\ rsp[j] = <<>>) \/ Shifted(j, e)
        BY <3>3, <3>7 DEF Odd
      <4>2. \A j \in Slaves : (NoMore(j)' /\ rsp'[j] = <<>>) \/ Shifted(j, e)'
        BY <3>1, <4>1, IdlesKeeps
      <4>. QED  BY <2>4, <3>1, <3>3, <3>7, <4>2 DEF Odd, Hear
    <3>. QED  BY <2>3, <3>4, <3>5, <3>6, <3>7
  <2>. QED  BY <2>5, <2>6, <2>7, <2>8, <2>9, <2>10, <2>11, <2>12 DEF Next
<1>3. Inv /\ (Rests => Hear) => Heard
  BY HearHeard DEF Heard, Rests
<1>. QED  BY <1>1, <1>2, <1>3, InvHolds, PTL DEF Spec

=============================================================================
