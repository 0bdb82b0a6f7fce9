------------------------- MODULE ModbusMaster_proofs -------------------------
(***************************************************************************)
(* Proofs about ModbusMaster: a client never takes the answer to another   *)
(* request for its own, reads nothing behind its buffer, and is back after *)
(* a disturbance, for any calls, noise, losses and delays.                 *)
(***************************************************************************)
EXTENDS ModbusMaster, TLAPS

-----------------------------------------------------------------------------
(* Sequences and bytes.                                                    *)

LEMMA CatIs ==
  \A S : \A a, b \in Seq(S) :
    /\ a \o b \in Seq(S) /\ Len(a \o b) = Len(a) + Len(b)
    /\ \A k \in 1..Len(a) : (a \o b)[k] = a[k]
    /\ \A k \in 1..Len(b) : (a \o b)[Len(a) + k] = b[k]
OBVIOUS

LEMMA EmptyIs == \A S : \A q \in Seq(S) : q = <<>> <=> Len(q) = 0
OBVIOUS

\* The first k elements and the rest.
LEMMA PartsAre ==
  ASSUME NEW S, NEW q \in Seq(S), NEW k \in Nat, k <= Len(q)
  PROVE  /\ SubSeq(q, 1, k) \in Seq(S) /\ Len(SubSeq(q, 1, k)) = k
         /\ SubSeq(q, k + 1, Len(q)) \in Seq(S)
         /\ SubSeq(q, 1, k) \o SubSeq(q, k + 1, Len(q)) = q
<1>. DEFINE a == SubSeq(q, 1, k)
            b == SubSeq(q, k + 1, Len(q))
<1>1. a \in Seq(S) /\ Len(a) = k /\ \A j \in 1..k : a[j] = q[j]
  OBVIOUS
<1>2. b \in Seq(S) /\ Len(b) = Len(q) - k /\ \A j \in 1..(Len(q) - k) : b[j] = q[k + j]
  OBVIOUS
<1>. HIDE DEF a, b
<1>3. a \o b \in Seq(S) /\ Len(a \o b) = Len(q)
  BY <1>1, <1>2
<1>4. ASSUME NEW j \in 1..Len(q) PROVE (a \o b)[j] = q[j]
  <2>1. CASE j <= k
    BY <2>1, <1>1, <1>2
  <2>2. CASE j > k
    <3>1. j - k \in 1..(Len(q) - k) /\ k + (j - k) = j
      BY <2>2
    <3>2. b[j - k] = q[j]
      BY <3>1, <1>2
    <3>. QED  BY <2>2, <3>1, <3>2, <1>1, <1>2
  <2>3. j <= k \/ j > k
    OBVIOUS
  <2>. QED  BY <2>1, <2>2, <2>3, Zenon
<1>5. PICK c : c = a \o b
  OBVIOUS
<1>6. c \in Seq(S) /\ Len(c) = Len(q) /\ \A j \in 1..Len(q) : c[j] = q[j]
  BY <1>3, <1>4, <1>5, Zenon
<1>7. c = q
  BY <1>6
<1>8. a \o b = q
  BY <1>5, <1>7
<1>. QED  BY <1>1, <1>2, <1>8 DEF a, b

BYTE == [v : uint8_t, crc : Seq(uint8_t)]

LEMMA Uint8 == \A x : x \in uint8_t <=> x \in Nat /\ x <= 255
BY DEF uint8_t

LEMMA Uint16 == \A x : x \in uint16_t <=> x \in Nat /\ x <= 65535
BY DEF uint16_t

LEMMA ByteSeqIs == ByteSeq = Seq(BYTE)
BY DEF ByteSeq, BYTE

LEMMA ByteParts == \A b \in BYTE : b.v \in uint8_t /\ b.crc \in Seq(uint8_t)
BY DEF BYTE

LEMMA CatBytes ==
  \A a, b \in Seq(BYTE) :
    /\ a \o b \in Seq(BYTE) /\ Len(a \o b) = Len(a) + Len(b)
    /\ \A k \in 1..Len(a) : (a \o b)[k] = a[k]
    /\ \A k \in 1..Len(b) : (a \o b)[Len(a) + k] = b[k]
OBVIOUS

LEMMA CatOf ==
  ASSUME NEW a \in Seq(BYTE), NEW b \in Seq(BYTE), NEW x, x = a \o b
  PROVE  /\ x \in Seq(BYTE) /\ Len(x) = Len(a) + Len(b)
         /\ \A k \in 1..Len(a) : x[k] = a[k]
         /\ \A k \in 1..Len(b) : x[Len(a) + k] = b[k]
BY CatBytes

LEMMA SameBytes ==
  \A a, b \in Seq(BYTE) : Len(a) = Len(b) /\ (\A k \in 1..Len(a) : a[k] = b[k]) => a = b
OBVIOUS

LEMMA CatValues ==
  \A a, b \in Seq(uint8_t) :
    /\ a \o b \in Seq(uint8_t) /\ Len(a \o b) = Len(a) + Len(b)
    /\ \A k \in 1..Len(a) : (a \o b)[k] = a[k]
    /\ \A k \in 1..Len(b) : (a \o b)[Len(a) + k] = b[k]
OBVIOUS

LEMMA HiLo == \A n \in uint16_t : Hi(n) \in uint8_t /\ Lo(n) \in uint8_t /\ n = 256 * Hi(n) + Lo(n)
<1>. SUFFICES ASSUME NEW n \in Nat, n <= 65535
              PROVE  Hi(n) \in uint8_t /\ Lo(n) \in uint8_t /\ n = 256 * Hi(n) + Lo(n)
  BY Uint16
<1>1. n \div 256 \in Nat /\ n \div 256 <= 255
  <2>1. n \div 256 \in Int /\ n \div 256 >= 0
    OBVIOUS
  <2>2. n \div 256 < 256
    OBVIOUS
  <2>. QED  BY <2>1, <2>2
<1>2. n % 256 \in Nat /\ n % 256 <= 255
  OBVIOUS
<1>3. n = 256 * (n \div 256) + (n % 256)
  OBVIOUS
<1>. QED  BY <1>1, <1>2, <1>3, Uint8 DEF Hi, Lo

LEMMA BytesOfBitsIs ==
  \A n \in Nat : BytesOfBits(n) \in Nat /\ 8 * BytesOfBits(n) <= n + 7
BY DEF BytesOfBits

\* Bytes that belong to no checksum.
LEMMA BytesAre ==
  ASSUME NEW vs \in Seq(uint8_t)
  PROVE  /\ Bytes(vs) \in Seq(BYTE) /\ Len(Bytes(vs)) = Len(vs)
         /\ \A p \in 1..Len(vs) : Bytes(vs)[p].v = vs[p] /\ Bytes(vs)[p].crc = <<>>
<1>1. PICK n \in Nat : n = Len(vs)
  OBVIOUS
<1>2. ASSUME NEW p \in 1..n
      PROVE  Byte(vs[p]) \in BYTE /\ Byte(vs[p]).crc = <<>> /\ Byte(vs[p]).v = vs[p]
  <2>1. <<>> \in Seq(uint8_t) /\ vs[p] \in uint8_t
    BY <1>1
  <2>. QED  BY <2>1 DEF Byte, BYTE
<1>3. Bytes(vs) = [p \in 1..n |-> Byte(vs[p])]
  BY <1>1 DEF Bytes
<1>. QED  BY <1>1, <1>2, <1>3

LEMMA CrcIs ==
  ASSUME NEW vs \in Seq(uint8_t)
  PROVE  /\ crc16(vs) \in Seq(BYTE) /\ Len(crc16(vs)) = 2
         /\ crc16(vs)[1] = [v |-> 201, crc |-> vs] /\ crc16(vs)[2] = [v |-> 2, crc |-> vs]
<1>1. 201 \in uint8_t /\ 2 \in uint8_t
  BY Uint8
<1>2. [v |-> 201, crc |-> vs] \in BYTE /\ [v |-> 2, crc |-> vs] \in BYTE
  BY <1>1 DEF BYTE
<1>. QED  BY <1>2 DEF crc16

-----------------------------------------------------------------------------
(* Frames.                                                                 *)

LEMMA Sizes ==
  \/ Rtu /\ header_length = 1 /\ checksum_length = 2 /\ max_adu_length = 256
  \/ ~Rtu /\ header_length = 7 /\ checksum_length = 0 /\ max_adu_length = 260
BY DEF header_length, checksum_length, max_adu_length

\* What is in front of the function code.
Head1(t_id, pdu) == IF Rtu THEN <<Slave>>
                    ELSE <<Hi(t_id), Lo(t_id), 0, 0, 0, Len(pdu) + 1, Slave>>

LEMMA FrameIs ==
  ASSUME NEW t_id \in uint16_t, NEW pdu \in Seq(uint8_t), Len(pdu) > 0, Len(pdu) <= 252
  PROVE  LET f == Frame(t_id, pdu)
             vs == Head1(t_id, pdu) \o pdu
             n == header_length + Len(pdu)
         IN  /\ f \in Seq(BYTE) /\ Len(f) = n + checksum_length
             /\ vs \in Seq(uint8_t) /\ Len(vs) = n
             /\ \A p \in 1..n : f[p].v = vs[p] /\ f[p].crc = <<>>
             /\ \A j \in 1..Len(pdu) : f[header_length + j].v = pdu[j]
             /\ Rtu => /\ f[1].v = Slave
                       /\ f[n + 1] = [v |-> 201, crc |-> vs] /\ f[n + 2] = [v |-> 2, crc |-> vs]
             /\ ~Rtu => f[1].v = Hi(t_id) /\ f[2].v = Lo(t_id) /\ f[3].v = 0
<1>. DEFINE a == Head1(t_id, pdu)
            vs == a \o pdu
            b == Bytes(vs)
            c == IF Rtu THEN crc16(vs) ELSE <<>>
            f == Frame(t_id, pdu)
<1>1. PICK l \in Nat : l = Len(pdu) /\ l > 0 /\ l <= 252
  OBVIOUS
<1>2. /\ a \in Seq(uint8_t) /\ Len(a) = header_length
      /\ Rtu => a[1] = Slave
      /\ ~Rtu => a[1] = Hi(t_id) /\ a[2] = Lo(t_id) /\ a[3] = 0
  <2>1. Hi(t_id) \in uint8_t /\ Lo(t_id) \in uint8_t /\ 0 \in uint8_t /\ Slave \in uint8_t
    BY HiLo, Uint8 DEF Slave
  <2>2. l + 1 \in uint8_t
    BY <1>1, Uint8
  <2>3. CASE Rtu
    BY <2>1, <2>3 DEF Head1, header_length
  <2>4. CASE ~Rtu
    <3>1. a = <<Hi(t_id), Lo(t_id), 0, 0, 0, l + 1, Slave>>
      BY <1>1, <2>4 DEF Head1
    <3>. HIDE DEF a
    <3>. QED  BY <2>1, <2>2, <2>4, <3>1 DEF header_length
  <2>. QED  BY <2>3, <2>4
<1>3. header_length \in {1, 7} /\ (~Rtu => header_length = 7)
  BY Sizes
<1>4. PICK h \in Nat : h = header_length
  BY <1>3
<1>. HIDE DEF a
<1>5. /\ vs \in Seq(uint8_t) /\ Len(vs) = h + l
      /\ \A k \in 1..h : vs[k] = a[k]
      /\ \A k \in 1..l : vs[h + k] = pdu[k]
  BY <1>1, <1>2, <1>4, CatIs
<1>. HIDE DEF vs
<1>6. /\ b \in Seq(BYTE) /\ Len(b) = h + l
      /\ \A p \in 1..(h + l) : b[p].v = vs[p] /\ b[p].crc = <<>>
  BY <1>5, BytesAre
<1>7. /\ c \in Seq(BYTE) /\ Len(c) = checksum_length
      /\ Rtu => c[1] = [v |-> 201, crc |-> vs] /\ c[2] = [v |-> 2, crc |-> vs]
  <2>1. CASE Rtu
    BY <1>5, <2>1, CrcIs DEF checksum_length
  <2>2. CASE ~Rtu
    <3>1. <<>> \in Seq(BYTE) /\ Len(<<>>) = 0
      OBVIOUS
    <3>. QED  BY <2>2, <3>1 DEF checksum_length
  <2>. QED  BY <2>1, <2>2
<1>8. checksum_length \in Nat /\ (Rtu => checksum_length = 2)
  BY Sizes
<1>. HIDE DEF b, c
<1>9. f = b \o c
  <2>1. CASE Rtu
    BY <2>1 DEF Frame, Head1, a, b, c, vs
  <2>2. CASE ~Rtu
    <3>1. f = b
      BY <2>2 DEF Frame, Head1, a, b, vs
    <3>2. b \o <<>> = b
      BY <1>6
    <3>. QED  BY <2>2, <3>1, <3>2 DEF c
  <2>. QED  BY <2>1, <2>2
<1>. HIDE DEF f
<1>10. /\ f \in Seq(BYTE) /\ Len(f) = h + l + checksum_length
       /\ \A k \in 1..(h + l) : f[k] = b[k]
       /\ \A k \in 1..checksum_length : f[h + l + k] = c[k]
  <2>1. /\ b \o c \in Seq(BYTE) /\ Len(b \o c) = Len(b) + Len(c)
        /\ \A k \in 1..Len(b) : (b \o c)[k] = b[k]
        /\ \A k \in 1..Len(c) : (b \o c)[Len(b) + k] = c[k]
    BY <1>6, <1>7, CatIs
  <2>2. Len(b) = h + l /\ Len(c) = checksum_length
    BY <1>6, <1>7
  <2>. QED  BY <1>9, <2>1, <2>2, Zenon
<1>11. \A p \in 1..(h + l) : f[p].v = vs[p] /\ f[p].crc = <<>>
  BY <1>6, <1>10
<1>12. ASSUME NEW j \in 1..l PROVE f[h + j].v = pdu[j]
  <2>1. h + j \in 1..(h + l)
    OBVIOUS
  <2>. QED  BY <1>5, <1>11, <2>1
<1>13. \A p \in 1..h : f[p].v = a[p]
  <2>1. \A p \in 1..h : p \in 1..(h + l)
    OBVIOUS
  <2>. QED  BY <1>5, <1>11, <2>1
<1>14. ASSUME Rtu
       PROVE  /\ f[1].v = Slave
              /\ f[h + l + 1] = [v |-> 201, crc |-> vs] /\ f[h + l + 2] = [v |-> 2, crc |-> vs]
  <2>1. 1 \in 1..h /\ 1 \in 1..checksum_length /\ 2 \in 1..checksum_length
    BY <1>3, <1>4, <1>8, <1>14
  <2>. QED  BY <1>2, <1>7, <1>10, <1>13, <1>14, <2>1
<1>15. ASSUME ~Rtu PROVE f[1].v = Hi(t_id) /\ f[2].v = Lo(t_id) /\ f[3].v = 0
  <2>1. 1 \in 1..h /\ 2 \in 1..h /\ 3 \in 1..h
    BY <1>3, <1>4, <1>15
  <2>. QED  BY <1>2, <1>13, <1>15, <2>1
<1>16. /\ f \in Seq(BYTE) /\ Len(f) = h + Len(pdu) + checksum_length
       /\ vs \in Seq(uint8_t) /\ Len(vs) = h + Len(pdu)
       /\ \A p \in 1..(h + Len(pdu)) : f[p].v = vs[p] /\ f[p].crc = <<>>
       /\ \A j \in 1..Len(pdu) : f[h + j].v = pdu[j]
       /\ Rtu => /\ f[1].v = Slave
                 /\ f[h + Len(pdu) + 1] = [v |-> 201, crc |-> vs]
                 /\ f[h + Len(pdu) + 2] = [v |-> 2, crc |-> vs]
       /\ ~Rtu => f[1].v = Hi(t_id) /\ f[2].v = Lo(t_id) /\ f[3].v = 0
  <2>1. Len(pdu) = l
    BY <1>1
  <2>. HIDE DEF f, vs
  <2>. QED  BY <1>5, <1>10, <1>11, <1>12, <1>14, <1>15, <2>1, Zenon
<1>. QED  BY <1>4, <1>16 DEF f, vs, a

-----------------------------------------------------------------------------
(* Requests and their answers.                                             *)

Codes == {1, 2, 3, 4, 5, 6, 15, 16, 17, 22, 23}

\* A request asks for no more than its call allows.
Fits(r) ==
  /\ r.fc \in BitReads => r.nb <= 2000
  /\ r.fc \in RegisterReads => r.nb <= 125

Requests ==
  {r \in [n : Nat, t_id : uint16_t, fc : Codes, addr : uint16_t, nb : uint16_t] : Fits(r)}

LEMMA CallFits ==
  ASSUME NEW addr, NEW nb, NEW c \in ClientCalls(addr, nb), c.nb \in uint16_t, c.nb <= c.max
  PROVE  c.fc \in Codes /\ Fits(c)
<1>1. c.nb \in Nat
  BY Uint16
<1>2. /\ c.fc \in Codes
      /\ c.fc \in BitReads => c.max = 2000
      /\ c.fc \in RegisterReads => c.max = 125
  BY DEF ClientCalls, Codes, BitReads, RegisterReads, modbus_read_bits, modbus_read_input_bits,
         modbus_read_registers, modbus_read_input_registers, modbus_write_bit,
         modbus_write_register, modbus_write_bits, modbus_write_registers,
         modbus_mask_write_register, modbus_write_and_read_registers, modbus_report_slave_id
<1>. QED  BY <1>1, <1>2 DEF Fits

\* How many bytes follow the function code, and how many of data follow these,
\* by the function code f and the byte n behind it.
Meta(f) == compute_meta_length_after_function(f, "CONFIRMATION")
Count(f, n) == IF f <= 4 \/ f \in {17, 23} THEN n ELSE 0

LEMMA MetaIs ==
  ASSUME NEW f \in Nat
  PROVE  Meta(f) \in Nat /\ Meta(f) >= 1 /\ Meta(f) <= 6
BY DEF Meta, compute_meta_length_after_function, SingleWrites, MultipleWrites

\* The bytes say where the answer ends.
Ends(pdu) ==
  /\ pdu \in Seq(uint8_t) /\ Len(pdu) >= 2 /\ Len(pdu) <= 252
  /\ Len(pdu) = 1 + Meta(pdu[1]) + Count(pdu[1], pdu[2])

\* What a client looks at in the answer to its request r.
Answers(r, pdu) ==
  /\ pdu[1] = r.fc
  /\ r.fc \in BitReads => Len(pdu) = 2 + BytesOfBits(r.nb) /\ pdu[2] = BytesOfBits(r.nb)
  /\ r.fc \in RegisterReads => Len(pdu) = 2 + 2 * r.nb /\ pdu[2] = 2 * r.nb
  /\ r.fc \in SingleWrites \cup MultipleWrites => Len(pdu) = 5
  /\ r.fc \in MultipleWrites => r.nb = 256 * pdu[4] + pdu[5]
  /\ r.fc = 22 => Len(pdu) = 7
  /\ r.fc = 17 => pdu[2] = 2

\* Function code, count and data.
LEMMA ReadPdu ==
  ASSUME NEW f \in Nat, f <= 4 \/ f = 23, NEW n \in Nat, n <= 250, NEW data \in Seq(uint8_t), Len(data) = n
  PROVE  /\ Ends(<<f, n>> \o data) /\ Len(<<f, n>> \o data) = 2 + n
         /\ (<<f, n>> \o data)[1] = f /\ (<<f, n>> \o data)[2] = n
<1>1. PICK a : a = <<f, n>>
  OBVIOUS
<1>2. a \in Seq(uint8_t) /\ Len(a) = 2 /\ a[1] = f /\ a[2] = n
  <2>1. f \in uint8_t /\ n \in uint8_t
    BY Uint8
  <2>. QED  BY <1>1, <2>1
<1>3. PICK p : p = a \o data
  OBVIOUS
<1>4. /\ p \in Seq(uint8_t) /\ Len(p) = Len(a) + Len(data)
      /\ \A k \in 1..Len(a) : p[k] = a[k]
  BY <1>2, <1>3, CatValues
<1>5. Len(p) = 2 + n /\ p[1] = f /\ p[2] = n
  BY <1>2, <1>4
<1>6. Meta(f) = 1 /\ Count(f, n) = n
  BY DEF Meta, Count, compute_meta_length_after_function, SingleWrites, MultipleWrites
<1>7. Ends(p)
  BY <1>4, <1>5, <1>6 DEF Ends
<1>. QED  BY <1>1, <1>3, <1>5, <1>7

LEMMA ValuesRead ==
  ASSUME NEW addr \in uint16_t, NEW nb \in Nat
  PROVE  RegisterValues(addr, nb) \in Seq(uint8_t) /\ Len(RegisterValues(addr, nb)) = 2 * nb
<1>1. \A a \in Nat : Value(a) \in uint16_t
  BY Uint16 DEF Value
<1>2. addr \in Nat
  BY Uint16
<1>3. ASSUME NEW i \in 1..(2 * nb)
      PROVE  (IF i % 2 = 1 THEN Hi(Value(addr + i \div 2)) ELSE Lo(Value(addr + i \div 2 - 1))) \in uint8_t
  <2>1. addr + i \div 2 \in Nat
    BY <1>2
  <2>2. CASE i % 2 = 1
    BY <1>1, <2>1, <2>2, HiLo
  <2>3. CASE i % 2 # 1
    <3>1. addr + i \div 2 - 1 \in Nat
      BY <1>2, <2>3
    <3>. QED  BY <1>1, <2>3, <3>1, HiLo
  <2>. QED  BY <2>2, <2>3
<1>. QED  BY <1>3 DEF RegisterValues

LEMMA PduIs ==
  ASSUME NEW r \in Requests
  PROVE  Ends(Pdu(r)) /\ Answers(r, Pdu(r))
<1>1. /\ r.fc \in Codes /\ r.addr \in uint16_t /\ r.nb \in uint16_t /\ Fits(r)
      /\ r.fc \in Nat /\ r.nb \in Nat /\ r.addr \in Nat
  BY Uint16 DEF Requests, Codes
<1>2. CASE r.fc \in BitReads
  <2>. DEFINE n == BytesOfBits(r.nb)
              data == [i \in 1..n |-> Lo(r.addr + i - 1)]
  <2>1. n \in Nat /\ n <= 250
    <3>1. n \in Nat /\ 8 * n <= r.nb + 7 /\ r.nb <= 2000
      BY <1>1, <1>2, BytesOfBitsIs DEF Fits
    <3>. HIDE DEF n
    <3>. QED  BY <1>1, <3>1
  <2>2. data \in Seq(uint8_t) /\ Len(data) = n
    <3>1. ASSUME NEW i \in 1..n PROVE Lo(r.addr + i - 1) \in uint8_t
      <4>. HIDE DEF n
      <4>1. PICK k \in Nat : k = r.addr + i - 1
        BY <1>1, <2>1
      <4>. QED  BY <4>1, Uint8 DEF Lo
    <3>. HIDE DEF n
    <3>. QED  BY <2>1, <3>1
  <2>3. Pdu(r) = <<r.fc, n>> \o data
    BY <1>2 DEF Pdu
  <2>4. r.fc <= 4 /\ r.fc \notin RegisterReads \cup SingleWrites \cup MultipleWrites \cup {17, 22}
    BY <1>2 DEF BitReads, RegisterReads, SingleWrites, MultipleWrites
  <2>. HIDE DEF n, data
  <2>5. /\ Ends(Pdu(r)) /\ Len(Pdu(r)) = 2 + n /\ Pdu(r)[1] = r.fc /\ Pdu(r)[2] = n
    BY <1>1, <2>1, <2>2, <2>3, <2>4, ReadPdu
  <2>. QED  BY <2>4, <2>5 DEF Answers, n
<1>3. CASE r.fc \in RegisterReads
  <2>1. 2 * r.nb \in Nat /\ 2 * r.nb <= 250
    BY <1>1, <1>3 DEF Fits
  <2>2. RegisterValues(r.addr, r.nb) \in Seq(uint8_t) /\ Len(RegisterValues(r.addr, r.nb)) = 2 * r.nb
    BY <1>1, ValuesRead
  <2>3. Pdu(r) = <<r.fc, 2 * r.nb>> \o RegisterValues(r.addr, r.nb)
    BY <1>3 DEF Pdu, BitReads, RegisterReads
  <2>4. /\ r.fc <= 4 \/ r.fc = 23
        /\ r.fc \notin BitReads \cup SingleWrites \cup MultipleWrites \cup {17, 22}
    BY <1>3 DEF BitReads, RegisterReads, SingleWrites, MultipleWrites
  <2>5. /\ Ends(Pdu(r)) /\ Len(Pdu(r)) = 2 + 2 * r.nb /\ Pdu(r)[1] = r.fc /\ Pdu(r)[2] = 2 * r.nb
    BY <1>1, <2>1, <2>2, <2>3, <2>4, ReadPdu
  <2>. QED  BY <2>4, <2>5 DEF Answers
<1>4. CASE r.fc = 17
  <2>1. Pdu(r) = <<17, 2, 180, 255>>
    BY <1>4 DEF Pdu, BitReads, RegisterReads
  <2>2. 17 \in uint8_t /\ 2 \in uint8_t /\ 180 \in uint8_t /\ 255 \in uint8_t
    BY Uint8
  <2>3. Meta(17) = 1 /\ Count(17, 2) = 2
    BY DEF Meta, Count, compute_meta_length_after_function, SingleWrites, MultipleWrites
  <2>. QED  BY <1>4, <2>1, <2>2, <2>3
            DEF Ends, Answers, BitReads, RegisterReads, SingleWrites, MultipleWrites
<1>5. CASE r.fc \in SingleWrites \cup MultipleWrites \cup {22}
  <2>1. /\ Hi(r.addr) \in uint8_t /\ Lo(r.addr) \in uint8_t /\ Hi(r.nb) \in uint8_t /\ Lo(r.nb) \in uint8_t
        /\ r.nb = 256 * Hi(r.nb) + Lo(r.nb) /\ r.fc \in uint8_t /\ 0 \in uint8_t
    BY <1>1, HiLo, Uint8 DEF Codes
  <2>. DEFINE a == <<r.fc, Hi(r.addr), Lo(r.addr), Hi(r.nb), Lo(r.nb)>>
              b == IF r.fc = 22 THEN <<0, 0>> ELSE <<>>
  <2>2. /\ a \in Seq(uint8_t) /\ Len(a) = 5 /\ a[1] = r.fc /\ a[4] = Hi(r.nb) /\ a[5] = Lo(r.nb)
    BY <2>1
  <2>3. b \in Seq(uint8_t) /\ Len(b) = IF r.fc = 22 THEN 2 ELSE 0
    BY <2>1
  <2>4. Pdu(r) = a \o b
    BY <1>5 DEF Pdu, BitReads, RegisterReads, SingleWrites, MultipleWrites
  <2>. HIDE DEF a, b
  <2>5. /\ Pdu(r) \in Seq(uint8_t) /\ Len(Pdu(r)) = 5 + Len(b)
        /\ Pdu(r)[1] = r.fc /\ Pdu(r)[4] = Hi(r.nb) /\ Pdu(r)[5] = Lo(r.nb)
    <3>1. /\ a \o b \in Seq(uint8_t) /\ Len(a \o b) = Len(a) + Len(b)
          /\ \A k \in 1..Len(a) : (a \o b)[k] = a[k]
      BY <2>2, <2>3, CatValues
    <3>2. 1 \in 1..Len(a) /\ 4 \in 1..Len(a) /\ 5 \in 1..Len(a)
      BY <2>2
    <3>. QED  BY <2>2, <2>4, <3>1, <3>2
  <2>6. /\ Meta(r.fc) = IF r.fc = 22 THEN 6 ELSE 4
        /\ \A n : Count(r.fc, n) = 0
    BY <1>5 DEF Meta, Count, compute_meta_length_after_function, SingleWrites, MultipleWrites
  <2>7. Ends(Pdu(r))
    BY <2>3, <2>5, <2>6 DEF Ends
  <2>8. r.fc \notin BitReads \cup RegisterReads \cup {17}
    BY <1>5 DEF BitReads, RegisterReads, SingleWrites, MultipleWrites
  <2>9. r.fc = 22 => r.fc \notin SingleWrites \cup MultipleWrites
    BY DEF SingleWrites, MultipleWrites
  <2>. QED  BY <2>1, <2>3, <2>5, <2>7, <2>8, <2>9 DEF Answers
<1>6. r.fc \in BitReads \cup RegisterReads \cup {17} \cup (SingleWrites \cup MultipleWrites \cup {22})
  BY <1>1 DEF Codes, BitReads, RegisterReads, SingleWrites, MultipleWrites
<1>. QED  BY <1>2, <1>3, <1>4, <1>5, <1>6

LEMMA ExceptionIs ==
  ASSUME NEW r \in Requests
  PROVE  Ends(<<r.fc + 128, 6>>) /\ r.fc + 128 >= 128
<1>1. r.fc \in Nat /\ r.fc <= 23
  BY DEF Requests, Codes
<1>2. PICK f \in Nat : f = r.fc + 128 /\ f >= 128 /\ f <= 255
  BY <1>1
<1>3. f \in uint8_t /\ 6 \in uint8_t
  BY <1>2, Uint8
<1>4. Meta(f) = 1 /\ Count(f, 6) = 0
  BY <1>2 DEF Meta, Count, compute_meta_length_after_function, SingleWrites, MultipleWrites
<1>5. <<f, 6>> \in Seq(uint8_t) /\ Len(<<f, 6>>) = 2 /\ <<f, 6>>[1] = f /\ <<f, 6>>[2] = 6
  BY <1>3
<1>6. Ends(<<f, 6>>)
  BY <1>4, <1>5 DEF Ends
<1>. QED  BY <1>2, <1>6

-----------------------------------------------------------------------------
(* Where a message ends.                                                   *)

\* Function code of a message, the byte behind it, and the length they announce.
Fn(m) == m[header_length + 1].v
Nb(m) == m[header_length + 2].v
MetaOf(m) == header_length + 1 + Meta(Fn(m))
EndOf(m) == MetaOf(m) + Count(Fn(m), Nb(m)) + checksum_length

\* A message of just the length that it announces.
Whole(m) ==
  /\ m \in Seq(BYTE) /\ Len(m) <= max_adu_length
  /\ Len(m) >= header_length + 2 /\ Len(m) >= MetaOf(m) /\ Len(m) = EndOf(m)

LEMMA ByteAt == \A m \in Seq(BYTE) : \A j \in 1..Len(m) : m[j].v \in Nat /\ m[j].v <= 255
<1>. SUFFICES ASSUME NEW m \in Seq(BYTE), NEW j \in 1..Len(m) PROVE m[j].v \in Nat /\ m[j].v <= 255
  OBVIOUS
<1>1. m[j] \in BYTE
  OBVIOUS
<1>. QED  BY <1>1, ByteParts, Uint8

LEMMA SizesAre ==
  /\ header_length \in Nat /\ header_length >= 1 /\ header_length <= 7
  /\ checksum_length \in Nat /\ checksum_length <= 2
  /\ max_adu_length \in Nat /\ max_adu_length >= 256
BY Sizes

LEMMA FnIs ==
  ASSUME NEW m \in Seq(BYTE), Len(m) >= header_length + 1
  PROVE  /\ Fn(m) \in Nat /\ MetaOf(m) \in Nat
         /\ MetaOf(m) >= header_length + 2 /\ MetaOf(m) <= header_length + 7
<1>1. PICK h \in Nat : h = header_length /\ h + 1 \in 1..Len(m)
  BY SizesAre
<1>2. Fn(m) \in Nat
  BY <1>1, ByteAt DEF Fn
<1>3. Meta(Fn(m)) \in Nat /\ Meta(Fn(m)) >= 1 /\ Meta(Fn(m)) <= 6
  BY <1>2, MetaIs
<1>. QED  BY <1>1, <1>2, <1>3 DEF MetaOf

LEMMA EndIs ==
  ASSUME NEW m \in Seq(BYTE), Len(m) >= header_length + 2
  PROVE  EndOf(m) \in Nat /\ EndOf(m) >= MetaOf(m) + checksum_length
<1>1. PICK h \in Nat : h = header_length /\ h + 2 \in 1..Len(m) /\ Len(m) >= h + 1
  BY SizesAre
<1>2. Fn(m) \in Nat /\ MetaOf(m) \in Nat
  BY <1>1, FnIs
<1>3. Nb(m) \in Nat
  BY <1>1, ByteAt DEF Nb
<1>4. Count(Fn(m), Nb(m)) \in Nat
  BY <1>2, <1>3 DEF Count
<1>5. checksum_length \in Nat
  BY SizesAre
<1>. QED  BY <1>2, <1>4, <1>5 DEF EndOf

LEMMA FrameEnds ==
  ASSUME NEW t_id \in uint16_t, NEW pdu, Ends(pdu)
  PROVE  Whole(Frame(t_id, pdu)) /\ Fn(Frame(t_id, pdu)) = pdu[1]
<1>1. PICK f : f = Frame(t_id, pdu)
  OBVIOUS
<1>2. PICK l \in Nat : l = Len(pdu) /\ l >= 2 /\ l <= 252
  BY DEF Ends
<1>3. /\ f \in Seq(BYTE) /\ Len(f) = header_length + l + checksum_length
      /\ \A j \in 1..l : f[header_length + j].v = pdu[j]
  <2>1. pdu \in Seq(uint8_t) /\ Len(pdu) > 0 /\ Len(pdu) <= 252
    BY <1>2 DEF Ends
  <2>. QED  BY <1>1, <1>2, <2>1, FrameIs
<1>4. Fn(f) = pdu[1] /\ Nb(f) = pdu[2]
  BY <1>2, <1>3 DEF Fn, Nb
<1>5. l = 1 + Meta(pdu[1]) + Count(pdu[1], pdu[2]) /\ pdu[1] \in Nat /\ pdu[2] \in Nat
  <2>1. pdu[1] \in uint8_t /\ pdu[2] \in uint8_t
    BY <1>2 DEF Ends
  <2>. QED  BY <1>2, <2>1, Uint8 DEF Ends
<1>6. PICK me \in Nat, co \in Nat : me = Meta(pdu[1]) /\ co = Count(pdu[1], pdu[2])
  BY <1>5, MetaIs DEF Count
<1>7. PICK h \in Nat, k \in Nat :
        h = header_length /\ k = checksum_length /\ h + 252 + k <= max_adu_length /\ max_adu_length \in Nat
  BY Sizes
<1>8. MetaOf(f) = h + 1 + me /\ EndOf(f) = h + 1 + me + co + k
  BY <1>4, <1>6, <1>7 DEF MetaOf, EndOf
<1>9. Len(f) = h + l + k /\ l = 1 + me + co
  BY <1>3, <1>5, <1>6, <1>7
<1>10. Whole(f)
  BY <1>2, <1>3, <1>7, <1>8, <1>9 DEF Whole
<1>. QED  BY <1>1, <1>4, <1>10

\* The lengths that _modbus_receive_msg computes.
LEMMA LengthsRead ==
  ASSUME NEW m \in Seq(BYTE), Len(m) >= header_length + 1
  PROVE  LET pdu == Values(SubSeq(m, header_length + 1, Len(m)))
         IN  /\ compute_meta_length_after_function(pdu[1], "CONFIRMATION") = Meta(Fn(m))
             /\ Len(m) >= header_length + 2 =>
                  compute_data_length_after_meta(pdu, "CONFIRMATION", checksum_length)
                    = checksum_length + Count(Fn(m), Nb(m))
<1>1. PICK h \in Nat, l \in Nat : h = header_length /\ l = Len(m) /\ l >= h + 1
  BY SizesAre
<1>2. PICK b : b = SubSeq(m, h + 1, l)
  OBVIOUS
<1>3. b \in Seq(BYTE) /\ Len(b) = l - h /\ \A j \in 1..(l - h) : b[j] = m[h + j]
  BY <1>1, <1>2
<1>4. PICK pdu : pdu = Values(b)
  OBVIOUS
<1>5. pdu = [j \in 1..(l - h) |-> b[j].v]
  BY <1>3, <1>4 DEF Values
<1>6. \A j \in 1..(l - h) : pdu[j] = m[h + j].v
  BY <1>3, <1>5
<1>7. pdu[1] = Fn(m) /\ (l >= h + 2 => pdu[2] = Nb(m))
  BY <1>1, <1>6 DEF Fn, Nb
<1>8. compute_meta_length_after_function(pdu[1], "CONFIRMATION") = Meta(Fn(m))
  BY <1>7 DEF Meta
<1>9. ASSUME l >= h + 2
      PROVE  compute_data_length_after_meta(pdu, "CONFIRMATION", checksum_length)
               = checksum_length + Count(Fn(m), Nb(m))
  BY <1>7, <1>9 DEF compute_data_length_after_meta, Count
<1>10. Values(SubSeq(m, header_length + 1, Len(m))) = pdu
  BY <1>1, <1>2, <1>4
<1>11. Len(m) >= header_length + 2 => l >= h + 2
  BY <1>1
<1>. QED  BY <1>8, <1>9, <1>10, <1>11, Zenon

\* Two ways to cut the same bytes.
LEMMA SamePrefix ==
  ASSUME NEW a \in Seq(BYTE), NEW b \in Seq(BYTE), NEW c \in Seq(BYTE), NEW d \in Seq(BYTE)
  PROVE  a \o b = c \o d => /\ \A j \in 1..Len(a) : j \in 1..Len(c) => a[j] = c[j]
                            /\ Len(a) = Len(c) => a = c /\ b = d
<1>0. SUFFICES ASSUME NEW x, x = a \o b, x = c \o d
               PROVE  /\ \A j \in 1..Len(a) : j \in 1..Len(c) => a[j] = c[j]
                      /\ Len(a) = Len(c) => a = c /\ b = d
  OBVIOUS
<1>1. x = a \o b
  BY <1>0
<1>7. x = c \o d
  BY <1>0
<1>2. PICK k \in Nat, l \in Nat, m \in Nat, n \in Nat :
        k = Len(a) /\ l = Len(b) /\ m = Len(c) /\ n = Len(d)
  OBVIOUS
<1>3. /\ Len(x) = k + l /\ (\A i \in 1..k : x[i] = a[i])
      /\ \A i \in 1..l : x[k + i] = b[i]
  <2>1. /\ Len(x) = Len(a) + Len(b) /\ (\A i \in 1..Len(a) : x[i] = a[i])
        /\ \A i \in 1..Len(b) : x[Len(a) + i] = b[i]
    BY <1>1, CatOf
  <2>. QED  BY <1>2, <2>1, Zenon
<1>4. /\ Len(x) = m + n /\ (\A i \in 1..m : x[i] = c[i])
      /\ \A i \in 1..n : x[m + i] = d[i]
  <2>1. /\ Len(x) = Len(c) + Len(d) /\ (\A i \in 1..Len(c) : x[i] = c[i])
        /\ \A i \in 1..Len(d) : x[Len(c) + i] = d[i]
    BY <1>7, CatOf
  <2>. QED  BY <1>2, <2>1, Zenon
<1>5. \A j \in 1..k : j \in 1..m => a[j] = c[j]
  BY <1>3, <1>4
<1>6. ASSUME k = m PROVE a = c /\ b = d
  <2>1. l = n
    BY <1>3, <1>4, <1>6
  <2>2. Len(b) = Len(d) /\ \A i \in 1..Len(b) : b[i] = d[i]
    BY <1>2, <1>3, <1>4, <1>6, <2>1
  <2>3. Len(a) = Len(c) /\ \A i \in 1..Len(a) : a[i] = c[i]
    BY <1>2, <1>5, <1>6
  <2>4. a = c
    BY <2>3, SameBytes, Zenon
  <2>5. b = d
    BY <2>2, SameBytes, Zenon
  <2>. QED  BY <2>4, <2>5
<1>. QED  BY <1>2, <1>5, <1>6

\* Messages that begin alike announce the same lengths.
LEMMA SameLengths ==
  ASSUME NEW a \in Seq(BYTE), NEW b \in Seq(BYTE), NEW c \in Seq(BYTE), NEW d \in Seq(BYTE),
         a \o b = c \o d
  PROVE  /\ Len(a) >= header_length + 1 /\ Len(c) >= header_length + 1 => MetaOf(a) = MetaOf(c)
         /\ Len(a) >= header_length + 2 /\ Len(c) >= header_length + 2 => EndOf(a) = EndOf(c)
<1>1. PICK h \in Nat : h = header_length
  BY SizesAre
<1>2. \A j \in 1..Len(a) : j \in 1..Len(c) => a[j] = c[j]
  BY SamePrefix
<1>3. ASSUME Len(a) >= h + 1, Len(c) >= h + 1 PROVE a[h + 1] = c[h + 1]
  <2>1. h + 1 \in 1..Len(a) /\ h + 1 \in 1..Len(c)
    BY <1>3
  <2>. QED  BY <1>2, <2>1
<1>4. ASSUME Len(a) >= h + 2, Len(c) >= h + 2
      PROVE  a[h + 1] = c[h + 1] /\ a[h + 2] = c[h + 2]
  <2>1. /\ h + 1 \in 1..Len(a) /\ h + 1 \in 1..Len(c)
        /\ h + 2 \in 1..Len(a) /\ h + 2 \in 1..Len(c)
    BY <1>4
  <2>. QED  BY <1>2, <2>1
<1>. QED  BY <1>1, <1>3, <1>4 DEF MetaOf, EndOf, Fn, Nb

LEMMA WholeOnce ==
  ASSUME NEW w, NEW u \in Seq(BYTE), NEW f, NEW z \in Seq(BYTE), Whole(w), Whole(f), w \o u = f \o z
  PROVE  w = f /\ u = z
<1>1. w \in Seq(BYTE) /\ f \in Seq(BYTE) /\ Len(w) >= header_length + 2 /\ Len(f) >= header_length + 2
  BY DEF Whole
<1>2. EndOf(w) = EndOf(f)
  BY <1>1, SameLengths
<1>3. Len(w) = Len(f)
  BY <1>2 DEF Whole
<1>. QED  BY <1>1, <1>3, SamePrefix

-----------------------------------------------------------------------------
(* How far an answer is read.                                              *)

\* m was read, n more bytes are to be read for this step.
Reading(m, st, n) ==
  /\ m \in Seq(BYTE) /\ n \in Nat /\ n > 0 /\ Len(m) + n <= max_adu_length
  /\ \/ st = "function" /\ Len(m) + n = header_length + 1
     \/ st = "meta" /\ Len(m) >= header_length + 1 /\ Len(m) + n = MetaOf(m)
     \/ st = "data" /\ Len(m) >= header_length + 1 /\ Len(m) >= MetaOf(m) /\ Len(m) + n = EndOf(m)

LEMMA ReadMore ==
  ASSUME NEW m, NEW st, NEW n, Reading(m, st, n), NEW b \in Seq(BYTE), Len(b) < n
  PROVE  Reading(m \o b, st, n - Len(b))
<1>1. PICK w : w = m \o b
  OBVIOUS
<1>2. m \in Seq(BYTE) /\ n \in Nat /\ n > 0 /\ Len(m) + n <= max_adu_length
  BY DEF Reading
<1>3. w \in Seq(BYTE) /\ Len(w) = Len(m) + Len(b)
  BY <1>1, <1>2, CatBytes
<1>4. PICK k \in Nat : k = n - Len(b) /\ k > 0 /\ Len(w) + k = Len(m) + n
  BY <1>2, <1>3
<1>5. w \o <<>> = m \o b /\ <<>> \in Seq(BYTE)
  BY <1>1, <1>3
<1>6. PICK h \in Nat : h = header_length
  BY SizesAre
<1>7. CASE st = "function" /\ Len(m) + n = header_length + 1
  BY <1>1, <1>2, <1>3, <1>4, <1>7 DEF Reading
<1>8. CASE st = "meta" /\ Len(m) >= header_length + 1 /\ Len(m) + n = MetaOf(m)
  <2>1. Len(w) >= header_length + 1
    BY <1>2, <1>3, <1>6, <1>8
  <2>2. MetaOf(w) = MetaOf(m)
    BY <1>2, <1>3, <1>5, <1>8, <2>1, SameLengths
  <2>. QED  BY <1>1, <1>2, <1>3, <1>4, <1>8, <2>1, <2>2 DEF Reading
<1>9. CASE st = "data" /\ Len(m) >= header_length + 1 /\ Len(m) >= MetaOf(m) /\ Len(m) + n = EndOf(m)
  <2>1. MetaOf(m) \in Nat /\ MetaOf(m) >= header_length + 2
    BY <1>2, <1>9, FnIs
  <2>2. /\ Len(m) >= header_length + 2 /\ Len(w) >= header_length + 2
        /\ Len(w) >= header_length + 1 /\ Len(w) >= Len(m)
    BY <1>2, <1>3, <1>6, <1>9, <2>1
  <2>3. MetaOf(w) = MetaOf(m) /\ EndOf(w) = EndOf(m)
    BY <1>2, <1>3, <1>5, <1>9, <2>2, SameLengths
  <2>4. Len(w) >= MetaOf(w)
    BY <1>2, <1>3, <1>9, <2>1, <2>2, <2>3
  <2>. QED  BY <1>1, <1>2, <1>3, <1>4, <1>9, <2>2, <2>3, <2>4 DEF Reading
<1>. QED  BY <1>7, <1>8, <1>9 DEF Reading

LEMMA ReadAll ==
  ASSUME NEW m, NEW st, NEW n, Reading(m, st, n), NEW b \in Seq(BYTE), Len(b) = n
  PROVE  LET w == m \o b
         IN  /\ w \in Seq(BYTE) /\ Len(w) >= header_length + 1 /\ Len(w) <= max_adu_length
             /\ st = "function" => Len(w) = header_length + 1
             /\ st = "meta" => Len(w) = MetaOf(w)
             /\ st = "data" => Whole(w)
<1>1. PICK w : w = m \o b
  OBVIOUS
<1>2. m \in Seq(BYTE) /\ n \in Nat /\ n > 0 /\ Len(m) + n <= max_adu_length
  BY DEF Reading
<1>3. w \in Seq(BYTE) /\ Len(w) = Len(m) + n
  BY <1>1, <1>2, CatBytes
<1>5. w \o <<>> = m \o b /\ <<>> \in Seq(BYTE)
  BY <1>1, <1>3
<1>6. PICK h \in Nat : h = header_length
  BY SizesAre
<1>7. CASE st = "function" /\ Len(m) + n = header_length + 1
  BY <1>1, <1>2, <1>3, <1>6, <1>7
<1>8. CASE st = "meta" /\ Len(m) >= header_length + 1 /\ Len(m) + n = MetaOf(m)
  <2>1. Len(w) >= header_length + 1
    BY <1>2, <1>3, <1>6, <1>8
  <2>2. MetaOf(w) = MetaOf(m)
    BY <1>2, <1>3, <1>5, <1>8, <2>1, SameLengths
  <2>. QED  BY <1>1, <1>2, <1>3, <1>8, <2>1, <2>2
<1>9. CASE st = "data" /\ Len(m) >= header_length + 1 /\ Len(m) >= MetaOf(m) /\ Len(m) + n = EndOf(m)
  <2>1. MetaOf(m) \in Nat /\ MetaOf(m) >= header_length + 2
    BY <1>2, <1>9, FnIs
  <2>2. /\ Len(m) >= header_length + 2 /\ Len(w) >= header_length + 2
        /\ Len(w) >= header_length + 1 /\ Len(w) >= Len(m)
    BY <1>2, <1>3, <1>6, <1>9, <2>1
  <2>3. MetaOf(w) = MetaOf(m) /\ EndOf(w) = EndOf(m)
    BY <1>2, <1>3, <1>5, <1>9, <2>2, SameLengths
  <2>4. Len(w) >= MetaOf(w)
    BY <1>2, <1>3, <1>9, <2>1, <2>2, <2>3
  <2>5. Whole(w)
    BY <1>2, <1>3, <1>9, <2>2, <2>3, <2>4 DEF Whole
  <2>. QED  BY <1>1, <1>2, <1>3, <1>9, <2>2, <2>5
<1>. QED  BY <1>7, <1>8, <1>9 DEF Reading

\* Nobody waits for more than a frame that is there.
LEMMA ReadLess ==
  ASSUME NEW m, NEW st, NEW n, Reading(m, st, n), NEW u \in Seq(BYTE),
         NEW f, Whole(f), NEW z \in Seq(BYTE), m \o u = f \o z
  PROVE  Len(m) < Len(f)
<1>1. /\ m \in Seq(BYTE) /\ f \in Seq(BYTE) /\ n \in Nat /\ n > 0
      /\ Len(f) >= header_length + 2 /\ Len(f) >= MetaOf(f) /\ Len(f) = EndOf(f)
  BY DEF Reading, Whole
<1>2. PICK h \in Nat : h = header_length
  BY SizesAre
<1>3. CASE st = "function" /\ Len(m) + n = header_length + 1
  BY <1>1, <1>2, <1>3
<1>4. CASE st = "meta" /\ Len(m) >= header_length + 1 /\ Len(m) + n = MetaOf(m)
  <2>1. Len(f) >= header_length + 1
    BY <1>1, <1>2
  <2>2. MetaOf(m) = MetaOf(f)
    BY <1>1, <1>4, <2>1, SameLengths
  <2>. QED  BY <1>1, <1>4, <2>2
<1>5. CASE st = "data" /\ Len(m) >= header_length + 1 /\ Len(m) >= MetaOf(m) /\ Len(m) + n = EndOf(m)
  <2>1. MetaOf(m) \in Nat /\ MetaOf(m) >= header_length + 2
    BY <1>1, <1>5, FnIs
  <2>2. Len(m) >= header_length + 2
    BY <1>1, <1>2, <1>5, <2>1
  <2>3. EndOf(m) = EndOf(f)
    BY <1>1, <2>2, SameLengths
  <2>. QED  BY <1>1, <1>5, <2>3
<1>. QED  BY <1>3, <1>4, <1>5 DEF Reading

-----------------------------------------------------------------------------
(* Damaged frames.                                                         *)

\* Of the checksum of vs there are at most two bytes, at the end, and no other
\* checksum is here.
Damaged(x, vs) ==
  /\ x \in Seq(BYTE)
  /\ \A i \in 1..Len(x) : x[i].crc # <<>> => x[i].crc = vs /\ i >= Len(x) - 1

LEMMA MatchIs ==
  ASSUME NEW m \in Seq(BYTE), Len(m) >= 3, crc_matches(m)
  PROVE  \E vs \in Seq(uint8_t) :
           /\ Len(vs) = Len(m) - 2 /\ \A j \in 1..(Len(m) - 2) : vs[j] = m[j].v
           /\ m[Len(m) - 1] = [v |-> 201, crc |-> vs] /\ m[Len(m)] = [v |-> 2, crc |-> vs]
<1>1. PICK l \in Nat : l = Len(m) /\ l >= 3
  OBVIOUS
<1>2. PICK q : q = SubSeq(m, 1, l - 2)
  OBVIOUS
<1>3. q \in Seq(BYTE) /\ Len(q) = l - 2 /\ \A j \in 1..(l - 2) : q[j] = m[j]
  BY <1>1, <1>2
<1>4. PICK vs : vs = Values(q)
  OBVIOUS
<1>5. vs = [j \in 1..(l - 2) |-> q[j].v]
  BY <1>3, <1>4 DEF Values
<1>6. \A j \in 1..(l - 2) : q[j].v \in uint8_t
  <2>1. \A j \in 1..(l - 2) : q[j] \in BYTE
    BY <1>3
  <2>. QED  BY <2>1, ByteParts
<1>7. vs \in Seq(uint8_t) /\ Len(vs) = l - 2 /\ \A j \in 1..(l - 2) : vs[j] = m[j].v
  BY <1>1, <1>3, <1>5, <1>6
<1>8. PICK c : c = SubSeq(m, l - 1, l)
  OBVIOUS
<1>9. c[1] = m[l - 1] /\ c[2] = m[l]
  BY <1>1, <1>8
<1>10. c = crc16(vs)
  BY <1>1, <1>2, <1>4, <1>8 DEF crc_matches
<1>11. c[1] = [v |-> 201, crc |-> vs] /\ c[2] = [v |-> 2, crc |-> vs]
  BY <1>7, <1>10, CrcIs
<1>. QED  BY <1>1, <1>7, <1>9, <1>11

\* A message that begins such bytes and has a checksum that matches is the frame
\* that was sent, and there is nothing behind it.
LEMMA IntactFrame ==
  ASSUME NEW vs \in Seq(uint8_t), NEW w \in Seq(BYTE), NEW u \in Seq(BYTE), NEW f \in Seq(BYTE),
         Len(w) >= 3, crc_matches(w), Damaged(w \o u, vs), Len(f) = Len(vs) + 2,
         \A p \in 1..Len(vs) : f[p].v = vs[p] /\ f[p].crc = <<>>,
         f[Len(vs) + 1] = [v |-> 201, crc |-> vs], f[Len(vs) + 2] = [v |-> 2, crc |-> vs]
  PROVE  w = f /\ u = <<>>
<1>1. PICK x : x = w \o u
  OBVIOUS
<1>2. PICK l \in Nat, k \in Nat : l = Len(w) /\ k = Len(u) /\ l >= 3
  OBVIOUS
<1>3. Len(x) = l + k /\ \A i \in 1..l : x[i] = w[i]
  BY <1>1, <1>2, CatOf
<1>4. \A i \in 1..(l + k) : x[i].crc # <<>> => x[i].crc = vs /\ i >= l + k - 1
  BY <1>1, <1>3 DEF Damaged
<1>5. PICK ws \in Seq(uint8_t) :
        /\ Len(ws) = l - 2 /\ \A j \in 1..(l - 2) : ws[j] = w[j].v
        /\ w[l - 1] = [v |-> 201, crc |-> ws] /\ w[l] = [v |-> 2, crc |-> ws]
  BY <1>2, MatchIs
<1>6. w[l - 1].crc = ws /\ ws # <<>> /\ l - 1 \in 1..l /\ l - 1 \in 1..(l + k)
  BY <1>2, <1>5
<1>7. ws = vs /\ k = 0
  <2>1. x[l - 1].crc = ws
    BY <1>3, <1>6
  <2>2. ws = vs /\ l - 1 >= l + k - 1
    BY <1>4, <1>6, <2>1
  <2>. QED  BY <1>2, <2>2
<1>8. u = <<>>
  BY <1>2, <1>7, EmptyIs
<1>9. Len(f) = l /\ Len(vs) = l - 2
  BY <1>2, <1>5, <1>7
<1>10. \A j \in 1..(l - 2) : vs[j] = w[j].v
  BY <1>5, <1>7
<1>11. \A j \in 1..(l - 2) : f[j].v = vs[j] /\ f[j].crc = <<>>
  BY <1>9
<1>12. f[l - 1] = w[l - 1] /\ f[l] = w[l]
  <2>1. f[Len(vs) + 1] = w[l - 1] /\ f[Len(vs) + 2] = w[l]
    BY <1>5, <1>7
  <2>2. Len(vs) + 1 = l - 1 /\ Len(vs) + 2 = l
    BY <1>2, <1>9
  <2>. QED  BY <2>1, <2>2
<1>13. ASSUME NEW j \in 1..(l - 2) PROVE w[j] = f[j]
  <2>1. j \in 1..l /\ j \in 1..(l + k) /\ j \in 1..Len(w) /\ j \in 1..Len(f) /\ ~(j >= l + k - 1)
    BY <1>2, <1>7, <1>9
  <2>2. w[j].crc = <<>>
    BY <1>3, <1>4, <2>1
  <2>3. w[j].v = f[j].v /\ w[j].crc = f[j].crc
    BY <1>10, <1>11, <2>2
  <2>4. w[j] \in BYTE /\ f[j] \in BYTE
    BY <2>1
  <2>. QED  BY <2>3, <2>4 DEF BYTE
<1>14. ASSUME NEW j \in 1..l PROVE w[j] = f[j]
  <2>1. j \in 1..(l - 2) \/ j = l - 1 \/ j = l
    BY <1>2
  <2>. QED  BY <1>12, <1>13, <2>1
<1>15. w = f
  BY <1>2, <1>9, <1>14, SameBytes
<1>. QED  BY <1>8, <1>15

\* Noise swallows the first byte under way, or changes its value.
LEMMA NoiseDamages ==
  ASSUME NEW vs, NEW m \in Seq(BYTE), NEW w \in Seq(BYTE), w # <<>>, Damaged(m \o w, vs),
         NEW b \in BYTE, b.crc = w[1].crc
  PROVE  /\ Tail(w) \in Seq(BYTE) /\ <<b>> \o Tail(w) \in Seq(BYTE)
         /\ Damaged(m \o Tail(w), vs) /\ Damaged(m \o (<<b>> \o Tail(w)), vs)
<1>1. PICK k \in Nat, l \in Nat : k = Len(m) /\ l = Len(w) /\ l >= 1
  BY EmptyIs
<1>2. PICK t : t = Tail(w)
  OBVIOUS
<1>3. t \in Seq(BYTE) /\ Len(t) = l - 1 /\ \A i \in 1..(l - 1) : t[i] = w[i + 1]
  BY <1>1, <1>2
<1>4. PICK x, y, c, z : x = m \o w /\ y = m \o t /\ c = <<b>> \o t /\ z = m \o c
  OBVIOUS
<1>5. c \in Seq(BYTE) /\ Len(c) = l /\ c[1] = b /\ \A i \in 2..l : c[i] = w[i]
  <2>1. PICK bb : bb = <<b>>
    OBVIOUS
  <2>2. bb \in Seq(BYTE) /\ Len(bb) = 1 /\ bb[1] = b
    BY <2>1
  <2>3. /\ c \in Seq(BYTE) /\ Len(c) = Len(bb) + Len(t)
        /\ \A i \in 1..Len(bb) : c[i] = bb[i]
        /\ \A i \in 1..Len(t) : c[Len(bb) + i] = t[i]
    BY <1>3, <1>4, <2>1, <2>2, CatOf
  <2>4. Len(c) = l /\ c[1] = b
    BY <1>1, <1>3, <2>2, <2>3
  <2>5. ASSUME NEW i \in 2..l PROVE c[i] = w[i]
    <3>1. i - 1 \in 1..(l - 1) /\ 1 + (i - 1) = i /\ (i - 1) + 1 = i
      BY <1>1
    <3>2. c[1 + (i - 1)] = t[i - 1]
      BY <1>3, <2>2, <2>3, <3>1
    <3>. QED  BY <1>3, <3>1, <3>2
  <2>. QED  BY <2>3, <2>4, <2>5
<1>6. /\ Len(x) = k + l /\ (\A i \in 1..k : x[i] = m[i]) /\ \A i \in 1..l : x[k + i] = w[i]
  BY <1>1, <1>4, CatOf
<1>7. /\ y \in Seq(BYTE) /\ Len(y) = k + l - 1
      /\ (\A i \in 1..k : y[i] = m[i]) /\ \A i \in 1..(l - 1) : y[k + i] = t[i]
  <2>1. /\ y \in Seq(BYTE) /\ Len(y) = Len(m) + Len(t)
        /\ (\A i \in 1..Len(m) : y[i] = m[i]) /\ \A i \in 1..Len(t) : y[Len(m) + i] = t[i]
    <3>1. t \in Seq(BYTE) /\ y = m \o t
      BY <1>3, <1>4, Zenon
    <3>. QED  BY <3>1, CatOf
  <2>2. Len(m) = k /\ Len(t) = l - 1 /\ k + (l - 1) = k + l - 1
    BY <1>1, <1>3
  <2>. QED  BY <2>1, <2>2
<1>8. /\ z \in Seq(BYTE) /\ Len(z) = k + l
      /\ (\A i \in 1..k : z[i] = m[i]) /\ \A i \in 1..l : z[k + i] = c[i]
  <2>1. /\ z \in Seq(BYTE) /\ Len(z) = Len(m) + Len(c)
        /\ (\A i \in 1..Len(m) : z[i] = m[i]) /\ \A i \in 1..Len(c) : z[Len(m) + i] = c[i]
    BY <1>4, <1>5, CatOf
  <2>. QED  BY <1>1, <1>5, <2>1, Zenon
<1>9. \A i \in 1..(k + l) : x[i].crc # <<>> => x[i].crc = vs /\ i >= k + l - 1
  BY <1>4, <1>6 DEF Damaged
<1>10. ASSUME NEW i \in 1..(k + l - 1), y[i].crc # <<>> PROVE y[i].crc = vs /\ i >= k + l - 2
  <2>1. CASE i <= k
    <3>1. i \in 1..k /\ i \in 1..(k + l)
      BY <1>1, <2>1
    <3>2. y[i] = x[i]
      BY <1>6, <1>7, <3>1
    <3>3. x[i].crc = vs /\ i >= k + l - 1 /\ y[i].crc = vs
      BY <1>9, <1>10, <3>1, <3>2
    <3>4. i >= k + l - 2
      BY <1>1, <3>1, <3>3
    <3>. QED  BY <3>3, <3>4
  <2>2. CASE i > k
    <3>1. PICK j \in 1..(l - 1) : i = k + j /\ j + 1 \in 1..l /\ k + (j + 1) = i + 1 /\ i + 1 \in 1..(k + l)
      <4>1. i - k \in 1..(l - 1) /\ i = k + (i - k)
        BY <1>1, <2>2
      <4>2. (i - k) + 1 \in 1..l /\ k + ((i - k) + 1) = i + 1 /\ i + 1 \in 1..(k + l)
        BY <1>1, <2>2
      <4>. QED  BY <4>1, <4>2, Zenon
    <3>2. y[i] = w[j + 1]
      BY <1>3, <1>7, <3>1
    <3>3. x[i + 1] = w[j + 1]
      BY <1>6, <3>1
    <3>4. x[i + 1].crc = vs /\ i + 1 >= k + l - 1
      BY <1>9, <1>10, <3>1, <3>2, <3>3
    <3>. QED  BY <1>1, <3>2, <3>3, <3>4
  <2>. QED  BY <1>1, <2>1, <2>2
<1>11. Damaged(y, vs)
  <2>1. (k + l - 1) - 1 = k + l - 2
    BY <1>1
  <2>. QED  BY <1>7, <1>10, <2>1 DEF Damaged
<1>12. ASSUME NEW i \in 1..(k + l) PROVE z[i].crc = x[i].crc
  <2>1. CASE i <= k
    <3>1. i \in 1..k
      BY <1>1, <2>1
    <3>. QED  BY <1>6, <1>8, <3>1
  <2>2. CASE i > k
    <3>1. PICK j \in 1..l : i = k + j
      <4>1. i - k \in 1..l /\ i = k + (i - k)
        BY <1>1, <2>2
      <4>. QED  BY <4>1
    <3>2. z[i] = c[j] /\ x[i] = w[j]
      BY <1>6, <1>8, <3>1
    <3>3. c[j].crc = w[j].crc
      <4>1. j = 1 \/ j \in 2..l
        BY <1>1, <3>1
      <4>. QED  BY <1>5, <4>1
    <3>. QED  BY <3>2, <3>3
  <2>. QED  BY <1>1, <2>1, <2>2
<1>13. Damaged(z, vs)
  <2>1. \A i \in 1..(k + l) : z[i].crc # <<>> => z[i].crc = vs /\ i >= k + l - 1
    BY <1>9, <1>12
  <2>2. Len(z) - 1 = k + l - 1
    BY <1>1, <1>8
  <2>. QED  BY <1>8, <2>1, <2>2, Zenon DEF Damaged
<1>. QED  BY <1>2, <1>3, <1>4, <1>5, <1>11, <1>13

-----------------------------------------------------------------------------
(* What one call of recv does.                                             *)

LEMMA RecvIs ==
  ASSUME Recv, rx \in Seq(BYTE), Reading(rsp, step, to_read)
  PROVE  \E b \in Seq(BYTE), y \in Seq(BYTE) :
           /\ rx = b \o y /\ Len(b) > 0
           /\ rsp \o b \in Seq(BYTE) /\ Len(rsp \o b) <= max_adu_length
           /\ \/ \E st \in {"function", "meta", "data"} : \E n \in Nat :
                   More(rsp \o b, y, st, n) /\ Reading(rsp \o b, st, n)
              \/ GiveUp(rsp \o b, y)
              \/ Complete(rsp \o b, y) /\ Whole(rsp \o b)
<1>1. /\ rsp \in Seq(BYTE) /\ to_read \in Nat /\ to_read > 0 /\ Len(rsp) + to_read <= max_adu_length
      /\ step \in {"function", "meta", "data"}
  BY DEF Reading
<1>2. PICK l \in Nat : l = Len(rx) /\ l > 0
  BY EmptyIs DEF Recv
<1>3. PICK k \in Nat : k = (IF Len(rx) < to_read THEN Len(rx) ELSE to_read)
  BY <1>1, <1>2
<1>4. k > 0 /\ k <= l /\ k <= to_read /\ (k # to_read => k < to_read)
  BY <1>1, <1>2, <1>3
<1>5. PICK b, y : b = SubSeq(rx, 1, k) /\ y = SubSeq(rx, k + 1, Len(rx))
  OBVIOUS
<1>6. b \in Seq(BYTE) /\ y \in Seq(BYTE) /\ Len(b) = k /\ rx = b \o y
  BY <1>2, <1>4, <1>5, PartsAre
<1>7. PICK w : w = rsp \o b
  OBVIOUS
<1>8. w \in Seq(BYTE) /\ Len(w) = Len(rsp) + k
  BY <1>1, <1>6, <1>7, CatBytes
<1>9. Len(w) <= max_adu_length
  BY <1>1, <1>4, <1>8, SizesAre
<1>10. PICK pdu : pdu = Values(SubSeq(w, header_length + 1, Len(w)))
  OBVIOUS
<1>11. PICK meta, data :
         /\ meta = compute_meta_length_after_function(pdu[1], "CONFIRMATION")
         /\ data = compute_data_length_after_meta(pdu, "CONFIRMATION", checksum_length)
  OBVIOUS
<1>12. /\ k # to_read => More(w, y, step, to_read - k)
       /\ k = to_read /\ step = "function" => More(w, y, "meta", meta)
       /\ k = to_read /\ step = "meta" /\ TooManyData(w, data) => GiveUp(w, y)
       /\ k = to_read /\ step = "meta" /\ ~TooManyData(w, data) /\ data > 0 => More(w, y, "data", data)
       /\ k = to_read /\ step = "meta" /\ ~TooManyData(w, data) /\ ~(data > 0) => Complete(w, y)
       /\ k = to_read /\ step = "data" => Complete(w, y)
  BY <1>3, <1>5, <1>7, <1>10, <1>11 DEF Recv
<1>13. SUFFICES \/ \E st \in {"function", "meta", "data"} : \E n \in Nat :
                     More(w, y, st, n) /\ Reading(w, st, n)
                \/ GiveUp(w, y)
                \/ Complete(w, y) /\ Whole(w)
  BY <1>4, <1>6, <1>7, <1>8, <1>9, Zenon
<1>14. CASE k # to_read
  <2>1. Reading(w, step, to_read - k) /\ to_read - k \in Nat
    <3>1. b \in Seq(BYTE) /\ Len(b) < to_read
      BY <1>4, <1>6, <1>14
    <3>2. Reading(rsp \o b, step, to_read - Len(b))
      BY <3>1, ReadMore
    <3>3. to_read - k \in Nat
      BY <1>1, <1>4
    <3>. QED  BY <1>6, <1>7, <3>2, <3>3
  <2>. QED  BY <1>1, <1>12, <1>14, <2>1
<1>15. CASE k = to_read
  <2>1. /\ Len(w) >= header_length + 1
        /\ step = "function" => Len(w) = header_length + 1
        /\ step = "meta" => Len(w) = MetaOf(w)
        /\ step = "data" => Whole(w)
    BY <1>6, <1>7, <1>15, ReadAll
  <2>2. /\ meta = Meta(Fn(w))
        /\ Len(w) >= header_length + 2 => data = checksum_length + Count(Fn(w), Nb(w))
    BY <1>8, <1>10, <1>11, <2>1, LengthsRead
  <2>3. Fn(w) \in Nat /\ MetaOf(w) \in Nat /\ MetaOf(w) >= header_length + 2
    BY <1>8, <2>1, FnIs
  <2>4. Meta(Fn(w)) \in Nat /\ Meta(Fn(w)) >= 1 /\ Meta(Fn(w)) <= 6
    BY <2>3, MetaIs
  <2>5. CASE step = "function"
    <3>1. Reading(w, "meta", meta) /\ meta \in Nat
      BY <1>8, <2>1, <2>2, <2>4, <2>5, SizesAre DEF Reading, MetaOf
    <3>. QED  BY <1>12, <1>15, <2>5, <3>1
  <2>6. CASE step = "meta"
    <3>1. Len(w) >= header_length + 2 /\ Len(w) = MetaOf(w)
      BY <2>1, <2>3, <2>6
    <3>2. EndOf(w) \in Nat /\ EndOf(w) >= MetaOf(w) + checksum_length
      BY <1>8, <3>1, EndIs
    <3>3. data = checksum_length + Count(Fn(w), Nb(w))
      BY <2>2, <3>1
    <3>4. PICK h \in Nat : h + 2 \in 1..Len(w) /\ h = header_length
      BY <1>8, <3>1, SizesAre
    <3>5. Count(Fn(w), Nb(w)) \in Nat
      <4>1. Nb(w) \in Nat
        BY <1>8, <3>4, ByteAt DEF Nb
      <4>. QED  BY <2>3, <4>1 DEF Count
    <3>6. data \in Nat /\ EndOf(w) = Len(w) + data
      BY <3>1, <3>3, <3>5, <2>3, SizesAre DEF EndOf
    <3>7. CASE ~TooManyData(w, data) /\ data > 0
      <4>1. Len(w) + data <= max_adu_length
        BY <1>8, <3>6, <3>7, SizesAre DEF TooManyData
      <4>2. Reading(w, "data", data)
        BY <1>8, <2>1, <3>1, <3>6, <3>7, <4>1 DEF Reading
      <4>. QED  BY <1>12, <1>15, <2>6, <3>6, <3>7, <4>2
    <3>8. CASE ~TooManyData(w, data) /\ ~(data > 0)
      <4>1. Len(w) = EndOf(w)
        BY <1>8, <3>6, <3>8
      <4>2. Whole(w)
        BY <1>8, <1>9, <3>1, <4>1, <2>3 DEF Whole
      <4>. QED  BY <1>12, <1>15, <2>6, <3>8, <4>2
    <3>. QED  BY <1>12, <1>15, <2>6, <3>7, <3>8
  <2>7. CASE step = "data"
    BY <1>12, <1>15, <2>1, <2>7
  <2>. QED  BY <1>1, <2>5, <2>6, <2>7
<1>. QED  BY <1>14, <1>15
-----------------------------------------------------------------------------
(* Type correctness.                                                       *)

CtxTyped ==
  /\ ctx \in [backend : {"RTU", "TCP"}, recovery : SUBSET {"LINK", "PROTOCOL"}, t_id : Nat]
  /\ ctx.t_id <= TidMax

\* A serial line is never closed.
EndsTyped ==
  /\ s \in BOOLEAN /\ up \in BOOLEAN
  /\ pc \in {"idle", "send", "reconnect", "resend", "recv", "flush"}
  /\ Rtu => s /\ up /\ pc # "reconnect"

ReqTyped ==
  /\ req.n \in Nat /\ req.n <= MaxCalls
  /\ pc # "idle" => req \in Requests

RspTyped ==
  /\ rsp \in Seq(BYTE) /\ Len(rsp) <= max_adu_length
  /\ step \in {"function", "meta", "data"}
  /\ pc = "recv" => Reading(rsp, step, to_read)

LineTyped == rx \in Seq(BYTE) /\ wire \in Seq(BYTE) /\ pend \in Seq(Requests)

CountsTyped == faults \in 0..MaxFaults /\ quiet \in 0..MaxCalls /\ torn \in BOOLEAN

Typed == CtxTyped /\ EndsTyped /\ ReqTyped /\ RspTyped /\ LineTyped /\ CountsTyped

LEMMA MaxCallsIs == MaxCalls \in Nat
BY CallsAssumption DEF MaxCalls

LEMMA TidMaxIs == TidMax \in Nat /\ TidMax <= 65535 /\ MaxFaults \in Nat
BY BoundsAssumption, Uint16

LEMMA TypedImplies == Typed => TypeOK
<1>. SUFFICES ASSUME Typed PROVE TypeOK
  OBVIOUS
<1>1. ctx.t_id \in 0..TidMax
  BY TidMaxIs DEF Typed, CtxTyped
<1>2. {rsp, rx, wire} \subseteq ByteSeq
  BY ByteSeqIs DEF Typed, RspTyped, LineTyped
<1>3. pc = "recv" => to_read > 0 /\ Len(rsp) + to_read <= max_adu_length
  BY DEF Typed, RspTyped, Reading
<1>. QED  BY <1>1, <1>2, <1>3 DEF TypeOK, Typed, EndsTyped, RspTyped, CountsTyped

\* The backend is chosen once.
LEMMA SameBackend ==
  ASSUME ctx'.backend = ctx.backend
  PROVE  /\ Rtu' = Rtu /\ header_length' = header_length /\ checksum_length' = checksum_length
         /\ max_adu_length' = max_adu_length
BY DEF Rtu, header_length, checksum_length, max_adu_length

LEMMA SameReading ==
  ASSUME ctx'.backend = ctx.backend, NEW m, NEW st, NEW n, Reading(m, st, n),
         rsp' = m, step' = st, to_read' = n
  PROVE  Reading(rsp, step, to_read)'
<1>1. header_length' = header_length /\ checksum_length' = checksum_length /\ max_adu_length' = max_adu_length
  BY SameBackend
<1>. QED  BY <1>1 DEF Reading, MetaOf, EndOf, Fn, Nb

LEMMA SameRsp ==
  ASSUME RspTyped, ctx'.backend = ctx.backend, UNCHANGED <<rsp, step, to_read>>, pc' = "recv" => pc = "recv"
  PROVE  RspTyped'
<1>1. pc' = "recv" => Reading(rsp, step, to_read)'
  BY SameReading DEF RspTyped
<1>2. max_adu_length' = max_adu_length
  BY SameBackend
<1>. QED  BY <1>1, <1>2 DEF RspTyped

LEMMA SameEnds ==
  ASSUME EndsTyped, ctx'.backend = ctx.backend, UNCHANGED <<s, up>>,
         pc' \in {"idle", "send", "resend", "recv", "flush"}
  PROVE  EndsTyped'
BY SameBackend DEF EndsTyped

LEMMA QuieterIs == CountsTyped => Quieter \in 0..MaxCalls
BY MaxCallsIs DEF CountsTyped, Quieter

LEMMA FaultIs == CountsTyped /\ Fault => faults' \in 0..MaxFaults /\ quiet' \in 0..MaxCalls
BY MaxCallsIs, TidMaxIs DEF CountsTyped, Fault

\* The frames of the server.
LEMMA ReplyIs ==
  ASSUME NEW r \in Requests
  PROVE  /\ Whole(Reply(r)) /\ Fn(Reply(r)) = r.fc /\ Reply(r) \in Seq(BYTE) /\ Len(Reply(r)) > 0
         /\ Whole(Exception(r)) /\ Fn(Exception(r)) = r.fc + 128 /\ Exception(r) \in Seq(BYTE)
         /\ Len(Exception(r)) > 0
<1>1. r.t_id \in uint16_t
  BY DEF Requests
<1>2. Whole(Reply(r)) /\ Fn(Reply(r)) = r.fc
  BY <1>1, PduIs, FrameEnds DEF Reply, Answers
<1>3. Whole(Exception(r)) /\ Fn(Exception(r)) = r.fc + 128
  <2>1. <<r.fc + 128, 6>>[1] = r.fc + 128
    OBVIOUS
  <2>. QED  BY <1>1, <2>1, ExceptionIs, FrameEnds DEF Exception
<1>. QED  BY <1>2, <1>3, SizesAre DEF Whole

LEMMA TypedInit == Init => Typed
<1>. SUFFICES ASSUME Init PROVE Typed
  OBVIOUS
<1>1. PICK mode \in Modes : ctx = [backend |-> mode[1], recovery |-> mode[2], t_id |-> 0]
  BY DEF Init
<1>2. mode[1] \in {"RTU", "TCP"} /\ mode[2] \in SUBSET {"LINK", "PROTOCOL"}
  BY ModesAssumption
<1>3. CtxTyped
  BY <1>1, <1>2, TidMaxIs DEF CtxTyped
<1>4. EndsTyped /\ ReqTyped
  BY MaxCallsIs DEF Init, EndsTyped, ReqTyped
<1>5. RspTyped /\ LineTyped
  BY SizesAre DEF Init, RspTyped, LineTyped
<1>6. CountsTyped
  <2>1. faults = 0 /\ quiet = 0 /\ torn = FALSE
    BY DEF Init
  <2>2. faults \in 0..MaxFaults /\ quiet \in 0..MaxCalls
    BY <2>1, MaxCallsIs, TidMaxIs
  <2>. QED  BY <2>1, <2>2, Zenon DEF CountsTyped
<1>. QED  BY <1>3, <1>4, <1>5, <1>6 DEF Typed

LEMMA RequestIs ==
  ASSUME ReqTyped, req.n < MaxCalls, NEW c \in Calls[req.n + 1], NEW t \in uint16_t
  PROVE  /\ Request(c, t).n = req.n + 1 /\ Request(c, t).t_id = t
         /\ ~(c.nb > c.max) => Request(c, t) \in Requests
<1>1. req.n + 1 \in 1..Len(Calls) /\ req.n + 1 \in Nat
  BY MaxCallsIs DEF ReqTyped, MaxCalls
<1>2. Calls[req.n + 1] \subseteq [fc : uint8_t, addr : uint16_t, nb : uint16_t, max : uint16_t]
  BY <1>1, CallsAssumption
<1>3. c.addr \in uint16_t /\ c.nb \in uint16_t /\ c.max \in uint16_t
  BY <1>2
<1>4. c \in ClientCalls(c.addr, c.nb)
  BY <1>1, CallsAssumption
<1>5. PICK r : r = Request(c, t)
  OBVIOUS
<1>6. /\ r = [n |-> req.n + 1, t_id |-> t, fc |-> c.fc, addr |-> c.addr, nb |-> c.nb]
  BY <1>5 DEF Request
<1>7. ASSUME ~(c.nb > c.max) PROVE r \in Requests
  <2>1. c.nb <= c.max
    BY <1>3, <1>7, Uint16
  <2>2. c.fc \in Codes /\ Fits(c)
    BY <1>3, <1>4, <2>1, CallFits
  <2>3. r \in [n : Nat, t_id : uint16_t, fc : Codes, addr : uint16_t, nb : uint16_t]
    BY <1>1, <1>3, <1>6, <2>2
  <2>4. Fits(r)
    BY <1>6, <2>2 DEF Fits
  <2>. QED  BY <2>3, <2>4 DEF Requests
<1>. QED  BY <1>5, <1>6, <1>7

LEMMA TypedCall ==
  ASSUME Typed, req.n < MaxCalls, NEW c \in Calls[req.n + 1], Call(c)
  PROVE  Typed'
<1>1. ctx'.backend = ctx.backend /\ CtxTyped'
  <2>1. NextTid \in Nat /\ NextTid <= TidMax
    BY TidMaxIs DEF NextTid, Typed, CtxTyped
  <2>. QED  BY <2>1 DEF Call, Typed, CtxTyped
<1>2. EndsTyped'
  BY <1>1, SameEnds DEF Call, Return, Typed
<1>3. ReqTyped'
  <2>1. NextTid \in uint16_t /\ ctx.t_id \in uint16_t
    BY TidMaxIs, Uint16 DEF NextTid, Typed, CtxTyped
  <2>2. ReqTyped
    BY DEF Typed
  <2>3. CASE c.nb > c.max
    <3>1. req'.n = req.n + 1 /\ pc' = "idle"
      BY <2>1, <2>2, <2>3, RequestIs DEF Call, Return
    <3>. QED  BY <2>2, <3>1, MaxCallsIs DEF ReqTyped
  <2>4. CASE ~(c.nb > c.max)
    <3>1. req'.n = req.n + 1 /\ req' \in Requests
      BY <2>1, <2>2, <2>4, RequestIs DEF Call
    <3>. QED  BY <2>2, <3>1, MaxCallsIs DEF ReqTyped
  <2>. QED  BY <2>3, <2>4
<1>4. RspTyped'
  BY <1>1, SameRsp DEF Call, Return, Typed
<1>5. LineTyped'
  BY DEF Call, line, Typed, LineTyped
<1>6. CountsTyped'
  BY QuieterIs DEF Call, Return, Typed, CountsTyped
<1>. QED  BY <1>1, <1>2, <1>3, <1>4, <1>5, <1>6 DEF Typed

LEMMA TypedSend ==
  ASSUME Typed, SendMsg \/ SendShort \/ SendFails \/ SendBusy
  PROVE  Typed'
<1>1. ctx' = ctx /\ CtxTyped'
  BY DEF SendMsg, SendShort, SendFails, SendBusy, Typed, CtxTyped
<1>2. EndsTyped'
  <2>1. CASE SendFails
    <3>1. ~Rtu
      BY <2>1 DEF SendFails, Typed, EndsTyped
    <3>. QED  BY <1>1, <2>1, <3>1, SameBackend DEF SendFails, Return, Typed, EndsTyped
  <2>. QED  BY <1>1, <2>1, SameEnds DEF SendMsg, SendShort, SendBusy, Typed
<1>3. ReqTyped'
  BY DEF SendMsg, SendShort, SendFails, SendBusy, Typed, ReqTyped
<1>4. RspTyped'
  <2>1. CASE SendMsg
    <3>1. PICK e \in Seq(BYTE) : e = <<>> /\ Len(e) = 0
      <4>1. <<>> \in Seq(BYTE) /\ Len(<<>>) = 0
        OBVIOUS
      <4>. QED  BY <4>1
    <3>2. Reading(e, "function", header_length + 1)
      BY <3>1, SizesAre DEF Reading
    <3>3. rsp' = e /\ step' = "function" /\ to_read' = header_length + 1
      BY <2>1, <3>1 DEF SendMsg
    <3>4. Reading(rsp, step, to_read)'
      BY <1>1, <3>2, <3>3, SameReading
    <3>. QED  BY <1>1, <3>1, <3>3, <3>4, SameBackend, SizesAre DEF RspTyped
  <2>. QED  BY <1>1, <2>1, SameRsp DEF SendShort, SendFails, SendBusy, Return, Typed
<1>5. LineTyped'
  <2>1. CASE SendMsg
    <3>1. req \in Requests /\ rx' = rx /\ wire' = wire /\ pend' = Append(pend, req)
      BY <2>1 DEF SendMsg, Typed, ReqTyped
    <3>. QED  BY <3>1 DEF Typed, LineTyped
  <2>. QED  BY <2>1 DEF SendShort, SendFails, SendBusy, line, Typed, LineTyped
<1>6. CountsTyped'
  <2>1. CASE faults < MaxFaults /\ faults' = faults + 1 /\ quiet' = 0 /\ torn' = torn
    BY <2>1, MaxCallsIs, TidMaxIs DEF Typed, CountsTyped
  <2>2. CASE UNCHANGED <<faults, torn>> /\ (quiet' = quiet \/ quiet' = Quieter)
    BY <2>2, QuieterIs DEF Typed, CountsTyped
  <2>. QED  BY <2>1, <2>2 DEF SendMsg, SendShort, SendFails, SendBusy, Return
<1>. QED  BY <1>1, <1>2, <1>3, <1>4, <1>5, <1>6 DEF Typed

LEMMA TypedReconnect ==
  ASSUME Typed, Reconnect \/ RecvClosed
  PROVE  Typed'
<1>1. ctx' = ctx /\ CtxTyped'
  BY DEF Reconnect, RecvClosed, Typed, CtxTyped
<1>2. EndsTyped'
  <2>1. ~Rtu
    BY DEF Reconnect, RecvClosed, Typed, EndsTyped
  <2>2. s' \in BOOLEAN /\ up' \in BOOLEAN /\ pc' \in {"idle", "send"}
    BY DEF Reconnect, RecvClosed, Typed, EndsTyped
  <2>. QED  BY <1>1, <2>1, <2>2, SameBackend DEF EndsTyped
<1>3. ReqTyped'
  BY DEF Reconnect, RecvClosed, Typed, ReqTyped
<1>4. RspTyped'
  BY <1>1, SameRsp DEF Reconnect, RecvClosed, Typed
<1>5. LineTyped'
  <2>1. <<>> \in Seq(BYTE) /\ <<>> \in Seq(Requests)
    OBVIOUS
  <2>. QED  BY <2>1 DEF Reconnect, RecvClosed, DropLine, line, Typed, LineTyped
<1>6. CountsTyped'
  BY FaultIs, QuieterIs DEF Reconnect, RecvClosed, Typed, CountsTyped
<1>. QED  BY <1>1, <1>2, <1>3, <1>4, <1>5, <1>6 DEF Typed

LEMMA TypedServer ==
  ASSUME Typed, Answer \/ Lose \/ Noise \/ Deliver \/ PeerCloses
  PROVE  Typed'
<1>1. /\ UNCHANGED <<ctx, s, pc, req, rsp, step, to_read, res, torn>>
      /\ CtxTyped' /\ ReqTyped'
  BY DEF Answer, Lose, Noise, Deliver, PeerCloses, Typed, CtxTyped, ReqTyped
<1>2. EndsTyped'
  <2>1. CASE up' = up
    BY <1>1, <2>1, SameBackend DEF Typed, EndsTyped
  <2>2. CASE ~Rtu /\ up' = FALSE
    <3>1. up' \in BOOLEAN
      BY <2>2, Zenon
    <3>3. s' \in BOOLEAN
      BY <1>1 DEF Typed, EndsTyped
    <3>4. ~Rtu'
      BY <1>1, <2>2 DEF Rtu
    <3>2. pc' \in {"idle", "send", "reconnect", "resend", "recv", "flush"}
      BY <1>1 DEF Typed, EndsTyped
    <3>. QED  BY <3>1, <3>2, <3>3, <3>4, Zenon DEF EndsTyped
  <2>3. PeerCloses => ~Rtu /\ up' = FALSE
    BY Zenon DEF PeerCloses
  <2>. QED  BY <2>1, <2>2, <2>3 DEF Answer, Lose, Noise, Deliver
<1>3. RspTyped'
  BY <1>1, SameRsp DEF Typed
<1>4. LineTyped'
  <2>0. rx \in Seq(BYTE) /\ wire \in Seq(BYTE) /\ pend \in Seq(Requests)
    BY DEF Typed, LineTyped
  <2>1. CASE Answer
    <3>1. Head(pend) \in Requests /\ Tail(pend) \in Seq(Requests)
      BY <2>0, <2>1 DEF Answer
    <3>2. Reply(Head(pend)) \in Seq(BYTE) /\ Exception(Head(pend)) \in Seq(BYTE)
      BY <3>1, ReplyIs
    <3>3. wire' \in Seq(BYTE)
      BY <2>0, <2>1, <3>2, CatBytes DEF Answer
    <3>. QED  BY <2>0, <2>1, <3>1, <3>3 DEF Answer, LineTyped
  <2>2. CASE Lose
    <3>1. Tail(pend) \in Seq(Requests)
      BY <2>0, <2>2 DEF Lose
    <3>. QED  BY <2>0, <2>2, <3>1 DEF Lose, LineTyped
  <2>3. CASE Noise
    <3>1. wire # <<>> /\ UNCHANGED <<rx, pend>>
      BY <2>3 DEF Noise
    <3>2. wire[1] \in BYTE /\ Head(wire) = wire[1] /\ Tail(wire) \in Seq(BYTE)
      BY <2>0, <3>1
    <3>3. ASSUME NEW v \in {3, 255}
          PROVE  <<[Head(wire) EXCEPT !.v = v]>> \o Tail(wire) \in Seq(BYTE)
      <4>1. v \in uint8_t
        BY Uint8
      <4>2. PICK e \in BYTE : e = [Head(wire) EXCEPT !.v = v]
        <5>1. PICK x \in BYTE : x = Head(wire)
          BY <3>2
        <5>2. [x EXCEPT !.v = v] \in BYTE
          BY <4>1 DEF BYTE
        <5>. QED  BY <5>1, <5>2
      <4>3. <<e>> \in Seq(BYTE)
        BY <4>2
      <4>. QED  BY <3>2, <4>2, <4>3, CatBytes
    <3>4. wire' \in Seq(BYTE)
      BY <2>3, <3>2, <3>3 DEF Noise
    <3>. QED  BY <2>0, <3>1, <3>4 DEF LineTyped
  <2>4. CASE Deliver
    <3>0. PICK k \in IF pc = "recv" THEN 1..Len(wire) ELSE {Len(wire)} :
            /\ rx' = rx \o SubSeq(wire, 1, k)
            /\ wire' = SubSeq(wire, k + 1, Len(wire))
      BY <2>4 DEF Deliver
    <3>1. k \in Nat /\ k <= Len(wire)
      BY <2>0
    <3>2. SubSeq(wire, 1, k) \in Seq(BYTE) /\ SubSeq(wire, k + 1, Len(wire)) \in Seq(BYTE)
      BY <2>0, <3>1, PartsAre
    <3>3. rx' \in Seq(BYTE)
      BY <2>0, <3>0, <3>2, CatBytes
    <3>. QED  BY <2>0, <2>4, <3>0, <3>2, <3>3 DEF Deliver, LineTyped
  <2>5. CASE PeerCloses
    BY <2>0, <2>5 DEF PeerCloses, LineTyped
  <2>. QED  BY <2>1, <2>2, <2>3, <2>4, <2>5
<1>5. CountsTyped'
  <2>1. CASE UNCHANGED <<faults, quiet>>
    BY <1>1, <2>1 DEF Typed, CountsTyped
  <2>2. CASE Fault
    BY <1>1, <2>2, FaultIs DEF Typed, CountsTyped
  <2>. QED  BY <2>1, <2>2 DEF Answer, Lose, Noise, Deliver, PeerCloses
<1>. QED  BY <1>1, <1>2, <1>3, <1>4, <1>5 DEF Typed

LEMMA TypedRecv ==
  ASSUME Typed, Recv
  PROVE  Typed'
<1>1. UNCHANGED <<ctx, s, up, req, wire, pend, executed, faults>> /\ pc = "recv"
  BY DEF Recv
<1>2. /\ rx \in Seq(BYTE) /\ Reading(rsp, step, to_read) /\ req \in Requests
      /\ wire \in Seq(BYTE) /\ pend \in Seq(Requests)
  BY <1>1 DEF Typed, LineTyped, RspTyped, ReqTyped
<1>3. PICK b \in Seq(BYTE), y \in Seq(BYTE) :
        /\ rx = b \o y /\ Len(b) > 0
        /\ rsp \o b \in Seq(BYTE) /\ Len(rsp \o b) <= max_adu_length
        /\ \/ \E st \in {"function", "meta", "data"} : \E n \in Nat :
                More(rsp \o b, y, st, n) /\ Reading(rsp \o b, st, n)
           \/ GiveUp(rsp \o b, y)
           \/ Complete(rsp \o b, y) /\ Whole(rsp \o b)
  BY <1>2, RecvIs
<1>4. PICK w \in Seq(BYTE) : w = rsp \o b /\ Len(w) <= max_adu_length
  BY <1>3
<1>5. CtxTyped' /\ ctx'.backend = ctx.backend /\ max_adu_length' = max_adu_length
  BY <1>1, SameBackend DEF Typed, CtxTyped
<1>6. /\ rsp' = w /\ rx' \in {<<>>, y} /\ step' \in {"function", "meta", "data"}
      /\ \/ pc' = "recv" /\ Reading(w, step', to_read') /\ quiet' = quiet /\ torn' = torn
         \/ pc' \in {"idle", "flush"} /\ quiet' \in {quiet, Quieter} /\ torn' \in BOOLEAN
  <2>1. CASE \E st \in {"function", "meta", "data"} : \E n \in Nat :
               More(rsp \o b, y, st, n) /\ Reading(rsp \o b, st, n)
    BY <1>1, <1>4, <2>1 DEF More
  <2>2. CASE GiveUp(rsp \o b, y)
    <3>1. torn' = TRUE
      BY <2>2, Zenon DEF GiveUp
    <3>2. torn' \in BOOLEAN
      BY <3>1, Zenon
    <3>. QED  BY <1>4, <2>2, <3>2 DEF GiveUp, Return, Typed, RspTyped
  <2>3. CASE Complete(rsp \o b, y)
    <3>1. /\ rsp' = w /\ step' = "data" /\ torn' = (torn \/ LeavesRest(w)) /\ rx' \in {<<>>, y}
      BY <1>4, <2>3 DEF Complete
    <3>2. torn' \in BOOLEAN
      BY <3>1, Zenon
    <3>3. pc' \in {"idle", "flush"} /\ quiet' \in {quiet, Quieter}
      BY <2>3 DEF Complete, Return
    <3>. QED  BY <3>1, <3>2, <3>3
  <2>. QED  BY <1>3, <2>1, <2>2, <2>3
<1>7. EndsTyped'
  BY <1>1, <1>5, <1>6, SameEnds DEF Typed
<1>8. ReqTyped'
  BY <1>1, <1>2, <1>6 DEF Typed, ReqTyped
<1>9. RspTyped'
  <2>1. pc' = "recv" => Reading(rsp, step, to_read)'
    BY <1>5, <1>6, SameReading
  <2>. QED  BY <1>4, <1>5, <1>6, <2>1 DEF RspTyped
<1>10. LineTyped'
  <2>1. <<>> \in Seq(BYTE)
    OBVIOUS
  <2>. QED  BY <1>1, <1>2, <1>6, <2>1 DEF LineTyped
<1>11. CountsTyped'
  <2>1. faults' \in 0..MaxFaults /\ quiet' \in 0..MaxCalls
    BY <1>1, <1>6, QuieterIs DEF Typed, CountsTyped
  <2>2. torn' \in BOOLEAN
    BY <1>6, Zenon DEF Typed, CountsTyped
  <2>. QED  BY <2>1, <2>2, Zenon DEF CountsTyped
<1>. QED  BY <1>5, <1>7, <1>8, <1>9, <1>10, <1>11 DEF Typed

LEMMA TypedTimeout ==
  ASSUME Typed, Timeout
  PROVE  Typed'
<1>1. /\ UNCHANGED <<ctx, s, up, req, rsp, step, to_read, rx, wire, pend, executed>>
      /\ pc = "recv" /\ pc' \in {"idle", "flush"} /\ quiet' \in {quiet, 0, Quieter}
      /\ faults' = faults \/ (faults < MaxFaults /\ faults' = faults + 1)
  BY DEF Timeout, line, Return
<1>2. CtxTyped' /\ EndsTyped' /\ RspTyped'
  BY <1>1, SameEnds, SameRsp DEF Typed, CtxTyped
<1>3. ReqTyped' /\ LineTyped'
  BY <1>1 DEF Typed, ReqTyped, LineTyped
<1>4. CountsTyped'
  <2>1. faults' \in 0..MaxFaults /\ quiet' \in 0..MaxCalls
    BY <1>1, QuieterIs, TidMaxIs, MaxCallsIs DEF Typed, CountsTyped
  <2>2. torn' = (torn \/ (rsp # <<>> /\ ~Silent /\ ~Link))
    BY DEF Timeout
  <2>3. torn' \in BOOLEAN
    BY <2>2, Zenon
  <2>. QED  BY <2>1, <2>3, Zenon DEF CountsTyped
<1>. QED  BY <1>2, <1>3, <1>4 DEF Typed

LEMMA TypedFlush ==
  ASSUME Typed, Flush \/ FlushAndResend
  PROVE  Typed'
<1>1. /\ UNCHANGED <<ctx, s, up, req, rsp, step, to_read, wire, pend, executed, faults, torn>>
      /\ pc' \in {"idle", "send"} /\ quiet' \in {quiet, Quieter} /\ rx' = <<>>
      /\ pc # "idle"
  BY DEF Flush, FlushAndResend, Flushed, Return
<1>2. CtxTyped' /\ EndsTyped' /\ RspTyped'
  BY <1>1, SameEnds, SameRsp DEF Typed, CtxTyped
<1>3. ReqTyped' /\ LineTyped'
  BY <1>1 DEF Typed, ReqTyped, LineTyped
<1>4. CountsTyped'
  BY <1>1, QuieterIs DEF Typed, CountsTyped
<1>. QED  BY <1>2, <1>3, <1>4 DEF Typed

LEMMA TypedNext == Typed /\ [Next]_vars => Typed'
<1>. SUFFICES ASSUME Typed, [Next]_vars PROVE Typed'
  OBVIOUS
<1>1. CASE Done \/ UNCHANGED vars
  <2>1. UNCHANGED <<ctx, s, up, pc, req, rsp, step, to_read, res, rx, wire, pend, executed, faults, quiet, torn>>
    BY <1>1 DEF Done, vars
  <2>2. RspTyped'
    BY <2>1, SameRsp DEF Typed
  <2>3. CtxTyped' /\ EndsTyped' /\ ReqTyped' /\ LineTyped' /\ CountsTyped'
    BY <2>1, SameBackend DEF Typed, CtxTyped, EndsTyped, ReqTyped, LineTyped, CountsTyped
  <2>. QED  BY <2>2, <2>3 DEF Typed
<1>. QED  BY <1>1, TypedCall, TypedSend, TypedReconnect, TypedServer, TypedRecv, TypedTimeout, TypedFlush DEF Next

\* _modbus_receive_msg never reads more than fits into the caller's buffer, and
\* the transaction id stays within its range, whatever the line delivers.
THEOREM TypeCorrect == Spec => []TypeOK
<1>1. Spec => []Typed
  BY TypedInit, TypedNext, PTL DEF Spec
<1>. QED  BY <1>1, TypedImplies, PTL
-----------------------------------------------------------------------------
(* The checks of an answer.                                                *)

LEMMA CrcOf ==
  ASSUME NEW vs \in Seq(uint8_t), NEW f \in Seq(BYTE), Len(f) = Len(vs) + 2,
         \A p \in 1..Len(vs) : f[p].v = vs[p],
         f[Len(vs) + 1] = [v |-> 201, crc |-> vs], f[Len(vs) + 2] = [v |-> 2, crc |-> vs]
  PROVE  crc_matches(f)
<1>1. PICK n \in Nat : n = Len(vs) /\ Len(f) = n + 2
  OBVIOUS
<1>2. PICK q : q = SubSeq(f, 1, n)
  OBVIOUS
<1>3. q \in Seq(BYTE) /\ Len(q) = n /\ \A j \in 1..n : q[j] = f[j]
  BY <1>1, <1>2
<1>4. Values(q) = [j \in 1..n |-> q[j].v]
  BY <1>3 DEF Values
<1>5. Values(q) = [j \in 1..n |-> vs[j]]
  BY <1>1, <1>3, <1>4
<1>6. vs = [j \in 1..n |-> vs[j]]
  BY <1>1
<1>7. Values(q) = vs
  BY <1>5, <1>6
<1>8. PICK c : c = SubSeq(f, n + 1, n + 2)
  OBVIOUS
<1>9. c \in Seq(BYTE) /\ Len(c) = 2 /\ c[1] = f[n + 1] /\ c[2] = f[n + 2]
  BY <1>1, <1>8
<1>10. PICK d : d = crc16(vs)
  OBVIOUS
<1>11. d \in Seq(BYTE) /\ Len(d) = 2 /\ d[1] = f[n + 1] /\ d[2] = f[n + 2]
  BY <1>1, <1>10, CrcIs
<1>12. c = d
  <2>1. \A k \in 1..2 : c[k] = d[k]
    BY <1>9, <1>11
  <2>. QED  BY <1>9, <1>11, <2>1, SameBytes
<1>13. Len(f) - 1 = n + 1 /\ Len(f) - 2 = n
  BY <1>1
<1>. QED  BY <1>1, <1>2, <1>7, <1>8, <1>10, <1>12, <1>13 DEF crc_matches

\* The answer to a request passes the checks, and the call returns what it should.
LEMMA ReplyAccepted ==
  ASSUME NEW r \in Requests
  PROVE  /\ check_integrity(Reply(r)) = Len(Reply(r))
         /\ Rtu => Reply(r)[1].v = Slave
         /\ check_confirmation(r, Reply(r), Len(Reply(r))) = "ok"
         /\ ReturnValue(r, Reply(r)) = Expected(r) /\ Expected(r) \in Nat
<1>1. PICK w, pdu : w = Reply(r) /\ pdu = Pdu(r)
  OBVIOUS
<1>2. Ends(pdu) /\ Answers(r, pdu)
  BY <1>1, PduIs
<1>3. r.fc \in Codes /\ r.nb \in Nat /\ r.t_id \in uint16_t /\ r.fc \in Nat
  BY Uint16 DEF Requests, Codes
<1>4. PICK l \in Nat : l = Len(pdu) /\ l >= 2 /\ l <= 252
  BY <1>2 DEF Ends
<1>5. PICK h \in Nat : h = header_length
  BY SizesAre
<1>6. PICK vs \in Seq(uint8_t) :
        /\ w \in Seq(BYTE) /\ Len(w) = h + l + checksum_length /\ Len(vs) = h + l
        /\ \A p \in 1..(h + l) : w[p].v = vs[p]
        /\ \A j \in 1..l : w[h + j].v = pdu[j]
        /\ Rtu => /\ w[1].v = Slave
                  /\ w[h + l + 1] = [v |-> 201, crc |-> vs] /\ w[h + l + 2] = [v |-> 2, crc |-> vs]
        /\ ~Rtu => w[1].v = Hi(r.t_id) /\ w[2].v = Lo(r.t_id) /\ w[3].v = 0
  <2>1. pdu \in Seq(uint8_t) /\ Len(pdu) > 0 /\ Len(pdu) <= 252
    BY <1>2, <1>4 DEF Ends
  <2>2. w = Frame(r.t_id, pdu)
    BY <1>1 DEF Reply
  <2>3. PICK t \in uint16_t : t = r.t_id
    BY <1>3
  <2>4. LET f == Frame(t, pdu)
            vs == Head1(t, pdu) \o pdu
            n == header_length + Len(pdu)
        IN  /\ f \in Seq(BYTE) /\ Len(f) = n + checksum_length
            /\ vs \in Seq(uint8_t) /\ Len(vs) = n
            /\ \A p \in 1..n : f[p].v = vs[p] /\ f[p].crc = <<>>
            /\ \A j \in 1..Len(pdu) : f[header_length + j].v = pdu[j]
            /\ Rtu => /\ f[1].v = Slave
                      /\ f[n + 1] = [v |-> 201, crc |-> vs] /\ f[n + 2] = [v |-> 2, crc |-> vs]
            /\ ~Rtu => f[1].v = Hi(t) /\ f[2].v = Lo(t) /\ f[3].v = 0
    BY <2>1, FrameIs, Zenon
  <2>5. PICK vs : vs = Head1(t, pdu) \o pdu
    OBVIOUS
  <2>. QED  BY <1>4, <1>5, <2>2, <2>3, <2>4, <2>5
<1>7. check_integrity(w) = Len(w)
  <2>1. CASE Rtu
    <3>1. Len(w) = Len(vs) + 2
      BY <1>5, <1>6, <2>1, Sizes
    <3>2. crc_matches(w)
      BY <1>6, <2>1, <3>1, CrcOf
    <3>. QED  BY <1>6, <2>1, <3>2 DEF check_integrity
  <2>. QED  BY <2>1 DEF check_integrity
<1>8. pre_check_confirmation(r, w)
  BY <1>6 DEF pre_check_confirmation
<1>9. w[h + 1].v = r.fc /\ w[h + 2].v = pdu[2]
  BY <1>2, <1>4, <1>6 DEF Answers
<1>10. r.fc \in MultipleWrites => w[h + 4].v = pdu[4] /\ w[h + 5].v = pdu[5]
  BY <1>2, <1>4, <1>6 DEF Answers
<1>11. PICK computed : computed = compute_response_length_from_request(r)
  OBVIOUS
<1>12. computed = Len(w) \/ computed = 0
  <2>1. CASE r.fc = 17
    BY <1>11, <2>1 DEF compute_response_length_from_request
  <2>2. CASE r.fc # 17
    <3>1. Len(w) = h + l + checksum_length
      BY <1>6
    <3>2. l = (IF r.fc \in BitReads THEN 2 + BytesOfBits(r.nb)
               ELSE IF r.fc \in RegisterReads THEN 2 + 2 * r.nb
               ELSE IF r.fc = 22 THEN 7 ELSE 5)
      BY <1>2, <1>3, <1>4, <2>2 DEF Answers, Codes, BitReads, RegisterReads, SingleWrites, MultipleWrites
    <3>3. computed = h + checksum_length + l
      BY <1>5, <1>11, <2>2, <3>2 DEF compute_response_length_from_request
    <3>. QED  BY <1>4, <1>5, <3>1, <3>3, SizesAre
  <2>. QED  BY <2>1, <2>2
<1>13. /\ r.fc \in BitReads => rsp_nb_value(w) = BytesOfBits(r.nb)
       /\ r.fc \in RegisterReads \cup MultipleWrites => rsp_nb_value(w) = r.nb
       /\ r.fc = 17 => rsp_nb_value(w) = 2
       /\ r.fc \in SingleWrites \cup {22} => rsp_nb_value(w) = 1
  <2>1. r.fc \in BitReads => w[h + 2].v = BytesOfBits(r.nb)
    BY <1>2, <1>9 DEF Answers
  <2>2. r.fc \in RegisterReads => w[h + 2].v = 2 * r.nb
    BY <1>2, <1>9 DEF Answers
  <2>3. r.fc \in MultipleWrites => Word(w, h + 4) = r.nb
    <3>1. h + 4 + 1 = h + 5
      OBVIOUS
    <3>. QED  BY <1>2, <1>10, <3>1 DEF Answers, Word
  <2>4. r.fc = 17 => w[h + 2].v = 2
    BY <1>2, <1>9 DEF Answers
  <2>5. (2 * r.nb) \div 2 = r.nb
    BY <1>3
  <2>6. CASE r.fc \in BitReads
    BY <1>5, <1>9, <2>1, <2>6 DEF rsp_nb_value, BitReads, RegisterReads, MultipleWrites, SingleWrites
  <2>7. CASE r.fc \in RegisterReads
    BY <1>5, <1>9, <2>2, <2>5, <2>7 DEF rsp_nb_value, BitReads, RegisterReads, MultipleWrites, SingleWrites
  <2>8. CASE r.fc \in MultipleWrites
    BY <1>5, <1>9, <2>3, <2>8 DEF rsp_nb_value, BitReads, RegisterReads, MultipleWrites, SingleWrites
  <2>9. CASE r.fc \in SingleWrites \cup {17, 22}
    BY <1>5, <1>9, <2>4, <2>9 DEF rsp_nb_value, BitReads, RegisterReads, MultipleWrites, SingleWrites
  <2>10. r.fc \in BitReads \/ r.fc \in RegisterReads \/ r.fc \in MultipleWrites
           \/ r.fc \in SingleWrites \cup {17, 22}
    BY <1>3 DEF Codes, BitReads, RegisterReads, MultipleWrites, SingleWrites
  <2>. QED  BY <2>6, <2>7, <2>8, <2>9, <2>10
<1>14. req_nb_value(r, w) = rsp_nb_value(w)
  BY <1>13 DEF req_nb_value, BitReads, RegisterReads, MultipleWrites
<1>15. ReturnValue(r, w) = Expected(r) /\ Expected(r) \in Nat
  BY <1>3, <1>13 DEF ReturnValue, Expected, Codes, BitReads, RegisterReads, MultipleWrites, SingleWrites
<1>16. check_confirmation(r, w, Len(w)) = "ok"
  <2>1. ~(r.fc >= 128)
    BY <1>3 DEF Codes
  <2>. QED  BY <1>5, <1>8, <1>9, <1>11, <1>12, <1>14, <2>1 DEF check_confirmation
<1>. QED  BY <1>1, <1>6, <1>7, <1>15, <1>16

LEMMA OkIs ==
  ASSUME NEW r, NEW w, NEW n, check_confirmation(r, w, n) = "ok"
  PROVE  pre_check_confirmation(r, w) /\ ~(Fn(w) >= 128)
BY DEF check_confirmation, Fn

\* What a complete answer leads to.
LEMMA CompleteIs ==
  ASSUME NEW w, NEW y, Complete(w, y), Len(w) \in Nat, torn \in BOOLEAN
  PROVE  \/ torn' = TRUE
         \/ /\ torn' = torn /\ rx' = y /\ Protocol
            /\ pc' = "flush" /\ quiet' = quiet /\ res'.rc = -1
            /\ check_confirmation(req, w, check_integrity(w)) # "ok"
         \/ /\ torn' = torn /\ rx' = y /\ pc' = "idle" /\ quiet' = Quieter
            /\ check_integrity(w) = Len(w) /\ (Rtu => crc_matches(w))
            /\ \/ /\ check_confirmation(req, w, Len(w)) = "ok"
                  /\ res' = [rc |-> ReturnValue(req, w), errno |-> "none"]
               \/ check_confirmation(req, w, Len(w)) # "ok" /\ res'.rc = -1
<1>1. PICK length, verdict :
        length = check_integrity(w) /\ verdict = check_confirmation(req, w, length)
  OBVIOUS
<1>2. torn' = (torn \/ LeavesRest(w))
  BY DEF Complete
<1>3. CASE LeavesRest(w)
  BY <1>2, <1>3, Zenon
<1>4. CASE ~LeavesRest(w)
  <2>1. length # -1
    <3>1. ~Rtu => length = Len(w)
      BY <1>1 DEF check_integrity
    <3>2. Rtu => length # -1
      BY <1>1, <1>4 DEF LeavesRest
    <3>. QED  BY <3>1, <3>2
  <2>2. /\ rx' = y
        /\ verdict = "ok" => Return(ReturnValue(req, w), "none")
        /\ verdict # "ok" =>
             \/ /\ Protocol /\ pc' = "flush" /\ res' = [rc |-> -1, errno |-> verdict] /\ quiet' = quiet
             \/ /\ ~(verdict \in {"EMBBADDATA", "EMBBADSLAVE"} /\ Protocol)
                /\ Return(-1, verdict)
    BY <1>1, <2>1 DEF Complete
  <2>3. ASSUME verdict = "ok" \/ ~(verdict \in {"EMBBADDATA", "EMBBADSLAVE"} /\ Protocol)
        PROVE  length = Len(w) /\ (Rtu => crc_matches(w))
    <3>1. CASE Rtu
      <4>1. w[1].v = Slave
        <5>1. SUFFICES ASSUME w[1].v # Slave PROVE FALSE
          OBVIOUS
        <5>2. Protocol
          BY <1>4, <3>1, <5>1 DEF LeavesRest
        <5>3. verdict = "EMBBADSLAVE"
          BY <1>1, <3>1, <5>1 DEF check_confirmation, pre_check_confirmation
        <5>. QED  BY <2>3, <5>2, <5>3
      <4>. QED  BY <1>1, <2>1, <3>1, <4>1 DEF check_integrity
    <3>. QED  BY <1>1, <3>1 DEF check_integrity
  <2>4. torn' = torn
    BY <1>2, <1>4, Zenon
  <2>5. CASE verdict = "ok"
    BY <1>1, <2>2, <2>3, <2>4, <2>5 DEF Return
  <2>6. CASE verdict # "ok"
    <3>1. CASE Protocol /\ pc' = "flush" /\ res' = [rc |-> -1, errno |-> verdict] /\ quiet' = quiet
      <4>1. res'.rc = -1
        BY <3>1
      <4>. QED  BY <1>1, <2>2, <2>4, <2>6, <3>1, <4>1
    <3>2. CASE ~(verdict \in {"EMBBADDATA", "EMBBADSLAVE"} /\ Protocol) /\ Return(-1, verdict)
      <4>1. res'.rc = -1 /\ pc' = "idle" /\ quiet' = Quieter
        BY <3>2 DEF Return
      <4>. QED  BY <1>1, <2>2, <2>3, <2>4, <2>6, <3>2, <4>1
    <3>. QED  BY <2>2, <2>6, <3>1, <3>2
  <2>. QED  BY <2>5, <2>6
<1>. QED  BY <1>3, <1>4
-----------------------------------------------------------------------------
(* One request at a time: with link recovery the line is silent when the   *)
(* next request is sent.                                                   *)

LEMMA CatAssoc == \A a, b, c \in Seq(BYTE) : (a \o b) \o c = a \o (b \o c)
<1>. SUFFICES ASSUME NEW a \in Seq(BYTE), NEW b \in Seq(BYTE), NEW c \in Seq(BYTE)
              PROVE  (a \o b) \o c = a \o (b \o c)
  OBVIOUS
<1>1. PICK k \in Nat, l \in Nat, m \in Nat : k = Len(a) /\ l = Len(b) /\ m = Len(c)
  OBVIOUS
<1>2. PICK d, e, x, y : d = a \o b /\ e = b \o c /\ x = d \o c /\ y = a \o e
  OBVIOUS
<1>3. /\ d \in Seq(BYTE) /\ Len(d) = k + l
      /\ (\A i \in 1..k : d[i] = a[i]) /\ \A i \in 1..l : d[k + i] = b[i]
  BY <1>1, <1>2, CatBytes
<1>4. /\ e \in Seq(BYTE) /\ Len(e) = l + m
      /\ (\A i \in 1..l : e[i] = b[i]) /\ \A i \in 1..m : e[l + i] = c[i]
  BY <1>1, <1>2, CatBytes
<1>5. /\ x \in Seq(BYTE) /\ Len(x) = k + l + m
      /\ (\A i \in 1..(k + l) : x[i] = d[i]) /\ \A i \in 1..m : x[k + l + i] = c[i]
  BY <1>1, <1>2, <1>3, CatBytes
<1>6. /\ y \in Seq(BYTE) /\ Len(y) = k + l + m
      /\ (\A i \in 1..k : y[i] = a[i]) /\ \A i \in 1..(l + m) : y[k + i] = e[i]
  BY <1>1, <1>2, <1>4, CatBytes
<1>7. ASSUME NEW i \in 1..(k + l + m) PROVE x[i] = y[i]
  <2>1. CASE i \in 1..k
    <3>1. i \in 1..(k + l)
      BY <1>1, <2>1
    <3>. QED  BY <1>3, <1>5, <1>6, <2>1, <3>1
  <2>2. CASE i \in (k + 1)..(k + l)
    <3>1. PICK j \in 1..l : i = k + j /\ j \in 1..(l + m) /\ i \in 1..(k + l)
      <4>1. i - k \in 1..l /\ i = k + (i - k) /\ i - k \in 1..(l + m) /\ i \in 1..(k + l)
        BY <1>1, <2>2
      <4>. QED  BY <4>1
    <3>. QED  BY <1>3, <1>4, <1>5, <1>6, <3>1
  <2>3. CASE i \in (k + l + 1)..(k + l + m)
    <3>1. PICK j \in 1..m : i = k + l + j /\ i = k + (l + j) /\ l + j \in 1..(l + m)
      <4>1. i - (k + l) \in 1..m /\ i = k + l + (i - (k + l)) /\ i = k + (l + (i - (k + l)))
            /\ l + (i - (k + l)) \in 1..(l + m)
        BY <1>1, <2>3
      <4>. QED  BY <4>1
    <3>. QED  BY <1>4, <1>5, <1>6, <3>1
  <2>4. i \in 1..k \/ i \in (k + 1)..(k + l) \/ i \in (k + l + 1)..(k + l + m)
    BY <1>1
  <2>. QED  BY <2>1, <2>2, <2>3, <2>4, Zenon
<1>8. x = y
  BY <1>5, <1>6, <1>7, SameBytes
<1>. QED  BY <1>2, <1>8

LEMMA CatNone == \A a \in Seq(BYTE) : a \o <<>> = a /\ <<>> \o a = a
OBVIOUS

LEMMA CatIsNone == \A a, b \in Seq(BYTE) : a \o b = <<>> => a = <<>> /\ b = <<>>
<1>. SUFFICES ASSUME NEW a \in Seq(BYTE), NEW b \in Seq(BYTE), NEW x, x = a \o b, x = <<>>
              PROVE  a = <<>> /\ b = <<>>
  OBVIOUS
<1>1. x \in Seq(BYTE) /\ Len(x) = Len(a) + Len(b)
  BY CatBytes
<1>2. Len(a) = 0 /\ Len(b) = 0
  BY <1>1
<1>. QED  BY <1>2, EmptyIs

\* What was sent to the client and is not yet taken for an answer.
Stream == IF pc = "recv" THEN (rsp \o rx) \o wire ELSE rx \o wire

\* What the server may have sent for the running request.
OwnPdus == {<<req.fc + 128, 6>>} \cup (IF req.n \in executed THEN {Pdu(req)} ELSE {})

\* x is what is left of the frame with this content.
Left(x, pdu) ==
  IF Rtu THEN Damaged(x, <<Slave>> \o pdu) ELSE x \in {<<>>, Frame(req.t_id, pdu)}

Alone(x) == \E pdu \in OwnPdus : Left(x, pdu)

\* Nothing went wrong since the request was sent.
Calm(x) == s /\ up /\ (pend = <<req>> \/ (x = Reply(req) /\ req.n \in executed))

Empty == rx = <<>> /\ wire = <<>> /\ pend = <<>>

Single ==
  SleepSuffices /\ Link /\ ~torn =>
    /\ pc \in {"idle", "send", "reconnect", "resend"} => Empty
    /\ pc = "recv" => (pend = <<req>> /\ Stream = <<>>) \/ (pend = <<>> /\ Alone(Stream))
    /\ pc = "recv" /\ quiet >= 1 => Calm(Stream)
    /\ pc = "flush" => quiet = 0

LEMMA SameAlone ==
  ASSUME ctx' = ctx, req' = req, executed \subseteq executed', NEW x, x = Stream', Alone(x)
  PROVE  Alone(Stream)'
<1>1. PICK pdu \in OwnPdus : Left(x, pdu)
  BY DEF Alone
<1>2. pdu \in OwnPdus'
  BY DEF OwnPdus
<1>3. Left(Stream, pdu)'
  BY <1>1 DEF Left, Damaged, Frame, Rtu
<1>. QED  BY <1>2, <1>3 DEF Alone

LEMMA SameCalm ==
  ASSUME ctx' = ctx, req' = req, executed \subseteq executed', NEW x, x = Stream',
         UNCHANGED <<s, up, pend>>, Calm(x)
  PROVE  Calm(Stream)'
<1>1. req.n \in executed => req.n \in executed'
  OBVIOUS
<1>2. x = Reply(req) => Stream' = Reply(req)'
  BY DEF Reply, Frame, Rtu
<1>. QED  BY <1>1, <1>2 DEF Calm

\* A frame that was just sent is whole.
LEMMA OwnFrame ==
  ASSUME NEW r \in Requests, NEW pdu, pdu = Pdu(r) \/ pdu = <<r.fc + 128, 6>>
  PROVE  /\ Ends(pdu) /\ Whole(Frame(r.t_id, pdu)) /\ Fn(Frame(r.t_id, pdu)) = pdu[1]
<1>1. Ends(pdu) /\ r.t_id \in uint16_t
  BY PduIs, ExceptionIs DEF Requests
<1>2. Whole(Frame(r.t_id, pdu)) /\ Fn(Frame(r.t_id, pdu)) = pdu[1]
  BY <1>1, FrameEnds
<1>. QED  BY <1>1, <1>2

\* f carries the values vs and their checksum.
FrameOf(f, vs) ==
  /\ vs \in Seq(uint8_t) /\ Len(f) = Len(vs) + 2
  /\ \A p \in 1..Len(vs) : f[p].v = vs[p] /\ f[p].crc = <<>>
  /\ f[Len(vs) + 1] = [v |-> 201, crc |-> vs]
  /\ f[Len(vs) + 2] = [v |-> 2, crc |-> vs]

LEMMA OwnRtu ==
  ASSUME NEW r \in Requests, NEW pdu, pdu = Pdu(r) \/ pdu = <<r.fc + 128, 6>>, Rtu,
         NEW f, NEW vs, f = Frame(r.t_id, pdu), vs = <<Slave>> \o pdu
  PROVE  FrameOf(f, vs) /\ Damaged(f, vs)
<1>1. Ends(pdu) /\ r.t_id \in uint16_t
  BY PduIs, ExceptionIs DEF Requests
<1>2. pdu \in Seq(uint8_t) /\ Len(pdu) > 0 /\ Len(pdu) <= 252
  BY <1>1 DEF Ends
<1>3. PICK t \in uint16_t : t = r.t_id
  BY <1>1
<1>4. LET g == Frame(t, pdu)
          ws == Head1(t, pdu) \o pdu
          n == header_length + Len(pdu)
      IN  /\ g \in Seq(BYTE) /\ Len(g) = n + checksum_length
          /\ ws \in Seq(uint8_t) /\ Len(ws) = n
          /\ \A p \in 1..n : g[p].v = ws[p] /\ g[p].crc = <<>>
          /\ \A j \in 1..Len(pdu) : g[header_length + j].v = pdu[j]
          /\ Rtu => /\ g[1].v = Slave
                    /\ g[n + 1] = [v |-> 201, crc |-> ws] /\ g[n + 2] = [v |-> 2, crc |-> ws]
          /\ ~Rtu => g[1].v = Hi(t) /\ g[2].v = Lo(t) /\ g[3].v = 0
  BY <1>2, FrameIs, Zenon
<1>5. Head1(t, pdu) \o pdu = vs /\ f = Frame(t, pdu)
  BY <1>3 DEF Head1
<1>6. PICK n \in Nat : n = Len(vs)
  BY <1>4, <1>5
<1>7. checksum_length = 2 /\ header_length + Len(pdu) = n
  BY <1>4, <1>5, <1>6, Sizes
<1>8. /\ f \in Seq(BYTE) /\ Len(f) = n + 2 /\ vs \in Seq(uint8_t)
      /\ \A p \in 1..n : f[p].v = vs[p] /\ f[p].crc = <<>>
      /\ f[n + 1] = [v |-> 201, crc |-> vs] /\ f[n + 2] = [v |-> 2, crc |-> vs]
  BY <1>4, <1>5, <1>7
<1>9. ASSUME NEW i \in 1..(n + 2), f[i].crc # <<>> PROVE f[i].crc = vs /\ i >= (n + 2) - 1
  <2>1. i \in 1..n \/ i = n + 1 \/ i = n + 2
    BY <1>6
  <2>2. i \notin 1..n
    BY <1>8, <1>9
  <2>3. f[i].crc = vs
    BY <1>8, <2>1, <2>2
  <2>. QED  BY <1>6, <2>1, <2>2, <2>3
<1>10. Damaged(f, vs)
  BY <1>8, <1>9 DEF Damaged
<1>. QED  BY <1>6, <1>8, <1>10 DEF FrameOf

LEMMA OneFrame ==
  ASSUME req \in Requests, NEW w, NEW u \in Seq(BYTE), Whole(w), Alone(w \o u), Rtu => crc_matches(w)
  PROVE  u = <<>> /\ (w = Exception(req) \/ (w = Reply(req) /\ req.n \in executed))
<1>1. PICK pdu \in OwnPdus : Left(w \o u, pdu)
  BY DEF Alone
<1>2. pdu = <<req.fc + 128, 6>> \/ (pdu = Pdu(req) /\ req.n \in executed)
  BY DEF OwnPdus
<1>3. PICK f : f = Frame(req.t_id, pdu)
  OBVIOUS
<1>4. Whole(f) /\ f \in Seq(BYTE) /\ Len(f) > 0
  <2>1. pdu = Pdu(req) \/ pdu = <<req.fc + 128, 6>>
    BY <1>2
  <2>2. Whole(f)
    BY <1>3, <2>1, OwnFrame, Zenon
  <2>. QED  BY <2>2, SizesAre DEF Whole
<1>5. w \in Seq(BYTE) /\ Len(w) >= header_length + 2
  BY DEF Whole
<1>6. w = f /\ u = <<>>
  <2>1. CASE Rtu
    <3>1. PICK vs : vs = <<Slave>> \o pdu
      OBVIOUS
    <3>2. /\ vs \in Seq(uint8_t) /\ Len(f) = Len(vs) + 2
          /\ \A p \in 1..Len(vs) : f[p].v = vs[p] /\ f[p].crc = <<>>
          /\ f[Len(vs) + 1] = [v |-> 201, crc |-> vs]
          /\ f[Len(vs) + 2] = [v |-> 2, crc |-> vs]
      <4>1. pdu = Pdu(req) \/ pdu = <<req.fc + 128, 6>>
        BY <1>2
      <4>2. FrameOf(f, vs)
        BY <1>3, <2>1, <3>1, <4>1, OwnRtu, Zenon
      <4>. QED  BY <4>2 DEF FrameOf
    <3>3. Damaged(w \o u, vs)
      BY <1>1, <2>1, <3>1 DEF Left
    <3>4. Len(w) >= 3
      BY <1>5, <2>1, Sizes
    <3>. QED  BY <1>4, <1>5, <2>1, <3>2, <3>3, <3>4, IntactFrame
  <2>2. CASE ~Rtu
    <3>1. w \o u = <<>> \/ w \o u = f
      BY <1>1, <1>3, <2>2 DEF Left
    <3>2. Len(w) > 0
      BY <1>5, SizesAre
    <3>3. w \o u # <<>>
      BY <1>5, <3>2, CatIsNone, EmptyIs
    <3>4. <<>> \in Seq(BYTE) /\ f \o <<>> = f
      BY <1>4, CatNone
    <3>5. w \o u = f \o <<>>
      BY <3>1, <3>3, <3>4
    <3>. QED  BY <1>4, <3>4, <3>5, WholeOnce
  <2>. QED  BY <2>1, <2>2
<1>. QED  BY <1>2, <1>3, <1>6 DEF Exception, Reply

LEMMA CalmFrame ==
  ASSUME req \in Requests, NEW w, NEW u \in Seq(BYTE), Whole(w), w \o u = Reply(req)
  PROVE  w = Reply(req) /\ u = <<>>
<1>1. PICK f : f = Reply(req)
  OBVIOUS
<1>2. Whole(f) /\ f \in Seq(BYTE)
  BY <1>1, ReplyIs
<1>3. <<>> \in Seq(BYTE) /\ f \o <<>> = f
  BY <1>2, CatNone
<1>4. w \o u = f \o <<>>
  BY <1>1, <1>3
<1>. QED  BY <1>1, <1>2, <1>3, <1>4, WholeOnce

\* Reading on changes nothing about what is there.
LEMMA ReadStream ==
  ASSUME rsp \in Seq(BYTE), wire \in Seq(BYTE), NEW b \in Seq(BYTE), NEW y \in Seq(BYTE), rx = b \o y
  PROVE  /\ (rsp \o rx) \o wire = (rsp \o b) \o (y \o wire)
         /\ (rsp \o rx) \o wire = ((rsp \o b) \o y) \o wire
         /\ y \o wire \in Seq(BYTE)
<1>1. PICK w : w = rsp \o b
  OBVIOUS
<1>2. w \in Seq(BYTE) /\ y \o wire \in Seq(BYTE)
  BY <1>1, CatBytes
<1>3. rsp \o rx = w \o y
  BY <1>1, CatAssoc
<1>4. (w \o y) \o wire = w \o (y \o wire)
  BY <1>2, CatAssoc
<1>. QED  BY <1>1, <1>2, <1>3, <1>4

LEMMA AloneNone ==
  ASSUME NEW x, x = <<>>
  PROVE  Alone(x)
<1>1. PICK pdu \in OwnPdus : pdu = <<req.fc + 128, 6>>
  BY DEF OwnPdus
<1>2. <<>> \in Seq(BYTE) /\ Len(<<>>) = 0
  OBVIOUS
<1>3. Damaged(x, <<Slave>> \o pdu)
  BY <1>2 DEF Damaged
<1>. QED  BY <1>1, <1>3 DEF Alone, Left

LEMMA NoStream ==
  ASSUME Typed, pc = "recv", Stream = <<>>
  PROVE  rsp = <<>> /\ rx = <<>> /\ wire = <<>>
<1>1. rsp \in Seq(BYTE) /\ rx \in Seq(BYTE) /\ wire \in Seq(BYTE) /\ rsp \o rx \in Seq(BYTE)
  BY CatBytes DEF Typed, RspTyped, LineTyped
<1>. QED  BY <1>1, CatIsNone DEF Stream

LEMMA SameLink == ctx'.recovery = ctx.recovery => Link' = Link /\ Protocol' = Protocol
BY DEF Link, Protocol

LEMMA SingleInit == Init => Single
<1>. SUFFICES ASSUME Init PROVE Single
  OBVIOUS
<1>1. pc = "idle" /\ Empty
  BY DEF Init, Empty
<1>. QED  BY <1>1 DEF Single

LEMMA SingleQuiet ==
  ASSUME Typed, Single, ctx'.recovery = ctx.recovery, torn' = torn,
         pc' \in {"idle", "send", "reconnect", "resend"},
         \/ pc \in {"idle", "send", "reconnect", "resend"} /\ UNCHANGED <<rx, wire, pend>>
         \/ rx' = <<>> /\ wire' = <<>> /\ pend' = <<>>
  PROVE  Single'
<1>. SUFFICES ASSUME SleepSuffices, Link, ~torn PROVE Empty'
  BY SameLink DEF Single
<1>. QED  BY DEF Single, Empty

LEMMA SingleSend ==
  ASSUME Typed, Single, SendMsg
  PROVE  Single'
<1>1. SUFFICES ASSUME SleepSuffices, Link, ~torn
               PROVE  pend' = <<req>>' /\ Stream' = <<>> /\ Calm(Stream)' /\ pc' = "recv"
  BY SameLink DEF Single, SendMsg
<1>2. Empty
  BY <1>1 DEF Single, SendMsg
<1>3. pend' = <<req>> /\ req' = req /\ pc' = "recv" /\ s' /\ up'
  BY <1>2 DEF SendMsg, Empty
<1>4. rsp' = <<>> /\ rx' = <<>> /\ wire' = <<>>
  BY <1>2 DEF SendMsg, Empty
<1>5. Stream' = <<>>
  BY <1>3, <1>4 DEF Stream
<1>. QED  BY <1>3, <1>5 DEF Calm

LEMMA SingleAnswer ==
  ASSUME Typed, Single, Answer
  PROVE  Single'
<1>1. /\ UNCHANGED <<ctx, s, up, pc, req, rsp, step, to_read, res, rx, torn>>
      /\ pend # <<>> /\ pend' = Tail(pend)
      /\ \/ /\ wire' = wire \o Reply(Head(pend)) /\ executed' = executed \cup {Head(pend).n} /\ quiet' = quiet
         \/ /\ wire' = wire \o Exception(Head(pend)) /\ executed' = executed /\ quiet' = 0
  BY DEF Answer, Fault
<1>2. SUFFICES ASSUME SleepSuffices, Link, ~torn
               PROVE  /\ pc = "recv" \/ pc = "flush"
                      /\ pc = "recv" => pend' = <<>> /\ Alone(Stream)' /\ (quiet' >= 1 => Calm(Stream)')
                      /\ pc = "flush" => quiet' = 0
  BY <1>1, SameLink DEF Single
<1>3. pc = "recv" \/ pc = "flush"
  BY <1>1, <1>2 DEF Single, Empty, Typed, EndsTyped
<1>4. pc = "flush" => quiet' = 0
  BY <1>1, <1>2 DEF Single
<1>5. ASSUME pc = "recv" PROVE pend' = <<>> /\ Alone(Stream)' /\ (quiet' >= 1 => Calm(Stream)')
  <2>1. pend = <<req>> /\ Stream = <<>>
    BY <1>1, <1>2, <1>5 DEF Single
  <2>2. rsp = <<>> /\ rx = <<>> /\ wire = <<>>
    BY <1>5, <2>1, NoStream
  <2>3. Head(pend) = req /\ pend' = <<>> /\ req \in Requests
    BY <1>1, <1>5, <2>1 DEF Typed, ReqTyped
  <2>4. PICK pdu : /\ wire' = <<>> \o Frame(req.t_id, pdu)
                   /\ \/ pdu = Pdu(req) /\ req.n \in executed' /\ quiet' = quiet
                      \/ pdu = <<req.fc + 128, 6>> /\ quiet' = 0
    BY <1>1, <2>2, <2>3 DEF Reply, Exception
  <2>5. PICK f : f = Frame(req.t_id, pdu)
    OBVIOUS
  <2>6. f \in Seq(BYTE) /\ (Rtu => Damaged(f, <<Slave>> \o pdu))
    BY <2>3, <2>4, <2>5, OwnFrame, OwnRtu DEF Whole
  <2>7. Stream' = f
    <3>1. Stream' = (<<>> \o <<>>) \o (<<>> \o f)
      BY <1>1, <1>5, <2>2, <2>4, <2>5 DEF Stream
    <3>2. <<>> \o <<>> = <<>> /\ <<>> \o f = f
      BY <2>6, CatNone
    <3>. QED  BY <3>1, <3>2
  <2>8. pdu \in OwnPdus'
    BY <1>1, <2>4 DEF OwnPdus
  <2>9. Left(Stream, pdu)'
    BY <1>1, <2>5, <2>6, <2>7 DEF Left, Damaged, Frame, Rtu
  <2>10. ASSUME quiet' >= 1 PROVE Calm(Stream)'
    <3>1. pdu = Pdu(req) /\ req.n \in executed' /\ quiet >= 1
      BY <2>4, <2>10
    <3>2. s /\ up
      BY <1>2, <1>5, <3>1 DEF Single, Calm
    <3>3. Stream' = Reply(req)'
      BY <1>1, <2>5, <2>7, <3>1 DEF Reply, Frame, Rtu
    <3>. QED  BY <1>1, <3>1, <3>2, <3>3 DEF Calm
  <2>. QED  BY <2>3, <2>8, <2>9, <2>10 DEF Alone
<1>. QED  BY <1>3, <1>4, <1>5

\* The line loses the request or the answer, or garbles it, or the server closes.
LEMMA SingleFaults ==
  ASSUME Typed, Single, Lose \/ Noise \/ PeerCloses
  PROVE  Single'
<1>1. UNCHANGED <<ctx, pc, req, rsp, rx, torn>> /\ quiet' = 0 /\ executed \subseteq executed'
  BY DEF Lose, Noise, PeerCloses, Fault
<1>2. rsp \in Seq(BYTE) /\ rx \in Seq(BYTE) /\ wire \in Seq(BYTE) /\ rsp \o rx \in Seq(BYTE)
  BY CatBytes DEF Typed, RspTyped, LineTyped
<1>3. SUFFICES ASSUME SleepSuffices, Link, ~torn
               PROVE  /\ pc \in {"idle", "send", "reconnect", "resend"} => Empty'
                      /\ pc = "recv" => pend' = <<>> /\ Alone(Stream)'
  <2>1. pc' = pc /\ torn' = torn /\ Link' = Link /\ ~(quiet' >= 1)
    BY <1>1, SameLink
  <2>2. quiet' = 0
    BY <1>1
  <2>. QED  BY <2>1, <2>2 DEF Single
<1>4. ASSUME pc \in {"idle", "send", "reconnect", "resend"} PROVE Empty'
  <2>1. Empty
    BY <1>3, <1>4 DEF Single
  <2>. QED  BY <1>1, <2>1 DEF Empty, Lose, Noise, PeerCloses
<1>5. ASSUME pc = "recv" PROVE pend' = <<>> /\ Alone(Stream)'
  <2>1. (pend = <<req>> /\ Stream = <<>>) \/ (pend = <<>> /\ Alone(Stream))
    BY <1>3, <1>5 DEF Single
  <2>2. Alone(Stream)
    BY <2>1, AloneNone
  <2>3. CASE Lose \/ PeerCloses
    <3>1. wire' = wire /\ pend' = <<>>
      BY <2>1, <2>3 DEF Lose, PeerCloses
    <3>2. Stream' = Stream
      BY <1>1, <3>1 DEF Stream
    <3>. QED  BY <1>1, <2>2, <3>1, <3>2, SameAlone
  <2>4. CASE Noise
    <3>1. Rtu /\ wire # <<>> /\ pend' = pend
      BY <2>4 DEF Noise
    <3>2. pend = <<>>
      BY <1>5, <2>1, <3>1, NoStream
    <3>3. PICK pdu \in OwnPdus : Left(Stream, pdu)
      BY <2>2 DEF Alone
    <3>4. PICK m, vs : m \in Seq(BYTE) /\ m = rsp \o rx /\ vs = <<Slave>> \o pdu
      BY <1>2
    <3>5. Damaged(m \o wire, vs)
      BY <1>5, <3>1, <3>3, <3>4 DEF Left, Stream
    <3>6. wire[1] \in BYTE /\ Head(wire) = wire[1]
      BY <1>2, <3>1
    <3>7. Damaged(m \o wire', vs)
      <4>1. CASE wire' = Tail(wire)
        BY <1>2, <3>1, <3>4, <3>5, <3>6, <4>1, NoiseDamages
      <4>2. ASSUME NEW v \in {3, 255}, wire' = <<[Head(wire) EXCEPT !.v = v]>> \o Tail(wire)
            PROVE  Damaged(m \o wire', vs)
        <5>1. v \in uint8_t
          BY Uint8
        <5>2. PICK e \in BYTE : e.crc = wire[1].crc /\ wire' = <<e>> \o Tail(wire)
          <6>1. PICK x \in BYTE : x = wire[1]
            BY <3>6
          <6>2. [x EXCEPT !.v = v] \in BYTE /\ [x EXCEPT !.v = v].crc = x.crc
            BY <5>1 DEF BYTE
          <6>. QED  BY <3>6, <4>2, <6>1, <6>2
        <5>3. Damaged(m \o (<<e>> \o Tail(wire)), vs)
          BY <1>2, <3>1, <3>4, <3>5, <5>2, NoiseDamages
        <5>. QED  BY <5>2, <5>3
      <4>. QED  BY <2>4, <4>1, <4>2 DEF Noise
    <3>8. Stream' = m \o wire'
      BY <1>1, <1>5, <3>4 DEF Stream
    <3>9. PICK x : x = Stream'
      OBVIOUS
    <3>10. Alone(x)
      BY <3>1, <3>3, <3>4, <3>7, <3>8, <3>9 DEF Alone, Left
    <3>. QED  BY <1>1, <3>1, <3>2, <3>9, <3>10, SameAlone
  <2>. QED  BY <2>3, <2>4
<1>. QED  BY <1>4, <1>5

LEMMA DeliverStream ==
  ASSUME Typed, Deliver
  PROVE  Stream' = Stream
<1>1. UNCHANGED <<pc, rsp>>
  BY DEF Deliver
<1>2. rsp \in Seq(BYTE) /\ rx \in Seq(BYTE) /\ wire \in Seq(BYTE)
  BY DEF Typed, RspTyped, LineTyped
<1>3. PICK k \in IF pc = "recv" THEN 1..Len(wire) ELSE {Len(wire)} :
        rx' = rx \o SubSeq(wire, 1, k) /\ wire' = SubSeq(wire, k + 1, Len(wire))
  BY DEF Deliver
<1>4. PICK a \in Seq(BYTE), b \in Seq(BYTE) : rx' = rx \o a /\ wire' = b /\ wire = a \o b
  <2>1. k \in Nat /\ k <= Len(wire)
    BY <1>2
  <2>2. /\ SubSeq(wire, 1, k) \in Seq(BYTE) /\ SubSeq(wire, k + 1, Len(wire)) \in Seq(BYTE)
        /\ SubSeq(wire, 1, k) \o SubSeq(wire, k + 1, Len(wire)) = wire
    BY <1>2, <2>1, PartsAre
  <2>. QED  BY <1>3, <2>2, Zenon
<1>5. rx' \o wire' = rx \o wire /\ rx \o a \in Seq(BYTE)
  BY <1>2, <1>4, CatAssoc, CatBytes
<1>6. (rsp \o rx') \o wire' = rsp \o (rx' \o wire')
  BY <1>2, <1>4, <1>5, CatAssoc
<1>7. (rsp \o rx) \o wire = rsp \o (rx \o wire)
  BY <1>2, CatAssoc
<1>. QED  BY <1>1, <1>5, <1>6, <1>7 DEF Stream

LEMMA SingleDeliver ==
  ASSUME Typed, Single, Deliver
  PROVE  Single'
<1>1. UNCHANGED <<ctx, s, up, pc, req, rsp, pend, executed, quiet, torn>> /\ wire # <<>>
  BY DEF Deliver
<1>5. Stream' = Stream
  BY DeliverStream
<1>6. SUFFICES ASSUME SleepSuffices, Link, ~torn, pc = "recv"
               PROVE  /\ (pend = <<req>> /\ Stream = <<>>) \/ (pend = <<>> /\ Alone(Stream)')
                      /\ quiet >= 1 => Calm(Stream)'
  BY <1>1, <1>5, SameLink DEF Single, Empty
<1>7. Alone(Stream) => Alone(Stream)'
  BY <1>1, <1>5, SameAlone
<1>8. Calm(Stream) => Calm(Stream)'
  BY <1>1, <1>5, SameCalm
<1>. QED  BY <1>6, <1>7, <1>8 DEF Single

LEMMA SingleTimeout ==
  ASSUME Typed, Single, Timeout
  PROVE  Single'
<1>1. ctx' = ctx /\ pc = "recv" /\ rx = <<>> /\ torn' = (torn \/ (rsp # <<>> /\ ~Silent /\ ~Link))
  BY DEF Timeout, SelectTimesOut
<1>2. SUFFICES ASSUME SleepSuffices, Link, ~torn PROVE pc' = "flush" /\ quiet' = 0
  <2>1. ~torn' => ~torn
    BY <1>1
  <2>. QED  BY <1>1, <2>1, SameLink DEF Single
<1>3. pc' = "flush" /\ quiet' = IF Silent THEN quiet ELSE 0
  BY <1>2 DEF Timeout
<1>4. SUFFICES ASSUME Silent, quiet >= 1 PROVE FALSE
  BY <1>3 DEF Typed, CountsTyped
<1>5. Stream = Reply(req)
  BY <1>1, <1>2, <1>4 DEF Single, Calm, Silent
<1>6. rsp \in Seq(BYTE) /\ Reading(rsp, step, to_read) /\ req \in Requests
  BY <1>1 DEF Typed, RspTyped, ReqTyped
<1>7. Stream = rsp
  BY <1>1, <1>4, <1>6, CatNone DEF Stream, Silent
<1>8. PICK f : f = Reply(req)
  OBVIOUS
<1>9. Whole(f) /\ f \in Seq(BYTE) /\ rsp = f
  BY <1>5, <1>6, <1>7, <1>8, ReplyIs
<1>10. <<>> \in Seq(BYTE)
  OBVIOUS
<1>11. Len(rsp) < Len(f)
  BY <1>6, <1>9, <1>10, ReadLess
<1>. QED  BY <1>9, <1>11

\* What recv leads to: more of the answer is there, or it was given up, or the
\* call is about to return.
Outcome(w, y) ==
  \/ /\ pc' = "recv" /\ rsp' = w /\ rx' = y /\ UNCHANGED <<quiet, torn, res>>
  \/ torn' = TRUE
  \/ Complete(w, y) /\ Whole(w)

LEMMA RecvLeads ==
  ASSUME Typed, Recv
  PROVE  /\ UNCHANGED <<ctx, s, up, req, wire, pend, executed, faults>> /\ pc = "recv"
         /\ req \in Requests /\ torn \in BOOLEAN
         /\ \E w \in Seq(BYTE), y \in Seq(BYTE), u \in Seq(BYTE) :
              /\ Stream = w \o u /\ Stream = (w \o y) \o wire /\ u = y \o wire
              /\ Len(w) > 0 /\ rsp' = w /\ Outcome(w, y)
<1>1. UNCHANGED <<ctx, s, up, req, wire, pend, executed, faults>> /\ pc = "recv"
  BY DEF Recv
<1>2. /\ rx \in Seq(BYTE) /\ rsp \in Seq(BYTE) /\ wire \in Seq(BYTE)
      /\ Reading(rsp, step, to_read) /\ req \in Requests /\ torn \in BOOLEAN
  BY <1>1 DEF Typed, LineTyped, RspTyped, ReqTyped, CountsTyped
<1>3. PICK b \in Seq(BYTE), y \in Seq(BYTE) :
        /\ rx = b \o y /\ Len(b) > 0
        /\ rsp \o b \in Seq(BYTE) /\ Len(rsp \o b) <= max_adu_length
        /\ \/ \E st \in {"function", "meta", "data"} : \E n \in Nat :
                More(rsp \o b, y, st, n) /\ Reading(rsp \o b, st, n)
           \/ GiveUp(rsp \o b, y)
           \/ Complete(rsp \o b, y) /\ Whole(rsp \o b)
  BY <1>2, RecvIs
<1>4. PICK w, u : w = rsp \o b /\ u = y \o wire
  OBVIOUS
<1>5. w \in Seq(BYTE) /\ u \in Seq(BYTE) /\ Len(w) > 0
  BY <1>2, <1>3, <1>4, CatBytes
<1>6. Stream = w \o u /\ Stream = (w \o y) \o wire
  BY <1>1, <1>2, <1>3, <1>4, ReadStream DEF Stream
<1>7. rsp' = w /\ Outcome(w, y)
  <2>1. CASE \E st \in {"function", "meta", "data"} : \E n \in Nat :
               More(rsp \o b, y, st, n) /\ Reading(rsp \o b, st, n)
    BY <1>1, <1>4, <2>1 DEF More, Outcome
  <2>2. CASE GiveUp(rsp \o b, y)
    <3>1. torn' = TRUE
      BY <2>2, Zenon DEF GiveUp
    <3>2. rsp' = w
      BY <1>4, <2>2 DEF GiveUp
    <3>. QED  BY <3>1, <3>2, Zenon DEF Outcome
  <2>3. CASE Complete(rsp \o b, y) /\ Whole(rsp \o b)
    <3>1. Complete(w, y) /\ Whole(w)
      BY <1>4, <2>3
    <3>2. rsp' = w
      BY <3>1 DEF Complete
    <3>. QED  BY <3>1, <3>2 DEF Outcome
  <2>. QED  BY <1>3, <2>1, <2>2, <2>3
<1>. QED  BY <1>1, <1>2, <1>3, <1>4, <1>5, <1>6, <1>7

LEMMA SingleRecv ==
  ASSUME Typed, Single, Recv
  PROVE  Single' /\ (SleepSuffices => Recovers')
<1>1. /\ UNCHANGED <<ctx, s, up, req, wire, pend, executed, faults>> /\ pc = "recv"
      /\ req \in Requests /\ torn \in BOOLEAN
  BY RecvLeads
<1>2. PICK w \in Seq(BYTE), y \in Seq(BYTE), u \in Seq(BYTE) :
        /\ Stream = w \o u /\ Stream = (w \o y) \o wire /\ u = y \o wire
        /\ Len(w) > 0 /\ rsp' = w /\ Outcome(w, y)
  BY RecvLeads
<1>3. Link' = Link /\ Protocol' = Protocol
  BY <1>1, SameLink
<1>4. CASE pc' = "recv" /\ rsp' = w /\ rx' = y /\ UNCHANGED <<quiet, torn, res>>
  <2>1. Stream' = Stream
    BY <1>1, <1>2, <1>4 DEF Stream
  <2>2. Alone(Stream) => Alone(Stream)'
    BY <1>1, <2>1, SameAlone
  <2>3. Calm(Stream) => Calm(Stream)'
    BY <1>1, <2>1, SameCalm
  <2>4. Recovers'
    BY <1>4 DEF Recovers
  <2>5. pc' = "recv" /\ pend' = pend /\ req' = req /\ quiet' = quiet /\ torn' = torn
    BY <1>1, <1>4
  <2>. QED  BY <1>1, <1>3, <2>1, <2>2, <2>3, <2>4, <2>5 DEF Single
<1>5. CASE torn' = TRUE
  BY <1>5 DEF Single, Recovers
<1>6. CASE Complete(w, y) /\ Whole(w)
  <2>1. \/ torn' = TRUE
        \/ /\ torn' = torn /\ rx' = y /\ Protocol
           /\ pc' = "flush" /\ quiet' = quiet /\ res'.rc = -1
           /\ check_confirmation(req, w, check_integrity(w)) # "ok"
        \/ /\ torn' = torn /\ rx' = y /\ pc' = "idle" /\ quiet' = Quieter
           /\ check_integrity(w) = Len(w) /\ (Rtu => crc_matches(w))
           /\ \/ /\ check_confirmation(req, w, Len(w)) = "ok"
                 /\ res' = [rc |-> ReturnValue(req, w), errno |-> "none"]
              \/ check_confirmation(req, w, Len(w)) # "ok" /\ res'.rc = -1
    <3>1. Len(w) \in Nat /\ torn \in BOOLEAN /\ Complete(w, y)
      BY <1>1, <1>6
    <3>. QED  BY <3>1, CompleteIs, Zenon
  <2>2. ASSUME SleepSuffices, Link, ~torn
        PROVE  /\ pend = <<>> /\ Alone(w \o u)
               /\ quiet >= 1 => w = Reply(req) /\ u = <<>>
    <3>1. w \o u # <<>>
      BY <1>2, CatIsNone, EmptyIs
    <3>2. pend = <<>> /\ Alone(w \o u)
      BY <1>1, <1>2, <2>2, <3>1 DEF Single
    <3>3. ASSUME quiet >= 1 PROVE w = Reply(req) /\ u = <<>>
      <4>1. w \o u = Reply(req)
        BY <1>1, <1>2, <2>2, <3>2, <3>3 DEF Single, Calm
      <4>. QED  BY <1>1, <1>6, <4>1, CalmFrame
    <3>. QED  BY <3>2, <3>3
  <2>3. ASSUME w = Reply(req)
        PROVE  /\ check_integrity(w) = Len(w) /\ check_confirmation(req, w, Len(w)) = "ok"
               /\ ReturnValue(req, w) >= 0
    BY <1>1, <2>3, ReplyAccepted
  <2>4. CASE pc' = "flush" /\ torn' = torn /\ quiet' = quiet
             /\ check_confirmation(req, w, check_integrity(w)) # "ok"
    <3>1. Recovers'
      BY <2>4 DEF Recovers
    <3>2. ASSUME SleepSuffices, Link, ~torn PROVE quiet = 0
      <4>1. ~(quiet >= 1)
        BY <2>2, <2>3, <2>4, <3>2
      <4>. QED  BY <4>1 DEF Typed, CountsTyped
    <3>. QED  BY <1>3, <2>4, <3>1, <3>2 DEF Single
  <2>5. CASE /\ torn' = torn /\ rx' = y /\ pc' = "idle" /\ quiet' = Quieter
             /\ check_integrity(w) = Len(w) /\ (Rtu => crc_matches(w))
             /\ \/ /\ check_confirmation(req, w, Len(w)) = "ok"
                   /\ res' = [rc |-> ReturnValue(req, w), errno |-> "none"]
                \/ check_confirmation(req, w, Len(w)) # "ok" /\ res'.rc = -1
    <3>1. ASSUME SleepSuffices, Link, ~torn PROVE Empty'
      <4>1. u = <<>> /\ pend = <<>>
        BY <1>1, <1>6, <2>2, <2>5, <3>1, OneFrame
      <4>2. y = <<>> /\ wire = <<>>
        BY <1>1, <1>2, <4>1, CatIsNone DEF Typed, LineTyped
      <4>. QED  BY <1>1, <2>5, <4>1, <4>2 DEF Empty
    <3>2. Single'
      BY <1>3, <2>5, <3>1 DEF Single
    <3>3. ASSUME SleepSuffices PROVE Recovers'
      <4>1. SUFFICES ASSUME Link, Protocol, ~torn, quiet' >= 2 PROVE res'.rc >= 0
        BY <1>3, <2>5 DEF Recovers
      <4>2. quiet >= 1
        BY <2>5, <4>1, MaxCallsIs DEF Quieter, Typed, CountsTyped
      <4>3. w = Reply(req)
        BY <2>2, <3>3, <4>1, <4>2
      <4>4. res' = [rc |-> ReturnValue(req, w), errno |-> "none"] /\ ReturnValue(req, w) >= 0
        BY <2>3, <2>5, <4>3
      <4>. QED  BY <4>4
    <3>. QED  BY <3>2, <3>3
  <2>. QED  BY <1>5, <2>1, <2>4, <2>5
<1>. QED  BY <1>2, <1>4, <1>5, <1>6 DEF Outcome

LEMMA SingleFlush ==
  ASSUME Typed, Single, Flush \/ FlushAndResend
  PROVE  Single'
<1>1. /\ ctx' = ctx /\ torn' = torn /\ pc' \in {"idle", "send"}
      /\ SleepSuffices => rx' = <<>> /\ wire' = <<>> /\ pend' = <<>>
  BY DEF Flush, FlushAndResend, Flushed, Return, Silent
<1>. QED  BY <1>1, SameLink DEF Single, Empty

LEMMA SameContext ==
  ASSUME Typed, [Next]_vars
  PROVE  ctx'.backend = ctx.backend /\ ctx'.recovery = ctx.recovery
<1>1. ASSUME NEW c, Call(c) PROVE ctx'.backend = ctx.backend /\ ctx'.recovery = ctx.recovery
  BY <1>1 DEF Call, Typed, CtxTyped
<1>2. CASE ctx' = ctx
  BY <1>2
<1>. QED  BY <1>1, <1>2 DEF Next, SendMsg, SendShort, SendFails, SendBusy, Reconnect, Answer, Lose, Noise,
             Deliver, PeerCloses, Recv, Timeout, RecvClosed, Flush, FlushAndResend, Flushed, Done, vars

LEMMA SingleNext == Typed /\ Single /\ [Next]_vars => Single'
<1>. SUFFICES ASSUME Typed, Single, [Next]_vars PROVE Single'
  OBVIOUS
<1>1. CASE Done \/ UNCHANGED vars
  <2>1. UNCHANGED <<ctx, s, up, pc, req, rsp, rx, wire, pend, executed, quiet, torn>>
    BY <1>1 DEF Done, vars
  <2>2. Stream' = Stream
    BY <2>1 DEF Stream
  <2>3. Alone(Stream) => Alone(Stream)'
    BY <2>1, <2>2, SameAlone
  <2>4. Calm(Stream) => Calm(Stream)'
    BY <2>1, <2>2, SameCalm
  <2>. QED  BY <2>1, <2>2, <2>3, <2>4, SameLink DEF Single, Empty
<1>2. ASSUME NEW c \in Calls[req.n + 1], Call(c) PROVE Single'
  <2>1. ctx'.recovery = ctx.recovery
    BY <1>2 DEF Call, Typed, CtxTyped
  <2>2. /\ torn' = torn /\ pc' \in {"idle", "send"} /\ pc = "idle" /\ UNCHANGED <<rx, wire, pend>>
    BY <1>2 DEF Call, Return, line
  <2>. QED  BY <2>1, <2>2, SingleQuiet
<1>3. CASE SendShort \/ SendFails \/ SendBusy
  BY <1>3, SingleQuiet DEF SendShort, SendFails, SendBusy, Return, line
<1>4. CASE Reconnect \/ RecvClosed
  <2>1. ~Rtu
    BY <1>4 DEF Reconnect, RecvClosed, Typed, EndsTyped
  <2>2. ctx' = ctx /\ torn' = torn /\ pc' \in {"idle", "send"}
    BY <1>4 DEF Reconnect, RecvClosed
  <2>3. Link => rx' = <<>> /\ wire' = <<>> /\ pend' = <<>>
    BY <1>4, <2>1 DEF Reconnect, RecvClosed, DropLine
  <2>. QED  BY <2>2, <2>3, SameLink DEF Single, Empty
<1>. QED  BY <1>1, <1>2, <1>3, <1>4, SingleSend, SingleAnswer, SingleFaults, SingleDeliver,
             SingleRecv, SingleTimeout, SingleFlush DEF Next

LEMMA RecoversNext ==
  ASSUME SleepSuffices, Typed, Single, Recovers, [Next]_vars
  PROVE  Recovers'
<1>1. CASE Recv
  BY <1>1, SingleRecv
<1>2. SUFFICES ASSUME ~Recv, pc' = "idle", Link, Protocol, ~torn, quiet' >= 2
               PROVE  res'.rc >= 0 \/ res'.errno = "EMBMDATA"
  <2>1. ctx'.recovery = ctx.recovery
    BY SameContext
  <2>2. ~torn' /\ ~Recv => ~torn
    BY DEF Next, Call, SendMsg, SendShort, SendFails, SendBusy, Reconnect, Answer, Lose, Noise, Deliver,
           PeerCloses, Timeout, RecvClosed, Flush, FlushAndResend, Flushed, Done, vars
  <2>. QED  BY <1>1, <2>1, <2>2, SameLink DEF Recovers
<1>3. quiet \in Nat
  BY DEF Typed, CountsTyped
<1>4. CASE pc = "idle"
  <2>1. CASE \E c \in Calls[req.n + 1] : Call(c)
    BY <1>2, <2>1 DEF Call, Return
  <2>2. CASE res' = res /\ quiet' \in {quiet, 0}
    BY <1>2, <1>4, <2>2 DEF Recovers
  <2>. QED  BY <1>2, <1>4, <2>1, <2>2 DEF Next, SendMsg, SendShort, SendFails, SendBusy, Reconnect, Answer,
               Lose, Noise, Deliver, PeerCloses, Timeout, RecvClosed, Flush, FlushAndResend, Fault, Done, vars
<1>5. CASE pc # "idle"
  <2>1. CASE SendShort \/ SendBusy
    BY <1>2, <2>1 DEF SendShort, SendBusy
  <2>2. CASE SendFails
    BY <1>2, <2>2 DEF SendFails
  <2>3. CASE Timeout
    BY <1>2, <2>3 DEF Timeout
  <2>4. CASE RecvClosed
    <3>1. quiet = 0
      BY <1>2, <1>3, <2>4 DEF Single, Calm, RecvClosed
    <3>. QED  BY <1>2, <2>4, <3>1, MaxCallsIs DEF RecvClosed, Quieter, Fault
  <2>5. CASE Flush
    <3>1. quiet = 0
      BY <1>2, <2>5 DEF Single, Flush
    <3>. QED  BY <1>2, <2>5, <3>1, MaxCallsIs DEF Flush, Return, Quieter
  <2>. QED  BY <1>2, <1>5, <2>1, <2>2, <2>3, <2>4, <2>5 DEF Next, Call, SendMsg, Reconnect, Answer,
               Lose, Noise, Deliver, PeerCloses, FlushAndResend, Done, vars
<1>. QED  BY <1>4, <1>5

\* With both recoveries, when a sleep outlasts every answer that is still under
\* way: the second call that returns after the line misbehaved succeeds, unless
\* an answer was given up in the middle, however often requests and answers were
\* lost, late or garbled before (send_msg, _modbus_receive_msg, check_confirmation).
THEOREM Recovery == SleepSuffices => (Spec => []Recovers)
<1>. SUFFICES ASSUME SleepSuffices PROVE Spec => []Recovers
  OBVIOUS
<1>1. Init => Recovers
  BY DEF Init, Recovers
<1>2. Typed /\ Single /\ Recovers /\ [Next]_vars => Recovers'
  BY RecoversNext
<1>. QED  BY <1>1, <1>2, TypedInit, TypedNext, SingleInit, SingleNext, PTL DEF Spec
-----------------------------------------------------------------------------
(* TCP: what is under way is a sequence of whole frames.                   *)

\* x can be cut into frames of F; the cuts are at the positions B.
Cut(x, F) ==
  \E B \in SUBSET Nat :
    /\ 0 \in B
    /\ \A b \in B : \/ b = Len(x)
                    \/ \E f \in F : /\ b + Len(f) \in B /\ b + Len(f) <= Len(x)
                                    /\ \A j \in 1..Len(f) : x[b + j] = f[j]

LEMMA CutNone == ASSUME NEW F, NEW x, x = <<>> PROVE Cut(x, F)
<1>1. {0} \in SUBSET Nat /\ 0 \in {0} /\ \A b \in {0} : b = Len(x)
  OBVIOUS
<1>. QED  BY <1>1, Zenon DEF Cut

LEMMA CutMono == ASSUME NEW F, NEW G, F \subseteq G, NEW x, Cut(x, F) PROVE Cut(x, G)
<1>1. PICK B \in SUBSET Nat :
        /\ 0 \in B
        /\ \A b \in B : \/ b = Len(x)
                        \/ \E f \in F : /\ b + Len(f) \in B /\ b + Len(f) <= Len(x)
                                        /\ \A j \in 1..Len(f) : x[b + j] = f[j]
  BY Zenon DEF Cut
<1>2. \A b \in B : \/ b = Len(x)
                   \/ \E f \in G : /\ b + Len(f) \in B /\ b + Len(f) <= Len(x)
                                   /\ \A j \in 1..Len(f) : x[b + j] = f[j]
  BY <1>1, Zenon
<1>. QED  BY <1>1, <1>2, Zenon DEF Cut

LEMMA CutAppend ==
  ASSUME NEW F, F \subseteq Seq(BYTE), NEW x \in Seq(BYTE), Cut(x, F), NEW g \in F, NEW z, z = x \o g
  PROVE  Cut(z, F)
<1>1. PICK B \in SUBSET Nat :
        /\ 0 \in B
        /\ \A b \in B : \/ b = Len(x)
                        \/ \E f \in F : /\ b + Len(f) \in B /\ b + Len(f) <= Len(x)
                                        /\ \A j \in 1..Len(f) : x[b + j] = f[j]
  BY Zenon DEF Cut
<1>2. PICK l \in Nat, k \in Nat : l = Len(x) /\ k = Len(g)
  OBVIOUS
<1>3. /\ z \in Seq(BYTE) /\ Len(z) = l + k
      /\ \A j \in 1..l : z[j] = x[j]
      /\ \A j \in 1..k : z[l + j] = g[j]
  <2>1. /\ z \in Seq(BYTE) /\ Len(z) = Len(x) + Len(g)
        /\ \A j \in 1..Len(x) : z[j] = x[j]
        /\ \A j \in 1..Len(g) : z[Len(x) + j] = g[j]
    BY CatOf
  <2>. QED  BY <1>2, <2>1, Zenon
<1>4. PICK C : C = B \cup {l + k}
  OBVIOUS
<1>5. C \in SUBSET Nat /\ 0 \in C
  <2>1. l + k \in Nat
    OBVIOUS
  <2>. QED  BY <1>1, <1>4, <2>1, Zenon
<1>6. ASSUME NEW b \in C
      PROVE  \/ b = Len(z)
             \/ \E f \in F : /\ b + Len(f) \in C /\ b + Len(f) <= Len(z)
                             /\ \A j \in 1..Len(f) : z[b + j] = f[j]
  <2>1. CASE b = l + k
    BY <1>3, <2>1
  <2>2. CASE b = l
    <3>1. b + Len(g) \in C /\ b + Len(g) <= Len(z)
      BY <1>2, <1>3, <1>4, <2>2
    <3>2. \A j \in 1..Len(g) : z[b + j] = g[j]
      BY <1>2, <1>3, <2>2
    <3>. QED  BY <3>1, <3>2
  <2>3. CASE b \in B /\ b # l
    <3>1. PICK f \in F : /\ b + Len(f) \in B /\ b + Len(f) <= Len(x)
                         /\ \A j \in 1..Len(f) : x[b + j] = f[j]
      BY <1>1, <1>2, <2>3
    <3>2. PICK n \in Nat : n = Len(f)
      <4>1. f \in Seq(BYTE)
        OBVIOUS
      <4>. QED  BY <4>1
    <3>3. b \in Nat /\ b + n <= l
      BY <1>2, <2>3, <3>1, <3>2
    <3>4. b + Len(f) \in C /\ b + Len(f) <= Len(z)
      BY <1>2, <1>3, <1>4, <3>1, <3>2, <3>3
    <3>5. ASSUME NEW j \in 1..n PROVE z[b + j] = f[j]
      <4>1. b + j \in 1..l
        BY <1>2, <3>2, <3>3
      <4>. QED  BY <1>3, <3>1, <3>2, <4>1
    <3>. QED  BY <3>2, <3>4, <3>5
  <2>. QED  BY <1>4, <2>1, <2>2, <2>3
<1>. QED  BY <1>5, <1>6, Zenon DEF Cut

\* The first frame, and the others.
LEMMA CutFirst ==
  ASSUME NEW F, F \subseteq Seq(BYTE), NEW x \in Seq(BYTE), x # <<>>, Cut(x, F)
  PROVE  \E f \in F : \E y \in Seq(BYTE) : x = f \o y /\ Cut(y, F)
<1>1. PICK B \in SUBSET Nat :
        /\ 0 \in B
        /\ \A b \in B : \/ b = Len(x)
                        \/ \E f \in F : /\ b + Len(f) \in B /\ b + Len(f) <= Len(x)
                                        /\ \A j \in 1..Len(f) : x[b + j] = f[j]
  BY Zenon DEF Cut
<1>2. PICK l \in Nat : l = Len(x) /\ l # 0
  BY EmptyIs
<1>3. PICK f \in F : /\ 0 + Len(f) \in B /\ 0 + Len(f) <= Len(x)
                     /\ \A j \in 1..Len(f) : x[0 + j] = f[j]
  BY <1>1, <1>2
<1>4. PICK k \in Nat : k = Len(f) /\ f \in Seq(BYTE)
  <2>1. f \in Seq(BYTE)
    OBVIOUS
  <2>. QED  BY <2>1
<1>5. k \in B /\ k <= l /\ \A j \in 1..k : x[j] = f[j]
  BY <1>2, <1>3, <1>4
<1>6. PICK a, y : a = SubSeq(x, 1, k) /\ y = SubSeq(x, k + 1, l)
  OBVIOUS
<1>7. /\ a \in Seq(BYTE) /\ Len(a) = k /\ \A j \in 1..k : a[j] = x[j]
      /\ y \in Seq(BYTE) /\ Len(y) = l - k /\ \A j \in 1..(l - k) : y[j] = x[k + j]
  BY <1>2, <1>5, <1>6
<1>8. a \o y = x
  BY <1>2, <1>5, <1>6, PartsAre
<1>9. a = f
  <2>1. Len(a) = Len(f) /\ \A j \in 1..Len(a) : a[j] = f[j]
    BY <1>4, <1>5, <1>7
  <2>. QED  BY <1>4, <1>7, <2>1, SameBytes
<1>10. PICK C : C = {n \in Nat : n + k \in B}
  OBVIOUS
<1>11. C \in SUBSET Nat /\ 0 \in C
  BY <1>4, <1>5, <1>10
<1>12. ASSUME NEW b \in C
       PROVE  \/ b = Len(y)
              \/ \E g \in F : /\ b + Len(g) \in C /\ b + Len(g) <= Len(y)
                              /\ \A j \in 1..Len(g) : y[b + j] = g[j]
  <2>1. b \in Nat /\ b + k \in B
    BY <1>10
  <2>2. CASE b + k = l
    <3>1. b = l - k
      BY <2>1, <2>2
    <3>. QED  BY <1>7, <3>1, Zenon
  <2>3. CASE b + k # l
    <3>1. PICK g \in F : /\ (b + k) + Len(g) \in B /\ (b + k) + Len(g) <= Len(x)
                         /\ \A j \in 1..Len(g) : x[(b + k) + j] = g[j]
      BY <1>1, <1>2, <2>1, <2>3
    <3>2. PICK n \in Nat : n = Len(g)
      <4>1. g \in Seq(BYTE)
        OBVIOUS
      <4>. QED  BY <4>1
    <3>3. (b + k) + n = (b + n) + k /\ b + n \in Nat /\ b + n <= l - k
      BY <1>2, <1>4, <2>1, <3>1, <3>2
    <3>4. b + Len(g) \in C /\ b + Len(g) <= Len(y)
      BY <1>7, <1>10, <3>1, <3>2, <3>3
    <3>5. ASSUME NEW j \in 1..n PROVE y[b + j] = g[j]
      <4>1. b + j \in 1..(l - k) /\ k + (b + j) = (b + k) + j
        BY <1>2, <1>4, <2>1, <3>2, <3>3
      <4>. QED  BY <1>7, <3>1, <3>2, <4>1
    <3>. QED  BY <3>2, <3>4, <3>5
  <2>. QED  BY <2>2, <2>3
<1>13. Cut(y, F)
  BY <1>11, <1>12, Zenon DEF Cut
<1>. QED  BY <1>7, <1>8, <1>9, <1>13

-----------------------------------------------------------------------------
(* TCP: transaction ids.                                                   *)

\* The ids taken so far; after TidMax + 1 calls 0 may be one of them.
Used == IF ctx.t_id = 0 /\ req.n > TidMax THEN 0..TidMax ELSE 1..ctx.t_id

\* A request of a call up to now: the running one, or one with another id.
Issued(r) == r.t_id \in Used /\ (pc # "idle" /\ r.t_id = ctx.t_id => r = req)

\* The frames that answer them.
Sent == {f \in Seq(BYTE) : \E r \in Requests :
           Issued(r) /\ (f = Exception(r) \/ (f = Reply(r) /\ r.n \in executed))}

\* Every id is taken once, and the server's frames are whole and answer requests
\* that were made.
Numbered ==
  SleepSuffices /\ MaxCalls <= TidMax + 1 /\ ~Rtu =>
    /\ ctx.t_id <= req.n
    /\ pc # "idle" => req.t_id = ctx.t_id /\ ctx.t_id \in Used
    /\ \A i \in 1..Len(pend) : Issued(pend[i])
    /\ ~torn /\ pc # "flush" => Cut(Stream, Sent)

\* All but the frames.
Tids ==
  /\ ctx.t_id <= req.n
  /\ pc # "idle" => req.t_id = ctx.t_id /\ ctx.t_id \in Used
  /\ \A i \in 1..Len(pend) : Issued(pend[i])

LEMMA SentGrows ==
  ASSUME ctx'.backend = ctx.backend, executed \subseteq executed',
         \A r \in Requests : Issued(r) => Issued(r)'
  PROVE  Sent \subseteq Sent'
<1>. SUFFICES ASSUME NEW f \in Sent PROVE f \in Sent'
  OBVIOUS
<1>1. PICK r \in Requests : Issued(r) /\ (f = Exception(r) \/ (f = Reply(r) /\ r.n \in executed))
  BY DEF Sent
<1>2. f \in Seq(BYTE) /\ Issued(r)'
  BY <1>1 DEF Sent
<1>3. Exception(r)' = Exception(r) /\ Reply(r)' = Reply(r)
  BY DEF Exception, Reply, Frame, Rtu
<1>. QED  BY <1>1, <1>2, <1>3 DEF Sent

LEMMA CutGrows ==
  ASSUME ctx'.backend = ctx.backend, executed \subseteq executed',
         \A r \in Requests : Issued(r) => Issued(r)',
         NEW x, Cut(x, Sent), x = Stream'
  PROVE  Cut(Stream, Sent)'
<1>1. Sent \subseteq Sent'
  BY SentGrows
<1>2. Cut(x, Sent')
  BY <1>1, CutMono
<1>. QED  BY <1>2 DEF Cut

\* Steps that leave the running request alone.
LEMMA SameTids ==
  ASSUME Tids, pend \in Seq(Requests), ctx' = ctx, req' = req, pc' # "idle" => pc # "idle",
         pend' \in {pend, <<>>} \/ (pend # <<>> /\ pend' = Tail(pend))
  PROVE  Tids' /\ \A r \in Requests : Issued(r) => Issued(r)'
<1>1. Used' = Used
  BY DEF Used
<1>2. ASSUME NEW r, Issued(r) PROVE Issued(r)'
  BY <1>1, <1>2 DEF Issued
<1>3. ASSUME NEW i \in 1..Len(pend') PROVE Issued(pend[i])'
  <2>1. PICK k \in 1..Len(pend) : pend'[i] = pend[k]
    <3>1. CASE pend' = pend
      BY <3>1
    <3>2. CASE pend # <<>> /\ pend' = Tail(pend)
      <4>1. Len(Tail(pend)) = Len(pend) - 1 /\ \A j \in 1..(Len(pend) - 1) : Tail(pend)[j] = pend[j + 1]
        BY <3>2
      <4>2. i \in 1..(Len(pend) - 1) /\ i + 1 \in 1..Len(pend)
        <5>1. PICK n \in Nat : n = Len(pend)
          OBVIOUS
        <5>2. i \in 1..(n - 1)
          BY <3>2, <4>1, <5>1
        <5>3. i \in 1..(n - 1) /\ i + 1 \in 1..n
          BY <5>1, <5>2
        <5>. QED  BY <5>1, <5>3
      <4>. QED  BY <3>2, <4>1, <4>2
    <3>3. pend' # <<>>
      OBVIOUS
    <3>. QED  BY <3>1, <3>2, <3>3
  <2>2. Issued(pend[k])
    BY DEF Tids
  <2>. QED  BY <1>1, <2>1, <2>2 DEF Issued
<1>4. Tids'
  BY <1>1, <1>3 DEF Tids
<1>. QED  BY <1>2, <1>4

LEMMA StreamIs ==
  ASSUME Typed
  PROVE  Stream \in Seq(BYTE)
<1>1. rsp \in Seq(BYTE) /\ rx \in Seq(BYTE) /\ wire \in Seq(BYTE)
  BY DEF Typed, RspTyped, LineTyped
<1>2. rsp \o rx \in Seq(BYTE) /\ rx \o wire \in Seq(BYTE)
  BY <1>1, CatBytes
<1>3. (rsp \o rx) \o wire \in Seq(BYTE)
  BY <1>1, <1>2, CatBytes
<1>. QED  BY <1>2, <1>3 DEF Stream

LEMMA SentWhole ==
  ASSUME NEW f \in Sent
  PROVE  f \in Seq(BYTE) /\ Whole(f)
BY ReplyIs DEF Sent

\* Steps that leave alone what is under way, or drop all of it.
LEMMA NumberedSame ==
  ASSUME Typed, Numbered, ctx' = ctx, req' = req, pc' # "idle" => pc # "idle", executed \subseteq executed',
         pend' \in {pend, <<>>} \/ (pend # <<>> /\ pend' = Tail(pend)),
         \/ Stream' = Stream /\ torn' = torn /\ (pc = "flush" => pc' = "flush")
         \/ SleepSuffices => Stream' = <<>>
         \/ pc' = "flush"
  PROVE  Numbered'
<1>1. SUFFICES ASSUME SleepSuffices, MaxCalls <= TidMax + 1, ~Rtu
               PROVE  Tids' /\ (~torn' /\ pc' # "flush" => Cut(Stream, Sent)')
  BY SameBackend DEF Numbered, Tids
<1>2. Tids
  BY <1>1 DEF Numbered, Tids
<1>3. Tids' /\ \A r \in Requests : Issued(r) => Issued(r)'
  BY <1>2, SameTids DEF Typed, LineTyped
<1>4. ASSUME ~torn', pc' # "flush" PROVE Cut(Stream, Sent)'
  <2>1. CASE Stream' = <<>>
    <3>1. Cut(Stream', Sent)
      BY <2>1, CutNone
    <3>. QED  BY <1>3, <3>1, CutGrows
  <2>2. CASE Stream' = Stream /\ torn' = torn /\ (pc = "flush" => pc' = "flush")
    <3>1. Cut(Stream', Sent)
      BY <1>1, <1>4, <2>2 DEF Numbered
    <3>. QED  BY <1>3, <3>1, CutGrows
  <2>. QED  BY <1>1, <1>4, <2>1, <2>2
<1>. QED  BY <1>3, <1>4

LEMMA NumberedInit == Init => Numbered
<1>. SUFFICES ASSUME Init PROVE Numbered
  OBVIOUS
<1>1. ctx.t_id = 0 /\ req.n = 0 /\ pc = "idle" /\ pend = <<>> /\ rx = <<>> /\ wire = <<>>
  BY DEF Init
<1>2. <<>> \o <<>> = <<>> /\ Len(<<>>) = 0
  OBVIOUS
<1>3. Stream = <<>>
  BY <1>1, <1>2 DEF Stream
<1>4. Cut(Stream, Sent)
  BY <1>3, CutNone
<1>. QED  BY <1>1, <1>2, <1>4 DEF Numbered

LEMMA NumberedCall ==
  ASSUME Typed, Numbered, req.n < MaxCalls, NEW c \in Calls[req.n + 1], Call(c)
  PROVE  Numbered'
<1>1. /\ pc = "idle" /\ UNCHANGED <<rx, wire, pend, executed, torn>>
      /\ pc' \in {"idle", "send"} /\ ctx'.backend = ctx.backend
      /\ \/ pc' = "idle" /\ ctx' = ctx
         \/ pc' = "send" /\ ctx'.t_id = NextTid /\ req'.t_id = NextTid
      /\ req'.n = req.n + 1
  BY DEF Call, Return, line, Request, Typed, CtxTyped
<1>2. SUFFICES ASSUME SleepSuffices, MaxCalls <= TidMax + 1, ~Rtu
               PROVE  Tids' /\ (~torn => Cut(Stream, Sent)')
  BY <1>1, SameBackend DEF Numbered, Tids
<1>3. Tids /\ (~torn => Cut(Stream, Sent))
  BY <1>1, <1>2 DEF Numbered, Tids
<1>4. PICK t \in Nat, n \in Nat, top \in Nat :
        /\ t = ctx.t_id /\ n = req.n /\ top = TidMax /\ t <= n /\ t <= top /\ n <= top
  BY <1>2, <1>3, MaxCallsIs, TidMaxIs DEF Typed, CtxTyped, ReqTyped, Tids
<1>5. Used = 1..t /\ req'.n = n + 1
  BY <1>1, <1>4 DEF Used
<1>6. NextTid = IF t < top THEN t + 1 ELSE 0
  BY <1>2, <1>4 DEF NextTid
<1>7. /\ Used \subseteq Used'
      /\ pc' = "send" => NextTid \in Used' /\ NextTid \notin Used /\ NextTid <= n + 1
  <2>1. CASE ctx' = ctx
    <3>1. Used' = IF t = 0 /\ n + 1 > top THEN 0..top ELSE 1..t
      BY <1>4, <1>5, <2>1 DEF Used
    <3>2. Used \subseteq Used'
      BY <1>4, <1>5, <3>1
    <3>3. CASE pc' = "send"
      <4>1. NextTid = t
        BY <1>1, <1>4, <2>1, <3>3
      <4>2. t = 0 /\ top = 0
        BY <1>4, <1>6, <4>1
      <4>3. NextTid = 0 /\ n + 1 > top
        BY <1>4, <4>1, <4>2
      <4>. QED  BY <1>4, <1>5, <3>1, <3>2, <4>2, <4>3
    <3>. QED  BY <3>2, <3>3
  <2>2. CASE ctx'.t_id = NextTid
    <3>1. CASE t < top
      <4>1. Used' = 1..(t + 1) /\ NextTid = t + 1
        BY <1>4, <1>5, <1>6, <2>2, <3>1 DEF Used
      <4>. QED  BY <1>4, <1>5, <4>1
    <3>2. CASE ~(t < top)
      <4>1. NextTid = 0 /\ t = top /\ n + 1 > top
        BY <1>4, <1>6, <3>2
      <4>2. Used' = 0..top
        BY <1>4, <1>5, <2>2, <4>1 DEF Used
      <4>. QED  BY <1>4, <1>5, <4>1, <4>2
    <3>. QED  BY <3>1, <3>2
  <2>. QED  BY <1>1, <2>1, <2>2
<1>8. ASSUME NEW r, Issued(r) PROVE Issued(r)'
  <2>1. r.t_id \in Used /\ r.t_id \in Used'
    BY <1>7, <1>8 DEF Issued
  <2>2. pc' # "idle" => r.t_id # ctx'.t_id
    BY <1>1, <1>7, <2>1
  <2>. QED  BY <2>1, <2>2 DEF Issued
<1>9. Tids'
  <2>1. ctx'.t_id <= req'.n
    BY <1>1, <1>4, <1>5, <1>7
  <2>2. pc' # "idle" => req'.t_id = ctx'.t_id /\ ctx'.t_id \in Used'
    BY <1>1, <1>7
  <2>3. ASSUME NEW i \in 1..Len(pend') PROVE Issued(pend[i])'
    <3>1. PICK r : r = pend[i] /\ r = pend'[i]
      BY <1>1
    <3>2. Issued(r)
      BY <1>1, <1>3, <3>1 DEF Tids
    <3>3. Issued(r)'
      BY <1>8, <3>2
    <3>. QED  BY <3>1, <3>3 DEF Issued
  <2>. QED  BY <2>1, <2>2, <2>3 DEF Tids
<1>10. Stream' = Stream
  BY <1>1 DEF Stream
<1>11. ~torn => Cut(Stream, Sent)'
  BY <1>1, <1>3, <1>8, <1>10, CutGrows
<1>. QED  BY <1>1, <1>9, <1>11

LEMMA NumberedSend ==
  ASSUME Typed, Numbered, SendMsg
  PROVE  Numbered'
<1>1. /\ UNCHANGED <<ctx, req, rx, wire, executed, torn>> /\ pc = "send" /\ pc' = "recv"
      /\ rsp' = <<>> /\ pend' = Append(pend, req)
  BY DEF SendMsg
<1>2. /\ rx \in Seq(BYTE) /\ wire \in Seq(BYTE) /\ pend \in Seq(Requests) /\ req \in Requests
  BY <1>1 DEF Typed, LineTyped, ReqTyped
<1>3. SUFFICES ASSUME SleepSuffices, MaxCalls <= TidMax + 1, ~Rtu
               PROVE  Tids' /\ (~torn => Cut(Stream, Sent)')
  BY <1>1, SameBackend DEF Numbered, Tids
<1>4. Tids /\ (~torn => Cut(Stream, Sent))
  BY <1>1, <1>3 DEF Numbered, Tids
<1>5. Used' = Used
  BY <1>1 DEF Used
<1>6. ASSUME NEW r, Issued(r) PROVE Issued(r)'
  BY <1>1, <1>5, <1>6 DEF Issued
<1>7. Issued(req)
  BY <1>1, <1>4 DEF Issued, Tids
<1>8. ASSUME NEW i \in 1..Len(pend') PROVE Issued(pend[i])'
  <2>1. Issued(pend'[i])
    <3>1. Len(pend') = Len(pend) + 1 /\ pend'[Len(pend) + 1] = req /\ \A j \in 1..Len(pend) : pend'[j] = pend[j]
      BY <1>1, <1>2
    <3>2. i \in 1..Len(pend) \/ i = Len(pend) + 1
      BY <1>2, <3>1
    <3>. QED  BY <1>4, <1>7, <3>1, <3>2 DEF Tids
  <2>. QED  BY <1>1, <1>5, <2>1 DEF Issued
<1>9. Tids'
  BY <1>1, <1>4, <1>5, <1>8 DEF Tids
<1>10. Stream' = Stream
  <2>1. <<>> \o rx = rx
    BY <1>2, CatNone
  <2>. QED  BY <1>1, <2>1 DEF Stream
<1>11. ~torn => Cut(Stream, Sent)'
  BY <1>1, <1>4, <1>6, <1>10, CutGrows
<1>. QED  BY <1>9, <1>11

LEMMA NumberedAnswer ==
  ASSUME Typed, Numbered, Answer
  PROVE  Numbered'
<1>1. /\ UNCHANGED <<ctx, pc, req, rsp, rx, torn>> /\ pend # <<>> /\ pend' = Tail(pend)
      /\ \/ wire' = wire \o Reply(Head(pend)) /\ executed' = executed \cup {Head(pend).n}
         \/ wire' = wire \o Exception(Head(pend)) /\ executed' = executed
  BY DEF Answer
<1>2. SUFFICES ASSUME SleepSuffices, MaxCalls <= TidMax + 1, ~Rtu
               PROVE  Tids' /\ (~torn /\ pc # "flush" => Cut(Stream, Sent)')
  BY <1>1, SameBackend DEF Numbered, Tids
<1>3. Tids /\ (~torn /\ pc # "flush" => Cut(Stream, Sent))
  BY <1>2 DEF Numbered, Tids
<1>4. pend \in Seq(Requests) /\ wire \in Seq(BYTE) /\ rsp \in Seq(BYTE) /\ rx \in Seq(BYTE)
  BY DEF Typed, LineTyped, RspTyped
<1>5. Tids' /\ \A r \in Requests : Issued(r) => Issued(r)'
  BY <1>1, <1>3, <1>4, SameTids
<1>6. Sent \subseteq Sent'
  BY <1>1, <1>5, SentGrows
<1>7. PICK r \in Requests : r = Head(pend) /\ Issued(r)
  <2>1. Head(pend) = pend[1] /\ 1 \in 1..Len(pend) /\ Head(pend) \in Requests
    BY <1>1, <1>4
  <2>. QED  BY <1>3, <2>1 DEF Tids
<1>8. PICK f : /\ wire' = wire \o f /\ f \in Seq(BYTE)
               /\ f = Exception(r) \/ (f = Reply(r) /\ r.n \in executed')
  <2>1. Reply(r) \in Seq(BYTE) /\ Exception(r) \in Seq(BYTE)
    BY ReplyIs
  <2>. QED  BY <1>1, <1>7, <2>1
<1>9. f \in Sent'
  <2>1. Exception(r)' = Exception(r) /\ Reply(r)' = Reply(r)
    BY <1>1 DEF Exception, Reply, Frame, Rtu
  <2>2. Issued(r)'
    BY <1>5, <1>7
  <2>. QED  BY <1>8, <2>1, <2>2 DEF Sent
<1>10. Stream' = Stream \o f
  <2>1. rsp \o rx \in Seq(BYTE)
    BY <1>4, CatBytes
  <2>2. ((rsp \o rx) \o wire) \o f = (rsp \o rx) \o (wire \o f) /\ (rx \o wire) \o f = rx \o (wire \o f)
    BY <1>4, <1>8, <2>1, CatAssoc
  <2>. QED  BY <1>1, <1>8, <2>2 DEF Stream
<1>11. ASSUME ~torn, pc # "flush" PROVE Cut(Stream, Sent)'
  <2>1. Cut(Stream, Sent')
    BY <1>3, <1>6, <1>11, CutMono
  <2>2. Sent' \subseteq Seq(BYTE)
    BY DEF Sent
  <2>3. Cut(Stream \o f, Sent')
    BY <1>9, <2>1, <2>2, StreamIs, CutAppend
  <2>. QED  BY <1>10, <2>3 DEF Cut
<1>. QED  BY <1>5, <1>11

\* A complete TCP answer is one of the frames that were sent.
LEMMA SentFrame ==
  ASSUME NEW w, NEW u \in Seq(BYTE), Whole(w), Cut(w \o u, Sent)
  PROVE  w \in Sent /\ Cut(u, Sent)
<1>1. w \in Seq(BYTE) /\ Len(w) > 0
  BY SizesAre DEF Whole
<1>2. PICK x : x = w \o u
  OBVIOUS
<1>3. x \in Seq(BYTE) /\ x # <<>>
  BY <1>1, <1>2, CatBytes, CatIsNone, EmptyIs
<1>4. Sent \subseteq Seq(BYTE)
  BY DEF Sent
<1>5. PICK f \in Sent, y \in Seq(BYTE) : x = f \o y /\ Cut(y, Sent)
  BY <1>2, <1>3, <1>4, CutFirst
<1>6. Whole(f)
  BY SentWhole
<1>7. w = f /\ u = y
  BY <1>2, <1>5, <1>6, WholeOnce
<1>. QED  BY <1>5, <1>7

LEMMA NumberedRecv ==
  ASSUME Typed, Numbered, Recv
  PROVE  Numbered'
<1>1. /\ UNCHANGED <<ctx, s, up, req, wire, pend, executed, faults>> /\ pc = "recv"
      /\ req \in Requests /\ torn \in BOOLEAN
  BY RecvLeads
<1>2. PICK w \in Seq(BYTE), y \in Seq(BYTE), u \in Seq(BYTE) :
        /\ Stream = w \o u /\ Stream = (w \o y) \o wire /\ u = y \o wire
        /\ Len(w) > 0 /\ rsp' = w /\ Outcome(w, y)
  BY RecvLeads
<1>3. CASE pc' = "recv" /\ rsp' = w /\ rx' = y /\ UNCHANGED <<quiet, torn, res>>
  <2>1. Stream' = Stream
    BY <1>1, <1>2, <1>3 DEF Stream
  <2>. QED  BY <1>1, <1>3, <2>1, NumberedSame
<1>4. SUFFICES ASSUME SleepSuffices, MaxCalls <= TidMax + 1, ~Rtu, torn' = TRUE \/ (Complete(w, y) /\ Whole(w))
               PROVE  Tids' /\ (~torn' /\ pc' # "flush" => Cut(Stream, Sent)')
  BY <1>1, <1>2, <1>3, SameBackend DEF Numbered, Tids, Outcome
<1>5. Tids /\ (~torn => Cut(Stream, Sent))
  BY <1>1, <1>4 DEF Numbered, Tids
<1>6. Tids' /\ \A r \in Requests : Issued(r) => Issued(r)'
  BY <1>1, <1>5, SameTids DEF Typed, LineTyped
<1>7. ASSUME ~torn', pc' # "flush" PROVE Cut(Stream, Sent)'
  <2>1. Complete(w, y) /\ Whole(w)
    BY <1>4, <1>7
  <2>2. torn' = torn /\ rx' = y /\ pc' = "idle"
    <3>1. Len(w) \in Nat
      BY <1>2
    <3>. QED  BY <1>1, <1>7, <2>1, <3>1, CompleteIs
  <2>3. Cut(w \o u, Sent)
    BY <1>2, <1>5, <1>7, <2>2
  <2>4. Cut(u, Sent)
    BY <1>2, <2>1, <2>3, SentFrame
  <2>5. Stream' = u
    BY <1>1, <1>2, <2>2 DEF Stream
  <2>. QED  BY <1>1, <1>6, <2>4, <2>5, CutGrows
<1>. QED  BY <1>6, <1>7

LEMMA NumberedTimeout ==
  ASSUME Typed, Numbered, Timeout
  PROVE  Numbered'
<1>1. /\ UNCHANGED <<ctx, req, rsp, rx, wire, pend, executed>> /\ pc = "recv" /\ pc' \in {"idle", "flush"}
      /\ rx = <<>> /\ (Link => pc' = "flush")
      /\ torn' = (torn \/ (rsp # <<>> /\ ~Silent /\ ~Link))
  BY DEF Timeout, SelectTimesOut, line, Return
<1>2. /\ rsp \in Seq(BYTE) /\ wire \in Seq(BYTE) /\ pend \in Seq(Requests)
      /\ Reading(rsp, step, to_read)
  BY <1>1 DEF Typed, LineTyped, RspTyped
<1>3. SUFFICES ASSUME SleepSuffices, MaxCalls <= TidMax + 1, ~Rtu
               PROVE  Tids' /\ (~torn' /\ pc' # "flush" => Cut(Stream, Sent)')
  BY <1>1, SameBackend DEF Numbered, Tids
<1>4. Tids /\ (~torn => Cut(Stream, Sent))
  BY <1>1, <1>3 DEF Numbered, Tids
<1>5. Tids' /\ \A r \in Requests : Issued(r) => Issued(r)'
  BY <1>1, <1>2, <1>4, SameTids
<1>6. ASSUME ~torn', pc' # "flush" PROVE Cut(Stream, Sent)'
  <2>1. ~torn /\ (rsp = <<>> \/ Silent)
    BY <1>1, <1>6
  <2>2. Cut(Stream, Sent)
    BY <1>4, <2>1
  <2>3. rsp = <<>>
    <3>1. SUFFICES ASSUME rsp # <<>>, wire = <<>> PROVE FALSE
      BY <2>1 DEF Silent
    <3>2. Stream = rsp
      BY <1>1, <1>2, <3>1, CatNone DEF Stream
    <3>3. Sent \subseteq Seq(BYTE)
      BY DEF Sent
    <3>4. PICK f \in Sent, y \in Seq(BYTE) : rsp = f \o y
      <4>1. rsp \in Seq(BYTE) /\ Cut(rsp, Sent)
        BY <1>2, <2>2, <3>2
      <4>2. \E f \in Sent : \E y \in Seq(BYTE) : rsp = f \o y /\ Cut(y, Sent)
        BY <3>1, <3>3, <4>1, CutFirst, Zenon
      <4>. QED  BY <4>2, Zenon
    <3>5. Whole(f) /\ f \in Seq(BYTE)
      BY SentWhole
    <3>6. <<>> \in Seq(BYTE) /\ rsp \o <<>> = f \o y
      BY <1>2, <3>4, CatNone
    <3>7. Len(rsp) < Len(f)
      BY <1>2, <3>5, <3>6, ReadLess
    <3>8. Len(rsp) = Len(f) + Len(y)
      BY <3>4, <3>5, CatBytes
    <3>9. Len(f) \in Nat /\ Len(y) \in Nat
      BY <3>5
    <3>. QED  BY <3>7, <3>8, <3>9
  <2>4. Stream' = Stream
    <3>1. <<>> \o <<>> = <<>>
      OBVIOUS
    <3>. QED  BY <1>1, <1>6, <2>3, <3>1 DEF Stream
  <2>. QED  BY <1>1, <1>5, <2>2, <2>4, CutGrows
<1>. QED  BY <1>5, <1>6

LEMMA NumberedNext == Typed /\ Numbered /\ [Next]_vars => Numbered'
<1>. SUFFICES ASSUME Typed, Numbered, [Next]_vars PROVE Numbered'
  OBVIOUS
<1>1. CASE Done \/ UNCHANGED vars
  <2>1. UNCHANGED <<ctx, pc, req, rsp, rx, wire, pend, executed, torn>>
    BY <1>1 DEF Done, vars
  <2>2. Stream' = Stream
    BY <2>1 DEF Stream
  <2>. QED  BY <2>1, <2>2, NumberedSame
<1>2. CASE SendShort \/ SendFails \/ SendBusy
  <2>1. /\ UNCHANGED <<ctx, req, rsp, rx, wire, pend, executed, torn>>
        /\ pc = "send" /\ pc' \in {"idle", "reconnect", "resend"}
    BY <1>2 DEF SendShort, SendFails, SendBusy, Return, line
  <2>2. Stream' = Stream
    BY <2>1 DEF Stream
  <2>. QED  BY <2>1, <2>2, NumberedSame
<1>3. CASE Reconnect \/ RecvClosed
  <2>1. /\ UNCHANGED <<ctx, req, executed, torn>> /\ pc # "idle" /\ pc' \in {"idle", "send"}
        /\ pend' \in {pend, <<>>} /\ rx' = <<>> /\ (~Rtu => wire' = <<>>)
    BY <1>3 DEF Reconnect, RecvClosed, DropLine, line
  <2>2. <<>> \o <<>> = <<>>
    OBVIOUS
  <2>3. CASE ~Rtu
    <3>1. Stream' = <<>>
      BY <2>1, <2>2, <2>3 DEF Stream
    <3>. QED  BY <2>1, <3>1, NumberedSame
  <2>4. CASE Rtu
    BY <2>1, <2>4, SameBackend DEF Numbered
  <2>. QED  BY <2>3, <2>4
<1>4. CASE Lose \/ PeerCloses
  <2>1. /\ UNCHANGED <<ctx, pc, req, rsp, rx, wire, torn>> /\ executed \subseteq executed'
        /\ pend' \in {pend, <<>>} \/ (pend # <<>> /\ pend' = Tail(pend))
    BY <1>4 DEF Lose, PeerCloses
  <2>2. Stream' = Stream
    BY <2>1 DEF Stream
  <2>. QED  BY <2>1, <2>2, NumberedSame
<1>5. CASE Noise
  BY <1>5, SameBackend DEF Noise, Numbered
<1>6. CASE Deliver
  <2>1. UNCHANGED <<ctx, pc, req, rsp, pend, executed, torn>>
    BY <1>6 DEF Deliver
  <2>2. Stream' = Stream
    BY <1>6, DeliverStream
  <2>. QED  BY <2>1, <2>2, NumberedSame
<1>7. CASE Flush \/ FlushAndResend
  <2>1. /\ UNCHANGED <<ctx, req, pend, executed, torn>> /\ pc # "idle" /\ pc' \in {"idle", "send"}
        /\ SleepSuffices => rx' = <<>> /\ wire' = <<>>
    BY <1>7 DEF Flush, FlushAndResend, Flushed, Return, Silent
  <2>2. <<>> \o <<>> = <<>>
    OBVIOUS
  <2>3. SleepSuffices => Stream' = <<>>
    BY <2>1, <2>2 DEF Stream
  <2>. QED  BY <2>1, <2>3, NumberedSame
<1>. QED  BY <1>1, <1>2, <1>3, <1>4, <1>5, <1>6, <1>7, NumberedCall, NumberedSend, NumberedAnswer,
             NumberedRecv, NumberedTimeout DEF Next

-----------------------------------------------------------------------------
(* A successful call has the answer to its own request.                    *)

\* A TCP frame carries the id of its request.
LEMMA TidOf ==
  ASSUME NEW r \in Requests, ~Rtu, NEW f, f = Reply(r) \/ f = Exception(r)
  PROVE  f[1].v = Hi(r.t_id) /\ f[2].v = Lo(r.t_id)
<1>1. r.t_id \in uint16_t
  BY DEF Requests
<1>2. PICK pdu : /\ f = Frame(r.t_id, pdu) /\ Ends(pdu)
  <2>1. Ends(Pdu(r)) /\ Ends(<<r.fc + 128, 6>>)
    BY PduIs, ExceptionIs
  <2>. QED  BY <2>1 DEF Reply, Exception
<1>3. pdu \in Seq(uint8_t) /\ Len(pdu) > 0 /\ Len(pdu) <= 252
  BY <1>2 DEF Ends
<1>4. PICK t \in uint16_t : t = r.t_id
  BY <1>1
<1>5. ~Rtu => Frame(t, pdu)[1].v = Hi(t) /\ Frame(t, pdu)[2].v = Lo(t)
  BY <1>3, FrameIs, Zenon
<1>. QED  BY <1>2, <1>4, <1>5

LEMMA OwnRecv ==
  ASSUME SleepSuffices, Rtu \/ MaxCalls <= TidMax + 1, Typed, Single, Numbered, Recv,
         ~torn', pc' = "idle", res'.rc >= 0, Link \/ ~Rtu
  PROVE  Own'
<1>1. /\ UNCHANGED <<ctx, s, up, req, wire, pend, executed, faults>> /\ pc = "recv"
      /\ req \in Requests /\ torn \in BOOLEAN
  BY RecvLeads
<1>2. PICK w \in Seq(BYTE), y \in Seq(BYTE), u \in Seq(BYTE) :
        /\ Stream = w \o u /\ Stream = (w \o y) \o wire /\ u = y \o wire
        /\ Len(w) > 0 /\ rsp' = w /\ Outcome(w, y)
  BY RecvLeads
<1>3. Complete(w, y) /\ Whole(w)
  BY <1>2 DEF Outcome
<1>4. /\ ~torn /\ (Rtu => crc_matches(w))
      /\ check_confirmation(req, w, Len(w)) = "ok"
      /\ res' = [rc |-> ReturnValue(req, w), errno |-> "none"]
  <2>1. \/ torn' = TRUE
        \/ /\ torn' = torn /\ rx' = y /\ Protocol
           /\ pc' = "flush" /\ quiet' = quiet /\ res'.rc = -1
           /\ check_confirmation(req, w, check_integrity(w)) # "ok"
        \/ /\ torn' = torn /\ rx' = y /\ pc' = "idle" /\ quiet' = Quieter
           /\ check_integrity(w) = Len(w) /\ (Rtu => crc_matches(w))
           /\ \/ /\ check_confirmation(req, w, Len(w)) = "ok"
                 /\ res' = [rc |-> ReturnValue(req, w), errno |-> "none"]
              \/ check_confirmation(req, w, Len(w)) # "ok" /\ res'.rc = -1
    <3>1. Len(w) \in Nat
      BY <1>2
    <3>. QED  BY <1>1, <1>3, <3>1, CompleteIs, Zenon
  <2>2. ~(res'.rc = -1)
    OBVIOUS
  <2>. QED  BY <2>1, <2>2
<1>5. pre_check_confirmation(req, w) /\ ~(Fn(w) >= 128)
  BY <1>4, OkIs
<1>6. w = Reply(req) /\ req.n \in executed
  <2>1. CASE Rtu
    <3>1. w \o u # <<>>
      BY <1>2, CatIsNone, EmptyIs
    <3>2. Alone(w \o u)
      BY <1>1, <1>2, <1>4, <2>1, <3>1 DEF Single
    <3>3. w = Exception(req) \/ (w = Reply(req) /\ req.n \in executed)
      BY <1>1, <1>3, <1>4, <3>2, OneFrame
    <3>4. w # Exception(req)
      BY <1>1, <1>5, ExceptionIs, ReplyIs
    <3>. QED  BY <3>3, <3>4
  <2>2. CASE ~Rtu
    <3>1. Cut(w \o u, Sent) /\ Tids
      BY <1>1, <1>2, <1>4, <2>2 DEF Numbered, Tids
    <3>2. w \in Sent
      BY <1>3, <3>1, SentFrame
    <3>3. PICK r \in Requests : Issued(r) /\ (w = Exception(r) \/ (w = Reply(r) /\ r.n \in executed))
      BY <3>2 DEF Sent
    <3>4. w = Reply(r) /\ r.n \in executed
      BY <1>5, <3>3, ExceptionIs, ReplyIs
    <3>5. w[1].v = Hi(r.t_id) /\ w[2].v = Lo(r.t_id)
      BY <2>2, <3>4, TidOf
    <3>6. Hi(r.t_id) = Hi(req.t_id) /\ Lo(r.t_id) = Lo(req.t_id)
      BY <1>5, <2>2, <3>5 DEF pre_check_confirmation
    <3>7. r.t_id = req.t_id
      <4>1. r.t_id \in uint16_t /\ req.t_id \in uint16_t
        BY <1>1 DEF Requests
      <4>2. r.t_id = 256 * Hi(r.t_id) + Lo(r.t_id) /\ req.t_id = 256 * Hi(req.t_id) + Lo(req.t_id)
        BY <4>1, HiLo
      <4>. QED  BY <3>6, <4>2
    <3>8. r = req
      BY <1>1, <3>1, <3>3, <3>7 DEF Issued, Tids
    <3>. QED  BY <3>4, <3>8
  <2>. QED  BY <2>1, <2>2
<1>7. ReturnValue(req, w) = Expected(req)
  BY <1>1, <1>6, ReplyAccepted
<1>8. Reply(req)' = Reply(req)
  BY <1>1 DEF Reply, Frame, Rtu
<1>9. res'.rc = Expected(req)
  BY <1>4, <1>7
<1>. QED  BY <1>1, <1>2, <1>6, <1>8, <1>9 DEF Own

LEMMA OwnNext ==
  ASSUME SleepSuffices, Rtu \/ MaxCalls <= TidMax + 1,
         Typed, Single, Numbered, OwnAnswer, [Next]_vars
  PROVE  OwnAnswer'
<1>1. ctx'.backend = ctx.backend /\ ctx'.recovery = ctx.recovery
  BY SameContext
<1>2. SUFFICES ASSUME pc' = "idle", req'.n > 0, res'.rc >= 0, Link \/ ~Rtu, ~torn' PROVE Own'
  BY <1>1, SameLink, SameBackend DEF OwnAnswer, Succeeded
<1>3. CASE Recv
  BY <1>2, <1>3, OwnRecv
<1>4. CASE pc = "idle" /\ UNCHANGED <<ctx, req, rsp, res, torn>> /\ executed \subseteq executed'
  <2>1. Own
    BY <1>2, <1>4 DEF OwnAnswer, Succeeded
  <2>2. Reply(req)' = Reply(req)
    BY <1>4 DEF Reply, Frame, Rtu
  <2>. QED  BY <1>4, <2>1, <2>2 DEF Own
<1>5. CASE res'.rc = -1
  BY <1>2, <1>5
<1>6. ASSUME NEW c, Call(c) PROVE Own'
  <2>1. res' = [rc |-> -1, errno |-> "EMBMDATA"]
    BY <1>2, <1>6 DEF Call, Return
  <2>. QED  BY <1>5, <2>1
<1>7. CASE SendMsg \/ SendShort \/ SendFails \/ SendBusy \/ Reconnect
  BY <1>2, <1>5, <1>7 DEF SendMsg, SendShort, SendFails, SendBusy, Reconnect, Return
<1>8. CASE Answer \/ Lose \/ Noise \/ Deliver \/ PeerCloses \/ Done \/ UNCHANGED vars
  BY <1>2, <1>4, <1>8 DEF Answer, Lose, Noise, Deliver, PeerCloses, Done, vars
<1>9. CASE Timeout \/ RecvClosed \/ Flush \/ FlushAndResend
  BY <1>2, <1>5, <1>9 DEF Timeout, RecvClosed, Flush, FlushAndResend, Return
<1>. QED  BY <1>3, <1>6, <1>7, <1>8, <1>9 DEF Next

\* No transaction id is taken twice: there are not more calls than ids, or the
\* calls go over serial lines, which have none.
IdsSuffice == MaxCalls <= TidMax + 1 \/ \A m \in Modes : m[1] = "RTU"

\* A call that returns success has the answer to its own request, which the server
\* has executed, and returns what it reports: for TCP in the first TidMax + 1 calls,
\* for RTU with link recovery in any number of them, as long as no answer was given
\* up in the middle and a sleep outlasts every answer under way
\* (check_confirmation, _modbus_tcp_pre_check_confirmation).
THEOREM AnswersOwn == SleepSuffices /\ IdsSuffice => (Spec => []OwnAnswer)
<1>. SUFFICES ASSUME SleepSuffices, IdsSuffice PROVE Spec => []OwnAnswer
  OBVIOUS
<1>. DEFINE Distinct == Rtu \/ MaxCalls <= TidMax + 1
<1>1. Init => OwnAnswer /\ Distinct
  BY DEF Init, OwnAnswer, Succeeded, IdsSuffice, Rtu
<1>2. Typed /\ Distinct /\ [Next]_vars => Distinct'
  BY SameContext DEF Rtu, MaxCalls
<1>3. Distinct /\ Typed /\ Single /\ Numbered /\ OwnAnswer /\ [Next]_vars => OwnAnswer'
  BY OwnNext
<1>. HIDE DEF Distinct
<1>. QED  BY <1>1, <1>2, <1>3, TypedInit, TypedNext, SingleInit, SingleNext, NumberedInit, NumberedNext, PTL DEF Spec
=============================================================================
