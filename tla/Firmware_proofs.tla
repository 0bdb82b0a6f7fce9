--------------------------- MODULE Firmware_proofs ---------------------------
(***************************************************************************)
(* Proofs about flashing over SPI: type correctness, and that an image     *)
(* whose transfer ended with the confirming operation is in the board, for *)
(* images of any size and any number of faults.                            *)
(***************************************************************************)
EXTENDS Firmware, TLAPS

\* What is left of a plan.
Rest == {<<>>, <<"bin">>, <<"bin", "rw">>, <<"rw">>, <<"rw", "swapped">>, <<"swapped">>}

\* An image is sent once, and the program before the settings: the confirming
\* operation of the program may burn the first page of the settings.
PlanInv ==
  /\ todo \in Rest
  /\ todo \in {<<"bin">>, <<"bin", "rw">>} => pc # "send" /\ complete = {}
  /\ todo \in {<<"rw">>, <<"rw", "swapped">>} =>
       "rw" \notin complete /\ (pc = "send" => img = "bin")
  /\ pc = "send" => img \notin complete /\ (img = "bin" => complete = {})

\* The first n pages of image i are in the flash f.
Burned(f, i, n) == \A k \in 0..(n - 1) : f[Start(i) + k] = <<i, k>>

\* The sender is at the page behind the last one it had an answer for, or back at
\* that one.
PlaceInv ==
  pc = "send" =>
    \/ prev = -1 /\ address = Start(img)
    \/ /\ prev \in Start(img)..(Start(img) + Pages(img) - 1)
       /\ address \in {prev, prev + 1}

\* The pages before prev are burned, and prev itself if the board, which is asked
\* next, will say so.
SentInv ==
  pc = "send" /\ prev # -1 /\ ioctls = 0 =>
    /\ Burned(flash, img, prev - Start(img))
    /\ address = prev + 1 /\ mode = "prog" /\ good =>
         flash[prev] = <<img, prev - Start(img)>>

IInv == TypeOK /\ PlanInv /\ PlaceInv /\ SentInv /\ CompleteIsBurned

-----------------------------------------------------------------------------

\* The images, and the page behind each of them, lie below the read-only page.
LEMMA Layout ==
  ASSUME NEW i \in Image
  PROVE  /\ Start(i) \in Nat /\ Pages(i) \in Nat \ {0}
         /\ Start(i) + Pages(i) < ReadOnly
         /\ ReadOnly \in Nat
BY FirmwareAssumption DEF Image, Start, Pages

\* One firmware operation on page p with data d, whatever goes wrong in it: only
\* page p changes; a board that is still in programming mode and counts its last
\* operation as good has d in page p; and the key in the answer means that the
\* operation before was good.  The last two need that no ioctl has failed.
LEMMA OneOperation ==
  ASSUME TypeOK, NEW p \in Page, p # ReadOnly, NEW d \in Contents, FirmwareOp(p, d)
  PROVE  /\ mode' = mode /\ good' \in BOOLEAN /\ key' \in BOOLEAN
         /\ flash' \in [Page -> Contents]
         /\ faults' \in 0..MaxFault /\ ioctls' \in 0..MaxIoctl
         /\ \A q \in Page : q # p => flash'[q] = flash[q]
         /\ ioctls' = 0 => ioctls = 0
         /\ ioctls' = 0 /\ mode = "prog" /\ good' => flash'[p] = d
         /\ ioctls' = 0 /\ key' => mode = "prog" /\ good
<1>. USE FirmwareAssumption
<1>1. Garbage \in Contents
  BY DEF Garbage, Contents
<1>2. /\ mode \in {"run", "prog"} /\ good \in BOOLEAN /\ key \in BOOLEAN
      /\ flash \in [Page -> Contents]
      /\ faults \in 0..MaxFault /\ ioctls \in 0..MaxIoctl
  BY DEF TypeOK
<1>3. ASSUME Burns(p, d)
      PROVE  /\ mode' = mode /\ good' \in BOOLEAN
             /\ flash' \in [Page -> Contents]
             /\ \A q \in Page : q # p => flash'[q] = flash[q]
             /\ mode = "prog" /\ good' => flash'[p] = d
  <2>1. CASE mode # "prog"
    BY <1>2, <1>3, <2>1 DEF Burns, bvars
  <2>2. CASE mode = "prog" /\ p \in BadPages
    BY <1>1, <1>2, <1>3, <2>2 DEF Burns
  <2>3. CASE mode = "prog" /\ p \notin BadPages
    BY <1>1, <1>2, <1>3, <2>3 DEF Burns
  <2>. QED  BY <2>1, <2>2, <2>3
<1>4. ASSUME BurnsNot(p)
      PROVE  /\ mode' = mode /\ good' = FALSE
             /\ flash' \in [Page -> Contents]
             /\ \A q \in Page : q # p => flash'[q] = flash[q]
  BY <1>1, <1>2, <1>4 DEF BurnsNot
<1>5. ASSUME Answers
      PROVE  key' \in BOOLEAN /\ (key' => mode = "prog" /\ good)
  BY <1>5 DEF Answers
<1>6. CASE Answers /\ Burns(p, d) /\ UNCHANGED <<faults, ioctls>>
  BY <1>2, <1>3, <1>5, <1>6
<1>7. CASE faults < MaxFault /\ faults' = faults + 1 /\ ioctls' = ioctls /\ Answers /\ BurnsNot(p)
  <2>1. faults' \in 0..MaxFault
    BY <1>2, <1>7
  <2>. QED  BY <1>2, <1>4, <1>5, <1>7, <2>1
<1>8. CASE faults < MaxFault /\ faults' = faults + 1 /\ ioctls' = ioctls /\ key' = FALSE /\ Burns(p, d)
  <2>1. faults' \in 0..MaxFault
    BY <1>2, <1>8
  <2>. QED  BY <1>2, <1>3, <1>8, <2>1
<1>9. CASE ioctls < MaxIoctl /\ ioctls' = ioctls + 1 /\ faults' = faults /\ key' = key /\ UNCHANGED bvars
  <2>1. ioctls' \in 0..MaxIoctl /\ ioctls' # 0
    BY <1>2, <1>9
  <2>. QED  BY <1>2, <1>9, <2>1 DEF bvars
<1>. QED  BY <1>6, <1>7, <1>8, <1>9 DEF FirmwareOp

-----------------------------------------------------------------------------

\* What is left of a plan is a sequence of images, and so is its tail.
LEMMA RestOfPlan ==
  /\ Rest \subseteq Seq(Image \cup {"swapped"})
  /\ Head(<<"bin">>) = "bin" /\ Tail(<<"bin">>) = <<>>
  /\ Head(<<"bin", "rw">>) = "bin" /\ Tail(<<"bin", "rw">>) = <<"rw">>
  /\ Head(<<"rw">>) = "rw" /\ Tail(<<"rw">>) = <<>>
  /\ Head(<<"rw", "swapped">>) = "rw" /\ Tail(<<"rw", "swapped">>) = <<"swapped">>
  /\ Head(<<"swapped">>) = "swapped" /\ Tail(<<"swapped">>) = <<>>
<1>. DEFINE S == Image \cup {"swapped"}
<1>1. "bin" \in S /\ "rw" \in S /\ "swapped" \in S
  BY DEF Image
<1>. HIDE DEF S
<1>2. <<>> \in Seq(S)
  OBVIOUS
<1>3. \A a \in S : <<a>> \in Seq(S) /\ Head(<<a>>) = a /\ Tail(<<a>>) = <<>>
  OBVIOUS
<1>4. \A a, b \in S : <<a, b>> \in Seq(S) /\ Head(<<a, b>>) = a /\ Tail(<<a, b>>) = <<b>>
  OBVIOUS
<1>5. Rest \subseteq Seq(S)
  BY <1>1, <1>2, <1>3, <1>4 DEF Rest
<1>. QED  BY <1>1, <1>3, <1>4, <1>5 DEF S

\* The initial states satisfy the invariant.
LEMMA InitInv == Init => IInv
<1>. SUFFICES ASSUME Init PROVE IInv
  OBVIOUS
<1>. USE FirmwareAssumption
<1>1. todo \in {<<"bin">>, <<"bin", "rw">>, <<"rw", "swapped">>}
  BY DEF Init, Plan
<1>2. todo \in Seq(Image \cup {"swapped"})
  BY <1>1, RestOfPlan DEF Rest
<1>3. Old \in Contents /\ <<"zero", 0>> \in Contents
  BY DEF Old, Contents
<1>4. TypeOK
  <2>1. flash \in [Page -> Contents] /\ txdata \in Contents
    BY <1>3 DEF Init
  <2>2. faults \in 0..MaxFault /\ ioctls \in 0..MaxIoctl /\ prev \in -1..ReadOnly
    BY DEF Init
  <2>3. img \in Image /\ complete \subseteq Image
    BY DEF Init, Image
  <2>4. pc = "start" /\ mode = "run" /\ good \in BOOLEAN /\ key \in BOOLEAN
    BY DEF Init
  <2>. QED  BY <1>2, <2>1, <2>2, <2>3, <2>4 DEF TypeOK
<1>5. PlanInv
  BY <1>1 DEF Init, PlanInv, Rest
<1>6. PlaceInv /\ SentInv /\ CompleteIsBurned
  BY DEF Init, PlaceInv, SentInv, CompleteIsBurned
<1>. QED  BY <1>4, <1>5, <1>6 DEF IInv

\* One turn of the loop of send_firmware keeps the invariant.
LEMMA SendPageInv ==
  ASSUME TypeOK, PlanInv, PlaceInv, SentInv, CompleteIsBurned, SendPage
  PROVE  IInv'
<1>. DEFINE s == Start(img)
            n == Pages(img)
<1>1. /\ pc = "send" /\ img \in Image /\ img' = img /\ todo' = todo
      /\ txdata' = TxData /\ FirmwareOp(address, TxData)
  BY DEF SendPage, TypeOK
<1>2. /\ s \in Nat /\ n \in Nat \ {0} /\ s + n < ReadOnly /\ ReadOnly \in Nat
  BY <1>1, Layout
<1>3. s' = s /\ n' = n
  BY <1>1 DEF Start, Pages
<1>. HIDE DEF s, n
<1>4. /\ address \in s..(s + n) /\ len = s + n - address /\ prev \in -1..ReadOnly
      /\ txdata \in Contents /\ complete \subseteq Image
      /\ todo \in Seq(Image \cup {"swapped"}) /\ mode \in {"run", "prog"}
      /\ flash \in [Page -> Contents] /\ ioctls \in Nat
  BY <1>1, FirmwareAssumption DEF TypeOK, s, n
<1>5. address \in Page /\ address # ReadOnly
  BY <1>2, <1>4 DEF Page
<1>6. TxData \in Contents /\ (len # 0 => TxData = <<img, address - s>>)
  <2>1. address - s \in Nat
    BY <1>2, <1>4
  <2>. QED  BY <1>1, <1>4, <2>1 DEF TxData, Contents, s
<1>7. /\ mode' = mode /\ good' \in BOOLEAN /\ key' \in BOOLEAN
      /\ flash' \in [Page -> Contents]
      /\ faults' \in 0..MaxFault /\ ioctls' \in 0..MaxIoctl
      /\ \A q \in Page : q # address => flash'[q] = flash[q]
      /\ ioctls' = 0 => ioctls = 0
      /\ ioctls' = 0 /\ mode = "prog" /\ good' => flash'[address] = TxData
      /\ ioctls' = 0 /\ key' => mode = "prog" /\ good
  BY <1>1, <1>5, <1>6, OneOperation
<1>8. \/ prev = -1 /\ address = s
      \/ prev \in s..(s + n - 1) /\ address \in {prev, prev + 1}
  BY <1>1 DEF PlaceInv, s, n
\* Pages that were burned stay, unless the one at hand is among them.
<1>9. ASSUME NEW m \in Int, m <= address - s, m <= n, Burned(flash, img, m)
      PROVE  Burned(flash', img, m)
  <2>. SUFFICES ASSUME NEW k \in 0..(m - 1) PROVE flash'[s + k] = <<img, k>>
    BY <1>1, <1>3 DEF Burned, s
  <2>1. s + k \in Page /\ s + k # address
    BY <1>2, <1>4, <1>9 DEF Page
  <2>2. flash[s + k] = <<img, k>>
    BY <1>9 DEF Burned, s
  <2>. QED  BY <1>7, <2>1, <2>2
<1>10. ioctls' = 0 => \A i \in complete : Burned(flash', i, Pages(i))
  <2>. SUFFICES ASSUME ioctls' = 0, NEW i \in complete, NEW k \in 0..(Pages(i) - 1)
                PROVE  flash'[Start(i) + k] = <<i, k>>
    BY DEF Burned, Start, Pages
  <2>1. i = "bin" /\ img = "rw"
    BY <1>1, <1>4 DEF PlanInv, Image
  <2>2. Start(i) + k < address /\ Start(i) + k \in Nat
    BY <1>4, <2>1, FirmwareAssumption DEF Start, Pages, s
  <2>3. Start(i) + k \in Page
    BY <1>2, <1>4, <2>2 DEF Page
  <2>4. flash[Start(i) + k] = <<i, k>>
    BY <1>7 DEF CompleteIsBurned
  <2>5. Start(i) + k # address
    BY <1>4, <1>2, <2>2
  <2>. QED  BY <1>7, <2>3, <2>4, <2>5
<1>11. CASE GiveUp
  <2>1. pc' = "next" /\ complete' = complete /\ UNCHANGED <<address, len, prev>>
    BY <1>11 DEF GiveUp, Leave
  <2>2. TypeOK'
    BY <1>1, <1>4, <1>6, <1>7, <2>1 DEF TypeOK
  <2>3. PlanInv'
    BY <1>1, <2>1 DEF PlanInv
  <2>4. PlaceInv' /\ SentInv'
    BY <2>1 DEF PlaceInv, SentInv
  <2>5. CompleteIsBurned'
    BY <1>10, <2>1 DEF CompleteIsBurned, Burned, Start, Pages
  <2>. QED  BY <2>2, <2>3, <2>4, <2>5 DEF IInv
<1>12. CASE Retry
  <2>1. /\ prev # -1 /\ address' = prev /\ len' = n - (prev - s)
        /\ UNCHANGED <<prev, pc, complete>>
    BY <1>12 DEF Retry, s, n
  <2>2. prev \in s..(s + n - 1) /\ address \in {prev, prev + 1}
    BY <1>2, <1>4, <1>8, <2>1
  <2>3. TypeOK'
    <3>1. address' \in s'..(s' + n') /\ len' = s' + n' - address'
      BY <1>2, <1>3, <2>1, <2>2
    <3>. QED  BY <1>1, <1>4, <1>6, <1>7, <2>1, <3>1 DEF TypeOK, s, n
  <2>4. PlanInv'
    BY <1>1, <2>1 DEF PlanInv
  <2>5. PlaceInv'
    BY <1>3, <2>1, <2>2 DEF PlaceInv, s, n
  <2>6. SentInv'
    <3>. SUFFICES ASSUME ioctls' = 0
                  PROVE  Burned(flash', img, prev - s) /\ address' # prev' + 1
      BY <1>1, <2>1 DEF SentInv, s, Burned, Start
    <3>1. Burned(flash, img, prev - s)
      BY <1>1, <1>7, <2>1 DEF SentInv, s
    <3>2. prev - s \in Int /\ prev - s <= address - s /\ prev - s <= n
      BY <1>2, <2>2
    <3>3. Burned(flash', img, prev - s)
      BY <1>9, <3>1, <3>2
    <3>. QED  BY <2>1, <2>2, <1>2, <3>3
  <2>7. CompleteIsBurned'
    BY <1>10, <2>1 DEF CompleteIsBurned, Burned, Start, Pages
  <2>. QED  BY <2>3, <2>4, <2>5, <2>6, <2>7 DEF IInv
\* The answer was the key: the page asked about is burned, and with it all pages
\* up to the one at hand.
<1>13. ASSUME Advance, ioctls' = 0
       PROVE  Burned(flash', img, address - s)
  <2>1. mode = "prog" /\ good /\ ioctls = 0
    BY <1>7, <1>13 DEF Advance
  <2>2. Burned(flash, img, address - s)
    <3>1. CASE prev = -1 \/ address = prev
      BY <1>1, <1>2, <1>4, <1>8, <2>1, <3>1 DEF SentInv, Burned, s
    <3>2. CASE prev # -1 /\ address = prev + 1
      <4>1. Burned(flash, img, prev - s) /\ flash[prev] = <<img, prev - s>>
        BY <1>1, <2>1, <3>2 DEF SentInv, s
      <4>2. prev \in s..(s + n - 1)
        BY <1>8, <3>2
      <4>. SUFFICES ASSUME NEW k \in 0..(address - s - 1) PROVE flash[s + k] = <<img, k>>
        BY DEF Burned, s
      <4>3. CASE k = prev - s
        BY <1>2, <4>1, <4>2, <4>3
      <4>4. CASE k # prev - s
        <5>1. k \in 0..(prev - s - 1)
          BY <1>2, <3>2, <4>2, <4>4
        <5>. QED  BY <4>1, <5>1 DEF Burned, s
      <4>. QED  BY <4>3, <4>4
    <3>. QED  BY <1>8, <3>1, <3>2
  <2>3. address - s \in Int /\ address - s <= n
    BY <1>2, <1>4
  <2>. QED  BY <1>9, <2>2, <2>3
<1>14. CASE Advance /\ len # 0
  <2>1. /\ prev' = address /\ address' = address + 1 /\ len' = len - 1
        /\ UNCHANGED <<pc, complete>>
    BY <1>14 DEF Advance, Meant
  <2>2. address \in s..(s + n - 1)
    BY <1>2, <1>4, <1>14
  <2>3. TypeOK'
    <3>1. address' \in s'..(s' + n') /\ len' = s' + n' - address' /\ prev' \in -1..ReadOnly
      BY <1>2, <1>3, <1>4, <2>1, <2>2
    <3>. QED  BY <1>1, <1>4, <1>6, <1>7, <2>1, <3>1 DEF TypeOK, s, n
  <2>4. PlanInv'
    BY <1>1, <2>1 DEF PlanInv
  <2>5. PlaceInv'
    BY <1>3, <2>1, <2>2 DEF PlaceInv, s, n
  <2>6. SentInv'
    <3>. SUFFICES ASSUME ioctls' = 0
                  PROVE  /\ Burned(flash', img, address - s)
                         /\ mode' = "prog" /\ good' => flash'[address] = <<img, address - s>>
      BY <1>1, <2>1 DEF SentInv, s, Burned, Start
    <3>1. Burned(flash', img, address - s)
      BY <1>13, <1>14
    <3>. QED  BY <1>6, <1>7, <1>14, <3>1
  <2>7. CompleteIsBurned'
    BY <1>10, <2>1 DEF CompleteIsBurned, Burned, Start, Pages
  <2>. QED  BY <2>3, <2>4, <2>5, <2>6, <2>7 DEF IInv
\* The confirming operation.
<1>15. CASE Advance /\ len = 0
  <2>1. /\ prev' = ReadOnly /\ pc' = "next" /\ complete' = complete \cup {img}
    BY <1>15 DEF Advance, Meant, Leave
  <2>2. address - s = n
    BY <1>2, <1>4, <1>15
  <2>3. TypeOK'
    BY <1>1, <1>2, <1>4, <1>6, <1>7, <2>1 DEF TypeOK
  <2>4. PlanInv'
    BY <1>1, <2>1 DEF PlanInv, Rest, Image
  <2>5. PlaceInv' /\ SentInv'
    BY <2>1 DEF PlaceInv, SentInv
  <2>6. CompleteIsBurned'
    <3>. SUFFICES ASSUME ioctls' = 0, NEW i \in complete \cup {img}
                  PROVE  Burned(flash', i, Pages(i))
      BY <2>1 DEF CompleteIsBurned, Burned, Start, Pages
    <3>1. CASE i \in complete
      BY <1>10, <3>1
    <3>2. CASE i = img
      BY <1>13, <1>15, <2>2, <3>2 DEF n
    <3>. QED  BY <3>1, <3>2
  <2>. QED  BY <2>3, <2>4, <2>5, <2>6 DEF IInv
<1>. QED  BY <1>11, <1>12, <1>14, <1>15 DEF SendPage

\* Every step of the sender and of the board keeps it.
LEMMA StepInv == IInv /\ [Next]_vars => IInv'
<1>. SUFFICES ASSUME IInv, [Next]_vars PROVE IInv'
  OBVIOUS
<1>. USE FirmwareAssumption
<1>i. TypeOK /\ PlanInv /\ PlaceInv /\ SentInv /\ CompleteIsBurned
  BY DEF IInv
<1>1. CASE Reset
  <2>1. TypeOK'
    BY <1>1, <1>i DEF Reset, TypeOK, svars
  <2>2. PlanInv' /\ PlaceInv'
    BY <1>1, <1>i DEF Reset, PlanInv, PlaceInv, svars
  <2>3. SentInv'
    BY <1>1, <1>i DEF Reset, SentInv, Burned, svars
  <2>4. CompleteIsBurned'
    BY <1>1, <1>i DEF Reset, CompleteIsBurned, svars
  <2>. QED  BY <2>1, <2>2, <2>3, <2>4 DEF IInv
<1>2. CASE StartFirmware
  <2>1. TypeOK'
    BY <1>2, <1>i DEF StartFirmware, TypeOK, svars
  <2>2. PlanInv' /\ PlaceInv' /\ SentInv'
    BY <1>2, <1>i DEF StartFirmware, PlanInv, PlaceInv, SentInv, svars
  <2>3. CompleteIsBurned'
    BY <1>2, <1>i DEF StartFirmware, CompleteIsBurned, svars
  <2>. QED  BY <2>1, <2>2, <2>3 DEF IInv
<1>3. CASE SendFirmware
  <2>1. /\ pc = "next" /\ todo # <<>> /\ img' = Head(todo) /\ img' \in Image
        /\ todo' = Tail(todo) /\ address' = Start(img') /\ len' = Pages(img')
        /\ prev' = -1 /\ pc' = "send"
        /\ UNCHANGED <<bvars, txdata, key, complete, faults, ioctls>>
    BY <1>3 DEF SendFirmware
  <2>2. \/ todo = <<"bin">> /\ img' = "bin" /\ todo' = <<>>
        \/ todo = <<"bin", "rw">> /\ img' = "bin" /\ todo' = <<"rw">>
        \/ todo = <<"rw">> /\ img' = "rw" /\ todo' = <<>>
        \/ todo = <<"rw", "swapped">> /\ img' = "rw" /\ todo' = <<"swapped">>
    <3>1. todo \in Rest /\ todo # <<>> /\ Head(todo) # "swapped"
      BY <1>i, <2>1 DEF PlanInv, Image
    <3>. QED  BY <2>1, <3>1, RestOfPlan DEF Rest
  <2>3. Start(img)' = Start(img') /\ Pages(img)' = Pages(img')
    BY DEF Start, Pages
  <2>4. Start(img') \in Nat /\ Pages(img') \in Nat
    BY <2>1, Layout
  <2>5. TypeOK'
    <3>1. todo' \in Seq(Image \cup {"swapped"})
      BY <2>2, RestOfPlan DEF Rest
    <3>2. pc' \in {"start", "next", "send", "done", "crashed"} /\ prev' \in -1..ReadOnly
      BY <2>1
    <3>3. address' \in Start(img')..(Start(img') + Pages(img'))
          /\ len' = Start(img') + Pages(img') - address'
      BY <2>1, <2>4
    <3>. QED  BY <1>i, <2>1, <2>3, <3>1, <3>2, <3>3 DEF TypeOK, bvars
  <2>6. PlanInv'
    <3>1. complete' = complete /\ pc' = "send" /\ pc = "next"
      BY <2>1
    <3>2. CASE img' = "bin"
      BY <1>i, <2>2, <3>1, <3>2 DEF PlanInv, Rest
    <3>3. CASE img' = "rw"
      BY <1>i, <2>2, <3>1, <3>3 DEF PlanInv, Rest
    <3>. QED  BY <2>2, <3>2, <3>3
  <2>7. PlaceInv' /\ SentInv'
    BY <2>1, <2>3 DEF PlaceInv, SentInv
  <2>8. CompleteIsBurned'
    BY <1>i, <2>1 DEF CompleteIsBurned, bvars, Start, Pages
  <2>. QED  BY <2>5, <2>6, <2>7, <2>8 DEF IInv
<1>4. CASE SkipRw \/ Swapped
  <2>1. /\ pc = "next" /\ pc' \in {"next", "crashed"}
        /\ todo \in Rest /\ todo # <<>> /\ Head(todo) \in {"rw", "swapped"} /\ todo' = Tail(todo)
        /\ UNCHANGED <<bvars, svars, complete, faults, ioctls>>
    BY <1>4, <1>i DEF SkipRw, Swapped, PlanInv
  <2>2. /\ todo \in {<<"rw">>, <<"rw", "swapped">>, <<"swapped">>}
        /\ todo' \in {<<>>, <<"swapped">>}
    BY <2>1, RestOfPlan DEF Rest
  <2>3. todo' \in Seq(Image \cup {"swapped"})
    BY <2>2, RestOfPlan DEF Rest
  <2>4. TypeOK'
    BY <1>i, <2>1, <2>3 DEF TypeOK, bvars, svars
  <2>5. PlanInv'
    BY <1>i, <2>1, <2>2 DEF PlanInv, Rest, svars
  <2>6. PlaceInv' /\ SentInv'
    BY <2>1 DEF PlaceInv, SentInv
  <2>7. CompleteIsBurned'
    BY <1>i, <2>1 DEF CompleteIsBurned, bvars, Start, Pages
  <2>. QED  BY <2>4, <2>5, <2>6, <2>7 DEF IInv
<1>5. CASE SendPage
  BY <1>5, <1>i, SendPageInv
<1>6. CASE FinishFirmware
  <2>1. TypeOK'
    BY <1>6, <1>i DEF FinishFirmware, TypeOK, svars
  <2>2. PlanInv' /\ PlaceInv' /\ SentInv'
    BY <1>6, <1>i DEF FinishFirmware, PlanInv, PlaceInv, SentInv, svars
  <2>3. CompleteIsBurned'
    BY <1>6, <1>i DEF FinishFirmware, CompleteIsBurned, svars
  <2>. QED  BY <2>1, <2>2, <2>3 DEF IInv
<1>7. CASE UNCHANGED vars
  BY <1>7, <1>i DEF vars, IInv, TypeOK, PlanInv, PlaceInv, SentInv, Burned, CompleteIsBurned, Start, Pages
<1>. QED  BY <1>1, <1>2, <1>3, <1>4, <1>5, <1>6, <1>7 DEF Next, Sender

\* Type correctness of Firmware: every page address the sender uses lies in the
\* image at hand or directly behind it, and len is what is left from there.
THEOREM TypeCorrect == Spec => []TypeOK
<1>1. IInv => TypeOK
  BY DEF IInv
<1>. QED  BY <1>1, InitInv, StepInv, PTL DEF Spec

\* send_firmware: an image whose transfer ended with the confirming operation is
\* in the board, page for page, however many pages failed, answers were garbled
\* or resets happened, as long as no ioctl failed; for images of any size.
THEOREM ConfirmedImage == Spec => []CompleteIsBurned
<1>1. IInv => CompleteIsBurned
  BY DEF IInv
<1>. QED  BY <1>1, InitInv, StepInv, PTL DEF Spec
=============================================================================
