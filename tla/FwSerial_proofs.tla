-------------------------- MODULE FwSerial_proofs --------------------------
(***************************************************************************)
(* Proofs about fwserial: a page that is reported OK is in the board, a    *)
(* run without an error has written both files, and the firmware fits the  *)
(* base board and the upper board, for any number of pages, chunks, errors *)
(* and failures of the line.                                               *)
(***************************************************************************)
EXTENDS FwSerial, SequenceTheorems, WellFoundedInduction, TLAPS

\* The files fit: the program ends where the settings begin at the latest
\* (beyond that flashit never ends, see Ends), and the settings within the flash.
FilesFit ==
    /\ \A n \in BinPages : n <= RW_START_PAGE
    /\ RW_START_PAGE <= LastPage + 1
    /\ \A n \in RwPages : RW_START_PAGE + n <= LastPage + 1

-----------------------------------------------------------------------------
(* The inductive invariant.                                                *)

\* At most one answer is under way that nobody waits for; Stale gives its
\* function code.
Codes == {3, 5, 6, 16, 131, 133, 134, 144}
AnsOK == \/ ans = <<>>
         \/ \E fc \in Codes, val \in 0..1 : ans = <<[fc |-> fc, val |-> val]>>
Stale(fcs) == ans # <<>> => ans[1].fc \in fcs

Word == {"old", "bin", "rw"} \X Int \X Nat

Types ==
    /\ TypeOK /\ AnsOK
    /\ bin \in BinPages /\ rw \in RwPages
    /\ clean \in BOOLEAN
    /\ buf \in [Chunk -> Word] /\ flash \in [Page -> [Chunk -> Word]]

Early == pc \in {"version", "select", "progmode"}
Flashing == pc \in {"flash", "chunk", "burn"}
Verifying == pc \in {"verify", "v_page", "v_chunk", "v_read"}

\* Nothing was sent to the board yet.
EarlyInv ==
    Early => /\ ans = <<>> /\ page = 0 /\ errors = 0 /\ burned = {} /\ verified = {}
             /\ buf = [c \in Chunk |-> Old]
             /\ flash = [p \in Page |-> [c \in Chunk |-> Old]]

\* A page in the wrong place is one that was finished before: page p is done
\* when it is in its own place and the tool is past it.
Done(q) == q < page /\ flash[q] = Image(q)
FlashCore ==
    /\ mode = "prog" /\ verified = {}
    /\ \A p \in burned : p < page
    /\ \A q \in Page : buf = Image(q) => q = page \/ Done(q)
    /\ \A p, q \in Page : flash[p] = Image(q) => q = p \/ Done(q)
    /\ errors = 0 =>
         \A p \in Page : p < page /\ (p < red \/ p >= RW_START_PAGE) => p \in burned
FlashingInv ==
    Flashing => page \in Page /\ FlashCore /\ (errors = 0 /\ pc # "flash" => clean)

\* The page register: an answer that is still under way when the page is set
\* belongs to the same page.
PageInv ==
    /\ pc = "flash" /\ ans # <<>> /\ ans[1].fc = 6 => pagereg = page
    /\ pc \in {"chunk", "burn"} => pagereg = page

\* The chunks of a page: an answer that is under way when the first one is sent
\* is not taken for its answer; from then on a stale answer spoils every call.
ChunkInv ==
    /\ pc \in {"chunk", "v_chunk"} => chunk < Chunks
    /\ pc \in {"burn", "v_read"} => chunk = Chunks
    /\ pc \in {"chunk", "v_chunk", "burn", "v_read"} =>
         /\ chunk = 0 => Stale({6, 134})
         /\ chunk > 0 => Stale({16, 144})
         /\ clean => /\ chunk > 0 => ans = <<>>
                     /\ \A c \in Chunk : c < chunk => buf[c] = Data(page, c)

VerifyingInv ==
    Verifying => /\ mode = "prog"
                 /\ \A p, q \in Page : flash[p] = Image(q) => flash[q] = Image(q)

\* All of both files is in the board.
Complete == \A p \in 0..(red - 1) \cup RW_START_PAGE..(rwred - 1) : flash[p] = Image(p)
CompleteInv ==
    Verifying \/ pc \in {"reboot", "done"} => (opt.prog /\ errors = 0 => Complete)

IInv == /\ Types /\ EarlyInv /\ FlashingInv /\ PageInv /\ ChunkInv /\ VerifyingInv
        /\ CompleteInv /\ OkIsBurned

-----------------------------------------------------------------------------
(* A call.                                                                 *)

\* Two sequences of one element.
LEMMA Pair == \A x, y : <<x>> \o <<y>> = <<x, y>>
<1>. SUFFICES ASSUME NEW x, NEW y PROVE <<x>> \o <<y>> = <<x, y>>
  OBVIOUS
<1>. DEFINE s == <<x>>
            t == <<y>>
<1>1. s \in Seq({x,y}) /\ t \in Seq({x, y}) /\ Len(s) = 1 /\ Len(t) = 1 /\ s[1] = x /\ t[1] = y
  OBVIOUS
<1>. HIDE DEF s, t
<1>2. s \o t \in Seq({x,y}) /\ Len(s \o t) = 2 /\ (s \o t)[1] = x /\ (s \o t)[2] = y
  <2>1. /\ s \o t \in Seq({x, y}) /\ Len(s \o t) = Len(s) + Len(t)
        /\ \A i \in 1..(Len(s) + Len(t)) : (s \o t)[i] = IF i <= Len(s) THEN s[i] ELSE t[i - Len(s)]
    BY <1>1, ConcatProperties, Zenon
  <2>2. 1 \in 1..2 /\ 2 \in 1..2 /\ 1 + 1 = 2 /\ 2 - 1 = 1
    OBVIOUS
  <2>. QED  BY <1>1, <2>1, <2>2
<1>3. <<x,y>> \in Seq({x,y}) /\ Len(<<x,y>>) = 2 /\ <<x,y>>[1] = x /\ <<x,y>>[2] = y
  OBVIOUS
<1>. DEFINE w == <<x, y>>
            u == s \o t
<1>. HIDE DEF w, u
<1>4. \A i \in 1..Len(u) : u[i] = w[i]
  BY <1>2, <1>3 DEF u, w
<1>5. u = w
  BY <1>2, <1>3, <1>4, SeqEqual DEF u, w
<1>. QED  BY <1>5 DEF u, w, s, t

AnswerType == [fc : {3, 5, 6, 16}, val : 0..1]

\* What a call can do, when at most one stale answer is there.
Outcome(effect, answer, ok, val) ==
    /\ effect \/ Nothing
    /\ ans' \in {<<>>, <<answer>>, <<Refused(answer)>>}
    /\ ans = <<>> /\ ok => effect /\ val = answer.val /\ ans' = <<>>
    /\ ans' = <<answer>> => effect
    /\ ans # <<>> => (ok <=> ans[1].fc = answer.fc)
    /\ faults' = faults \/ (faults < MaxFaults /\ faults' = faults + 1)

LEMMA CallOutcome ==
  ASSUME AnsOK, NEW STATE answer, NEW ACTION effect, answer \in AnswerType,
         NEW ok \in BOOLEAN, NEW val \in 0..1,
         Call(effect, answer, ok, val)
  PROVE  Outcome(effect, answer, ok, val)
<1>1. Refused(answer).fc # answer.fc /\ <<Refused(answer)>> # <<answer>>
  BY DEF Refused, AnswerType
<1>2. CASE ans = <<>>
  <2>1. \A x : <<>> \o <<x>> = <<x>>
    OBVIOUS
  <2>2. \A x : Head(<<x>>) = x /\ Tail(<<x>>) = <<>> /\ <<x>> # <<>>
    OBVIOUS
  <2>3. Append(<<>>, answer) = <<answer>> /\ <<>> \o <<>> = <<>>
    OBVIOUS
  <2>4. CASE /\ Delayed(effect, answer) /\ ~ok
    <3>1. /\ effect /\ ans' = <<answer>> /\ faults' = faults + 1 /\ faults < MaxFaults
      BY <1>2, <2>3, <2>4 DEF Delayed
    <3>. QED  BY <1>2, <2>4, <3>1 DEF Outcome
  <2>5. ASSUME NEW rest \in {<<>>, <<answer>>, <<Refused(answer)>>},
               Arrives(effect, answer, rest),
               LET all == ans \o rest
               IN  IF all = <<>> THEN ~ok /\ val = 0 /\ ans' = <<>>
                   ELSE /\ ok = (Head(all).fc = answer.fc) /\ val = Head(all).val
                        /\ ans' = Tail(all)
        PROVE  Outcome(effect, answer, ok, val)
    <3>1. /\ effect \/ Nothing
          /\ faults' = faults \/ (faults < MaxFaults /\ faults' = faults + 1)
          /\ rest = <<answer>> => effect
      BY <1>1, <2>2, <2>5 DEF Arrives, Nothing
    <3>2. CASE rest = <<>>
      <4>1. ~ok /\ ans' = <<>>
        BY <1>2, <2>3, <2>5, <3>2
      <4>. QED  BY <1>2, <2>2, <3>1, <4>1 DEF Outcome
    <3>3. CASE rest = <<answer>>
      <4>1. ans \o rest = <<answer>>
        BY <1>2, <2>1, <3>3
      <4>2. ok = (answer.fc = answer.fc) /\ val = answer.val /\ ans' = <<>>
        BY <2>2, <2>5, <4>1
      <4>3. ok /\ ans' = <<>> /\ val = answer.val
        BY <4>2
      <4>. QED  BY <1>2, <3>1, <3>3, <4>3 DEF Outcome
    <3>4. CASE rest = <<Refused(answer)>>
      <4>1. ans \o rest = <<Refused(answer)>>
        BY <1>2, <2>1, <3>4
      <4>2. ok = (Refused(answer).fc = answer.fc) /\ ans' = <<>>
        BY <2>2, <2>5, <4>1
      <4>3. ~ok /\ ans' = <<>>
        BY <1>1, <4>2
      <4>. QED  BY <1>2, <2>2, <3>1, <4>3 DEF Outcome
    <3>. QED  BY <3>2, <3>3, <3>4
  <2>. QED  BY <2>4, <2>5 DEF Call
<1>3. ASSUME NEW x, ans = <<x>>
      PROVE  Outcome(effect, answer, ok, val)
  <2>0. \A y : Head(<<x, y>>) = x /\ Tail(<<x, y>>) = <<y>> /\ <<x, y>> # <<>>
    OBVIOUS
  <2>1. \A y : LET z == <<x>> \o <<y>> IN Head(z) = x /\ Tail(z) = <<y>> /\ z # <<>>
    BY <2>0, Pair
  <2>2. Head(<<x>>) = x /\ Tail(<<x>>) = <<>> /\ <<x>> # <<>> /\ <<x>> \o <<>> = <<x>> /\ <<x>>[1] = x
    OBVIOUS
  <2>3. \A y : <<y>> # <<>>
    OBVIOUS
  <2>4. PICK rest \in {<<>>, <<answer>>, <<Refused(answer)>>} :
          /\ Arrives(effect, answer, rest)
          /\ ok = (x.fc = answer.fc) /\ val = x.val /\ ans' = rest
    BY <1>3, <2>1, <2>2 DEF Call
  <2>5. /\ effect \/ Nothing
        /\ faults' = faults \/ (faults < MaxFaults /\ faults' = faults + 1)
        /\ rest = <<answer>> => effect
    BY <1>1, <2>3, <2>4 DEF Arrives, Nothing
  <2>. QED  BY <1>3, <2>2, <2>4, <2>5 DEF Outcome
<1>. QED  BY <1>2, <1>3 DEF AnsOK

\* The answers of a call are again of the right type.
LEMMA AnswerTypes ==
  ASSUME NEW answer \in AnswerType, NEW a \in {<<>>, <<answer>>, <<Refused(answer)>>}
  PROVE  /\ a = <<>> \/ \E fc \in Codes, val \in 0..1 : a = <<[fc |-> fc, val |-> val]>>
         /\ \A k \in DOMAIN a : a[k].fc % 128 \in {3, 5, 6, 16}
<1>1. PICK fc \in {3, 5, 6, 16}, val \in 0..1 : answer = [fc |-> fc, val |-> val]
  BY DEF AnswerType
<1>2. Refused(answer) = [fc |-> fc + 128, val |-> val]
  BY <1>1 DEF Refused
<1>3. fc \in Codes /\ fc + 128 \in Codes /\ fc % 128 = fc /\ (fc + 128) % 128 = fc
  BY DEF Codes
<1>4. CASE a = <<>>
  BY <1>4
<1>5. CASE a = <<answer>>
  <2>1. DOMAIN a = {1} /\ a[1].fc = fc
    BY <1>1, <1>5
  <2>. QED  BY <1>1, <1>3, <1>5, <2>1
<1>6. CASE a = <<Refused(answer)>>
  <2>1. DOMAIN a = {1} /\ a[1].fc = fc + 128
    BY <1>2, <1>6
  <2>. QED  BY <1>2, <1>3, <1>6, <2>1
<1>. QED  BY <1>4, <1>5, <1>6

-----------------------------------------------------------------------------
(* Pages and data.                                                         *)

\* The bounds of the two files.
LEMMA Bounds ==
  ASSUME FilesFit, Types
  PROVE  /\ red \in Int /\ red <= RW_START_PAGE /\ rwred \in Nat
         /\ RW_START_PAGE <= rwred /\ rwred <= LastPage + 1
         /\ RW_START_PAGE \in Nat /\ LastPage \in Nat /\ Chunks \in Nat \ {0}
         /\ MaxErrors \in Nat /\ MaxFaults \in Nat
<1>1. /\ RW_START_PAGE \in Nat /\ LastPage \in Nat /\ Chunks \in Nat \ {0}
      /\ MaxErrors \in Nat /\ MaxFaults \in Nat
  BY FwSerialAssumption
<1>2. bin \in Int /\ rw \in Int
  BY <1>1, FwSerialAssumption DEF Types, MAX_RW_PAGES
<1>3. red \in Int /\ red <= RW_START_PAGE
  BY <1>2 DEF FilesFit, Types, red
<1>4. RW_START_PAGE + rw <= LastPage + 1 /\ RW_START_PAGE <= LastPage + 1
  BY DEF FilesFit, Types
<1>5. rwred \in Nat /\ RW_START_PAGE <= rwred /\ rwred <= LastPage + 1
  BY <1>1, <1>2, <1>4 DEF rwred
<1>. QED  BY <1>1, <1>3, <1>5

\* What is sent for a page tells the page, and is not what the board had.
LEMMA DataFacts ==
  ASSUME FilesFit, Types
  PROVE  /\ \A p \in Page, c \in Chunk : Data(p, c) \in Word /\ Data(p, c) # Old
         /\ \A p, q \in Page, c \in Chunk : Data(p, c) = Data(q, c) => p = q
<1>1. /\ red \in Int /\ RW_START_PAGE \in Nat /\ LastPage \in Nat /\ Chunks \in Nat
  BY Bounds
<1>2. ASSUME NEW p \in Page, NEW c \in Chunk PROVE Data(p, c) \in Word /\ Data(p, c) # Old
  <2>1. p \in Int /\ p - RW_START_PAGE \in Int /\ c \in Nat
    BY <1>1 DEF Page, Chunk
  <2>2. CASE p < red
    BY <2>1, <2>2 DEF Data, Word, Old
  <2>3. CASE ~(p < red)
    BY <2>1, <2>3 DEF Data, Word, Old
  <2>. QED  BY <2>2, <2>3
<1>3. ASSUME NEW p \in Page, NEW q \in Page, NEW c \in Chunk, Data(p, c) = Data(q, c) PROVE p = q
  <2>1. p \in Int /\ q \in Int
    BY <1>1 DEF Page
  <2>2. CASE p < red /\ q < red
    BY <1>3, <2>2 DEF Data
  <2>3. CASE ~(p < red) /\ ~(q < red)
    <3>1. p - RW_START_PAGE = q - RW_START_PAGE
      BY <1>3, <2>3 DEF Data
    <3>. QED  BY <1>1, <2>1, <3>1
  <2>4. CASE p < red /\ ~(q < red)
    BY <1>3, <2>4 DEF Data
  <2>5. CASE ~(p < red) /\ q < red
    BY <1>3, <2>5 DEF Data
  <2>. QED  BY <2>2, <2>3, <2>4, <2>5
<1>. QED  BY <1>2, <1>3

\* The same for pages.
LEMMA ImageFacts ==
  ASSUME FilesFit, Types
  PROVE  /\ \A p \in Page : /\ Image(p) \in [Chunk -> Word] /\ Image(p) # [c \in Chunk |-> Old]
                            /\ \A c \in Chunk : Image(p)[c] = Data(p, c)
         /\ 0 \in Chunk
<1>1. 0 \in Chunk
  BY Bounds DEF Chunk
<1>2. ASSUME NEW p \in Page
      PROVE  /\ Image(p) \in [Chunk -> Word] /\ Image(p) # [c \in Chunk |-> Old]
             /\ \A c \in Chunk : Image(p)[c] = Data(p, c)
  <2>1. \A c \in Chunk : Image(p)[c] = Data(p, c)
    BY DEF Image
  <2>2. Image(p) \in [Chunk -> Word]
    BY DataFacts DEF Image
  <2>3. Image(p)[0] # Old
    BY <1>1, <2>1, DataFacts
  <2>. QED  BY <1>1, <2>1, <2>2, <2>3
<1>. QED  BY <1>1, <1>2

\* No step changes the files.
LEMMA SameImage ==
  ASSUME UNCHANGED files
  PROVE  /\ red' = red /\ rwred' = rwred
         /\ \A p : Image(p)' = Image(p) /\ \A c : Data(p, c)' = Data(p, c)
<1>1. bin' = bin /\ rw' = rw /\ opt' = opt
  BY DEF files
<1>2. red' = red /\ rwred' = rwred
  BY <1>1 DEF red, rwred
<1>3. \A p, c : Data(p, c)' = Data(p, c)
  BY <1>2 DEF Data
<1>4. \A p : Image(p)' = Image(p)
  BY <1>3 DEF Image
<1>. QED  BY <1>2, <1>3, <1>4

-----------------------------------------------------------------------------
(* The steps.                                                              *)

\* The types of what a call leaves.
LEMMA OutcomeTypes ==
  ASSUME Types, NEW STATE answer, NEW ACTION effect, answer \in AnswerType,
         NEW ok \in BOOLEAN, NEW val \in 0..1, Outcome(effect, answer, ok, val)
  PROVE  /\ AnsOK' /\ faults' \in 0..MaxFaults
         /\ \A k \in DOMAIN ans' : ans'[k].fc % 128 \in {3, 5, 6, 16}
<1>1. ans' \in {<<>>, <<answer>>, <<Refused(answer)>>}
  BY DEF Outcome
<1>2. faults' \in 0..MaxFaults
  BY FwSerialAssumption DEF Outcome, Types, TypeOK
<1>3. /\ ans' = <<>> \/ \E fc \in Codes, v \in 0..1 : ans' = <<[fc |-> fc, val |-> v]>>
      /\ \A k \in DOMAIN ans' : ans'[k].fc % 128 \in {3, 5, 6, 16}
  BY <1>1, AnswerTypes
<1>. QED  BY <1>2, <1>3 DEF AnsOK

LEMMA AnswersTyped == \A fc \in {3, 5, 6, 16} : Answer(fc) \in AnswerType
BY DEF Answer, AnswerType

\* The answers a call leaves, by function code.
LEMMA StaleAfter ==
  ASSUME NEW fc \in {3, 5, 6, 16}, NEW a \in {<<>>, <<Answer(fc)>>, <<Refused(Answer(fc))>>}
  PROVE  /\ a # <<>> => a[1].fc \in {fc, fc + 128}
         /\ a # <<>> /\ a[1].fc = fc => a = <<Answer(fc)>>
BY DEF Answer, Refused

\* The end of a round of flashit.
LEMMA LoopInv ==
  ASSUME FilesFit, Types, Types', FlashCore', OkIsBurned', UNCHANGED files,
         NEW p, NEW e \in Nat, Loop(p, e),
         ans' # <<>> /\ ans'[1].fc = 6 => pagereg' = page'
  PROVE  IInv'
<1>1. page' = p /\ errors' = e /\ chunk' = 0 /\ p \in 0..(LastPage + 1)
  BY DEF Loop, Types, TypeOK
<1>2. /\ red \in Int /\ red <= RW_START_PAGE /\ rwred \in Nat
      /\ RW_START_PAGE <= rwred /\ rwred <= LastPage + 1
      /\ RW_START_PAGE \in Nat /\ LastPage \in Nat /\ MaxErrors \in Nat
  BY Bounds
<1>3. red' = red /\ rwred' = rwred /\ opt' = opt
  BY SameImage DEF files
<1>4. CASE pc' = "flash" /\ ~EndOfFlash(p, e)
  <2>1. page' \in Page
    BY <1>1, <1>2, <1>4 DEF EndOfFlash, Page
  <2>. QED  BY <1>4, <2>1 DEF IInv, EarlyInv, Early, FlashingInv, Flashing, PageInv, ChunkInv,
                VerifyingInv, Verifying, CompleteInv
<1>5. CASE pc' \in {"verify", "reboot"} /\ EndOfFlash(p, e)
  <2>1. errors' = 0 => Complete'
    <3>. SUFFICES ASSUME errors' = 0,
                         NEW q \in (0..(red - 1)) \cup (RW_START_PAGE..(rwred - 1))
                  PROVE  flash'[q] = Image(q)'
      BY <1>3 DEF Complete
    <3>1. p >= rwred
      BY <1>1, <1>2, <1>5 DEF EndOfFlash
    <3>2. q \in Page /\ q < page' /\ (q < red' \/ q >= RW_START_PAGE)
      BY <1>1, <1>2, <1>3, <3>1 DEF Page
    <3>3. q \in burned'
      BY <3>2 DEF FlashCore
    <3>. QED  BY <3>3 DEF OkIsBurned
  <2>2. mode' = "prog" /\ \A x, y \in Page : flash'[x] = Image(y)' => flash'[y] = Image(y)'
    BY DEF FlashCore, Done
  <2>. QED  BY <1>5, <2>1, <2>2 DEF IInv, EarlyInv, Early, FlashingInv, Flashing, PageInv, ChunkInv,
                VerifyingInv, Verifying, CompleteInv
<1>. QED  BY <1>4, <1>5 DEF Loop

\* More errors than none.
LEMMA PlusFacts ==
  ASSUME FilesFit, Types
  PROVE  Plus(errors) \in 0..(MaxErrors + 1) /\ Plus(errors) # 0
<1>1. MaxErrors \in Nat /\ errors \in 0..(MaxErrors + 1)
  BY Bounds DEF Types, TypeOK
<1>. QED  BY <1>1 DEF Plus

LEMMA SetPageInv ==
  ASSUME FilesFit, IInv, SetPage
  PROVE  IInv'
<1>i. /\ Types /\ FlashCore /\ OkIsBurned /\ page \in Page /\ AnsOK
      /\ ans # <<>> /\ ans[1].fc = 6 => pagereg = page
  BY DEF IInv, FlashingInv, Flashing, SetPage, PageInv, Types
<1>1. PICK ok \in BOOLEAN, val \in 0..1 :
        /\ Call(SetsPage(page), Answer(6), ok, val)
        /\ clean' = ok
        /\ IF ok THEN pc' = "chunk" /\ chunk' = 0 /\ UNCHANGED <<page, errors>>
                 ELSE Loop(page, Plus(errors))
  BY DEF SetPage
<1>2. UNCHANGED <<files, name, burned, verified>>
  BY DEF SetPage
<1>3. Outcome(SetsPage(page), Answer(6), ok, val)
  BY <1>i, <1>1, CallOutcome, AnswersTyped
<1>4. /\ UNCHANGED <<buf, flash, mode>> /\ pagereg' \in {pagereg, page}
      /\ SetsPage(page) => pagereg' = page
  BY <1>i, <1>3 DEF Outcome, SetsPage, Nothing, FlashCore
<1>5. /\ AnsOK' /\ faults' \in 0..MaxFaults
      /\ \A k \in DOMAIN ans' : ans'[k].fc % 128 \in {3, 5, 6, 16}
  BY <1>i, <1>3, OutcomeTypes, AnswersTyped
<1>6. /\ ans' # <<>> => ans'[1].fc \in {6, 134}
      /\ ans' # <<>> /\ ans'[1].fc = 6 => pagereg' = page
  <2>1. ans' \in {<<>>, <<Answer(6)>>, <<Refused(Answer(6))>>} /\ (ans' = <<Answer(6)>> => SetsPage(page))
    BY <1>3 DEF Outcome
  <2>. QED  BY <1>4, <2>1, StaleAfter
<1>7. /\ red' = red /\ \A q : Image(q)' = Image(q)
  BY <1>2, SameImage
<1>8. OkIsBurned'
  BY <1>i, <1>2, <1>4, <1>7 DEF OkIsBurned
<1>9. CASE ok
  <2>1. pc' = "chunk" /\ chunk' = 0 /\ page' = page /\ errors' = errors /\ clean'
    BY <1>1, <1>9
  <2>2. pagereg' = page
    BY <1>i, <1>3, <1>4, <1>9 DEF Outcome, Answer
  <2>3. Types'
    <3>1. chunk' \in 0..Chunks /\ pagereg' \in Page
      BY <1>i, <2>1, <2>2, Bounds
    <3>2. TypeOK'
      BY <1>i, <1>2, <1>5, <1>4, <2>1, <3>1 DEF Types, TypeOK
    <3>. QED  BY <1>i, <1>2, <1>4, <1>5, <2>1, <3>2 DEF Types, files
  <2>4. FlashCore'
    BY <1>i, <1>2, <1>4, <1>7, <2>1 DEF FlashCore, Done
  <2>5. ChunkInv'
    <3>1. chunk' = 0 /\ chunk' < Chunks /\ ~(chunk' > 0)
      BY <1>i, <2>1, Bounds
    <3>2. \A c \in Chunk : ~(c < chunk')
      BY <1>i, <2>1, Bounds DEF Chunk
    <3>. QED  BY <1>6, <2>1, <3>1, <3>2 DEF ChunkInv, Stale
  <2>. QED  BY <1>i, <1>8, <2>1, <2>2, <2>3, <2>4, <2>5 DEF IInv, EarlyInv, Early, FlashingInv,
                Flashing, PageInv, VerifyingInv, Verifying, CompleteInv
<1>10. CASE ~ok
  <2>1. Loop(page, Plus(errors))
    BY <1>1, <1>10
  <2>2. page' = page /\ errors' = Plus(errors) /\ chunk' = 0 /\ pc' \in {"flash", "verify", "reboot"}
    BY <2>1 DEF Loop
  <2>3. Plus(errors) \in 0..(MaxErrors + 1) /\ Plus(errors) # 0 /\ Plus(errors) \in Nat
    BY <1>i, PlusFacts, Bounds
  <2>4. Types'
    <3>1. chunk' \in 0..Chunks /\ pagereg' \in Page
      BY <1>i, <1>4, <2>2, Bounds DEF Types, TypeOK
    <3>2. page' \in 0..(LastPage + 1)
      BY <1>i, <2>2 DEF Types, TypeOK
    <3>3. TypeOK'
      BY <1>i, <1>2, <1>5, <1>4, <2>2, <2>3, <3>1, <3>2 DEF Types, TypeOK
    <3>. QED  BY <1>i, <1>1, <1>2, <1>4, <1>5, <3>3 DEF Types, files
  <2>5. FlashCore'
    BY <1>i, <1>2, <1>4, <1>7, <2>2, <2>3 DEF FlashCore, Done
  <2>. QED  BY <1>i, <1>2, <1>6, <1>8, <2>1, <2>2, <2>3, <2>4, <2>5, LoopInv
<1>. QED  BY <1>9, <1>10

\* A chunk is sent, by flashit or by verify: a call that is not spoiled has
\* filled its part of the buffer.
LEMMA ChunkSent ==
  ASSUME FilesFit, Types, ChunkInv, mode = "prog", pc \in {"chunk", "v_chunk"},
         NEW ok \in BOOLEAN, NEW val \in 0..1,
         Call(Fills(chunk_register(chunk), Data(page, chunk)), Answer(16), ok, val),
         clean' = (clean /\ ok), chunk' = chunk + 1, UNCHANGED <<files, page>>,
         pc' = IF LastChunk(chunk + 1) THEN (IF pc = "chunk" THEN "burn" ELSE "v_read") ELSE pc
  PROVE  /\ UNCHANGED <<pagereg, flash, mode>>
         /\ buf' \in [Chunk -> Word]
         /\ buf' = buf \/ (chunk \in Chunk /\ buf'[chunk] = Data(page, chunk))
         /\ chunk' \in 0..Chunks /\ ChunkInv'
         /\ AnsOK' /\ faults' \in 0..MaxFaults
         /\ \A k \in DOMAIN ans' : ans'[k].fc % 128 \in {3, 5, 6, 16}
<1>. DEFINE fill == Fills(chunk_register(chunk), Data(page, chunk))
<1>1. Outcome(fill, Answer(16), ok, val)
  BY CallOutcome, AnswersTyped DEF Types
<1>2. /\ AnsOK' /\ faults' \in 0..MaxFaults
      /\ \A k \in DOMAIN ans' : ans'[k].fc % 128 \in {3, 5, 6, 16}
  BY <1>1, OutcomeTypes, AnswersTyped
<1>3. /\ Chunks \in Nat \ {0} /\ chunk \in Nat /\ chunk < Chunks /\ page \in Page /\ chunk \in Chunk
      /\ buf \in [Chunk -> Word] /\ clean \in BOOLEAN
  <2>1. Chunks \in Nat \ {0} /\ chunk \in 0..Chunks /\ chunk < Chunks
    BY Bounds DEF Types, TypeOK, ChunkInv
  <2>. QED  BY <2>1 DEF Chunk, Types, TypeOK
<1>4. Data(page, chunk) \in Word
  BY <1>3, DataFacts
<1>5. /\ UNCHANGED <<pagereg, flash, mode>>
      /\ buf' = buf \/ buf' = [buf EXCEPT ![chunk] = Data(page, chunk)]
      /\ fill => buf' = [buf EXCEPT ![chunk] = Data(page, chunk)]
  BY <1>1 DEF Outcome, Nothing, Fills, chunk_register
<1>6. buf' \in [Chunk -> Word] /\ (buf' = buf \/ buf'[chunk] = Data(page, chunk))
  BY <1>3, <1>4, <1>5
<1>7. ans' # <<>> => ans'[1].fc \in {16, 144}
  <2>1. ans' \in {<<>>, <<Answer(16)>>, <<Refused(Answer(16))>>}
    BY <1>1 DEF Outcome
  <2>. QED  BY <2>1, StaleAfter
<1>8. ASSUME clean' PROVE ans' = <<>> /\ \A c \in Chunk : c < chunk' => buf'[c] = Data(page, c)'
  <2>1. clean /\ ok
    BY <1>8
  <2>2. ans = <<>>
    <3>1. ASSUME ans # <<>> PROVE FALSE
      <4>1. ans[1].fc = 16
        BY <1>1, <2>1, <3>1 DEF Outcome, Answer
      <4>2. chunk = 0
        BY <1>3, <2>1, <3>1 DEF ChunkInv
      <4>3. ans[1].fc \in {6, 134}
        BY <3>1, <4>2 DEF ChunkInv, Stale
      <4>. QED  BY <4>1, <4>3
    <3>. QED  BY <3>1
  <2>3. fill /\ ans' = <<>>
    BY <1>1, <2>1, <2>2 DEF Outcome
  <2>4. \A c \in Chunk : c < chunk => buf[c] = Data(page, c)
    BY <2>1 DEF ChunkInv
  <2>5. \A c \in Chunk : Data(page, c)' = Data(page, c)
    <3>1. page' = page /\ red' = red
      BY SameImage
    <3>. QED  BY <3>1 DEF Data
  <2>6. ASSUME NEW c \in Chunk, c < chunk' PROVE buf'[c] = Data(page, c)
    <3>1. c \in Nat /\ (c = chunk \/ c < chunk)
      BY <1>3, <2>6 DEF Chunk
    <3>. QED  BY <1>3, <1>5, <2>3, <2>4, <3>1
  <2>. QED  BY <2>3, <2>5, <2>6
<1>9. chunk' \in 0..Chunks /\ chunk' > 0 /\ chunk' # 0
  BY <1>3
<1>10. /\ pc' \in {"chunk", "v_chunk"} => chunk' < Chunks
       /\ pc' \in {"burn", "v_read"} => chunk' = Chunks
  BY <1>3, <1>9 DEF LastChunk
<1>11. ChunkInv'
  BY <1>7, <1>8, <1>9, <1>10 DEF ChunkInv, Stale
<1>. QED  BY <1>2, <1>3, <1>5, <1>6, <1>9, <1>11

LEMMA SendChunkInv ==
  ASSUME FilesFit, IInv, SendChunk
  PROVE  IInv'
<1>i. /\ Types /\ FlashCore /\ OkIsBurned /\ page \in Page /\ ChunkInv /\ pagereg = page
      /\ (errors = 0 => clean) /\ pc = "chunk" /\ mode = "prog"
  BY DEF IInv, FlashingInv, Flashing, SendChunk, PageInv, FlashCore
<1>1. PICK ok \in BOOLEAN, val \in 0..1 :
        /\ Call(Fills(chunk_register(chunk), Data(page, chunk)), Answer(16), ok, val)
        /\ errors' = IF ok THEN errors ELSE Plus(errors)
        /\ clean' = (clean /\ ok)
  BY DEF SendChunk
<1>2. /\ UNCHANGED <<files, name, page, burned, verified>> /\ chunk' = chunk + 1
      /\ pc' = IF LastChunk(chunk + 1) THEN "burn" ELSE "chunk"
  BY DEF SendChunk
<1>3. /\ UNCHANGED <<pagereg, flash, mode>>
      /\ buf' \in [Chunk -> Word]
      /\ buf' = buf \/ (chunk \in Chunk /\ buf'[chunk] = Data(page, chunk))
      /\ chunk' \in 0..Chunks /\ ChunkInv'
      /\ AnsOK' /\ faults' \in 0..MaxFaults
      /\ \A k \in DOMAIN ans' : ans'[k].fc % 128 \in {3, 5, 6, 16}
  BY <1>i, <1>1, <1>2, ChunkSent
<1>4. /\ red' = red /\ \A q : Image(q)' = Image(q)
  BY <1>2, SameImage
<1>5. errors' \in 0..(MaxErrors + 1) /\ (errors' = 0 => errors = 0 /\ ok)
  <2>1. Plus(errors) \in 0..(MaxErrors + 1) /\ Plus(errors) # 0 /\ errors \in 0..(MaxErrors + 1)
    BY <1>i, PlusFacts DEF Types, TypeOK
  <2>. QED  BY <1>1, <2>1
<1>6. clean' \in BOOLEAN /\ (errors' = 0 => clean')
  BY <1>i, <1>1, <1>5
<1>7. pc' \in {"chunk", "burn"}
  BY <1>2
<1>8. Types'
  <2>1. TypeOK'
    BY <1>i, <1>2, <1>3, <1>5, <1>7 DEF Types, TypeOK
  <2>. QED  BY <1>i, <1>2, <1>3, <1>6, <2>1 DEF Types, files
<1>9. OkIsBurned'
  BY <1>i, <1>2, <1>3, <1>4 DEF OkIsBurned
<1>10. FlashCore'
  <2>1. ASSUME NEW q \in Page, buf' = Image(q) PROVE q = page \/ Done(q)
    <3>1. CASE buf' = buf
      BY <1>i, <2>1, <3>1 DEF FlashCore
    <3>2. CASE chunk \in Chunk /\ buf'[chunk] = Data(page, chunk)
      <4>1. Data(q, chunk) = Data(page, chunk)
        BY <1>i, <2>1, <3>2, ImageFacts
      <4>. QED  BY <1>i, <3>2, <4>1, DataFacts
    <3>. QED  BY <1>3, <3>1, <3>2
  <2>2. \A q : Done(q)' <=> Done(q)
    BY <1>2, <1>3, <1>4 DEF Done
  <2>. QED  BY <1>i, <1>2, <1>3, <1>4, <1>5, <2>1, <2>2 DEF FlashCore
<1>. QED  BY <1>i, <1>2, <1>3, <1>6, <1>7, <1>8, <1>9, <1>10 DEF IInv, EarlyInv, Early, FlashingInv,
              Flashing, PageInv, VerifyingInv, Verifying, CompleteInv

\* The page after this one.
LEMMA NextPageFacts ==
  ASSUME FilesFit, Types, page \in Page
  PROVE  /\ NextPage \in 0..(LastPage + 1) /\ page < NextPage
         /\ \A p \in Page : p < NextPage /\ (p < red \/ p >= RW_START_PAGE) => p <= page
<1>1. /\ red \in Int /\ red <= RW_START_PAGE /\ RW_START_PAGE <= LastPage + 1
      /\ RW_START_PAGE \in Nat /\ LastPage \in Nat
  BY Bounds DEF FilesFit
<1>2. page \in 0..LastPage
  BY DEF Page
<1>. QED  BY <1>1, <1>2 DEF NextPage, Page

LEMMA BurnPageInv ==
  ASSUME FilesFit, IInv, BurnPage
  PROVE  IInv'
<1>i. /\ Types /\ FlashCore /\ OkIsBurned /\ page \in Page /\ ChunkInv /\ pagereg = page
      /\ (errors = 0 => clean) /\ pc = "burn" /\ mode = "prog" /\ AnsOK
  BY DEF IInv, FlashingInv, Flashing, BurnPage, PageInv, FlashCore, Types
<1>1. PICK ok \in BOOLEAN, val \in 0..1 :
        /\ Call(Burns, Answer(6), ok, val)
        /\ IF ok THEN Loop(NextPage, errors) ELSE Loop(page, Plus(errors))
        /\ burned' = IF ok /\ clean THEN burned \cup {page} ELSE burned
  BY DEF BurnPage
<1>2. UNCHANGED <<files, name, clean, verified>>
  BY DEF BurnPage
<1>3. Outcome(Burns, Answer(6), ok, val)
  BY <1>i, <1>1, CallOutcome, AnswersTyped
<1>4. /\ UNCHANGED <<pagereg, buf, mode>>
      /\ flash' = flash \/ flash' = [flash EXCEPT ![page] = buf]
      /\ Burns => flash' = [flash EXCEPT ![page] = buf]
  BY <1>i, <1>3 DEF Outcome, Nothing, Burns
<1>5. /\ AnsOK' /\ faults' \in 0..MaxFaults
      /\ \A k \in DOMAIN ans' : ans'[k].fc % 128 \in {3, 5, 6, 16}
  BY <1>i, <1>3, OutcomeTypes, AnswersTyped
<1>6. /\ red' = red /\ \A q : Image(q)' = Image(q)
  BY <1>2, SameImage
<1>7. /\ buf \in [Chunk -> Word] /\ flash \in [Page -> [Chunk -> Word]] /\ clean \in BOOLEAN
      /\ burned \subseteq Page /\ errors \in 0..(MaxErrors + 1) /\ LastPage \in Nat /\ MaxErrors \in Nat
      /\ Chunks \in Nat \ {0} /\ chunk = Chunks
  BY <1>i, Bounds DEF Types, TypeOK, ChunkInv
<1>8. /\ flash' \in [Page -> [Chunk -> Word]]
      /\ \A p \in Page : p # page => flash'[p] = flash[p]
      /\ flash'[page] \in {flash[page], buf} /\ (Burns => flash'[page] = buf)
  BY <1>i, <1>4, <1>7
<1>9. clean => buf = Image(page)
  <2>. SUFFICES ASSUME clean PROVE buf = Image(page)
    OBVIOUS
  <2>1. \A c \in Chunk : c < Chunks
    BY <1>7 DEF Chunk
  <2>2. \A c \in Chunk : buf[c] = Data(page, c)
    BY <1>i, <1>7, <2>1 DEF ChunkInv
  <2>3. Image(page) \in [Chunk -> Word] /\ \A c \in Chunk : Image(page)[c] = Data(page, c)
    BY <1>i, ImageFacts
  <2>. QED  BY <1>7, <2>2, <2>3
\* Success is never the answer to an earlier call.
<1>10. ok => Burns /\ ans' = <<>>
  <2>1. ans # <<>> => ans[1].fc \in {16, 144}
    BY <1>i, <1>7 DEF ChunkInv, Stale
  <2>. QED  BY <1>3, <2>1 DEF Outcome, Answer
<1>11. /\ \A q \in Page : buf = Image(q) => q = page \/ (q < page /\ flash[q] = Image(q))
       /\ \A p, q \in Page : flash[p] = Image(q) => q = p \/ (q < page /\ flash[q] = Image(q))
       /\ \A p \in burned : p < page
       /\ verified = {}
  BY <1>i DEF FlashCore, Done
<1>12. \A p \in burned : p \in Page /\ p # page /\ flash'[p] = Image(p)
  <2>1. \A p \in burned : p \in Page /\ p # page
    BY <1>7, <1>11 DEF Page
  <2>. QED  BY <1>i, <1>8, <2>1 DEF OkIsBurned
<1>13. OkIsBurned'
  <2>1. ok /\ clean => flash'[page] = Image(page)
    BY <1>8, <1>9, <1>10
  <2>2. verified' = {}
    BY <1>2, <1>11
  <2>. QED  BY <1>1, <1>6, <1>12, <2>1, <2>2 DEF OkIsBurned
\* A page in the wrong place was done before.
<1>14. \A q \in Page : q < page /\ flash[q] = Image(q) => flash'[q] = Image(q)
  <2>1. \A q \in Page : q < page => q # page
    BY <1>i DEF Page
  <2>. QED  BY <1>8, <2>1
<1>15. \A p, q \in Page : flash'[p] = Image(q) => q = p \/ (q < page /\ flash'[q] = Image(q))
  BY <1>8, <1>11, <1>14
<1>16. CASE ok
  <2>1. Loop(NextPage, errors)
    BY <1>1, <1>16
  <2>2. page' = NextPage /\ errors' = errors /\ chunk' = 0 /\ pc' \in {"flash", "verify", "reboot"}
    BY <2>1 DEF Loop
  <2>3. /\ NextPage \in 0..(LastPage + 1) /\ page < NextPage
        /\ \A p \in Page : p < NextPage /\ (p < red \/ p >= RW_START_PAGE) => p <= page
    BY <1>i, NextPageFacts
  <2>4. Types'
    <3>1. chunk' \in 0..Chunks
      BY <1>7, <2>2
    <3>2. page' \in 0..(LastPage + 1) /\ burned' \subseteq Page
      BY <1>i, <1>1, <1>7, <2>2, <2>3
    <3>3. TypeOK'
      BY <1>i, <1>2, <1>4, <1>5, <2>2, <3>1, <3>2 DEF Types, TypeOK
    <3>. QED  BY <1>i, <1>2, <1>4, <1>5, <1>8, <3>3 DEF Types, files
  <2>5. flash'[page] = buf
    BY <1>8, <1>10, <1>16
  <2>6. \A q \in Page : q < page => q < NextPage
    BY <1>7, <1>i, <2>3 DEF Page
  <2>7. \A q \in Page : buf = Image(q) => q < NextPage /\ flash'[q] = Image(q)
    BY <1>11, <1>14, <2>3, <2>5, <2>6
  <2>8. \A p, q \in Page : flash'[p] = Image(q) => q = p \/ (q < NextPage /\ flash'[q] = Image(q))
    BY <1>15, <2>6
  <2>9. \A p \in burned' : p < NextPage
    <3>1. \A p \in burned : p \in Page
      BY <1>7
    <3>. QED  BY <1>1, <1>11, <2>3, <2>6, <3>1
  <2>10. errors = 0 => \A p \in Page : p < NextPage /\ (p < red \/ p >= RW_START_PAGE) => p \in burned'
    <3>. SUFFICES ASSUME errors = 0, NEW p \in Page, p < NextPage, p < red \/ p >= RW_START_PAGE
                  PROVE  p \in burned'
      OBVIOUS
    <3>1. burned' = burned \cup {page}
      BY <1>i, <1>1, <1>16
    <3>2. p = page \/ p < page
      BY <1>i, <2>3 DEF Page
    <3>3. p < page => p \in burned
      BY <1>i DEF FlashCore
    <3>. QED  BY <3>1, <3>2, <3>3
  <2>11. FlashCore'
    BY <1>i, <1>2, <1>4, <1>6, <1>11, <2>2, <2>7, <2>8, <2>9, <2>10 DEF FlashCore, Done
  <2>12. errors \in Nat /\ ans' = <<>>
    BY <1>7, <1>10, <1>16
  <2>. QED  BY <1>i, <1>2, <1>13, <2>1, <2>4, <2>11, <2>12, LoopInv
<1>17. CASE ~ok
  <2>1. Loop(page, Plus(errors)) /\ burned' = burned
    BY <1>1, <1>17
  <2>2. page' = page /\ errors' = Plus(errors) /\ chunk' = 0 /\ pc' \in {"flash", "verify", "reboot"}
    BY <2>1 DEF Loop
  <2>3. Plus(errors) \in 0..(MaxErrors + 1) /\ Plus(errors) # 0 /\ Plus(errors) \in Nat
    BY <1>i, PlusFacts, Bounds
  <2>4. Types'
    <3>1. chunk' \in 0..Chunks
      BY <1>7, <2>2
    <3>2. page' \in 0..(LastPage + 1)
      BY <1>i, <2>2 DEF Types, TypeOK
    <3>3. TypeOK'
      BY <1>i, <1>2, <1>4, <1>5, <2>1, <2>2, <2>3, <3>1, <3>2 DEF Types, TypeOK
    <3>. QED  BY <1>i, <1>2, <1>4, <1>5, <1>8, <3>3 DEF Types, files
  <2>5. \A q \in Page : buf = Image(q) => q = page \/ (q < page /\ flash'[q] = Image(q))
    BY <1>11, <1>14
  <2>6. FlashCore'
    BY <1>i, <1>2, <1>4, <1>6, <1>11, <1>15, <2>1, <2>2, <2>3, <2>5 DEF FlashCore, Done
  <2>7. pagereg' = page'
    BY <1>i, <1>4, <2>2
  <2>. QED  BY <1>i, <1>2, <1>13, <2>1, <2>3, <2>4, <2>6, <2>7, LoopInv
<1>. QED  BY <1>16, <1>17

LEMMA VerifyPageInv ==
  ASSUME FilesFit, IInv, VerifyPage
  PROVE  IInv'
<1>i. /\ Types /\ OkIsBurned /\ page \in Page /\ AnsOK /\ pc = "v_page" /\ mode = "prog"
      /\ \A p, q \in Page : flash[p] = Image(q) => flash[q] = Image(q)
      /\ (opt.prog /\ errors = 0 => Complete)
  BY DEF IInv, VerifyingInv, Verifying, VerifyPage, CompleteInv, Types, TypeOK
<1>1. PICK ok \in BOOLEAN, val \in 0..1 :
        /\ Call(SetsPage(page), Answer(6), ok, val)
        /\ clean' = ok
        /\ pc' = IF ok THEN "v_chunk" ELSE "reboot"
  BY DEF VerifyPage
<1>2. UNCHANGED <<files, name, page, errors, burned, verified>> /\ chunk' = 0
  BY DEF VerifyPage
<1>3. Outcome(SetsPage(page), Answer(6), ok, val)
  BY <1>i, <1>1, CallOutcome, AnswersTyped
<1>4. UNCHANGED <<buf, flash, mode>> /\ pagereg' \in {pagereg, page}
  BY <1>i, <1>3 DEF Outcome, SetsPage, Nothing
<1>5. /\ AnsOK' /\ faults' \in 0..MaxFaults
      /\ \A k \in DOMAIN ans' : ans'[k].fc % 128 \in {3, 5, 6, 16}
  BY <1>i, <1>3, OutcomeTypes, AnswersTyped
<1>6. ans' # <<>> => ans'[1].fc \in {6, 134}
  <2>1. ans' \in {<<>>, <<Answer(6)>>, <<Refused(Answer(6))>>}
    BY <1>3 DEF Outcome
  <2>. QED  BY <2>1, StaleAfter
<1>7. /\ red' = red /\ rwred' = rwred /\ \A q : Image(q)' = Image(q)
  BY <1>2, SameImage
<1>8. OkIsBurned'
  BY <1>i, <1>2, <1>4, <1>7 DEF OkIsBurned
<1>9. Types'
  <2>1. chunk' \in 0..Chunks /\ pagereg' \in Page
    BY <1>i, <1>2, <1>4, Bounds DEF Types, TypeOK
  <2>2. TypeOK'
    BY <1>i, <1>1, <1>2, <1>4, <1>5, <2>1 DEF Types, TypeOK
  <2>. QED  BY <1>i, <1>1, <1>2, <1>4, <1>5, <2>2 DEF Types, files
<1>10. ChunkInv'
  <2>1. chunk' = 0 /\ chunk' < Chunks /\ ~(chunk' > 0)
    BY <1>i, <1>2, Bounds
  <2>2. \A c \in Chunk : ~(c < chunk')
    BY <1>i, <1>2, Bounds DEF Chunk
  <2>. QED  BY <1>1, <1>6, <2>1, <2>2 DEF ChunkInv, Stale
<1>11. opt' = opt /\ (Complete => Complete')
  BY <1>2, <1>4, <1>7 DEF Complete, files
<1>. QED  BY <1>i, <1>1, <1>2, <1>4, <1>7, <1>8, <1>9, <1>10, <1>11 DEF IInv, EarlyInv, Early, FlashingInv,
              Flashing, PageInv, VerifyingInv, Verifying, CompleteInv

LEMMA VerifyChunkInv ==
  ASSUME FilesFit, IInv, VerifyChunk
  PROVE  IInv'
<1>i. /\ Types /\ OkIsBurned /\ page \in Page /\ ChunkInv /\ pc = "v_chunk" /\ mode = "prog"
      /\ \A p, q \in Page : flash[p] = Image(q) => flash[q] = Image(q)
      /\ (opt.prog /\ errors = 0 => Complete)
  BY DEF IInv, VerifyingInv, Verifying, VerifyChunk, CompleteInv, Types, TypeOK
<1>1. PICK ok \in BOOLEAN, val \in 0..1 :
        /\ Call(Fills(chunk_register(chunk), Data(page, chunk)), Answer(16), ok, val)
        /\ clean' = (clean /\ ok)
  BY DEF VerifyChunk
<1>2. /\ UNCHANGED <<files, name, page, errors, burned, verified>> /\ chunk' = chunk + 1
      /\ pc' = IF LastChunk(chunk + 1) THEN "v_read" ELSE "v_chunk"
  BY DEF VerifyChunk
<1>3. /\ UNCHANGED <<pagereg, flash, mode>>
      /\ buf' \in [Chunk -> Word]
      /\ chunk' \in 0..Chunks /\ ChunkInv'
      /\ AnsOK' /\ faults' \in 0..MaxFaults
      /\ \A k \in DOMAIN ans' : ans'[k].fc % 128 \in {3, 5, 6, 16}
  BY <1>i, <1>1, <1>2, ChunkSent
<1>4. /\ red' = red /\ rwred' = rwred /\ \A q : Image(q)' = Image(q)
  BY <1>2, SameImage
<1>5. pc' \in {"v_chunk", "v_read"} /\ clean' \in BOOLEAN
  BY <1>i, <1>1, <1>2 DEF Types
<1>6. Types'
  <2>1. TypeOK'
    BY <1>i, <1>2, <1>3, <1>5 DEF Types, TypeOK
  <2>. QED  BY <1>i, <1>2, <1>3, <1>5, <2>1 DEF Types, files
<1>7. OkIsBurned'
  BY <1>i, <1>2, <1>3, <1>4 DEF OkIsBurned
<1>8. opt' = opt /\ (Complete => Complete')
  BY <1>2, <1>3, <1>4 DEF Complete, files
<1>. QED  BY <1>i, <1>2, <1>3, <1>4, <1>5, <1>6, <1>7, <1>8 DEF IInv, EarlyInv, Early, FlashingInv,
              Flashing, PageInv, VerifyingInv, Verifying, CompleteInv

LEMMA VerifyReadInv ==
  ASSUME FilesFit, IInv, VerifyRead
  PROVE  IInv'
<1>i. /\ Types /\ OkIsBurned /\ page \in Page /\ ChunkInv /\ AnsOK /\ pc = "v_read" /\ mode = "prog"
      /\ \A p, q \in Page : flash[p] = Image(q) => flash[q] = Image(q)
      /\ (opt.prog /\ errors = 0 => Complete)
  BY DEF IInv, VerifyingInv, Verifying, VerifyRead, CompleteInv, Types, TypeOK
<1>1. PICK ok \in BOOLEAN, val \in 0..1 :
        /\ Call(Nothing, Matching, ok, val)
        /\ verified' = IF VerifyOk(ok, val) THEN verified \cup {page} ELSE verified
        /\ page' = NextPage
        /\ pc' = IF ok /\ NextPage < rwred THEN "v_page" ELSE "reboot"
  BY DEF VerifyRead
<1>2. UNCHANGED <<files, name, chunk, errors, clean, burned>>
  BY DEF VerifyRead
<1>3. Matching \in AnswerType
  BY DEF Matching, AnswerType
<1>4. Outcome(Nothing, Matching, ok, val)
  BY <1>i, <1>1, <1>3, CallOutcome
<1>5. UNCHANGED <<pagereg, buf, flash, mode>>
  BY <1>4 DEF Outcome, Nothing
<1>6. /\ AnsOK' /\ faults' \in 0..MaxFaults
      /\ \A k \in DOMAIN ans' : ans'[k].fc % 128 \in {3, 5, 6, 16}
  BY <1>i, <1>3, <1>4, OutcomeTypes
<1>7. /\ red' = red /\ rwred' = rwred /\ \A q : Image(q)' = Image(q)
  BY <1>2, SameImage
<1>8. /\ Chunks \in Nat \ {0} /\ chunk = Chunks /\ buf \in [Chunk -> Word] /\ pagereg \in Page
      /\ rwred \in Nat /\ rwred <= LastPage + 1 /\ LastPage \in Nat
  BY <1>i, Bounds DEF Types, TypeOK, ChunkInv
\* Success is never the answer to an earlier call, and the board compared its
\* buffer, which holds the page.
<1>9. VerifyOk(ok, val) => flash[page] = Image(page)
  <2>. SUFFICES ASSUME ok, clean, val = 1 PROVE flash[page] = Image(page)
    BY DEF VerifyOk
  <2>1. ans # <<>> => ans[1].fc \in {16, 144}
    BY <1>i, <1>8 DEF ChunkInv, Stale
  <2>2. Matching.fc = 3
    BY DEF Matching
  <2>3. val = Matching.val
    BY <1>4, <2>1, <2>2 DEF Outcome
  <2>4. flash[pagereg] = buf
    BY <2>3 DEF Matching
  <2>5. \A c \in Chunk : c < Chunks
    BY <1>8 DEF Chunk
  <2>6. \A c \in Chunk : buf[c] = Data(page, c)
    BY <1>i, <1>8, <2>5 DEF ChunkInv
  <2>7. Image(page) \in [Chunk -> Word] /\ \A c \in Chunk : Image(page)[c] = Data(page, c)
    BY <1>i, ImageFacts
  <2>8. buf = Image(page)
    BY <1>8, <2>6, <2>7
  <2>. QED  BY <1>i, <1>8, <2>4, <2>8
<1>10. OkIsBurned'
  BY <1>i, <1>1, <1>2, <1>5, <1>7, <1>9 DEF OkIsBurned
<1>11. NextPage \in 0..(LastPage + 1) /\ (NextPage < rwred => NextPage \in Page)
  <2>1. NextPage \in 0..(LastPage + 1)
    BY <1>i, NextPageFacts
  <2>. QED  BY <1>8, <2>1 DEF Page
<1>12. Types'
  <2>1. verified' \subseteq Page
    BY <1>i, <1>1 DEF Types, TypeOK
  <2>2. pc' \in {"v_page", "reboot"} /\ (pc' = "v_page" => page' \in Page)
    BY <1>1, <1>11
  <2>3. TypeOK'
    BY <1>i, <1>1, <1>2, <1>5, <1>6, <1>11, <2>1, <2>2 DEF Types, TypeOK
  <2>. QED  BY <1>i, <1>2, <1>5, <1>6, <2>3 DEF Types, files
<1>13. opt' = opt /\ (Complete => Complete')
  BY <1>2, <1>5, <1>7 DEF Complete, files
<1>14. pc' \in {"v_page", "reboot"}
  BY <1>1
<1>. QED  BY <1>i, <1>2, <1>5, <1>7, <1>10, <1>12, <1>13, <1>14 DEF IInv, EarlyInv, Early, FlashingInv,
              Flashing, PageInv, ChunkInv, VerifyingInv, Verifying, CompleteInv

LEMMA ProgModeInv ==
  ASSUME FilesFit, IInv, ProgMode
  PROVE  IInv'
<1>i. /\ Types /\ OkIsBurned /\ AnsOK /\ ans = <<>> /\ page = 0 /\ errors = 0 /\ burned = {} /\ verified = {}
      /\ buf = [c \in Chunk |-> Old] /\ flash = [p \in Page |-> [c \in Chunk |-> Old]]
  BY DEF IInv, EarlyInv, Early, ProgMode, Types
<1>1. PICK ok \in BOOLEAN, val \in 0..1 :
        /\ Call(Switches("prog"), Answer(5), ok, val)
        /\ pc' = IF ~ok THEN "failed" ELSE IF opt.prog THEN "flash" ELSE "verify"
  BY DEF ProgMode
<1>2. UNCHANGED files /\ UNCHANGED <<name, page, chunk, errors, clean, burned, verified>>
  BY DEF ProgMode, progress
<1>3. Outcome(Switches("prog"), Answer(5), ok, val)
  BY <1>i, <1>1, CallOutcome, AnswersTyped
<1>4. UNCHANGED <<pagereg, buf, flash>> /\ mode' \in {mode, "prog"}
  BY <1>3 DEF Outcome, Nothing, Switches
<1>5. /\ AnsOK' /\ faults' \in 0..MaxFaults
      /\ \A k \in DOMAIN ans' : ans'[k].fc % 128 \in {3, 5, 6, 16}
  BY <1>i, <1>3, OutcomeTypes, AnswersTyped
<1>6. ok => mode' = "prog" /\ ans' = <<>>
  BY <1>i, <1>3 DEF Outcome, Switches
<1>7. /\ red' = red /\ \A q : Image(q)' = Image(q)
  BY <1>2, SameImage
<1>8. \A q \in Page : Image(q) # [c \in Chunk |-> Old]
  BY <1>i, ImageFacts
<1>9. \A p, q \in Page : flash[p] # Image(q) /\ buf # Image(q)
  BY <1>i, <1>8
<1>10. pc' \in {"failed", "flash", "verify"} /\ (pc' # "failed" => ok) /\ (pc' = "verify" => ~opt.prog)
  BY <1>1
<1>11. OkIsBurned'
  BY <1>i, <1>2 DEF OkIsBurned
<1>12. Types'
  <2>1. TypeOK'
    BY <1>i, <1>2, <1>4, <1>5, <1>10 DEF Types, TypeOK
  <2>. QED  BY <1>i, <1>2, <1>4, <1>5, <2>1 DEF Types, files
<1>13. page' \in Page /\ \A p \in Page : ~(p < page')
  BY <1>i, <1>2, Bounds DEF Page
<1>14. pc' = "flash" => FlashCore'
  BY <1>i, <1>2, <1>4, <1>6, <1>7, <1>9, <1>10, <1>13 DEF FlashCore
<1>15. opt' = opt
  BY <1>2 DEF files
<1>. QED  BY <1>4, <1>6, <1>7, <1>9, <1>10, <1>11, <1>12, <1>13, <1>14, <1>15 DEF IInv, EarlyInv, Early,
              FlashingInv, Flashing, PageInv, ChunkInv, VerifyingInv, Verifying, CompleteInv

LEMMA ReadVersionInv ==
  ASSUME FilesFit, IInv, ReadVersion
  PROVE  IInv'
<1>i. /\ Types /\ OkIsBurned /\ AnsOK /\ ans = <<>> /\ page = 0 /\ errors = 0 /\ burned = {} /\ verified = {}
      /\ buf = [c \in Chunk |-> Old] /\ flash = [p \in Page |-> [c \in Chunk |-> Old]]
  BY DEF IInv, EarlyInv, Early, ReadVersion, Types
<1>1. PICK ok \in BOOLEAN, val \in 0..1 :
        /\ Call(Nothing, Answer(3), ok, val)
        /\ pc' = IF ~ok THEN "failed"
                 ELSE IF opt.prog \/ opt.verify THEN "select" ELSE "done"
  BY DEF ReadVersion
<1>2. UNCHANGED files /\ UNCHANGED <<name, page, chunk, errors, clean, burned, verified>>
  BY DEF ReadVersion, progress
<1>3. Outcome(Nothing, Answer(3), ok, val)
  BY <1>i, <1>1, CallOutcome, AnswersTyped
<1>4. UNCHANGED <<pagereg, buf, flash, mode>>
  BY <1>3 DEF Outcome, Nothing
<1>5. /\ AnsOK' /\ faults' \in 0..MaxFaults
      /\ \A k \in DOMAIN ans' : ans'[k].fc % 128 \in {3, 5, 6, 16}
  BY <1>i, <1>3, OutcomeTypes, AnswersTyped
<1>6. ok => ans' = <<>>
  BY <1>i, <1>3 DEF Outcome
<1>7. pc' \in {"failed", "select", "done"} /\ (pc' = "select" => ok) /\ (pc' = "done" => ~opt.prog)
  BY <1>1
<1>8. OkIsBurned'
  BY <1>i, <1>2 DEF OkIsBurned
<1>9. Types'
  <2>1. TypeOK'
    BY <1>i, <1>2, <1>4, <1>5, <1>7 DEF Types, TypeOK
  <2>. QED  BY <1>i, <1>2, <1>4, <1>5, <2>1 DEF Types, files
<1>10. opt' = opt
  BY <1>2 DEF files
<1>. QED  BY <1>i, <1>2, <1>4, <1>6, <1>7, <1>8, <1>9, <1>10 DEF IInv, EarlyInv, Early,
              FlashingInv, Flashing, PageInv, ChunkInv, VerifyingInv, Verifying, CompleteInv

LEMMA RebootInv ==
  ASSUME FilesFit, IInv, Reboot
  PROVE  IInv'
<1>i. Types /\ OkIsBurned /\ AnsOK /\ (opt.prog /\ errors = 0 => Complete)
  BY DEF IInv, Reboot, CompleteInv, Types
<1>1. PICK ok \in BOOLEAN, val \in 0..1 : Call(Switches("run"), Answer(6), ok, val)
  BY DEF Reboot
<1>2. UNCHANGED files /\ UNCHANGED <<name, page, chunk, errors, clean, burned, verified>> /\ pc' = "done"
  BY DEF Reboot, progress
<1>3. Outcome(Switches("run"), Answer(6), ok, val)
  BY <1>i, <1>1, CallOutcome, AnswersTyped
<1>4. UNCHANGED <<pagereg, buf, flash>> /\ mode' \in {mode, "run"}
  BY <1>3 DEF Outcome, Nothing, Switches
<1>5. /\ AnsOK' /\ faults' \in 0..MaxFaults
      /\ \A k \in DOMAIN ans' : ans'[k].fc % 128 \in {3, 5, 6, 16}
  BY <1>i, <1>3, OutcomeTypes, AnswersTyped
<1>6. /\ red' = red /\ rwred' = rwred /\ \A q : Image(q)' = Image(q)
  BY <1>2, SameImage
<1>7. OkIsBurned'
  BY <1>i, <1>2, <1>4, <1>6 DEF OkIsBurned
<1>8. Types'
  <2>1. TypeOK'
    BY <1>i, <1>2, <1>4, <1>5 DEF Types, TypeOK
  <2>. QED  BY <1>i, <1>2, <1>4, <1>5, <2>1 DEF Types, files
<1>9. opt' = opt /\ (Complete => Complete')
  BY <1>2, <1>4, <1>6 DEF Complete, files
<1>. QED  BY <1>i, <1>2, <1>7, <1>8, <1>9 DEF IInv, EarlyInv, Early,
              FlashingInv, Flashing, PageInv, ChunkInv, VerifyingInv, Verifying, CompleteInv

LEMMA InitInv == FilesFit /\ Init => IInv
<1>. SUFFICES ASSUME FilesFit, Init PROVE IInv
  OBVIOUS
<1>1. /\ RW_START_PAGE \in Nat /\ LastPage \in Nat /\ Chunks \in Nat \ {0}
      /\ MaxErrors \in Nat /\ MaxFaults \in Nat
  BY FwSerialAssumption
<1>2. Types
  <2>1. Old \in Word
    BY DEF Old, Word
  <2>2. buf \in [Chunk -> Word] /\ flash \in [Page -> [Chunk -> Word]]
    BY <2>1 DEF Init
  <2>3. 0 \in Page /\ 0 \in 0..(LastPage + 1) /\ 0 \in 0..Chunks /\ 0 \in 0..(MaxErrors + 1) /\ 0 \in 0..MaxFaults
    BY <1>1 DEF Page
  <2>4. TypeOK
    BY <2>3 DEF Init, TypeOK
  <2>. QED  BY <2>2, <2>4 DEF Init, Types, AnsOK
<1>. QED  BY <1>2 DEF Init, IInv, EarlyInv, Early, FlashingInv, Flashing, PageInv, ChunkInv, VerifyingInv,
              Verifying, CompleteInv, OkIsBurned

LEMMA StepInv == FilesFit /\ IInv /\ [Next]_vars => IInv'
<1>. SUFFICES ASSUME FilesFit, IInv, [Next]_vars PROVE IInv'
  OBVIOUS
<1>i. Types /\ OkIsBurned
  BY DEF IInv
<1>1. CASE Select
  <2>1. /\ pc = "select" /\ pc' \in {"failed", "progmode"}
        /\ UNCHANGED <<files, page, chunk, errors, ans, pagereg, buf, flash, mode,
                       clean, burned, verified, faults>>
    BY <1>1 DEF Select
  <2>2. /\ red' = red /\ \A q : Image(q)' = Image(q)
    BY <2>1, SameImage
  <2>3. Types'
    <3>1. TypeOK'
      BY <1>i, <2>1 DEF Types, TypeOK
    <3>. QED  BY <1>i, <2>1, <3>1 DEF Types, AnsOK, files
  <2>4. OkIsBurned'
    BY <1>i, <2>1, <2>2 DEF OkIsBurned
  <2>5. EarlyInv'
    BY <2>1 DEF IInv, EarlyInv, Early
  <2>. QED  BY <2>1, <2>3, <2>4, <2>5 DEF IInv, FlashingInv, Flashing, PageInv, ChunkInv, VerifyingInv,
                Verifying, CompleteInv
<1>2. CASE VerifyBegins
  <2>1. /\ pc = "verify" /\ pc' = "v_page" /\ page' = 0 /\ chunk' = 0
        /\ UNCHANGED files
        /\ UNCHANGED <<name, errors, ans, pagereg, buf, flash, mode, clean, burned, verified, faults>>
    BY <1>2 DEF VerifyBegins
  <2>2. /\ red' = red /\ rwred' = rwred /\ \A q : Image(q)' = Image(q)
    BY <2>1, SameImage
  <2>3. page' \in Page /\ page' \in 0..(LastPage + 1) /\ chunk' \in 0..Chunks
    BY <1>i, <2>1, Bounds DEF Page
  <2>4. Types'
    <3>1. TypeOK'
      BY <1>i, <2>1, <2>3 DEF Types, TypeOK
    <3>. QED  BY <1>i, <2>1, <3>1 DEF Types, AnsOK, files
  <2>5. OkIsBurned'
    BY <1>i, <2>1, <2>2 DEF OkIsBurned
  <2>6. opt' = opt /\ (Complete => Complete')
    BY <2>1, <2>2 DEF Complete, files
  <2>7. VerifyingInv'
    BY <2>1, <2>2 DEF IInv, VerifyingInv, Verifying
  <2>8. CompleteInv'
    BY <2>1, <2>6 DEF IInv, CompleteInv, Verifying
  <2>. QED  BY <2>1, <2>4, <2>5, <2>7, <2>8 DEF IInv, EarlyInv, Early, FlashingInv, Flashing, PageInv, ChunkInv
<1>3. CASE UNCHANGED vars
  <2>1. /\ UNCHANGED files
        /\ UNCHANGED <<pc, name, page, chunk, errors, ans, pagereg, buf, flash, mode, clean, burned, verified, faults>>
    BY <1>3 DEF vars, files
  <2>2. /\ red' = red /\ rwred' = rwred /\ \A q : Image(q)' = Image(q)
        /\ \A p, c : Data(p, c)' = Data(p, c)
    BY <2>1, SameImage
  <2>3. Types'
    <3>1. TypeOK'
      BY <1>i, <2>1 DEF Types, TypeOK
    <3>. QED  BY <1>i, <2>1, <3>1 DEF Types, AnsOK, files
  <2>4. OkIsBurned'
    BY <1>i, <2>1, <2>2 DEF OkIsBurned
  <2>5. EarlyInv' /\ PageInv'
    BY <2>1 DEF IInv, EarlyInv, Early, PageInv
  <2>6. FlashingInv'
    BY <2>1, <2>2 DEF IInv, FlashingInv, Flashing, FlashCore, Done
  <2>7. ChunkInv'
    <3>1. \A c : Data(page, c)' = Data(page, c)
      BY <2>1, <2>2 DEF Data
    <3>. QED  BY <2>1, <3>1 DEF IInv, ChunkInv, Stale
  <2>8. VerifyingInv'
    BY <2>1, <2>2 DEF IInv, VerifyingInv, Verifying
  <2>9. CompleteInv'
    BY <2>1, <2>2 DEF IInv, CompleteInv, Verifying, Complete, files
  <2>. QED  BY <2>3, <2>4, <2>5, <2>6, <2>7, <2>8, <2>9 DEF IInv
<1>. QED  BY <1>1, <1>2, <1>3, ReadVersionInv, ProgModeInv, SetPageInv, SendChunkInv, BurnPageInv,
              VerifyPageInv, VerifyChunkInv, VerifyReadInv, RebootInv DEF Next, Tool, Ended

-----------------------------------------------------------------------------

\* fwserial never sends a page beyond the flash, a chunk beyond its page or, in
\* flashit, counts an error too many.
THEOREM TypeCorrect ==
  ASSUME FilesFit
  PROVE  Spec => []TypeOK
<1>1. IInv => TypeOK
  BY DEF IInv, Types
<1>2. Init => IInv
  BY InitInv
<1>3. IInv /\ [Next]_vars => IInv'
  BY StepInv
<1>. QED  BY <1>1, <1>2, <1>3, PTL DEF Spec

\* A page that is reported OK after nothing but successful calls is in the board,
\* however many calls fail, are answered late or not at all.
THEOREM ReportedIsBurned ==
  ASSUME FilesFit
  PROVE  Spec => []OkIsBurned
<1>1. IInv => OkIsBurned
  BY DEF IInv
<1>2. Init => IInv
  BY InitInv
<1>3. IInv /\ [Next]_vars => IInv'
  BY StepInv
<1>. QED  BY <1>1, <1>2, <1>3, PTL DEF Spec

\* When flashit has counted no error, both files are in the board.
THEOREM NoErrorIsProgrammed ==
  ASSUME FilesFit
  PROVE  Spec => []Programmed
<1>1. IInv => Programmed
  BY DEF IInv, CompleteInv, Complete, Programmed
<1>2. Init => IInv
  BY InitInv
<1>3. IInv /\ [Next]_vars => IInv'
  BY StepInv
<1>. QED  BY <1>1, <1>2, <1>3, PTL DEF Spec

-----------------------------------------------------------------------------
(* The firmware that is chosen.                                            *)

\* The registers tell what a board is made of, as far as the choice depends on it: with
\* --calibrate or --final register 1004 holds the base board (firmware from 4.3 on; in
\* older ones it is something else, and FitsBoards does not hold), otherwise hw_version
\* is that of a board with this base and this upper board.
RegistersTell ==
  \A job \in Jobs :
    LET v == parse_version(job[2].r1000)
        b == HW_BOARD(v.hw_version)
        base == job[2].base
    IN  IF job[1].calibrate \/ job[1].final >= 0
          THEN /\ v.base_hw_version \in Nat /\ HW_BOARD(v.base_hw_version) = base
               /\ get_map(base) => baseboard(base) = base
          ELSE get_map(b) => baseboard(b) = base /\ upboard(b) = job[2].up

\* The upper boards of the table exist, and base boards have none.
LEMMA Tables ==
  \A b \in DOMAIN compatibility_map :
    upboard(b) \in DOMAIN up_boards /\ (baseboard(b) = b => upboard(b) = 0)
<1>1. DOMAIN compatibility_map = 0..15 /\ DOMAIN up_boards = {0, 1, 2, 3, 4, 5, 13}
  BY DEF compatibility_map, up_boards
<1>2. \A b \in 0..15 : \/ b = 0 \/ b = 1 \/ b = 2 \/ b = 3 \/ b = 4 \/ b = 5 \/ b = 6 \/ b = 7
                       \/ b = 8 \/ b = 9 \/ b = 10 \/ b = 11 \/ b = 12 \/ b = 13 \/ b = 14
                       \/ b = 15
  OBVIOUS
<1>. QED  BY <1>1, <1>2 DEF compatibility_map, upboard, baseboard

\* The calibrating bit is not part of the board.
LEMMA CalibratingBoard ==
  ASSUME NEW x \in Nat
  PROVE  Calibrating(x) \in Nat /\ HW_BOARD(Calibrating(x)) = HW_BOARD(x)
BY DEF Calibrating, IS_CALIB, HW_BOARD

\* A set of boards has a first one.
LEMMA FirstBoard ==
  ASSUME NEW S \in SUBSET Nat, S # {}
  PROVE  \E x \in S : \A y \in S : x <= y
<1>. DEFINE R == OpToRel(<, Nat)
<1>1. \A x, y \in Nat : y < x => <<y, x>> \in R
  BY DEF OpToRel
<1>2. IsWellFoundedOn(R, Nat)
  BY NatLessThanWellFounded, Zenon
<1>. HIDE DEF R
<1>3. PICK x \in S : \A y \in S : ~(<<y, x>> \in R)
  BY <1>2, WFMin
<1>4. ASSUME NEW y \in S PROVE x <= y
  <2>1. x \in Nat /\ y \in Nat
    OBVIOUS
  <2>2. ~(y < x)
    BY <1>1, <1>3, <2>1
  <2>. QED  BY <2>1, <2>2
<1>. QED  BY <1>4

\* What check_compatibility finds stands on the base board and carries the upper board
\* it was given.
LEMMA Compatible ==
  ASSUME NEW hw_base \in Nat, NEW up, check_compatibility(hw_base, up) # 0
  PROVE  /\ baseboard(HW_BOARD(check_compatibility(hw_base, up))) = HW_BOARD(hw_base)
         /\ upboard(HW_BOARD(check_compatibility(hw_base, up))) = up
<1>. DEFINE fits == {x \in DOMAIN compatibility_map :
                       compatibility_map[x] = <<HW_BOARD(hw_base), up>>}
            b == CHOOSE x \in fits : \A y \in fits : x <= y
            low == IF up_boards[up] = 0 THEN hw_base % 256 ELSE up_boards[up]
<1>1. fits # {} /\ check_compatibility(hw_base, up) = 256 * b + low
  BY DEF check_compatibility
<1>2. fits \in SUBSET (0..15)
  BY DEF compatibility_map
<1>3. b \in fits
  <2>. HIDE DEF fits
  <2>1. \E x \in fits : \A y \in fits : x <= y
    BY <1>1, <1>2, FirstBoard
  <2>. QED  BY <2>1
<1>. HIDE DEF b
<1>4. b \in 0..15 /\ get_map(b) /\ baseboard(b) = HW_BOARD(hw_base) /\ upboard(b) = up
  BY <1>2, <1>3 DEF get_map, baseboard, upboard
<1>5. up_boards[up] \in {0, 16}
  <2>1. up \in DOMAIN up_boards
    BY <1>4, Tables DEF get_map
  <2>. QED  BY <2>1 DEF up_boards
<1>6. low \in 0..255
  BY <1>5
<1>. HIDE DEF low
<1>7. HW_BOARD(256 * b + low) = b
  BY <1>4, <1>6 DEF HW_BOARD
<1>. QED  BY <1>1, <1>4, <1>7

\* The name of the file chosen tells the base and the upper board of the board it is
\* chosen for.
LEMMA NameFits ==
  ASSUME NEW hw, NEW hw_base, firmware_name(hw, hw_base) # NULL
  PROVE  /\ get_map(HW_BOARD(hw)) /\ firmware_name(hw, hw_base)[1] = baseboard(HW_BOARD(hw))
         /\ firmware_name(hw, hw_base)[3] = upboard(HW_BOARD(hw))
<1>. DEFINE b == HW_BOARD(hw)
<1>1. get_map(b)
  BY DEF firmware_name
<1>2. baseboard(b) = b => upboard(b) = 0
  BY <1>1, Tables DEF get_map
<1>. HIDE DEF b
<1>3. CASE baseboard(b) = b
  <2>1. firmware_name(hw, hw_base) = <<b, HW_MAJOR(hw), 0, 0, IS_CALIB(hw)>>
    BY <1>1, <1>3 DEF firmware_name, b
  <2>. QED  BY <1>1, <1>2, <1>3, <2>1 DEF b
<1>4. CASE baseboard(b) # b
  <2>1. /\ firmware_name(hw, hw_base)
             = <<HW_BOARD(hw_base), HW_MAJOR(hw_base), upboard(b), HW_MAJOR(hw), IS_CALIB(hw)>>
        /\ HW_BOARD(hw_base) = baseboard(b)
    BY <1>1, <1>4 DEF firmware_name, b
  <2>. QED  BY <1>1, <2>1 DEF b
<1>. QED  BY <1>3, <1>4

\* Nothing is burned before a file that fits was chosen.
FitInv ==
  /\ \E job \in Jobs : opt = job[1] /\ board = job[2]
  /\ \/ name[1] = board.base /\ name[3] = Upper
     \/ /\ pc \in {"version", "select", "failed", "done"}
        /\ flash = [p \in Page |-> [c \in Chunk |-> Old]]

LEMMA SelectFits == RegistersTell /\ FitInv /\ Select => FitInv'
<1>. SUFFICES ASSUME RegistersTell, FitInv, Select PROVE FitInv'
  OBVIOUS
<1>1. UNCHANGED <<opt, board, flash>> /\ pc = "select"
  BY DEF Select, files
<1>2. CASE pc' = "failed" /\ name' = name
  BY <1>1, <1>2 DEF FitInv, Upper
<1>3. CASE pc' = "progmode"
  <2>. DEFINE hw == HwVersion
              base == bv.base_hw_version
  <2>1. /\ name' = firmware_name(hw, base) /\ firmware_name(hw, base) # NULL
        /\ ~(~opt.calibrate /\ opt.final >= 0 /\ hw = 0)
    BY <1>3 DEF Select
  <2>2. PICK job \in Jobs : opt = job[1] /\ board = job[2]
    BY DEF FitInv
  <2>3. IF opt.calibrate \/ opt.final >= 0
          THEN /\ base \in Nat /\ HW_BOARD(base) = board.base
               /\ get_map(board.base) => baseboard(board.base) = board.base
          ELSE get_map(HW_BOARD(bv.hw_version)) =>
                 /\ baseboard(HW_BOARD(bv.hw_version)) = board.base
                 /\ upboard(HW_BOARD(bv.hw_version)) = board.up
    BY <2>2 DEF RegistersTell, bv
  <2>4. get_map(HW_BOARD(hw)) =>
          baseboard(HW_BOARD(hw)) = board.base /\ upboard(HW_BOARD(hw)) = Upper
    <3>1. CASE opt.calibrate
      <4>1. HW_BOARD(hw) = HW_BOARD(base)
        BY <2>3, <3>1, CalibratingBoard DEF HwVersion
      <4>2. get_map(board.base) => upboard(board.base) = 0
        BY <2>3, <3>1, Tables DEF get_map
      <4>3. Upper = 0
        BY <3>1 DEF Upper
      <4>. HIDE DEF hw, base
      <4>. QED  BY <2>3, <3>1, <4>1, <4>2, <4>3
    <3>2. CASE ~opt.calibrate /\ opt.final >= 0
      <4>1. hw = check_compatibility(base, opt.final) /\ hw # 0
        BY <2>1, <3>2 DEF HwVersion
      <4>. HIDE DEF hw, base
      <4>2. check_compatibility(base, opt.final) # 0
        BY <4>1
      <4>3. /\ baseboard(HW_BOARD(check_compatibility(base, opt.final))) = HW_BOARD(base)
            /\ upboard(HW_BOARD(check_compatibility(base, opt.final))) = opt.final
        BY <2>3, <3>2, <4>2, Compatible
      <4>4. Upper = opt.final
        BY <3>2 DEF Upper
      <4>. QED  BY <2>3, <3>2, <4>1, <4>3, <4>4
    <3>3. CASE ~opt.calibrate /\ ~(opt.final >= 0)
      <4>1. hw = bv.hw_version
        BY <3>3 DEF HwVersion
      <4>2. Upper = board.up
        BY <3>3 DEF Upper
      <4>. HIDE DEF hw
      <4>. QED  BY <2>3, <3>3, <4>1, <4>2
    <3>. QED  BY <3>1, <3>2, <3>3
  <2>. HIDE DEF hw, base
  <2>5. /\ name'[1] = baseboard(HW_BOARD(hw)) /\ get_map(HW_BOARD(hw))
        /\ name'[3] = upboard(HW_BOARD(hw))
    BY <2>1, NameFits
  <2>6. name'[1] = board'.base /\ name'[3] = Upper'
    BY <1>1, <2>4, <2>5 DEF Upper
  <2>. QED  BY <1>1, <2>2, <2>6 DEF FitInv
<1>. QED  BY <1>2, <1>3 DEF Select

\* Whatever calls fail: the firmware in a board that tells what it is made of is
\* one for its base board and for the upper board that is there or that the user names.
THEOREM FirmwareFits ==
  ASSUME RegistersTell
  PROVE  Spec => []FitsBoards
<1>1. Init => FitInv
  BY DEF Init, FitInv
<1>2. FitInv /\ [Next]_vars => FitInv'
  <2>. SUFFICES ASSUME FitInv, [Next]_vars PROVE FitInv'
    OBVIOUS
  <2>1. CASE ReadVersion
    <3>1. UNCHANGED <<opt, board, name, flash>> /\ pc' \in {"failed", "select", "done"}
      BY <2>1 DEF ReadVersion, Call, Arrives, Delayed, Nothing, files, progress
    <3>2. pc = "version"
      BY <2>1 DEF ReadVersion
    <3>. QED  BY <3>1, <3>2 DEF FitInv, Upper
  <2>2. CASE Select
    BY <2>2, SelectFits
  <2>3. CASE \/ ProgMode \/ SetPage \/ SendChunk \/ BurnPage \/ VerifyBegins \/ VerifyPage
             \/ VerifyChunk \/ VerifyRead \/ Reboot
    <3>1. UNCHANGED <<opt, board, name>> /\ pc \notin {"version", "select", "failed", "done"}
      BY <2>3 DEF ProgMode, SetPage, SendChunk, BurnPage, VerifyBegins, VerifyPage, VerifyChunk,
                  VerifyRead, Reboot, files, progress
    <3>. QED  BY <3>1 DEF FitInv, Upper
  <2>4. CASE Ended \/ UNCHANGED vars
    BY <2>4 DEF Ended, vars, FitInv, Upper
  <2>. QED  BY <2>1, <2>2, <2>3, <2>4 DEF Next, Tool
<1>3. FitInv => FitsBoards
  BY DEF FitInv, FitsBoards
<1>. QED  BY <1>1, <1>2, <1>3, PTL DEF Spec

=============================================================================
