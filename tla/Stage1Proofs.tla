---------------------------- MODULE Stage1Proofs ----------------------------
(***************************************************************************)
(* What the board starts after a complete update is the image of the       *)
(* update, for any flash geometry, any images, and any interruptions.      *)
(***************************************************************************)
EXTENDS Stage1, TLAPS

USE ImageAssumption, FlashAssumption

(* Pages and blocks.  StartOf(b) is the first page of block b. *)
StartOf(b) == PagesPerBlock * b

LEMMA Division ==
  ASSUME NEW p \in Nat
  PROVE  /\ BlockOf(p) \in Nat
         /\ StartOf(BlockOf(p)) \in Nat
         /\ StartOf(BlockOf(p)) <= p
         /\ p < StartOf(BlockOf(p)) + PagesPerBlock
         /\ BlockBegin(p) <=> p = StartOf(BlockOf(p))
<1>1. /\ BlockOf(p) \in Nat
      /\ p % PagesPerBlock \in 0..(PagesPerBlock - 1)
      /\ p = PagesPerBlock * BlockOf(p) + (p % PagesPerBlock)
  BY DEF BlockOf
<1>2. PagesPerBlock * BlockOf(p) \in Nat
  BY <1>1
<1>. QED BY <1>1, <1>2 DEF StartOf, BlockBegin

LEMMA Scaled ==
  ASSUME NEW a \in Nat, NEW b \in Nat, a < b
  PROVE  /\ StartOf(a) \in Nat /\ StartOf(b) \in Nat
         /\ StartOf(a) + PagesPerBlock <= StartOf(b)
<1>1. PICK d \in Nat : b = a + 1 + d
  BY b - a - 1 \in Nat, b = a + 1 + (b - a - 1)
<1>2. PagesPerBlock * (a + 1 + d) = PagesPerBlock * a + PagesPerBlock + PagesPerBlock * d
  OBVIOUS
<1>3. PagesPerBlock * d \in Nat /\ PagesPerBlock * a \in Nat
  OBVIOUS
<1>. QED BY <1>1, <1>2, <1>3 DEF StartOf

LEMMA BlocksInOrder ==
  ASSUME NEW p \in Nat, NEW q \in Nat, p <= q
  PROVE  BlockOf(p) <= BlockOf(q)
<1>1. SUFFICES ASSUME BlockOf(q) < BlockOf(p) PROVE FALSE
  BY Division
<1>2. StartOf(BlockOf(q)) + PagesPerBlock <= StartOf(BlockOf(p))
  BY <1>1, Division, Scaled
<1>. QED BY <1>2, Division

LEMMA BeginIsFirst ==
  ASSUME NEW p \in Nat, NEW q \in Nat, BlockBegin(p), BlockOf(p) = BlockOf(q)
  PROVE  p <= q
  BY Division

LEMMA NextBlock ==
  ASSUME NEW p \in Nat
  PROVE  /\ BlockOf(p + 1) <= BlockOf(p) + 1
         /\ ~BlockBegin(p + 1) => BlockOf(p + 1) = BlockOf(p)
<1>1. BlockOf(p) \in Nat /\ BlockOf(p + 1) \in Nat /\ BlockOf(p) <= BlockOf(p + 1)
  BY Division, BlocksInOrder
<1>2. ASSUME BlockOf(p) + 1 < BlockOf(p + 1) PROVE FALSE
  <2>1. StartOf(BlockOf(p) + 1) + PagesPerBlock <= StartOf(BlockOf(p + 1))
    BY <1>1, <1>2, Scaled
  <2>2. StartOf(BlockOf(p)) + PagesPerBlock <= StartOf(BlockOf(p) + 1)
    BY <1>1, Scaled
  <2>3. p + 1 < StartOf(BlockOf(p + 1))
    BY <1>1, <2>1, <2>2, Division, Scaled
  <2>. QED BY <2>3, Division
<1>3. ASSUME BlockOf(p) < BlockOf(p + 1) PROVE BlockBegin(p + 1)
  <2>1. StartOf(BlockOf(p)) + PagesPerBlock <= StartOf(BlockOf(p + 1))
    BY <1>1, <1>3, Scaled
  <2>2. p + 1 = StartOf(BlockOf(p + 1))
    BY <2>1, Division
  <2>. QED BY <2>2, Division
<1>. QED BY <1>1, <1>2, <1>3

LEMMA PageFacts ==
  /\ Pages \in Nat /\ Pages >= PagesPerBlock
  /\ 0 \in Page /\ 1 \in Page /\ Page \subseteq Nat
  /\ FirstPage \in Nat
  /\ \A p \in Page : BlockOf(p) \in Block
<1>1. StartOf(BlockCount) \in Nat /\ StartOf(BlockCount) = Pages
  BY DEF Pages, StartOf
<1>2. Pages >= PagesPerBlock
  <2>1. StartOf(0) = 0
    BY DEF StartOf
  <2>. QED BY <1>1, <2>1, Scaled
<1>3. ASSUME NEW p \in Page PROVE BlockOf(p) \in Block
  <2>1. p \in Nat /\ p < Pages
    BY <1>1 DEF Page
  <2>2. SUFFICES ASSUME BlockCount <= BlockOf(p) PROVE FALSE
    BY <2>1, Division DEF Block
  <2>3. StartOf(BlockOf(p)) >= StartOf(BlockCount)
    <3>1. CASE BlockOf(p) = BlockCount
      BY <3>1, <1>1
    <3>2. CASE BlockCount < BlockOf(p)
      BY <3>2, <2>1, Scaled, Division
    <3>. QED BY <2>1, <2>2, <3>1, <3>2, Division
  <2>. QED BY <2>1, <2>3, <1>1, Division
<1>. QED BY <1>1, <1>2, <1>3 DEF Page
-----------------------------------------------------------------------------
LEMMA ContentFacts ==
  /\ Erased \in Content /\ Junk \in Content
  /\ \A i \in Image, k \in Nat : <<i, k>> \in Content /\ <<i, k>> # Junk
  BY DEF Erased, Junk, Content

LEMMA StageInit == Init => StageInv
  BY PageFacts, ContentFacts
     DEF Init, StageInv, TypeOK, PositionKept, ErasedAhead, GoodSoFar, StoredKept,
         LoadKept, Updating, Seeking, Writing

LEMMA UpdateStarts ==
  ASSUME StageInv, NEW i \in Image, Update(i)
  PROVE  StageInv'
<1>1. TypeOK'
  BY PageFacts, ContentFacts DEF Update, StageInv, TypeOK, nand
<1>2. pc' = "first" /\ img' = i /\ page' = Pages - 1 /\ stored' = None
  BY DEF Update
<1>3. Pages - 1 \in Page
  BY PageFacts DEF Page
<1>. QED
  BY <1>1, <1>2, <1>3, PageFacts
     DEF StageInv, PositionKept, ErasedAhead, GoodSoFar, StoredKept, LoadKept,
         Updating, Seeking, Writing, Verified, Holds

(* While an update runs nothing is stored. *)
LEMMA UpdatingStoresNothing ==
  ASSUME StageInv, Updating
  PROVE  stored = None
  BY DEF StageInv, StoredKept

LEMMA NextPageFacts ==
  ASSUME NEW p \in Page
  PROVE  /\ (p + 1) % Pages \in Page
         /\ (p + 1) % Pages = IF p = Pages - 1 THEN 0 ELSE p + 1
  BY PageFacts DEF Page

LEMMA GetEmptyPageKeeps ==
  ASSUME StageInv, GetEmptyPage
  PROVE  StageInv'
<1>1. /\ Seeking /\ stored = None /\ page \in Page /\ img \in Image
      /\ NextPage \in Page
      /\ NextPage = IF page = Pages - 1 THEN 0 ELSE page + 1
  BY UpdatingStoresNothing, NextPageFacts
     DEF GetEmptyPage, Updating, StageInv, PositionKept, NextPage
<1>2. /\ page' = NextPage /\ img' = img /\ next' = next /\ mem' = mem
      /\ stored' = stored /\ clean' = clean
      /\ zero' = IF pc = "first" THEN NextPage ELSE zero
      /\ pc' = CASE pc = "first"  -> "second"
                 [] pc = "second" -> "write_0"
                 [] pc = "more"   -> IF NextPage = 0 THEN "stopped" ELSE "write"
  BY DEF GetEmptyPage, Erase
<1>3. pc \in {"first", "second", "more"}
  BY <1>1 DEF Seeking
<1>4. /\ \A p \in Page : flash'[p] = IF BlockBegin(NextPage) /\ BlockOf(p) = BlockOf(NextPage)
                                    THEN Erased ELSE flash[p]
      /\ bad' \subseteq bad
      /\ BlockBegin(NextPage) => BlockOf(NextPage) \notin bad'
      /\ flash' \in [Page -> Content]
  BY ContentFacts DEF GetEmptyPage, Erase, SetBlock, StageInv, TypeOK, nand
<1>5. TypeOK'
  BY <1>1, <1>2, <1>3, <1>4, PageFacts DEF StageInv, TypeOK
<1>6. StoredKept' /\ LoadKept'
  BY <1>1, <1>2, <1>3 DEF StoredKept, LoadKept
<1>7. PositionKept'
  <2>1. Pages \in Nat /\ Pages >= 2 /\ page \in Nat /\ next \in Nat /\ Size[img] \in Nat
    BY <1>1, PageFacts DEF StageInv, TypeOK
  <2>2. CASE pc = "first"
    BY <1>1, <1>2, <2>1, <2>2 DEF StageInv, PositionKept, Updating, Seeking, Writing
  <2>3. CASE pc = "second"
    BY <1>1, <1>2, <2>1, <2>3 DEF StageInv, PositionKept, Updating, Seeking, Writing
  <2>4. CASE pc = "more"
    <3>1. next < Size[img] /\ next >= 2 /\ (clean => page = next - 1)
      BY <1>1, <2>4 DEF Seeking, StageInv, PositionKept, Updating
    <3>2. CASE NextPage = 0
      BY <1>2, <2>4, <3>2 DEF PositionKept, Updating, Seeking, Writing
    <3>3. CASE NextPage # 0
      <4>1. pc' = "write" /\ NextPage = page + 1
        BY <1>1, <1>2, <2>4, <3>3
      <4>. QED BY <1>1, <1>2, <2>1, <3>1, <4>1 DEF PositionKept, Updating, Seeking, Writing
    <3>. QED BY <3>2, <3>3
  <2>. QED BY <1>3, <2>2, <2>3, <2>4
<1>8. SUFFICES ASSUME clean, pc' # "stopped"
               PROVE  ErasedAhead' /\ GoodSoFar'
  BY <1>2, <1>5, <1>6, <1>7
     DEF StageInv, ErasedAhead, GoodSoFar, Updating, Seeking, Writing
<1>9. CASE pc = "first"
  <2>1. NextPage = 0 /\ pc' = "second"
    BY <1>1, <1>2, <1>8, <1>9
       DEF StageInv, PositionKept, Updating
  <2>2. BlockBegin(0)
    BY DEF BlockBegin
  <2>3. \A b \in Block : b <= BlockOf(0) => b = BlockOf(0)
    BY PageFacts DEF BlockOf, Block
  <2>4. Verified' = 0
    BY <2>1 DEF Verified
  <2>5. GoodSoFar'
    BY <1>2, <1>4, <2>1, <2>2, <2>3, <2>4, PageFacts DEF GoodSoFar, Holds
  <2>6. ErasedAhead'
    BY <1>2, <1>4, <2>1, <2>2 DEF ErasedAhead
  <2>. QED BY <2>5, <2>6
<1>10. CASE pc # "first"
  <2>1. NextPage = page + 1 /\ page + 1 \in Nat /\ page \in Nat
    <3>1. pc = "second" => page = 0
      BY <1>1, <1>8 DEF StageInv, PositionKept, Updating
    <3>. QED BY <1>1, <1>2, <1>3, <1>8, <1>10, <3>1, PageFacts DEF Page
  <2>2. /\ Holds(flash, img, 0, Verified)
        /\ \A b \in Block : b <= BlockOf(page) => b \notin bad
        /\ \A p \in Page : BlockOf(p) = BlockOf(page) /\ p >= Unwritten => flash[p] = Erased
    BY <1>1, <1>8, <1>10 DEF StageInv, GoodSoFar, ErasedAhead, Updating
  <2>3. /\ pc' \in {"write_0", "write"}
        /\ Verified' = Verified /\ Unwritten' = Unwritten
        /\ Verified \in Nat /\ Verified <= page + 1 /\ Unwritten = Verified
    BY <1>1, <1>2, <1>3, <1>8, <1>10
       DEF StageInv, TypeOK, PositionKept, Updating, Verified, Unwritten
  <2>4. BlockOf(page) \in Nat /\ BlockOf(NextPage) \in Nat
    BY <2>1, Division
  <2>5. \A b \in Block : b <= BlockOf(page + 1) => b \notin bad'
    BY <1>4, <2>1, <2>2, <2>4, NextBlock DEF Block
  <2>6. \A k \in Page : k < Verified => flash'[k] = flash[k]
    BY <1>4, <2>1, <2>3, BeginIsFirst, PageFacts
  <2>7. GoodSoFar'
    BY <1>2, <2>1, <2>2, <2>3, <2>5, <2>6 DEF GoodSoFar, Holds
  <2>8. \A p \in Page : BlockOf(p) = BlockOf(page + 1) /\ p >= Unwritten
                        => flash'[p] = Erased
    BY <1>4, <2>1, <2>2, NextBlock
  <2>9. ErasedAhead'
    BY <1>2, <2>1, <2>3, <2>8 DEF ErasedAhead
  <2>. QED BY <2>7, <2>9
<1>. QED BY <1>9, <1>10
(* A block that cannot be erased: from then on nothing is claimed. *)
LEMMA EraseFailsKeeps ==
  ASSUME StageInv, EraseFails
  PROVE  StageInv'
<1>1. /\ Seeking /\ stored = None /\ page \in Page /\ img \in Image
      /\ NextPage \in Page
  BY UpdatingStoresNothing, NextPageFacts
     DEF EraseFails, Updating, StageInv, PositionKept, NextPage
<1>2. /\ page' = NextPage /\ UNCHANGED <<pc, img, zero, next, mem, stored>>
      /\ clean' = FALSE
  BY DEF EraseFails
<1>3. flash' \in [Page -> Content]
  BY ContentFacts DEF EraseFails, SetBlock, StageInv, TypeOK
<1>4. TypeOK'
  BY <1>1, <1>2, <1>3, PageFacts DEF EraseFails, StageInv, TypeOK
<1>5. PositionKept'
  BY <1>1, <1>2 DEF StageInv, PositionKept, Updating, Seeking, Writing
<1>. QED
  BY <1>1, <1>2, <1>4, <1>5
     DEF StageInv, ErasedAhead, GoodSoFar, StoredKept, LoadKept, Seeking

(* The three writes store to one page. *)
LEMMA Programs ==
  ASSUME TypeOK, NEW p \in Page, NEW c \in Content,
         Program(p, c) \/ ProgramFails(p)
  PROVE  /\ flash' \in [Page -> Content]
         /\ \A q \in Page : q # p => flash'[q] = flash[q]
         /\ Program(p, c) => flash'[p] = c
         /\ bad' = bad
  BY ContentFacts DEF Program, ProgramFails, TypeOK

LEMMA WritePage0Keeps ==
  ASSUME StageInv, NEW ok \in BOOLEAN, WritePage0(ok)
  PROVE  StageInv'
<1>1. /\ pc = "write_0" /\ stored = None /\ page \in Page /\ img \in Image
      /\ pc' \in {"write_1", "stopped"}
      /\ UNCHANGED <<img, page, zero, next, mem, clean, stored>>
      /\ zero \in Page /\ TypeOK
  BY UpdatingStoresNothing
     DEF WritePage0, Updating, Writing, StageInv, PositionKept, TypeOK
<1>2. /\ flash' \in [Page -> Content] /\ bad' = bad
      /\ \A q \in Page : q # zero => flash'[q] = flash[q]
  BY <1>1, Programs, ContentFacts DEF WritePage0
<1>3. TypeOK'
  BY <1>1, <1>2 DEF TypeOK
<1>4. PositionKept' /\ StoredKept' /\ LoadKept'
  BY <1>1 DEF StageInv, PositionKept, StoredKept, LoadKept, Updating, Seeking, Writing
<1>5. GoodSoFar'
  BY <1>1, <1>2, PageFacts
     DEF StageInv, GoodSoFar, Updating, Seeking, Writing, Verified, Holds
<1>6. ErasedAhead'
  BY <1>1, <1>2, PageFacts
     DEF StageInv, PositionKept, ErasedAhead, Updating, Seeking, Writing, Verified, Unwritten
<1>. QED BY <1>3, <1>4, <1>5, <1>6 DEF StageInv

LEMMA WritePage1Keeps ==
  ASSUME StageInv, NEW ok \in BOOLEAN, WritePage1(ok)
  PROVE  StageInv'
<1>1. /\ pc = "write_1" /\ stored = None /\ page \in Page /\ img \in Image
      /\ pc' \in {"verify", "stopped"}
      /\ UNCHANGED <<img, page, zero, next, mem, clean, stored>>
      /\ TypeOK
  BY UpdatingStoresNothing
     DEF WritePage1, Updating, Writing, StageInv, PositionKept, TypeOK
<1>2. /\ flash' \in [Page -> Content] /\ bad' = bad
      /\ \A q \in Page : q # page => flash'[q] = flash[q]
  BY <1>1, Programs, ContentFacts DEF WritePage1
<1>3. TypeOK'
  BY <1>1, <1>2 DEF TypeOK
<1>4. PositionKept' /\ StoredKept' /\ LoadKept'
  BY <1>1 DEF StageInv, PositionKept, StoredKept, LoadKept, Updating, Seeking, Writing
<1>5. GoodSoFar'
  BY <1>1, <1>2, PageFacts
     DEF StageInv, GoodSoFar, Updating, Seeking, Writing, Verified, Holds
<1>6. ErasedAhead'
  BY <1>1, <1>2, PageFacts
     DEF StageInv, PositionKept, ErasedAhead, Updating, Seeking, Writing, Unwritten
<1>. QED BY <1>3, <1>4, <1>5, <1>6 DEF StageInv

LEMMA VerifyKeeps ==
  ASSUME StageInv, Verify
  PROVE  StageInv'
<1>1. /\ pc = "verify" /\ stored = None /\ page \in Page /\ img \in Image
      /\ UNCHANGED <<flash, bad, img, page, zero, mem, clean, stored>>
      /\ pc' \in {"more", "stopped"} /\ next' = 2
      /\ pc' = "more" => flash[zero] = <<img, 0>> /\ flash[page] = <<img, 1>>
  BY UpdatingStoresNothing
     DEF Verify, nand, Updating, Writing, StageInv, PositionKept
<1>2. TypeOK' /\ StoredKept' /\ LoadKept'
  BY <1>1 DEF StageInv, TypeOK, StoredKept, LoadKept
<1>3. PositionKept'
  BY <1>1 DEF StageInv, PositionKept, Updating, Seeking, Writing
<1>4. ASSUME clean, pc' = "more"
      PROVE  GoodSoFar' /\ ErasedAhead'
  <2>1. page = 1 /\ zero = 0
    BY <1>1, <1>4 DEF StageInv, PositionKept, Updating, Writing
  <2>2. Holds(flash, img, 0, 2)
    BY <1>1, <1>4, <2>1, PageFacts DEF Holds
  <2>3. Unwritten = 2 /\ Unwritten' = 2 /\ Verified' = 2
    BY <1>1, <1>4 DEF Unwritten, Verified
  <2>4. GoodSoFar'
    BY <1>1, <1>4, <2>2, <2>3 DEF StageInv, GoodSoFar, Updating, Writing, Holds
  <2>5. ErasedAhead'
    BY <1>1, <1>4, <2>3 DEF StageInv, ErasedAhead, Updating, Writing
  <2>. QED BY <2>4, <2>5
<1>5. GoodSoFar' /\ ErasedAhead'
  BY <1>1, <1>4 DEF GoodSoFar, ErasedAhead, Updating, Seeking, Writing
<1>. QED BY <1>2, <1>3, <1>5 DEF StageInv

LEMMA WritePageKeeps ==
  ASSUME StageInv, NEW ok \in BOOLEAN, WritePage(ok)
  PROVE  StageInv'
<1>1. /\ pc = "write" /\ stored = None /\ page \in Page /\ img \in Image
      /\ UNCHANGED <<img, page, zero, mem, clean, stored>>
      /\ pc' = IF ok THEN "more" ELSE "stopped"
      /\ next' = IF ok THEN next + 1 ELSE next
      /\ next \in Nat /\ Size[img] \in Nat /\ next < Size[img] /\ next >= 2
      /\ TypeOK
  BY UpdatingStoresNothing
     DEF WritePage, Updating, Writing, StageInv, PositionKept, TypeOK
<1>2. /\ flash' \in [Page -> Content] /\ bad' = bad
      /\ \A q \in Page : q # page => flash'[q] = flash[q]
      /\ ok => flash'[page] = <<img, next>>
  BY <1>1, Programs, ContentFacts DEF WritePage
<1>3. TypeOK'
  BY <1>1, <1>2 DEF TypeOK
<1>4. PositionKept'
  BY <1>1, PageFacts DEF StageInv, PositionKept, Updating, Seeking, Writing
<1>5. StoredKept' /\ LoadKept'
  BY <1>1 DEF StoredKept, LoadKept
<1>6. ASSUME clean, ok
      PROVE  GoodSoFar' /\ ErasedAhead'
  <2>1. page = next
    BY <1>1, <1>6 DEF StageInv, PositionKept, Updating, Writing
  <2>2. /\ Verified = next /\ Unwritten = next
        /\ Verified' = next + 1 /\ Unwritten' = next + 1
    BY <1>1, <1>6 DEF Unwritten, Verified
  <2>3. GoodSoFar'
    BY <1>1, <1>2, <1>6, <2>1, <2>2, PageFacts
       DEF StageInv, GoodSoFar, Updating, Writing, Holds
  <2>4. ErasedAhead'
    BY <1>1, <1>2, <1>6, <2>1, <2>2, PageFacts DEF StageInv, ErasedAhead, Updating, Writing
  <2>. QED BY <2>3, <2>4
<1>7. GoodSoFar' /\ ErasedAhead'
  BY <1>1, <1>6 DEF GoodSoFar, ErasedAhead, Updating, Seeking, Writing
<1>. QED BY <1>3, <1>4, <1>5, <1>7 DEF StageInv
LEMMA CompleteKeeps ==
  ASSUME StageInv, Complete
  PROVE  StageInv'
<1>1. /\ pc = "more" /\ stored = None /\ page \in Page /\ img \in Image
      /\ next \in Nat /\ Size[img] \in Nat /\ next <= Size[img] /\ next >= Size[img]
      /\ pc' = "complete" /\ stored' = IF clean THEN img ELSE None
      /\ UNCHANGED <<flash, bad, mem>>
      /\ TypeOK
  BY UpdatingStoresNothing
     DEF Complete, Forget, nand, Updating, StageInv, PositionKept, TypeOK
<1>2. TypeOK'
  BY <1>1, PageFacts DEF Complete, Forget, TypeOK
<1>3. PositionKept' /\ ErasedAhead' /\ GoodSoFar' /\ LoadKept'
  BY <1>1 DEF PositionKept, ErasedAhead, GoodSoFar, LoadKept, Updating, Seeking, Writing
<1>4. StoredKept'
  <2>1. CASE ~clean
    BY <1>1, <2>1 DEF StoredKept
  <2>2. CASE clean
    <3>1. next = Size[img] /\ page = next - 1
      BY <1>1, <2>2 DEF StageInv, PositionKept, Updating
    <3>2. /\ Holds(flash, img, 0, Size[img])
          /\ \A b \in Block : b <= BlockOf(page) => b \notin bad
      BY <1>1, <2>2, <3>1 DEF StageInv, GoodSoFar, Updating, Verified
    <3>3. Size[img] <= Pages
      BY <1>1, <3>1, PageFacts DEF Page
    <3>4. \A k \in Page : k < Size[img] => BlockOf(k) \notin bad
      BY <1>1, <3>1, <3>2, PageFacts, BlocksInOrder
    <3>. QED
      BY <1>1, <2>2, <3>2, <3>3, <3>4 DEF StoredKept, Updating, Seeking, Writing, Holds
  <2>. QED BY <1>1, <2>1, <2>2 DEF TypeOK
<1>. QED BY <1>2, <1>3, <1>4 DEF StageInv
-----------------------------------------------------------------------------
LEMMA BootKeeps ==
  ASSUME StageInv, NEW i \in Image, Boot(i)
  PROVE  StageInv'
<1>1. /\ pc = "off" /\ pc' = "load" /\ img' = i /\ page' = FirstPage /\ next' = FirstPage
      /\ UNCHANGED <<flash, bad, mem, zero, clean, stored>>
      /\ flash[0] = <<i, 0>>
  BY DEF Boot, nand
<1>2. TypeOK'
  BY <1>1, PageFacts DEF StageInv, TypeOK
<1>3. PositionKept' /\ ErasedAhead' /\ GoodSoFar' /\ StoredKept'
  BY <1>1
     DEF StageInv, PositionKept, ErasedAhead, GoodSoFar, StoredKept, Updating, Seeking,
         Writing
<1>4. stored # None => i = stored
  <2>1. SUFFICES ASSUME stored # None PROVE i = stored
    OBVIOUS
  <2>2. stored \in Image /\ Holds(flash, stored, 0, Size[stored]) /\ Size[stored] >= 2
    BY <2>1 DEF StageInv, TypeOK, StoredKept
  <2>3. flash[0] = <<stored, 0>>
    BY <2>2, PageFacts DEF Holds
  <2>. QED BY <1>1, <2>3
<1>5. LoadKept'
  BY <1>1, <1>4, PageFacts DEF LoadKept, Holds
<1>. QED BY <1>2, <1>3, <1>5 DEF StageInv

LEMMA LoadPageKeeps ==
  ASSUME StageInv, NEW marked \in BOOLEAN, LoadPage(marked)
  PROVE  StageInv'
<1>1. /\ pc = "load" /\ img \in Image /\ page \in Page /\ next \in Nat
      /\ next < Size[img] /\ Size[img] \in Nat
      /\ UNCHANGED <<flash, bad, pc, img, zero, clean, stored>>
      /\ mem' = [mem EXCEPT ![next] = flash[page]]
      /\ TypeOK
  BY PageFacts DEF LoadPage, Loading, nand, StageInv, LoadKept, TypeOK, Page
<1>2. TypeOK'
  <2>1. page' \in Nat /\ next' \in Nat
    BY <1>1, PageFacts DEF LoadPage, BehindBlock
  <2>2. mem' \in [Page -> Content]
    BY <1>1 DEF TypeOK
  <2>. QED BY <1>1, <2>1, <2>2 DEF TypeOK
<1>3. PositionKept' /\ ErasedAhead' /\ GoodSoFar' /\ StoredKept'
  BY <1>1
     DEF StageInv, PositionKept, ErasedAhead, GoodSoFar, StoredKept, Updating, Seeking,
         Writing
<1>4. ASSUME stored # None
      PROVE  /\ img = stored
             /\ page' = next'
             /\ Holds(mem', img, FirstPage, next')
  <2>1. img = stored /\ page = next /\ Holds(mem, img, FirstPage, next)
    BY <1>1, <1>4 DEF StageInv, LoadKept
  <2>2. flash[page] = <<img, next>> /\ BlockOf(page) \notin bad
    BY <1>1, <1>4, <2>1, PageFacts DEF StageInv, StoredKept, Holds
  <2>3. ~marked
    BY <1>1, <2>2, ContentFacts DEF LoadPage, MarkedBad
  <2>4. page' = page + 1 /\ next' = next + 1
    BY <2>3 DEF LoadPage
  <2>5. Holds(mem', img, FirstPage, next + 1)
    BY <1>1, <2>1, <2>2, PageFacts DEF Holds, TypeOK
  <2>. QED BY <2>1, <2>4, <2>5
<1>. QED BY <1>1, <1>2, <1>3, <1>4 DEF StageInv, LoadKept

LEMMA LoadEndsKeeps ==
  ASSUME StageInv, LoadFails \/ Start
  PROVE  StageInv'
<1>1. /\ pc = "load" /\ img \in Image /\ page \in Nat /\ next \in Nat /\ Size[img] \in Nat
      /\ UNCHANGED <<flash, bad, img, page, zero, next, mem, clean, stored>>
      /\ pc' \in {"stopped", "started"}
      /\ TypeOK
  BY DEF LoadFails, Start, nand, StageInv, LoadKept, TypeOK
<1>2. TypeOK' /\ PositionKept' /\ ErasedAhead' /\ GoodSoFar'
  BY <1>1
     DEF TypeOK, PositionKept, ErasedAhead, GoodSoFar, Updating, Seeking, Writing
<1>3. ASSUME stored # None
      PROVE  pc' = "started" /\ next >= Size[img]
  <2>1. /\ img = stored /\ page = next /\ Size[stored] <= Pages
        /\ Holds(flash, stored, 0, Size[stored])
    BY <1>1, <1>3 DEF StageInv, LoadKept, StoredKept
  <2>2. CASE LoadFails
    <3>1. page \in Page /\ next < Size[img] /\ flash[page] = Junk
      BY <1>1, <2>2, PageFacts DEF LoadFails, Loading, Page
    <3>. QED BY <1>1, <2>1, <3>1, ContentFacts, PageFacts DEF Holds
  <2>3. CASE Start
    BY <1>1, <2>1, <2>3, PageFacts DEF Start, Loading
  <2>. QED BY <2>2, <2>3
<1>4. StoredKept' /\ LoadKept'
  BY <1>1, <1>3 DEF StageInv, StoredKept, LoadKept, Updating, Seeking, Writing
<1>. QED BY <1>2, <1>4 DEF StageInv

LEMMA ResetKeeps ==
  ASSUME StageInv, Reset
  PROVE  StageInv'
<1>1. /\ pc' = "off" /\ img' = None /\ page' = 0 /\ zero' = 0 /\ next' = 0
      /\ clean' = FALSE /\ bad' = bad /\ stored' = stored
      /\ mem' \in [Page -> Content]
      /\ TypeOK
  BY ContentFacts DEF Reset, StageInv
<1>2. Torn \in [Page -> Content] /\ (stored # None => Torn = flash)
  <2>1. \A p, b : [flash EXCEPT ![p] = Junk] \in [Page -> Content] /\ SetBlock(b, Junk) \in [Page -> Content]
    BY <1>1, ContentFacts DEF TypeOK, SetBlock
  <2>2. stored # None => ~Seeking /\ ~Writing
    BY DEF StageInv, StoredKept, Updating
  <2>. QED BY <1>1, <2>1, <2>2 DEF Torn, TypeOK, Writing
<1>3. flash' \in [Page -> Content] /\ (stored # None => flash' = flash)
  BY <1>1, <1>2 DEF Reset, TypeOK
<1>4. TypeOK'
  BY <1>1, <1>3, PageFacts DEF TypeOK
<1>5. PositionKept' /\ ErasedAhead' /\ GoodSoFar' /\ LoadKept'
  BY <1>1 DEF PositionKept, ErasedAhead, GoodSoFar, LoadKept, Updating, Seeking, Writing
<1>6. StoredKept'
  BY <1>1, <1>3 DEF StageInv, StoredKept, Updating, Seeking, Writing
<1>. QED BY <1>4, <1>5, <1>6 DEF StageInv
-----------------------------------------------------------------------------
(***************************************************************************)
(* The inductive invariant of the flash: as long as no erase has failed,   *)
(* page k of the image is in page k of the partition, which has been       *)
(* erased before, and what was stored completely stays untouched.          *)
(***************************************************************************)
THEOREM StageAlways == Spec => []StageInv
<1>1. StageInv /\ [Next]_vars => StageInv'
  <2>1. SUFFICES ASSUME StageInv, [Next]_vars PROVE StageInv'
    OBVIOUS
  <2>2. CASE UNCHANGED vars
    BY <2>1, <2>2
       DEF vars, nand, StageInv, TypeOK, PositionKept, ErasedAhead, GoodSoFar, StoredKept,
           LoadKept, Updating, Seeking, Writing, Verified, Unwritten, Holds
  <2>3. CASE \E i \in Image : Update(i) \/ Boot(i)
    BY <2>1, <2>3, UpdateStarts, BootKeeps
  <2>4. CASE UpdateStep
    BY <2>1, <2>4, GetEmptyPageKeeps, EraseFailsKeeps, WritePage0Keeps, WritePage1Keeps,
       WritePageKeeps, VerifyKeeps, CompleteKeeps DEF UpdateStep
  <2>5. CASE LoadStep
    BY <2>1, <2>5, LoadPageKeeps, LoadEndsKeeps DEF LoadStep
  <2>6. CASE Reset
    BY <2>1, <2>6, ResetKeeps
  <2>. QED BY <2>1, <2>2, <2>3, <2>4, <2>5, <2>6 DEF Next
<1>. QED BY <1>1, StageInit, PTL DEF Spec

LEMMA StoredImageBoots ==
  ASSUME StageInv
  PROVE  BootsStored
<1>1. SUFFICES ASSUME stored # None, pc = "started"
               PROVE  img = stored /\ Intact(stored)
  BY DEF BootsStored, StageInv, StoredKept
<1>2. /\ img = stored /\ Holds(mem, img, FirstPage, next) /\ next >= Size[img]
      /\ Size[stored] <= Pages /\ next \in Nat /\ Size[img] \in Nat
  BY <1>1 DEF StageInv, LoadKept, StoredKept, TypeOK
<1>3. \A k \in Page : FirstPage <= k /\ k < Size[stored] => mem[k] = <<stored, k>>
  BY <1>2, PageFacts DEF Holds
<1>. QED BY <1>2, <1>3 DEF Intact, Holds

(***************************************************************************)
(* After a complete update without a failed erase the loader does not hang *)
(* and the board starts the image that was stored.                         *)
(***************************************************************************)
THEOREM StoredAlwaysBoots == Spec => []BootsStored
  BY StageAlways, StoredImageBoots, PTL
-----------------------------------------------------------------------------
LEMMA StoreInit == Init => Store!Init
  BY DEF Init, Store!Init, Running

LEMMA StoreStep ==
  ASSUME StageInv, BootsStored', [Next]_vars
  PROVE  [Store!Next]_<<stored, Running>>
<1>1. CASE UNCHANGED vars
  BY <1>1 DEF vars, nand, Running, Intact, Holds
<1>2. ASSUME NEW i \in Image, Update(i)
      PROVE  Store!Begin
  BY <1>2 DEF Update, Store!Begin, Running
<1>3. CASE Complete
  <2>1. stored = None /\ img \in Image /\ Running = None /\ Running' = None
    BY <1>3, UpdatingStoresNothing
       DEF Complete, Forget, Updating, StageInv, PositionKept, Running
  <2>2. CASE clean
    <3>1. Store!Commit(img)
      BY <1>3, <2>1, <2>2 DEF Complete, Store!Commit
    <3>. QED BY <2>1, <3>1 DEF Store!Next
  <2>3. CASE ~clean
    BY <1>3, <2>1, <2>3 DEF Complete
  <2>. QED BY <2>2, <2>3
<1>4. CASE Start
  <2>1. stored' = stored /\ img' = img /\ Running = None /\ img \in Image
        /\ Running' \in Image \union {"other"}
    BY <1>4 DEF Start, Running, StageInv, LoadKept
  <2>2. stored # None => Running' = stored
    BY <1>4, <2>1 DEF Start, Running, BootsStored
  <2>3. Store!Boot
    BY <2>1, <2>2 DEF Store!Boot
  <2>. QED BY <2>3 DEF Store!Next
<1>5. CASE Reset
  BY <1>5 DEF Reset, Running, Store!PowerOff, Store!Next
<1>6. CASE GetEmptyPage \/ EraseFails \/ Verify
  BY <1>6
     DEF GetEmptyPage, EraseFails, Verify, Seeking, Running
<1>7. CASE \E ok \in BOOLEAN : WritePage0(ok) \/ WritePage1(ok) \/ WritePage(ok)
  BY <1>7 DEF WritePage0, WritePage1, WritePage, Running
<1>8. CASE (\E i \in Image : Boot(i)) \/ (\E m \in BOOLEAN : LoadPage(m)) \/ LoadFails
  BY <1>8 DEF Boot, LoadPage, LoadFails, Running
<1>. QED
  BY <1>1, <1>2, <1>3, <1>4, <1>5, <1>6, <1>7, <1>8
     DEF Next, UpdateStep, LoadStep, Store!Next

(***************************************************************************)
(* The update and the loader implement the abstract store: after a commit  *)
(* only the committed image is ever started, until the next update.        *)
(***************************************************************************)
THEOREM StoreIsImplemented == Spec => ImplementsStore
<1>1. StageInv /\ BootsStored' /\ [Next]_vars => [Store!Next]_<<stored, Running>>
  BY StoreStep
<1>. QED
  BY <1>1, StoreInit, StageAlways, StoredAlwaysBoots, PTL
     DEF Spec, ImplementsStore, Store!Spec
=============================================================================
