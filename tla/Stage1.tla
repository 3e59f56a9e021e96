------------------------------- MODULE Stage1 -------------------------------
(***************************************************************************)
(* The stage 1 image in NAND flash: the update that writes it              *)
(* (src/libuid/uid-stage-1-update.c) and the loader that reads it after a  *)
(* reset (src/nand-loader/stage-1-start.c), with interrupted updates,      *)
(* blocks that cannot be erased, and images that do not fit.               *)
(*                                                                         *)
(* A page is one item: it holds page k of an image, or is erased, or holds *)
(* something else.  Of an image only its length matters.                   *)
(***************************************************************************)
EXTENDS Integers

CONSTANTS
    Image,          \* the boot images
    Size,           \* the pages of an image, its first 4 KiB filled up
    None,           \* no image
    PagesPerBlock,  \* PAGES_PER_BLOCK
    BlockCount,     \* STAGE_1_BLOCK_COUNT
    FirstPage       \* where the loader begins: bsp_section_text_begin

Pages == BlockCount * PagesPerBlock

Page == 0..(Pages - 1)

Block == 0..(BlockCount - 1)

BlockOf(p) == p \div PagesPerBlock

ASSUME ImageAssumption ==
    /\ None \notin Image
    /\ Size \in [Image -> Nat]
    /\ \A i \in Image : Size[i] >= 2

(* The loader begins in block 0, behind the 4 KiB the boot sequencer loads. *)
ASSUME FlashAssumption ==
    /\ PagesPerBlock \in Nat /\ PagesPerBlock >= 2
    /\ BlockCount \in Nat \ {0}
    /\ FirstPage \in 1..(PagesPerBlock - 1)

Content == (Image \union {None}) \X Nat

Erased == <<None, 0>>
Junk   == <<None, 1>>

VARIABLES
    flash,   \* what the pages hold
    bad,     \* the blocks that are marked bad
    pc,      \* what the processor does
    img,     \* the image that is written, or whose loader runs
    page,    \* the current page of the update or of the loader
    zero,    \* page_0 of the update
    next,    \* the page of the image that is stored or loaded next
    mem,     \* the pages the loader has copied
    clean,   \* no erase has failed in this update
    stored   \* the image of the last update, when it is complete and clean

nand == <<flash, bad>>
vars == <<nand, pc, img, page, zero, next, mem, clean, stored>>

(* "off" is a board that is reset, or whose boot sequencer finds nothing. *)
Init ==
    /\ flash = [p \in Page |-> Erased]
    /\ bad = {}
    /\ pc = "off"
    /\ img = None
    /\ page = 0
    /\ zero = 0
    /\ next = 0
    /\ mem = [k \in Page |-> Junk]
    /\ clean = FALSE
    /\ stored = None
-----------------------------------------------------------------------------
(* MUTANT: the search begins behind page 0. *)
UpdateBehind(i) ==
    /\ pc \in {"off", "started", "complete"}
    /\ pc' = "first"
    /\ img' = i
    /\ page' = 0
    /\ clean' = TRUE
    /\ stored' = None
    /\ mem' = [k \in Page |-> Junk]
    /\ UNCHANGED <<nand, zero, next>>

(***************************************************************************)
(* uid_stage_1_update: from the shell of a program, or from a program that *)
(* a debugger has loaded.  The search for the first page begins behind the *)
(* last one, that is, with page 0.  The memory is not looked at any more.  *)
(***************************************************************************)
Update(i) ==
    /\ pc \in {"off", "started", "complete"}
    /\ pc' = "first"
    /\ img' = i
    /\ page' = Pages - 1
    /\ clean' = TRUE
    /\ stored' = None
    /\ mem' = [k \in Page |-> Junk]
    /\ UNCHANGED <<nand, zero, next>>

(* Where the update searches for an empty page. *)
Seeking == pc \in {"first", "second"} \/ (pc = "more" /\ next < Size[img])

NextPage == (page + 1) % Pages

BlockBegin(p) == p % PagesPerBlock = 0

SetBlock(b, c) == [p \in Page |-> IF BlockOf(p) = b THEN c ELSE flash[p]]

(* bed_erase (external): the mark is in the block and erased with it. *)
Erase(p) ==
    /\ flash' = SetBlock(BlockOf(p), Erased)
    /\ bad' = bad \ {BlockOf(p)}
    /\ UNCHANGED clean

(***************************************************************************)
(* One turn of the loop in get_empty_page.  When the next page begins a    *)
(* block, the block is erased; when this fails, the search goes on with    *)
(* the page after it, which is in the same block and is taken.             *)
(***************************************************************************)
GetEmptyPage ==
    /\ Seeking
    /\ page' = NextPage
    /\ IF BlockBegin(NextPage) THEN Erase(NextPage) ELSE UNCHANGED <<nand, clean>>
    /\ zero' = IF pc = "first" THEN NextPage ELSE zero
    /\ pc' = CASE pc = "first"  -> "second"
               [] pc = "second" -> "write_0"
               [] pc = "more"   -> IF NextPage = 0 THEN "stopped" ELSE "write"
    /\ UNCHANGED <<img, next, mem, stored>>

(* BED_ERASE_MARK_BAD_ON_ERROR *)
EraseFails ==
    /\ Seeking
    /\ BlockBegin(NextPage)
    /\ page' = NextPage
    /\ flash' = SetBlock(BlockOf(NextPage), Junk)
    /\ bad' = bad \union {BlockOf(NextPage)}
    /\ clean' = FALSE
    /\ UNCHANGED <<pc, img, zero, next, mem, stored>>

(***************************************************************************)
(* bed_write (external): a page takes what is written when it is erased,   *)
(* and may do so in a bad block.                                           *)
(***************************************************************************)
Program(p, c) ==
    /\ flash[p] = Erased \/ BlockOf(p) \in bad
    /\ flash' = [flash EXCEPT ![p] = c]
    /\ UNCHANGED bad

ProgramFails(p) ==
    /\ flash' = [flash EXCEPT ![p] = Junk]
    /\ UNCHANGED bad

(* The first two pages are written, and afterwards verified. *)
WritePage0(ok) ==
    /\ pc = "write_0"
    /\ IF ok THEN Program(zero, <<img, 0>>) ELSE ProgramFails(zero)
    /\ pc' \in IF ok THEN {"write_1"} ELSE {"write_1", "stopped"}
    /\ UNCHANGED <<img, page, zero, next, mem, clean, stored>>

WritePage1(ok) ==
    /\ pc = "write_1"
    /\ IF ok THEN Program(page, <<img, 1>>) ELSE ProgramFails(page)
    /\ pc' \in IF ok THEN {"verify"} ELSE {"verify", "stopped"}
    /\ UNCHANGED <<img, page, zero, next, mem, clean, stored>>

(* MUTANT: the source goes on by one page only. *)
VerifyShort ==
    /\ pc = "verify"
    /\ pc' = IF flash[zero] = <<img, 0>> /\ flash[page] = <<img, 1>> THEN "more"
             ELSE "stopped"
    /\ next' = 1
    /\ UNCHANGED <<nand, img, page, zero, mem, clean, stored>>

Verify ==
    /\ pc = "verify"
    /\ pc' = IF flash[zero] = <<img, 0>> /\ flash[page] = <<img, 1>> THEN "more"
             ELSE "stopped"
    /\ next' = 2
    /\ UNCHANGED <<nand, img, page, zero, mem, clean, stored>>

(* MUTANT: the page is not compared. *)
WriteOnly(ok) ==
    /\ pc = "write"
    /\ IF ok THEN Program(page, <<img, next>>) ELSE ProgramFails(page)
    /\ pc' = "more"
    /\ next' = next + 1
    /\ UNCHANGED <<img, page, zero, mem, clean, stored>>

(* MUTANT: a page that could not be written is tried again. *)
WriteAgain(ok) ==
    /\ pc = "write"
    /\ IF ok THEN Program(page, <<img, next>>) ELSE ProgramFails(page)
    /\ pc' = IF ok THEN "more" ELSE "write"
    /\ next' = IF ok THEN next + 1 ELSE next
    /\ UNCHANGED <<img, page, zero, mem, clean, stored>>

(* A page of the loop: written, read back and compared. *)
WritePage(ok) ==
    /\ pc = "write"
    /\ IF ok THEN Program(page, <<img, next>>) ELSE ProgramFails(page)
    /\ pc' = IF ok THEN "more" ELSE "stopped"
    /\ next' = IF ok THEN next + 1 ELSE next
    /\ UNCHANGED <<img, page, zero, mem, clean, stored>>

(* The local variables of the update are gone. *)
Forget ==
    /\ img' = None
    /\ page' = 0
    /\ zero' = 0
    /\ next' = 0
    /\ clean' = FALSE
    /\ UNCHANGED <<nand, mem>>

(* "update complete" *)
Complete ==
    /\ pc = "more"
    /\ next >= Size[img]
    /\ pc' = "complete"
    /\ stored' = IF clean THEN img ELSE None
    /\ Forget
-----------------------------------------------------------------------------
(***************************************************************************)
(* The boot sequencer (external) runs the loader in the first 4 KiB; the   *)
(* image in there says how much the loader has to copy.                    *)
(***************************************************************************)
Boot(i) ==
    /\ pc = "off"
    /\ flash[0] = <<i, 0>>
    /\ flash[1] = <<i, 1>>
    /\ pc' = "load"
    /\ img' = i
    /\ page' = FirstPage
    /\ next' = FirstPage
    /\ UNCHANGED <<nand, mem, zero, clean, stored>>

Loading == page < Pages /\ next < Size[img]

(* What the first byte of the spare area says; in a torn page, anything. *)
MarkedBad(p, marked) ==
    flash[p] = Junk \/ marked = (BlockOf(p) \in bad)

BehindBlock(p) == p + PagesPerBlock

(***************************************************************************)
(* A turn of the loop in __wrap_boot_card: the page is copied; when it     *)
(* begins a bad block, the block is skipped and the next page takes its    *)
(* place in the memory.                                                    *)
(***************************************************************************)
LoadPage(marked) ==
    /\ pc = "load"
    /\ Loading
    /\ MarkedBad(page, marked)
    /\ mem' = [mem EXCEPT ![next] = flash[page]]
    /\ IF BlockBegin(page) /\ marked
       THEN page' = BehindBlock(page) /\ UNCHANGED next
       ELSE page' = page + 1 /\ next' = next + 1
    /\ UNCHANGED <<nand, pc, img, zero, clean, stored>>

(* nand_loader_reset is an endless loop. *)
LoadFails ==
    /\ pc = "load"
    /\ Loading
    /\ flash[page] = Junk
    /\ pc' = "stopped"
    /\ UNCHANGED <<nand, img, page, zero, next, mem, clean, stored>>

(* __real_boot_card *)
Start ==
    /\ pc = "load"
    /\ ~Loading
    /\ pc' = "started"
    /\ UNCHANGED <<nand, img, page, zero, next, mem, clean, stored>>
-----------------------------------------------------------------------------
(***************************************************************************)
(* A reset at any time.  The page or the block that was just written or    *)
(* erased may hold anything afterwards, and the memory does.               *)
(***************************************************************************)
Torn ==
    CASE pc = "write_0" -> [flash EXCEPT ![zero] = Junk]
      [] pc \in {"write_1", "write"} -> [flash EXCEPT ![page] = Junk]
      [] Seeking /\ BlockBegin(NextPage) -> SetBlock(BlockOf(NextPage), Junk)
      [] OTHER -> flash

Reset ==
    /\ pc # "off"
    /\ pc' = "off"
    /\ flash' \in {flash, Torn}
    /\ img' = None
    /\ page' = 0
    /\ zero' = 0
    /\ next' = 0
    /\ mem' = [k \in Page |-> Junk]
    /\ clean' = FALSE
    /\ UNCHANGED <<bad, stored>>
-----------------------------------------------------------------------------
UpdateStep ==
    \/ GetEmptyPage \/ EraseFails
    \/ \E ok \in BOOLEAN : WritePage0(ok) \/ WritePage1(ok) \/ WritePage(ok)
    \/ Verify \/ Complete

LoadStep == (\E marked \in BOOLEAN : LoadPage(marked)) \/ LoadFails \/ Start

Next ==
    \/ \E i \in Image : Update(i) \/ Boot(i)
    \/ UpdateStep
    \/ LoadStep
    \/ Reset

Spec == Init /\ [][Next]_vars

(* The program that runs goes on; nobody has to update, boot or reset. *)
FairSpec == Spec /\ WF_vars(UpdateStep) /\ WF_vars(LoadStep)
-----------------------------------------------------------------------------
Writing == pc \in {"write_0", "write_1", "verify", "write"}

Updating == Seeking \/ Writing \/ pc = "more"

(* The type invariant. *)
TypeOK ==
    /\ flash \in [Page -> Content]
    /\ bad \subseteq Block
    /\ pc \in {"off", "first", "second", "write_0", "write_1", "verify", "more",
               "write", "complete", "load", "started", "stopped"}
    /\ img \in Image \union {None}
    /\ page \in Nat
    /\ zero \in Page
    /\ next \in Nat
    /\ mem \in [Page -> Content]
    /\ clean \in BOOLEAN
    /\ stored \in Image \union {None}

(* The pages of f from begin to before end are those of image i. *)
Holds(f, i, begin, end) == \A k \in Page : begin <= k /\ k < end => f[k] = <<i, k>>

(* The pages the update has verified, and the first one it has not written. *)
Verified == IF pc \in {"more", "write"} THEN next ELSE 0

Unwritten ==
    CASE pc = "write_1" -> 1
      [] pc = "verify" -> 2
      [] OTHER -> Verified

(***************************************************************************)
(* The inductive invariant.  As long as no erase has failed, page k of the *)
(* image goes to page k of the partition, into good blocks, and a page is  *)
(* only written when it is erased and has not been written since.          *)
(***************************************************************************)
PositionKept ==
    /\ Updating => page \in Page /\ img \in Image
    /\ Updating /\ clean =>
        /\ pc = "first" => page = Pages - 1
        /\ pc = "second" => page = 0
        /\ pc \in {"write_0", "write_1", "verify"} => page = 1
        /\ pc \in {"second", "write_0", "write_1", "verify"} => zero = 0
        /\ pc = "more" => page = next - 1
        /\ pc = "write" => page = next
    /\ pc \in {"more", "write"} => next >= 2
    /\ pc = "write" => next < Size[img]
    /\ pc = "more" => next <= Size[img]

ErasedAhead ==
    Updating /\ clean /\ pc # "first" =>
        \A p \in Page :
            BlockOf(p) = BlockOf(page) /\ p >= Unwritten => flash[p] = Erased

GoodSoFar ==
    Updating /\ clean =>
        /\ Holds(flash, img, 0, Verified)
        /\ pc # "first" => \A b \in Block : b <= BlockOf(page) => b \notin bad

StoredKept ==
    stored # None =>
        /\ Size[stored] <= Pages
        /\ Holds(flash, stored, 0, Size[stored])
        /\ \A k \in Page : k < Size[stored] => BlockOf(k) \notin bad
        /\ ~Updating /\ pc # "stopped"

LoadKept ==
    pc \in {"load", "started"} =>
        /\ img \in Image
        /\ stored # None => /\ img = stored
                            /\ page = next
                            /\ Holds(mem, img, FirstPage, next)
                            /\ pc = "started" => next >= Size[img]

StageInv ==
    TypeOK /\ PositionKept /\ ErasedAhead /\ GoodSoFar /\ StoredKept /\ LoadKept

(***************************************************************************)
(* After a complete update without a failed erase the loader never hangs,  *)
(* and the board starts what was stored, whatever interrupted or failed    *)
(* updates have left in the flash before.                                  *)
(***************************************************************************)
Intact(i) == Size[i] <= Pages /\ Holds(mem, i, FirstPage, Size[i])

BootsStored ==
    stored # None =>
        /\ pc # "stopped"
        /\ pc = "started" => img = stored /\ Intact(stored)

(* What the board has started, as a whole. *)
Running ==
    IF pc # "started" THEN None
    ELSE IF Intact(img) THEN img
    ELSE "other"

(***************************************************************************)
(* The update and the loader implement StageStore.                         *)
(***************************************************************************)
Store == INSTANCE StageStore WITH Other <- "other", running <- Running

ImplementsStore == Store!Spec

(***************************************************************************)
(* The update and the loader come to an end, also when every block of the  *)
(* partition is bad: neither get_empty_page nor the loader runs in circles.*)
(***************************************************************************)
Ends == Updating \/ pc = "load" ~> pc \in {"off", "started", "complete", "stopped"}

(***************************************************************************)
(* What README.txt of the loader says of the partition: the program is     *)
(* stored sequentially, bad blocks are skipped.  So the update takes no    *)
(* page of a block that could not be erased.                               *)
(***************************************************************************)
SkipsBadBlocks ==
    pc \in {"write_0", "write_1", "write"} => BlockOf(page) \notin bad
=============================================================================
