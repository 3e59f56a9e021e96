------------------------------ MODULE LoadElf -------------------------------
(***************************************************************************)
(* The incremental ELF loader (src/libdemo/load-elf.c) with its callers    *)
(* demo_loadelf and the test program: a file is read piece by piece, every *)
(* piece goes to load_elf_process, and load_elf_final starts the program.  *)
(*                                                                         *)
(* Of the content of a file only the program headers matter; a byte is     *)
(* known by its position in the file.  Headers have few bytes here, so     *)
(* that pieces end within them.                                            *)
(***************************************************************************)
EXTENDS Integers, Sequences

CONSTANTS
    File,         \* the files: records [headers, entsize, offsetOK, len], offsetOK
                  \* for e_ehsize = e_phoff, len the bytes that read delivers
    EhSize,       \* sizeof(Elf32_Ehdr)
    PhSize,       \* sizeof(Elf32_Phdr)
    MaxSegments,  \* the segments the callers have room for
    Piece,        \* the buffer sizes of the callers
    Address,      \* where programs are loaded
    Word          \* uintptr_t counts modulo Word

ASSUME SizeAssumption ==
    /\ EhSize \in Nat \ {0} /\ PhSize \in Nat \ {0}
    /\ MaxSegments \in Nat
    /\ Piece \subseteq Nat \ {0}
    /\ Word \in Nat

(* Offsets have the width of uintptr_t; nothing is known of their order. *)
Header == [load : BOOLEAN, off : 0..(Word - 1), addr : Nat, size : Nat]

ASSUME FileAssumption ==
    \A f \in File :
        /\ f.headers \in Seq(Header)
        /\ f.entsize \in Nat /\ f.offsetOK \in BOOLEAN
        /\ f.len \in 0..(Word - 1)
        /\ \A k \in DOMAIN f.headers :
              LET p == f.headers[k]
              IN  p.load => p.addr..(p.addr + p.size - 1) \subseteq Address

VARIABLES
    file,      \* the file
    read,      \* what the caller has read of it
    pc,        \* where the caller is
    src,       \* src_end - src_current: what is left of the piece
    state,
    next,      \* next_state
    phnum,     \* elf_header.e_phnum, counted down to the segments to load
    index,     \* segment_index, -1 for (size_t) -1
    offset,    \* file_offset
    dest,      \* dest_current
    destEnd,   \* dest_end
    copy,      \* where the bytes go to: "header", "nothing" or "memory"
    segments,  \* file_offset, dest_begin and dest_end of the segments to load
    mem,       \* the positions of the bytes in memory, -1: not loaded
    started    \* the program was started

loader == <<state, next, phnum, index, dest, destEnd, copy, segments>>
vars   == <<file, read, pc, src, offset, loader, mem, started>>

(* The bytes of one entry of the program header table. *)
Extra == file.entsize - PhSize

(***************************************************************************)
(* What program_header holds after its bytes up to file_offset were copied *)
(* to it.                                                                  *)
(***************************************************************************)
NoHeader == [load |-> FALSE, off |-> 0, addr |-> 0, size |-> 0]

ProgramHeader ==
    IF \E k \in DOMAIN file.headers : offset = EhSize + k * file.entsize - Extra
    THEN file.headers[CHOOSE k \in DOMAIN file.headers :
                          offset = EhSize + k * file.entsize - Extra]
    ELSE NoHeader

NoSegment == [off |-> 0, begin |-> 0, end |-> 0]

Init ==
    /\ file \in File
    /\ read = 0
    /\ pc = "read"
    /\ src = 0
    /\ state = "COPY_ELF_HEADER"
    /\ next = "EVAL_ELF_HEADER"
    /\ phnum = 0
    /\ index = 0
    /\ offset = 0
    /\ dest = 0
    /\ destEnd = EhSize
    /\ copy = "header"
    /\ segments = [k \in 0..(MaxSegments - 1) |-> NoSegment]
    /\ mem = [a \in Address |-> -1]
    /\ started = FALSE
-----------------------------------------------------------------------------
(* The caller reads the next piece and passes it to load_elf_process. *)
Read(n) ==
    /\ pc = "read"
    /\ read < file.len
    /\ LET in == IF n < file.len - read THEN n ELSE file.len - read
       IN  src' = in /\ read' = read + in
    /\ pc' = "process"
    /\ UNCHANGED <<file, offset, loader, mem, started>>

(* The loop of load_elf_process ends with the piece. *)
Return ==
    /\ pc = "process"
    /\ src = 0
    /\ pc' = "read"
    /\ UNCHANGED <<file, read, src, offset, loader, mem, started>>

(* A turn of the loop in state s. *)
At(s) == pc = "process" /\ src # 0 /\ state = s

Goto(s) == state' = s

(* A copy of n bytes to where, after which the loader is in state t. *)
Copying(s, t, begin, end, where) ==
    /\ Goto(s)
    /\ next' = t
    /\ dest' = begin
    /\ destEnd' = end
    /\ copy' = where

CopyState == {"COPY_ELF_HEADER", "COPY_PROGRAM_HEADER", "SKIP_PROGRAM_HEADER",
              "SEGMENT_SKIP", "COPY_SEGMENT"}

(* MUTANT: a copy ends with its piece. *)
ArrivedAtEnd(size) == size = src \/ dest + size = destEnd

Arrived(size) == dest + size = destEnd

CopySize == IF src < destEnd - dest THEN src ELSE destEnd - dest

DoCopy ==
    LET size == CopySize
    IN  /\ pc = "process" /\ src # 0 /\ state \in CopyState
        /\ mem' = IF copy = "memory"
                  THEN [a \in Address |->
                           IF a \in dest..(dest + size - 1) THEN offset + (a - dest)
                           ELSE mem[a]]
                  ELSE mem
        /\ offset' = offset + size
        /\ src' = src - size
        /\ dest' = dest + size
        /\ IF Arrived(size) THEN Goto(next) ELSE UNCHANGED state
        /\ UNCHANGED <<file, read, pc, next, phnum, index, destEnd, copy, segments, started>>

EvalElfHeader ==
    /\ At("EVAL_ELF_HEADER")
    /\ phnum' = Len(file.headers)
    /\ IF file.entsize < PhSize
       THEN Goto("ERROR_PROGRAM_HEADER_ENTRY_SIZE") /\ UNCHANGED index
       ELSE IF ~file.offsetOK
       THEN Goto("ERROR_PROGRAM_HEADER_OFFSET") /\ UNCHANGED index
       ELSE IF Len(file.headers) > MaxSegments
       THEN Goto("ERROR_SEGMENTS_ALLOCATION") /\ UNCHANGED index
       ELSE Goto("NEXT_PROGRAM_HEADER") /\ index' = -1
    /\ UNCHANGED <<file, read, pc, src, offset, next, dest, destEnd, copy, segments,
                   mem, started>>

NextProgramHeader ==
    /\ At("NEXT_PROGRAM_HEADER")
    /\ index' = index + 1
    /\ IF index' < phnum
       THEN Copying("COPY_PROGRAM_HEADER", "EVAL_PROGRAM_HEADER", 0, PhSize, "header")
       ELSE Goto("PROGRAM_HEADER_DONE") /\ UNCHANGED <<next, dest, destEnd, copy>>
    /\ UNCHANGED <<file, read, pc, src, offset, phnum, segments, mem, started>>

(* MUTANT: a header of another type leaves a hole in the segments. *)
OtherHeaderCounts == UNCHANGED <<phnum, index, segments>>

(* A header of another type than PT_LOAD takes no segment. *)
OtherHeader ==
    /\ phnum' = phnum - 1
    /\ index' = index - 1
    /\ UNCHANGED segments

EvalProgramHeader ==
    /\ At("EVAL_PROGRAM_HEADER")
    /\ IF ProgramHeader.load
       THEN /\ segments' = [segments EXCEPT ![index] =
                  [off   |-> ProgramHeader.off,
                   begin |-> ProgramHeader.addr,
                   end   |-> ProgramHeader.addr + ProgramHeader.size]]
            /\ UNCHANGED <<phnum, index>>
       ELSE OtherHeader
    /\ Copying("SKIP_PROGRAM_HEADER", "NEXT_PROGRAM_HEADER", 0, Extra, "nothing")
    /\ UNCHANGED <<file, read, pc, src, offset, mem, started>>

(* MUTANT: the segments are loaded in the order of their headers. *)
SortNothing == segments

(* The insertion sort: by file_offset, equal ones in the order of the table. *)
Before(i, j) == \/ segments[i].off < segments[j].off
                \/ segments[i].off = segments[j].off /\ i < j

Order ==
    CHOOSE p \in [0..(phnum - 1) -> 0..(phnum - 1)] :
        \A i, j \in 0..(phnum - 1) : i < j => Before(p[i], p[j])

Sorted ==
    [k \in DOMAIN segments |->
        IF k < phnum THEN segments[Order[k]] ELSE segments[k]]

(* The callers' check_segments accepts all segments; another may not. *)
ProgramHeaderDone(ok) ==
    /\ At("PROGRAM_HEADER_DONE")
    /\ segments' = Sorted
    /\ IF ok
       THEN Goto("NEXT_SEGMENT") /\ index' = -1
       ELSE Goto("ERROR_SEGMENTS") /\ UNCHANGED index
    /\ UNCHANGED <<file, read, pc, src, offset, next, phnum, dest, destEnd, copy,
                   mem, started>>

(* file_offset of the segment minus the offset so far, in uintptr_t. *)
NextSegment ==
    /\ At("NEXT_SEGMENT")
    /\ index' = index + 1
    /\ IF index' < phnum
       THEN Copying("SEGMENT_SKIP", "SEGMENT_SKIP_DONE", 0,
                    (segments[index'].off - offset) % Word, "nothing")
       ELSE Goto("COPY_DONE") /\ UNCHANGED <<next, dest, destEnd, copy>>
    /\ UNCHANGED <<file, read, pc, src, offset, phnum, segments, mem, started>>

SegmentSkipDone ==
    /\ At("SEGMENT_SKIP_DONE")
    /\ Copying("COPY_SEGMENT", "NEXT_SEGMENT",
               segments[index].begin, segments[index].end, "memory")
    /\ UNCHANGED <<file, read, pc, src, offset, phnum, index, segments, mem, started>>

FinalState == {"COPY_DONE", "ERROR_SEGMENTS", "ERROR_SEGMENTS_ALLOCATION",
               "ERROR_PROGRAM_HEADER_OFFSET", "ERROR_PROGRAM_HEADER_ENTRY_SIZE"}

(* MUTANT: the rest of the piece is not skipped. *)
RestKept == src

(* The rest of a piece in a final state. *)
Rest == 0

Ignore ==
    /\ pc = "process" /\ src # 0 /\ state \in FinalState
    /\ src' = Rest
    /\ UNCHANGED <<file, read, pc, offset, loader, mem, started>>

(* MUTANT: the program is started without a look at the state. *)
StartAlways == TRUE

MayStart == state = "COPY_DONE"

(* load_elf_final *)
Final ==
    /\ pc = "read"
    /\ read = file.len
    /\ pc' = "done"
    /\ started' = MayStart
    /\ UNCHANGED <<file, read, src, offset, loader, mem>>
-----------------------------------------------------------------------------
Process ==
    \/ DoCopy \/ EvalElfHeader \/ NextProgramHeader \/ EvalProgramHeader
    \/ \E ok \in BOOLEAN : ProgramHeaderDone(ok)
    \/ NextSegment \/ SegmentSkipDone \/ Ignore \/ Return

Next == (\E n \in Piece : Read(n)) \/ Process \/ Final

(* load_elf_process is a loop without waits. *)
Spec == Init /\ [][Next]_vars /\ WF_vars(Process)
-----------------------------------------------------------------------------
Load == {k \in DOMAIN file.headers : file.headers[k].load}

(***************************************************************************)
(* Memory holds nothing but bytes of the segments at their addresses,      *)
(* however the file was cut into pieces, also of a file that is malformed. *)
(***************************************************************************)
MemoryRight ==
    \A a \in Address : mem[a] # -1 =>
        \E k \in Load :
            LET p == file.headers[k]
            IN  /\ a \in p.addr..(p.addr + p.size - 1)
                /\ mem[a] = p.off + (a - p.addr)

(***************************************************************************)
(* Behind the program headers, segment for segment in the order of the     *)
(* file: this is a file the loader can load, for it never goes back.       *)
(***************************************************************************)
Follows(i, j) ==
    LET p == file.headers[i]
        q == file.headers[j]
    IN  p.off < q.off \/ (p.off = q.off /\ i < j)

HeadersEnd == EhSize + Len(file.headers) * file.entsize

Loadable ==
    /\ file.entsize >= PhSize /\ file.offsetOK
    /\ Len(file.headers) <= MaxSegments
    /\ \A k \in Load :
          /\ file.headers[k].off >= HeadersEnd
          /\ \A j \in Load : Follows(k, j) =>
                 file.headers[k].off + file.headers[k].size <= file.headers[j].off

(* The loader notices the end of the last segment with the byte behind it. *)
Long ==
    /\ file.len > HeadersEnd
    /\ \A k \in Load : file.len > file.headers[k].off + file.headers[k].size

(***************************************************************************)
(* Whether a program is started depends on the file alone, not on the      *)
(* pieces: exactly the loadable files are started that go on behind their  *)
(* last segment (if check_segments accepts them).                          *)
(***************************************************************************)
StartedIffLong ==
    pc = "done" => /\ started => Loadable /\ Long
                   /\ Loadable /\ Long => started \/ state = "ERROR_SEGMENTS"

(* A program that is started is loaded completely. *)
StartedIsLoaded ==
    started => \A k \in Load :
        LET p == file.headers[k]
        IN  \A a \in p.addr..(p.addr + p.size - 1) : mem[a] # -1

(* load_elf_process comes to an end for every file. *)
ProcessReturns == pc = "process" ~> pc = "read"
=============================================================================
