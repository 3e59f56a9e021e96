--------------------------- MODULE LoadElfProofs ----------------------------
(***************************************************************************)
(* Proofs about the ELF loader: for files, pieces and tables of any size,  *)
(* memory is right, and whether the program is started depends on the file *)
(* alone.                                                                  *)
(*                                                                         *)
(* The inductive invariant says for every state of the loader where in the *)
(* file it is: file_offset is a function of segment_index and of what the  *)
(* copy under way has done, whatever the pieces were.                      *)
(***************************************************************************)
EXTENDS LoadElf, FiniteSetTheorems, WellFoundedInduction, TLAPS

(* Where the entry behind the first e of the program header table begins. *)
EntryEnd(e) == EhSize + e * file.entsize

(* The headers of the table that were evaluated, of n segments. *)
Evaluated(n) == n + (Len(file.headers) - phnum)

SegmentOf(p) == [off |-> p.off, begin |-> p.addr, end |-> p.addr + p.size]

(***************************************************************************)
(* The first n segments are those of the PT_LOAD headers h[0], h[1], ...   *)
(* among the first e.                                                      *)
(***************************************************************************)
Describe(h, n, e) ==
    /\ \A k \in 0..(n - 1) : /\ file.headers[h[k]].load
                             /\ segments[k] = SegmentOf(file.headers[h[k]])
    /\ \A j \in 1..e : file.headers[j].load => \E k \in 0..(n - 1) : h[k] = j

(* The first n segments are in the order of the table ... *)
Gathered(n, e) ==
    \E h \in [0..(n - 1) -> 1..e] :
        /\ Describe(h, n, e)
        /\ \A i, j \in 0..(n - 1) : i < j => h[i] < h[j]

(* ... and then all of them in the order of the file. *)
InOrder ==
    \E h \in [0..(phnum - 1) -> 1..Len(file.headers)] :
        /\ Describe(h, phnum, Len(file.headers))
        /\ \A i, j \in 0..(phnum - 1) : i < j => Follows(h[i], h[j])

(* The offset behind segment k, for -1 that behind the program headers. *)
SegmentEnd(k) ==
    IF k = -1 THEN HeadersEnd
    ELSE segments[k].off + (segments[k].end - segments[k].begin)

(* The first n segments lie behind each other in the file. *)
Chained(n) == \A i \in 0..(n - 1) : SegmentEnd(i - 1) <= segments[i].off

(* The bytes of segment i are in memory up to end; those of the first n. *)
LoadedTo(i, end) == \A a \in segments[i].begin..(end - 1) : mem[a] # -1

Loaded(n) == \A i \in 0..(n - 1) : LoadedTo(i, segments[i].end)
-----------------------------------------------------------------------------
Segment == [off : 0..(Word - 1), begin : Nat, end : Nat]

EvalState == {"EVAL_ELF_HEADER", "NEXT_PROGRAM_HEADER", "EVAL_PROGRAM_HEADER",
              "PROGRAM_HEADER_DONE", "NEXT_SEGMENT", "SEGMENT_SKIP_DONE"}

TypeInv ==
    /\ file \in File
    /\ pc \in {"read", "process", "done"}
    /\ state \in CopyState \union EvalState \union FinalState
    /\ phnum \in Nat /\ index \in Int
    /\ dest \in Int /\ destEnd \in Int
    /\ segments \in [0..(MaxSegments - 1) -> Segment]
    /\ mem \in [Address -> Int]
    /\ started \in BOOLEAN

(* The loader has seen all that was read, but for the rest of the piece. *)
Position ==
    /\ read \in 0..file.len /\ src \in Nat /\ offset \in Nat
    /\ offset + src <= read
    /\ state \notin FinalState => offset + src = read
    /\ pc # "process" => src = 0

HeaderRead ==
    /\ file.entsize >= PhSize /\ file.offsetOK
    /\ Len(file.headers) <= MaxSegments
    /\ phnum \in 0..Len(file.headers)

(* The program header table was evaluated so far that there are n segments. *)
InTable(n) ==
    /\ HeaderRead
    /\ n \in 0..phnum
    /\ Gathered(n, Evaluated(n))

ElfHeaderInv ==
    /\ state = "COPY_ELF_HEADER" =>
         /\ next = "EVAL_ELF_HEADER" /\ copy = "header"
         /\ dest = offset /\ destEnd = EhSize /\ dest < destEnd
    /\ state = "EVAL_ELF_HEADER" => offset = EhSize

TableInv ==
    /\ state = "NEXT_PROGRAM_HEADER" =>
         /\ InTable(index + 1)
         /\ offset = EntryEnd(Evaluated(index + 1))
    /\ state = "COPY_PROGRAM_HEADER" =>
         /\ InTable(index) /\ index < phnum
         /\ next = "EVAL_PROGRAM_HEADER" /\ copy = "header"
         /\ 0 <= dest /\ dest < destEnd /\ destEnd = PhSize
         /\ offset = EntryEnd(Evaluated(index)) + dest
    /\ state = "EVAL_PROGRAM_HEADER" =>
         /\ InTable(index) /\ index < phnum
         /\ offset = EntryEnd(Evaluated(index)) + PhSize
    /\ state = "SKIP_PROGRAM_HEADER" =>
         /\ InTable(index + 1)
         /\ next = "NEXT_PROGRAM_HEADER" /\ copy = "nothing"
         /\ 0 <= dest /\ dest <= destEnd /\ destEnd = Extra
         /\ offset = EntryEnd(Evaluated(index + 1)) - (destEnd - dest)
    /\ state = "PROGRAM_HEADER_DONE" =>
         /\ InTable(phnum)
         /\ offset = HeadersEnd

SegmentInv ==
    /\ state = "NEXT_SEGMENT" =>
         /\ HeaderRead /\ InOrder
         /\ index \in -1..(phnum - 1)
         /\ Chained(index + 1) /\ Loaded(index + 1)
         /\ offset = SegmentEnd(index)
    /\ state = "SEGMENT_SKIP" =>
         /\ HeaderRead /\ InOrder
         /\ index \in 0..(phnum - 1)
         /\ Chained(index) /\ Loaded(index)
         /\ next = "SEGMENT_SKIP_DONE" /\ copy = "nothing"
         /\ 0 <= dest /\ dest <= destEnd
         /\ destEnd = (segments[index].off - SegmentEnd(index - 1)) % Word
         /\ offset = SegmentEnd(index - 1) + dest
    /\ state = "SEGMENT_SKIP_DONE" =>
         /\ HeaderRead /\ InOrder
         /\ index \in 0..(phnum - 1)
         /\ Chained(index + 1) /\ Loaded(index)
         /\ offset = segments[index].off
    /\ state = "COPY_SEGMENT" =>
         /\ HeaderRead /\ InOrder
         /\ index \in 0..(phnum - 1)
         /\ Chained(index + 1) /\ Loaded(index) /\ LoadedTo(index, dest)
         /\ next = "NEXT_SEGMENT" /\ copy = "memory"
         /\ segments[index].begin <= dest /\ dest <= destEnd
         /\ destEnd = segments[index].end
         /\ offset = segments[index].off + (dest - segments[index].begin)

FinalInv ==
    /\ state = "COPY_DONE" =>
         /\ HeaderRead /\ InOrder
         /\ Chained(phnum) /\ Loaded(phnum)
         /\ offset = SegmentEnd(phnum - 1) /\ offset < read
    /\ state = "ERROR_PROGRAM_HEADER_ENTRY_SIZE" => file.entsize < PhSize
    /\ state = "ERROR_PROGRAM_HEADER_OFFSET" => ~file.offsetOK
    /\ state = "ERROR_SEGMENTS_ALLOCATION" => Len(file.headers) > MaxSegments
    /\ pc = "done" => read = file.len /\ (started <=> state = "COPY_DONE")
    /\ pc # "done" => ~started

LoaderInv ==
    /\ TypeInv /\ Position
    /\ ElfHeaderInv /\ TableInv /\ SegmentInv /\ FinalInv
    /\ MemoryRight
-----------------------------------------------------------------------------
(* What the assumptions say of the file at hand. *)
LEMMA FileType ==
  ASSUME TypeInv
  PROVE  /\ file.headers \in Seq(Header) /\ Len(file.headers) \in Nat
         /\ file.entsize \in Nat /\ file.offsetOK \in BOOLEAN
         /\ file.len \in 0..(Word - 1)
         /\ EhSize \in Nat \ {0} /\ PhSize \in Nat \ {0}
         /\ MaxSegments \in Nat /\ Word \in Nat
         /\ \A k \in 1..Len(file.headers) : file.headers[k] \in Header
  BY FileAssumption, SizeAssumption DEF TypeInv

LEMMA Multiples ==
  ASSUME NEW x \in Nat, NEW d \in Nat, NEW c \in Nat
  PROVE  /\ d * x \in Nat
         /\ (d + c) * x = d * x + c * x
         /\ (d + 1) * x = d * x + x
         /\ 0 * x = 0
  OBVIOUS

(* The entries of the table have their places behind each other. *)
LEMMA Entries ==
  ASSUME TypeInv
  PROVE  /\ \A e \in Nat : EntryEnd(e) \in Nat /\ EntryEnd(e) >= EhSize
         /\ EntryEnd(0) = EhSize
         /\ \A e \in Nat : EntryEnd(e + 1) = EntryEnd(e) + file.entsize
         /\ HeadersEnd = EntryEnd(Len(file.headers))
<1>1. file.entsize \in Nat /\ EhSize \in Nat
  BY FileType
<1>2. \A e \in Nat : e * file.entsize \in Nat
  BY <1>1, Multiples
<1>3. \A e \in Nat : EntryEnd(e) \in Nat /\ EntryEnd(e) >= EhSize
  BY <1>1, <1>2 DEF EntryEnd
<1>4. EntryEnd(0) = EhSize
  BY <1>1, Multiples DEF EntryEnd
<1>5. \A e \in Nat : EntryEnd(e + 1) = EntryEnd(e) + file.entsize
  <2> SUFFICES ASSUME NEW e \in Nat PROVE EntryEnd(e + 1) = EntryEnd(e) + file.entsize
    OBVIOUS
  <2>1. (e + 1) * file.entsize = e * file.entsize + file.entsize
    BY <1>1, Multiples
  <2> QED
    BY <1>1, <1>2, <2>1 DEF EntryEnd
<1>6. HeadersEnd = EntryEnd(Len(file.headers))
  BY DEF HeadersEnd, EntryEnd
<1> QED
  BY <1>3, <1>4, <1>5, <1>6

LEMMA EntriesGrow ==
  ASSUME TypeInv, NEW d \in Nat, NEW e \in Nat, d <= e
  PROVE  /\ EntryEnd(d) <= EntryEnd(e)
         /\ d # e => EntryEnd(d) + file.entsize <= EntryEnd(e)
<1>1. file.entsize \in Nat /\ EhSize \in Nat
  BY FileType
<1>2. \A n \in Nat : EntryEnd(d) <= EntryEnd(d + n)
  <2> TAKE n \in Nat
  <2>1. (d + n) * file.entsize = d * file.entsize + n * file.entsize
    BY <1>1, Multiples
  <2>2. d * file.entsize \in Nat /\ n * file.entsize \in Nat
    BY <1>1, Multiples
  <2> QED
    BY <1>1, <2>1, <2>2 DEF EntryEnd
<1>3. EntryEnd(d) <= EntryEnd(e)
  <2>1. e - d \in Nat /\ e = d + (e - d)
    OBVIOUS
  <2> QED
    BY <1>2, <2>1
<1>4. ASSUME d # e PROVE EntryEnd(d) + file.entsize <= EntryEnd(e)
  <2>1. PICK m \in Nat : e = m + 1 /\ d <= m
    BY <1>4, e - 1 \in Nat, e = (e - 1) + 1
  <2>2. EntryEnd(d) <= EntryEnd(m)
    BY <1>2, <2>1, m - d \in Nat, m = d + (m - d)
  <2>3. EntryEnd(e) = EntryEnd(m) + file.entsize
    BY <2>1, Entries
  <2>4. EntryEnd(d) \in Nat /\ EntryEnd(m) \in Nat
    BY Entries
  <2> QED
    BY <1>1, <2>2, <2>3, <2>4
<1> QED
  BY <1>3, <1>4

(* Behind the bytes of entry e + 1 that count, the program header is it. *)
LEMMA HeaderCopied ==
  ASSUME TypeInv, file.entsize >= PhSize,
         NEW e \in 0..(Len(file.headers) - 1),
         offset = EntryEnd(e) + PhSize
  PROVE  ProgramHeader = file.headers[e + 1]
<1> DEFINE At1(k) == offset = EhSize + k * file.entsize - Extra
<1>1. \A k \in DOMAIN file.headers :
         At1(k) <=> EntryEnd(e) + PhSize = EntryEnd(k) - (file.entsize - PhSize)
  <2> SUFFICES ASSUME NEW k \in Nat
               PROVE  At1(k) <=>
                        EntryEnd(e) + PhSize = EntryEnd(k) - (file.entsize - PhSize)
    <3> HIDE DEF At1
    <3>1. DOMAIN file.headers \subseteq Nat
      BY FileType, SMTT(30)
    <3> QED
      BY <3>1
  <2> DEFINE y == k * file.entsize
  <2>1. y \in Nat
    BY FileType, Multiples
  <2>2. EntryEnd(k) = EhSize + y /\ Extra = file.entsize - PhSize
    BY DEF EntryEnd, Extra
  <2>3. At1(k) <=> offset = EhSize + y - Extra
    OBVIOUS
  <2>4. e \in Nat /\ EntryEnd(e) \in Nat
    BY FileType, Entries
  <2>5. file.entsize \in Nat /\ EhSize \in Nat /\ PhSize \in Nat
    BY FileType
  <2> HIDE DEF At1, y
  <2> DEFINE x == file.entsize
  <2>6. /\ x \in Nat /\ EntryEnd(k) = EhSize + y
        /\ At1(k) <=> EntryEnd(e) + PhSize = EhSize + y - (x - PhSize)
    BY <2>2, <2>3, <2>5
  <2> HIDE DEF x
  <2>7. EhSize + y - (x - PhSize) = (EhSize + y) - (x - PhSize)
    BY <2>1, <2>5, <2>6
  <2> QED
    BY <2>6, <2>7 DEF x
<1>2. DOMAIN file.headers = 1..Len(file.headers)
  BY FileType
<1>3. \A k \in DOMAIN file.headers : At1(k) <=> k = e + 1
  <2> SUFFICES ASSUME NEW k \in 1..Len(file.headers)
               PROVE  At1(k) <=> k = e + 1
    BY <1>2
  <2> DEFINE E == EntryEnd(e)
             K == EntryEnd(k)
  <2>1. E \in Nat /\ K \in Nat /\ file.entsize \in Nat /\ PhSize \in Nat
    <3>1. e \in Nat /\ k \in Nat
      BY FileType
    <3> QED
      BY <3>1, FileType, Entries
  <2>2. At1(k) <=> K = E + file.entsize
    <3> HIDE DEF At1, E, K
    <3>1. At1(k) <=> E + PhSize = K - (file.entsize - PhSize)
      BY <1>1, <1>2 DEF E, K
    <3> QED
      BY <2>1, <3>1, SMTT(30)
  <2>3. CASE k = e + 1
    <3>1. e \in Nat
      BY FileType
    <3>2. K = E + file.entsize
      BY <2>3, <3>1, Entries
    <3> QED
      BY <2>2, <2>3, <3>2
  <2>4. CASE k <= e
    <3>1. K <= E
      BY <2>4, EntriesGrow, FileType
    <3>2. file.entsize > 0
      BY FileType
    <3> HIDE DEF At1, E, K
    <3> QED
      BY <2>1, <2>2, <2>4, <3>1, <3>2, FileType, SMTT(30)
  <2>5. CASE k > e + 1
    <3>1. EntryEnd(e + 1) + file.entsize <= K
      BY <2>5, EntriesGrow, FileType
    <3>2. EntryEnd(e + 1) = E + file.entsize
      BY Entries, FileType
    <3>3. file.entsize > 0
      BY FileType
    <3> HIDE DEF At1, E, K
    <3> QED
      BY <2>1, <2>2, <2>5, <3>1, <3>2, <3>3
  <2> QED
    BY <2>3, <2>4, <2>5, FileType
<1>4. e + 1 \in DOMAIN file.headers
  BY <1>2, FileType
<1>5. At1(e + 1)
  BY <1>3, <1>4
<1>6. (CHOOSE k \in DOMAIN file.headers : At1(k)) = e + 1
  <2>1. /\ (CHOOSE k \in DOMAIN file.headers : At1(k)) \in DOMAIN file.headers
        /\ At1(CHOOSE k \in DOMAIN file.headers : At1(k))
    BY <1>4, <1>5
  <2> HIDE DEF At1
  <2> QED
    BY <1>3, <2>1
<1> QED
  BY <1>4, <1>5, <1>6 DEF ProgramHeader

(* What the insertion sort does: it arranges all segments by Before. *)
LEMMA Arranged ==
  ASSUME TypeInv, phnum <= MaxSegments
  PROVE  /\ Order \in [0..(phnum - 1) -> 0..(phnum - 1)]
         /\ \A i, j \in 0..(phnum - 1) : i < j => Before(Order[i], Order[j])
         /\ \A k \in 0..(phnum - 1) : \E i \in 0..(phnum - 1) : Order[i] = k
<1> DEFINE D == 0..(phnum - 1)
           Arranges(p) == \A i, j \in D : i < j => Before(p[i], p[j])
<1>1. phnum \in Nat /\ D \subseteq Nat /\ IsFiniteSet(D) /\ Cardinality(D) = phnum
  <2>1. phnum \in Nat /\ D \subseteq Nat
    BY DEF TypeInv
  <2>2. /\ IsFiniteSet(D)
        /\ Cardinality(D) = IF 0 > phnum - 1 THEN 0 ELSE (phnum - 1) - 0 + 1
    BY <2>1, FS_Interval
  <2> QED
    BY <2>1, <2>2
<1>0. \A i \in D : i \in Nat /\ segments[i].off \in Int
  <2>1. \A i \in D : i \in 0..(MaxSegments - 1)
    BY <1>1, FileType
  <2>2. \A i \in 0..(MaxSegments - 1) : segments[i].off \in 0..(Word - 1)
    BY DEF TypeInv, Segment
  <2> QED
    BY <1>1, <2>1, <2>2, FileType
<1> HIDE DEF D
<1>2. \A i, j \in D : /\ ~(Before(i, j) /\ Before(j, i))
                      /\ i # j => Before(i, j) \/ Before(j, i)
  BY <1>0 DEF Before
<1>3. \A i, j, k \in D : Before(i, j) /\ Before(j, k) => Before(i, k)
  BY <1>0 DEF Before
<1>4. ASSUME NEW f \in [D -> D], \A i, j \in D : i # j => f[i] # f[j]
      PROVE  \A k \in D : \E i \in D : f[i] = k
  <2>1. f \in Injection(D, D)
    BY <1>4 DEF Injection, IsInjective
  <2>2. f \in Surjection(D, D)
    BY <1>1, <2>1, FS_Injection
  <2> QED
    BY <2>2 DEF Surjection
<1> DEFINE L(i) == {j \in D : Before(j, i)}
           R == [i \in D |-> Cardinality(L(i))]
<1>5. \A i \in D : R[i] \in D
  <2> TAKE i \in D
  <2>1. L(i) \subseteq D \ {i}
    BY <1>2
  <2>2. IsFiniteSet(D \ {i}) /\ Cardinality(D \ {i}) = phnum - 1
    BY <1>1, FS_RemoveElement
  <2>3. Cardinality(L(i)) \in Nat /\ Cardinality(L(i)) <= phnum - 1
    BY <2>1, <2>2, FS_Subset, FS_CardinalityType
  <2> QED
    BY <1>1, <2>3 DEF D
<1>6. \A i, j \in D : Before(i, j) => R[i] < R[j]
  <2> SUFFICES ASSUME NEW i \in D, NEW j \in D, Before(i, j) PROVE R[i] < R[j]
    OBVIOUS
  <2>1. L(i) \subseteq L(j) \ {i} /\ i \in L(j)
    BY <1>2, <1>3
  <2>2. IsFiniteSet(L(j))
    BY <1>1, FS_Subset
  <2>3. IsFiniteSet(L(j) \ {i}) /\ Cardinality(L(j) \ {i}) = Cardinality(L(j)) - 1
    BY <2>1, <2>2, FS_RemoveElement
  <2>4. Cardinality(L(i)) <= Cardinality(L(j)) - 1
    BY <2>1, <2>3, FS_Subset
  <2>5. R[i] = Cardinality(L(i)) /\ R[j] = Cardinality(L(j))
    OBVIOUS
  <2>6. R[i] \in Nat /\ R[j] \in Nat
    BY <1>0, <1>5
  <2> HIDE DEF L, R
  <2> QED
    BY <2>4, <2>5, <2>6
<1>7. \E p \in [D -> D] : Arranges(p)
  <2>1. R \in [D -> D]
    BY <1>5
  <2>2. \A i, j \in D : i # j => R[i] # R[j]
    <3> HIDE DEF R
    <3> QED
      BY <1>0, <1>2, <1>5, <1>6
  <2> HIDE DEF R
  <2>3. \A k \in D : \E i \in D : R[i] = k
    BY <1>4, <2>1, <2>2
  <2> DEFINE p == [k \in D |-> CHOOSE i \in D : R[i] = k]
  <2>4. p \in [D -> D] /\ \A k \in D : R[p[k]] = k
    BY <2>3
  <2> HIDE DEF p
  <2>5. ASSUME NEW i \in D, NEW j \in D, i < j PROVE Before(p[i], p[j])
    <3>1. p[i] \in D /\ p[j] \in D /\ R[p[i]] = i /\ R[p[j]] = j
      BY <2>4
    <3>2. i \in Nat /\ j \in Nat
      BY <1>0
    <3>3. ~(j < i) /\ i # j
      BY <2>5, <3>2
    <3> QED
      BY <1>2, <1>6, <3>1, <3>3
  <2>6. Arranges(p)
    BY <2>5
  <2> QED
    BY <2>4, <2>6
<1>8. Order \in [D -> D] /\ Arranges(Order)
  <2>1. Order = CHOOSE p \in [D -> D] : Arranges(p)
    BY DEF Order, D
  <2> HIDE DEF Arranges
  <2> QED
    BY <1>7, <2>1
<1>9. \A i, j \in D : i # j => Order[i] # Order[j]
  <2> SUFFICES ASSUME NEW i \in D, NEW j \in D, i < j PROVE Order[i] # Order[j]
    BY <1>1
  <2> QED
    BY <1>2, <1>8
<1> QED
  BY <1>4, <1>8, <1>9 DEF D

(* Sorting turns the order of the table into that of the file. *)
LEMMA SortedInOrder ==
  ASSUME TypeInv, InTable(phnum),
         segments' = Sorted, UNCHANGED <<file, phnum>>
  PROVE  /\ InOrder'
         /\ segments' \in [0..(MaxSegments - 1) -> Segment]
<1> DEFINE D == 0..(phnum - 1)
           N == Len(file.headers)
<1>1. /\ phnum \in Nat /\ phnum <= MaxSegments
      /\ D \subseteq Nat /\ D \subseteq 0..(MaxSegments - 1)
      /\ \A k \in D : k < phnum
  BY FileType DEF InTable, HeaderRead
<1>2. Evaluated(phnum) = N
  BY <1>1, FileType DEF Evaluated
<1>3. PICK h \in [D -> 1..N] :
        /\ Describe(h, phnum, N)
        /\ \A i, j \in D : i < j => h[i] < h[j]
  BY <1>2 DEF InTable, Gathered
<1>4. /\ Order \in [D -> D]
      /\ \A i, j \in D : i < j => Before(Order[i], Order[j])
      /\ \A k \in D : \E i \in D : Order[i] = k
  BY <1>1, Arranged
<1>5. DOMAIN segments = 0..(MaxSegments - 1)
  BY DEF TypeInv
<1>6. \A k \in D : segments'[k] = segments[Order[k]]
  BY <1>1, <1>5 DEF Sorted
<1>7. \A k \in D : /\ file.headers[h[k]].load
                   /\ segments[k] = SegmentOf(file.headers[h[k]])
  BY <1>3 DEF Describe
<1>8. segments' \in [0..(MaxSegments - 1) -> Segment]
  <2>1. \A k \in 0..(MaxSegments - 1) : k < phnum => k \in D
    BY <1>1, FileType
  <2> HIDE DEF D
  <2> QED
    BY <1>1, <1>4, <1>5, <2>1 DEF Sorted, TypeInv
<1>9. PICK g \in [D -> 1..N] : \A k \in D : g[k] = h[Order[k]]
  <2> HIDE DEF D, N
  <2>1. [k \in D |-> h[Order[k]]] \in [D -> 1..N]
    BY <1>3, <1>4
  <2> QED
    BY <2>1
<1>10. ASSUME NEW k \in D
       PROVE  /\ file.headers[g[k]].load
              /\ segments'[k] = SegmentOf(file.headers[g[k]])
  <2>1. Order[k] \in D /\ g[k] = h[Order[k]]
    BY <1>4, <1>9
  <2> QED
    BY <1>6, <1>7, <2>1
<1>11. ASSUME NEW j \in 1..N, file.headers[j].load
       PROVE  \E k \in D : g[k] = j
  <2>1. PICK k \in D : h[k] = j
    BY <1>3, <1>11 DEF Describe
  <2>2. PICK i \in D : Order[i] = k
    BY <1>4
  <2> QED
    BY <1>9, <2>1, <2>2
<1>12. ASSUME NEW i \in D, NEW j \in D, i < j
       PROVE  Follows(g[i], g[j])
  <2>1. /\ Order[i] \in D /\ Order[j] \in D
        /\ g[i] = h[Order[i]] /\ g[j] = h[Order[j]]
    BY <1>4, <1>9
  <2>2. Before(Order[i], Order[j])
    BY <1>4, <1>12
  <2> HIDE DEF D, N
  <2>3. \A k \in D : segments[k].off = file.headers[h[k]].off
    <3>1. \A q : SegmentOf(q).off = q.off
      BY DEF SegmentOf
    <3> QED
      BY <1>7, <3>1
  <2> QED
    BY <1>3, <2>1, <2>2, <2>3 DEF Before, Follows
<1>13. D' = D /\ N' = N
  OBVIOUS
<1>14. /\ \A k \in D' : /\ file'.headers[g[k]].load
                        /\ segments'[k] = SegmentOf(file'.headers[g[k]])
       /\ \A j \in 1..N' : file'.headers[j].load => \E k \in D' : g[k] = j
       /\ \A i, j \in D' : i < j => Follows(g[i], g[j])'
  <2> HIDE DEF D, N
  <2>1. \A i, j : Follows(i, j)' <=> Follows(i, j)
    BY DEF Follows
  <2> QED
    BY <1>10, <1>11, <1>12, <1>13, <2>1
<1>15. g \in [D' -> 1..N']
  BY <1>9, <1>13
<1>16. InOrder'
  BY <1>14, <1>15 DEF InOrder, Describe
<1> QED
  BY <1>8, <1>16

(* Predicates of the table and of the segments depend on these variables. *)
LEMMA TableKept ==
  ASSUME UNCHANGED <<file, phnum, segments>>
  PROVE  /\ HeaderRead' <=> HeaderRead
         /\ \A n : InTable(n)' <=> InTable(n)
         /\ \A n : Evaluated(n)' = Evaluated(n)
         /\ \A e : EntryEnd(e)' = EntryEnd(e)
         /\ InOrder' <=> InOrder
         /\ \A k : SegmentEnd(k)' = SegmentEnd(k)
         /\ \A n : Chained(n)' <=> Chained(n)
         /\ HeadersEnd' = HeadersEnd /\ Extra' = Extra
<1>1. HeaderRead' <=> HeaderRead
  BY DEF HeaderRead
<1>2. \A n : Evaluated(n)' = Evaluated(n)
  BY DEF Evaluated
<1>3. \A h, n, e : Describe(h, n, e)' <=> Describe(h, n, e)
  BY DEF Describe, SegmentOf
<1>4. \A n, e : Gathered(n, e)' <=> Gathered(n, e)
  BY <1>3 DEF Gathered
<1>5. \A i, j : Follows(i, j)' <=> Follows(i, j)
  BY DEF Follows
<1>6. InOrder' <=> InOrder
  BY <1>3, <1>5 DEF InOrder
<1>7. HeadersEnd' = HeadersEnd /\ Extra' = Extra
  BY DEF HeadersEnd, Extra
<1>8. \A k : SegmentEnd(k)' = SegmentEnd(k)
  BY <1>7 DEF SegmentEnd
<1>9. \A n : Chained(n)' <=> Chained(n)
  BY <1>8 DEF Chained
<1>10. \A n : InTable(n)' <=> InTable(n)
  BY <1>1, <1>2, <1>4 DEF InTable
<1>11. \A e : EntryEnd(e)' = EntryEnd(e)
  BY DEF EntryEnd
<1> QED
  BY <1>1, <1>2, <1>6, <1>7, <1>8, <1>9, <1>10, <1>11

LEMMA MemoryKept ==
  ASSUME UNCHANGED <<file, segments, mem>>
  PROVE  /\ MemoryRight' <=> MemoryRight
         /\ \A n : Loaded(n)' <=> Loaded(n)
         /\ \A i, end : LoadedTo(i, end)' <=> LoadedTo(i, end)
  BY DEF MemoryRight, Load, Loaded, LoadedTo

(* What does not touch the loader keeps what is known of it. *)
LEMMA LoaderKept ==
  ASSUME UNCHANGED <<file, loader, offset, mem>>
  PROVE  /\ ElfHeaderInv => ElfHeaderInv'
         /\ TableInv => TableInv'
         /\ SegmentInv => SegmentInv'
         /\ MemoryRight => MemoryRight'
<1>1. /\ UNCHANGED <<file, phnum, segments, mem>>
      /\ UNCHANGED <<state, next, index, dest, destEnd, copy, offset>>
  BY DEF loader
<1>2. ElfHeaderInv => ElfHeaderInv'
  BY <1>1 DEF ElfHeaderInv
<1>3. TableInv => TableInv'
  BY <1>1, TableKept DEF TableInv
<1>4. SegmentInv => SegmentInv'
  BY <1>1, TableKept, MemoryKept DEF SegmentInv
<1>5. MemoryRight => MemoryRight'
  BY <1>1, MemoryKept
<1> QED
  BY <1>2, <1>3, <1>4, <1>5

LEMMA InitInv == Init => LoaderInv
<1> SUFFICES ASSUME Init PROVE LoaderInv
  OBVIOUS
<1>1. TypeInv
  <2>1. file \in File /\ EhSize \in Nat
    BY SizeAssumption DEF Init
  <2>2. 0 \in 0..(Word - 1)
    <3>1. file.len \in 0..(Word - 1) /\ Word \in Nat
      BY <2>1, FileAssumption, SizeAssumption
    <3> QED
      BY <3>1
  <2>3. segments \in [0..(MaxSegments - 1) -> Segment]
    BY <2>2 DEF Init, NoSegment, Segment
  <2>4. mem \in [Address -> Int]
    BY DEF Init
  <2>5. /\ pc = "read" /\ state = "COPY_ELF_HEADER" /\ phnum = 0 /\ index = 0
        /\ dest = 0 /\ destEnd = EhSize /\ started = FALSE
    BY DEF Init
  <2>6. 0 \in Nat /\ 0 \in Int /\ EhSize \in Int
    BY <2>1
  <2> QED
    BY <2>1, <2>3, <2>4, <2>5, <2>6, Zenon DEF TypeInv, CopyState
<1>2. Position
  BY <1>1, FileType DEF Init, Position, FinalState
<1>3. ElfHeaderInv
  BY SizeAssumption DEF Init, ElfHeaderInv
<1>4. TableInv /\ SegmentInv /\ FinalInv
  BY DEF Init, TableInv, SegmentInv, FinalInv
<1>5. MemoryRight
  BY DEF Init, MemoryRight
<1> QED
  BY <1>1, <1>2, <1>3, <1>4, <1>5 DEF LoaderInv

LEMMA ReadInv ==
  ASSUME LoaderInv, NEW n \in Piece, Read(n)
  PROVE  LoaderInv'
<1>1. /\ ElfHeaderInv' /\ TableInv' /\ SegmentInv' /\ MemoryRight'
  BY LoaderKept DEF LoaderInv, Read
<1>2. TypeInv'
  BY DEF LoaderInv, TypeInv, Read, loader
<1>3. n \in Nat \ {0} /\ read \in Nat /\ file.len \in Nat
  BY SizeAssumption, FileType DEF LoaderInv, Position
<1>4. Position'
  BY <1>3 DEF LoaderInv, Position, Read, loader
<1>5. FinalInv'
  <2>1. UNCHANGED <<file, phnum, segments, mem, state, offset, started>>
    BY DEF Read, loader
  <2>2. offset < read => offset < read'
    BY <1>3 DEF Read, LoaderInv, Position
  <2>3. pc # "done" /\ pc' # "done"
    BY DEF Read
  <2> QED
    BY <2>1, <2>2, <2>3, TableKept, MemoryKept DEF LoaderInv, FinalInv
<1> QED
  BY <1>1, <1>2, <1>4, <1>5 DEF LoaderInv

LEMMA ReturnInv ==
  ASSUME LoaderInv, Return
  PROVE  LoaderInv'
<1>1. /\ ElfHeaderInv' /\ TableInv' /\ SegmentInv' /\ MemoryRight'
  BY LoaderKept DEF LoaderInv, Return
<1>2. TypeInv'
  BY DEF LoaderInv, TypeInv, Return, loader
<1>3. Position'
  BY DEF LoaderInv, Position, Return, loader
<1>4. FinalInv'
  <2>1. UNCHANGED <<file, phnum, segments, mem, state, offset, started, read>>
    BY DEF Return, loader
  <2>2. pc # "done" /\ pc' # "done"
    BY DEF Return
  <2> QED
    BY <2>1, <2>2, TableKept, MemoryKept DEF LoaderInv, FinalInv
<1> QED
  BY <1>1, <1>2, <1>3, <1>4 DEF LoaderInv

LEMMA IgnoreInv ==
  ASSUME LoaderInv, Ignore
  PROVE  LoaderInv'
<1>1. /\ ElfHeaderInv' /\ TableInv' /\ SegmentInv' /\ MemoryRight'
  BY LoaderKept DEF LoaderInv, Ignore
<1>2. TypeInv'
  BY DEF LoaderInv, TypeInv, Ignore, loader
<1>3. Position'
  BY DEF LoaderInv, Position, Ignore, loader, Rest
<1>4. FinalInv'
  <2>1. UNCHANGED <<file, phnum, segments, mem, state, offset, started, read>>
    BY DEF Ignore, loader
  <2>2. pc # "done" /\ pc' # "done"
    BY DEF Ignore
  <2> QED
    BY <2>1, <2>2, TableKept, MemoryKept DEF LoaderInv, FinalInv
<1> QED
  BY <1>1, <1>2, <1>3, <1>4 DEF LoaderInv

LEMMA FinalStepInv ==
  ASSUME LoaderInv, Final
  PROVE  LoaderInv'
<1>1. /\ ElfHeaderInv' /\ TableInv' /\ SegmentInv' /\ MemoryRight'
  BY LoaderKept DEF LoaderInv, Final
<1>2. TypeInv'
  BY DEF LoaderInv, TypeInv, Final, loader, MayStart
<1>3. Position'
  BY DEF LoaderInv, Position, Final, loader
<1>4. FinalInv'
  <2>1. UNCHANGED <<file, phnum, segments, mem, state, offset, read>>
    BY DEF Final, loader
  <2>2. read = file.len /\ started' = (state = "COPY_DONE") /\ pc' = "done"
    BY DEF Final, MayStart
  <2> QED
    BY <2>1, <2>2, TableKept, MemoryKept DEF LoaderInv, FinalInv
<1> QED
  BY <1>1, <1>2, <1>3, <1>4 DEF LoaderInv

(* A step of the loader that copies nothing leaves the caller alone. *)
LEMMA EvalKept ==
  ASSUME LoaderInv, pc = "process", src # 0, state \notin FinalState,
         UNCHANGED <<file, read, pc, src, offset, mem, started>>
  PROVE  /\ Position'
         /\ MemoryRight'
         /\ pc' = "process" /\ ~started'
         /\ offset < read
<1>1. offset \in Nat /\ src \in Nat /\ read \in Nat /\ offset + src = read
  BY FileType DEF LoaderInv, Position
<1>2. Position'
  BY <1>1 DEF LoaderInv, Position
<1>3. MemoryRight'
  BY DEF LoaderInv, MemoryRight, Load
<1>4. pc' = "process" /\ ~started'
  BY DEF LoaderInv, FinalInv
<1> QED
  BY <1>1, <1>2, <1>3, <1>4

LEMMA EvalElfHeaderInv ==
  ASSUME LoaderInv, EvalElfHeader
  PROVE  LoaderInv'
<1> USE DEF Goto
<1>1. state = "EVAL_ELF_HEADER" /\ offset = EhSize
  BY DEF EvalElfHeader, At, LoaderInv, ElfHeaderInv
<1>2. Position' /\ MemoryRight' /\ pc' = "process" /\ ~started'
  BY <1>1, EvalKept DEF EvalElfHeader, At, FinalState
<1>3. TypeInv /\ TypeInv'
  <2>1. phnum' \in Nat
    BY FileType DEF EvalElfHeader, LoaderInv
  <2>2. index' \in Int
    BY DEF EvalElfHeader, LoaderInv, TypeInv
  <2>3. state' \in CopyState \union EvalState \union FinalState
    BY DEF EvalElfHeader, EvalState, FinalState
  <2> QED
    BY <2>1, <2>2, <2>3 DEF LoaderInv, TypeInv, EvalElfHeader
<1>4. CASE /\ file.entsize >= PhSize /\ file.offsetOK
           /\ Len(file.headers) <= MaxSegments
  <2>1. /\ state' = "NEXT_PROGRAM_HEADER" /\ index' + 1 = 0
        /\ phnum' = Len(file.headers) /\ file' = file /\ offset' = offset
    BY <1>3, <1>4, FileType DEF EvalElfHeader
  <2>2. HeaderRead' /\ 0 \in 0..phnum'
    BY <1>3, <1>4, <2>1, FileType DEF HeaderRead
  <2>3. Evaluated(0)' = 0
    BY <1>3, <2>1, FileType DEF Evaluated
  <2>4. Gathered(0, 0)'
    <3>1. 0..(0 - 1) = {} /\ 1..0 = {}
      OBVIOUS
    <3>2. \A h : Describe(h, 0, 0)'
      BY <3>1 DEF Describe
    <3>3. [k \in {} |-> 1] \in [{} -> {}]
      OBVIOUS
    <3> QED
      BY <3>1, <3>2, <3>3 DEF Gathered
  <2>5. InTable(0)'
    BY <2>2, <2>3, <2>4 DEF InTable
  <2>6. EntryEnd(0)' = EhSize
    BY <1>3, <2>1, Entries DEF EntryEnd
  <2>7. TableInv'
    BY <1>1, <2>1, <2>3, <2>5, <2>6 DEF TableInv
  <2>8. ElfHeaderInv' /\ SegmentInv' /\ FinalInv'
    BY <1>2, <2>1 DEF ElfHeaderInv, SegmentInv, FinalInv
  <2> QED
    BY <1>2, <1>3, <2>7, <2>8 DEF LoaderInv
<1>5. CASE ~(/\ file.entsize >= PhSize /\ file.offsetOK
             /\ Len(file.headers) <= MaxSegments)
  <2>1. /\ file' = file /\ file.entsize \in Nat /\ PhSize \in Nat
        /\ Len(file.headers) \in Nat /\ MaxSegments \in Nat
    BY <1>3, FileType DEF EvalElfHeader
  <2>2. \/ state' = "ERROR_PROGRAM_HEADER_ENTRY_SIZE" /\ file.entsize < PhSize
        \/ state' = "ERROR_PROGRAM_HEADER_OFFSET" /\ ~file.offsetOK
        \/ state' = "ERROR_SEGMENTS_ALLOCATION" /\ Len(file.headers) > MaxSegments
    BY <1>5, <2>1 DEF EvalElfHeader
  <2>3. ElfHeaderInv' /\ TableInv' /\ SegmentInv' /\ FinalInv'
    BY <1>2, <2>1, <2>2 DEF ElfHeaderInv, TableInv, SegmentInv, FinalInv
  <2> QED
    BY <1>2, <1>3, <2>3 DEF LoaderInv
<1> QED
  BY <1>4, <1>5

LEMMA NextProgramHeaderInv ==
  ASSUME LoaderInv, NextProgramHeader
  PROVE  LoaderInv'
<1> USE DEF Goto, Copying
<1>1. /\ state = "NEXT_PROGRAM_HEADER" /\ InTable(index + 1)
      /\ offset = EntryEnd(Evaluated(index + 1))
      /\ index' = index + 1
      /\ UNCHANGED <<file, phnum, segments, offset>>
  BY DEF NextProgramHeader, At, LoaderInv, TableInv
<1>2. Position' /\ MemoryRight' /\ pc' = "process" /\ ~started'
  BY <1>1, EvalKept DEF NextProgramHeader, At, FinalState
<1>3. TypeInv'
  BY <1>1, FileType, SMTT(30) DEF LoaderInv, TypeInv, NextProgramHeader, CopyState, EvalState
<1>4. /\ InTable(index)' /\ index' \in 0..phnum' /\ phnum' \in Nat
      /\ (offset = EntryEnd(Evaluated(index)))'
  <2>1. InTable(index') /\ offset' = EntryEnd(Evaluated(index'))
    BY <1>1
  <2>2. InTable(index)' /\ (offset = EntryEnd(Evaluated(index)))'
    BY <1>1, <2>1, TableKept
  <2> QED
    BY <1>3, <2>2 DEF InTable, TypeInv
<1>5. CASE index' < phnum
  <2>1. /\ state' = "COPY_PROGRAM_HEADER" /\ next' = "EVAL_PROGRAM_HEADER"
        /\ dest' = 0 /\ destEnd' = PhSize /\ copy' = "header"
    BY <1>5 DEF NextProgramHeader
  <2>2. index' < phnum' /\ PhSize > 0 /\ EntryEnd(Evaluated(index))' \in Nat
    <3>1. TypeInv
      BY DEF LoaderInv
    <3>2. Evaluated(index') \in Nat
      <4>1. index' \in 0..phnum /\ phnum \in 0..Len(file.headers)
        BY <1>1 DEF InTable, HeaderRead
      <4>2. Len(file.headers) \in Nat
        BY <3>1, FileType
      <4> QED
        BY <4>1, <4>2 DEF Evaluated
    <3>3. EntryEnd(Evaluated(index')) \in Nat
      BY <3>1, <3>2, Entries
    <3>4. EntryEnd(Evaluated(index))' = EntryEnd(Evaluated(index'))
      BY <1>1, TableKept
    <3> QED
      BY <1>1, <1>5, <3>3, <3>4, SizeAssumption
  <2>3. TableInv'
    BY <1>4, <2>1, <2>2 DEF TableInv
  <2>4. ElfHeaderInv' /\ SegmentInv' /\ FinalInv'
    BY <1>2, <2>1 DEF ElfHeaderInv, SegmentInv, FinalInv
  <2> QED
    BY <1>2, <1>3, <2>3, <2>4 DEF LoaderInv
<1>6. CASE ~(index' < phnum)
  <2>1. state' = "PROGRAM_HEADER_DONE" /\ index' = phnum'
    BY <1>1, <1>4, <1>6 DEF NextProgramHeader
  <2>2. Evaluated(index)' = Len(file.headers)'
    BY <1>3, <1>4, <2>1, FileType DEF Evaluated
  <2>3. (HeadersEnd = EntryEnd(Len(file.headers)))'
    BY DEF HeadersEnd, EntryEnd
  <2>4. TableInv'
    BY <1>4, <2>1, <2>2, <2>3 DEF TableInv
  <2>5. ElfHeaderInv' /\ SegmentInv' /\ FinalInv'
    BY <1>2, <2>1 DEF ElfHeaderInv, SegmentInv, FinalInv
  <2> QED
    BY <1>2, <1>3, <2>4, <2>5 DEF LoaderInv
<1> QED
  BY <1>5, <1>6

(* A header is evaluated: there is a segment more, or a header less. *)
LEMMA EvalProgramHeaderInv ==
  ASSUME LoaderInv, EvalProgramHeader
  PROVE  LoaderInv'
<1> USE DEF Goto, Copying
<1>1. /\ state = "EVAL_PROGRAM_HEADER" /\ InTable(index) /\ index < phnum
      /\ offset = EntryEnd(Evaluated(index)) + PhSize
      /\ UNCHANGED <<file, offset>>
      /\ state' = "SKIP_PROGRAM_HEADER" /\ next' = "NEXT_PROGRAM_HEADER"
      /\ dest' = 0 /\ destEnd' = Extra /\ copy' = "nothing"
  BY DEF EvalProgramHeader, At, LoaderInv, TableInv
<1>2. Position' /\ MemoryRight' /\ pc' = "process" /\ ~started'
  BY <1>1, EvalKept DEF EvalProgramHeader, At, FinalState
<1>3. TypeInv
  BY DEF LoaderInv
<1>4. PICK N, i, e, p : /\ N = Len(file.headers) /\ i = index
                        /\ e = Evaluated(index) /\ p = file.headers[e + 1]
  OBVIOUS
<1>5. /\ N \in Nat /\ phnum \in 0..N /\ i \in 0..(phnum - 1)
      /\ N <= MaxSegments /\ MaxSegments \in Nat
      /\ file.entsize >= PhSize /\ file.entsize \in Nat /\ PhSize \in Nat
  BY <1>1, <1>3, <1>4, FileType DEF InTable, HeaderRead
<1>6. e = i + (N - phnum) /\ e \in 0..(N - 1) /\ e + 1 \in 1..N /\ e \in Nat
  BY <1>4, <1>5 DEF Evaluated
<1>7. ProgramHeader = p /\ p \in Header
  BY <1>1, <1>3, <1>4, <1>5, <1>6, HeaderCopied, FileType
<1>8. PICK h \in [0..(i - 1) -> 1..e] :
        /\ Describe(h, i, e)
        /\ \A j, k \in 0..(i - 1) : j < k => h[j] < h[k]
  BY <1>1, <1>4 DEF InTable, Gathered
<1>9. Extra \in Nat /\ EntryEnd(e + 1) = offset + Extra
  <2>1. Extra = file.entsize - PhSize
    BY DEF Extra
  <2>2. EntryEnd(e) \in Nat /\ EntryEnd(e + 1) = EntryEnd(e) + file.entsize
    BY <1>3, <1>6, Entries
  <2>3. offset = EntryEnd(e) + PhSize
    BY <1>1, <1>4
  <2> QED
    BY <1>5, <2>1, <2>2, <2>3, SMTT(30)
<1>10. ASSUME /\ TypeInv'
              /\ (index + 1 \in 0..phnum)' /\ phnum' \in 0..N
              /\ Evaluated(index + 1)' = e + 1
              /\ Gathered(index + 1, e + 1)'
       PROVE  LoaderInv'
  <2>1. HeaderRead'
    BY <1>1, <1>4, <1>10 DEF InTable, HeaderRead
  <2>2. InTable(index + 1)'
    BY <1>10, <2>1 DEF InTable
  <2>3. EntryEnd(Evaluated(index + 1))' = offset' + Extra
    <3>1. EntryEnd(e + 1)' = EntryEnd(e + 1)
      BY <1>1 DEF EntryEnd
    <3>2. EntryEnd(Evaluated(index + 1))' = EntryEnd(e + 1)'
      BY <1>10 DEF EntryEnd
    <3> QED
      BY <1>1, <1>9, <3>1, <3>2
  <2>4. Extra' = Extra
    BY <1>1 DEF Extra
  <2>5. offset \in Nat
    BY DEF LoaderInv, Position
  <2>6. TableInv'
    BY <1>1, <1>9, <2>2, <2>3, <2>4, <2>5 DEF TableInv
  <2>7. ElfHeaderInv' /\ SegmentInv' /\ FinalInv'
    BY <1>1, <1>2 DEF ElfHeaderInv, SegmentInv, FinalInv
  <2> QED
    BY <1>2, <1>10, <2>6, <2>7 DEF LoaderInv
<1>11. CASE p.load
  <2>1. /\ segments' = [segments EXCEPT ![i] = SegmentOf(p)]
        /\ UNCHANGED <<phnum, index>>
    BY <1>4, <1>7, <1>11 DEF EvalProgramHeader, SegmentOf
  <2>2. SegmentOf(p) \in Segment
    BY <1>7 DEF SegmentOf, Segment, Header
  <2>3. i \in 0..(MaxSegments - 1)
    BY <1>5
  <2>4. TypeInv'
    <3>1. segments' \in [0..(MaxSegments - 1) -> Segment]
      BY <1>3, <2>1, <2>2, <2>3 DEF TypeInv
    <3>2. Extra \in Int /\ 0 \in Int
      BY <1>9
    <3>3. UNCHANGED <<mem, started, file>>
      BY DEF EvalProgramHeader
    <3> QED
      BY <1>1, <1>2, <1>3, <2>1, <3>1, <3>2, <3>3 DEF TypeInv, CopyState
  <2>5. Evaluated(index + 1)' = e + 1 /\ (index + 1 \in 0..phnum)'
    <3>1. index' = i /\ phnum' = phnum /\ Len(file.headers)' = N
      BY <1>1, <1>4, <2>1
    <3>2. i + 1 + (N - phnum) = e + 1 /\ i + 1 \in 0..phnum
      BY <1>5, <1>6
    <3>3. Evaluated(index + 1)' = i + 1 + (N - phnum)
      BY <3>1 DEF Evaluated
    <3> QED
      BY <3>1, <3>2, <3>3
  <2>6. PICK g \in [0..i -> 1..(e + 1)] :
          g[i] = e + 1 /\ \A k \in 0..(i - 1) : g[k] = h[k]
    <3>1. \A k \in 0..i : k = i \/ k \in 0..(i - 1)
      BY <1>5
    <3>2. i \in 0..i /\ \A k \in 0..(i - 1) : k \in 0..i /\ k # i
      BY <1>5
    <3>3. e + 1 \in 1..(e + 1) /\ 1..e \subseteq 1..(e + 1)
      BY <1>6
    <3> DEFINE g == [k \in 0..i |-> IF k = i THEN e + 1 ELSE h[k]]
    <3>4. g \in [0..i -> 1..(e + 1)]
      BY <1>8, <3>1, <3>3
    <3>5. g[i] = e + 1 /\ \A k \in 0..(i - 1) : g[k] = h[k]
      BY <3>2
    <3> QED
      BY <3>4, <3>5
  <2>7. /\ \A k \in 0..i : /\ file.headers[g[k]].load
                           /\ segments'[k] = SegmentOf(file.headers[g[k]])
        /\ \A j \in 1..(e + 1) : file.headers[j].load => \E k \in 0..i : g[k] = j
    <3>1. segments'[i] = SegmentOf(p) /\ \A k \in 0..(i - 1) : segments'[k] = segments[k]
      BY <1>3, <1>5, <2>1, <2>3 DEF TypeInv
    <3>2. \A k \in 0..i : k = i \/ k \in 0..(i - 1)
      BY <1>5
    <3>3. \A j \in 1..(e + 1) : j = e + 1 \/ j \in 1..e
      BY <1>6
    <3>4. i \in 0..i /\ 0..(i - 1) \subseteq 0..i
      BY <1>5
    <3>5. \A k \in 0..(i - 1) : /\ file.headers[h[k]].load
                                /\ segments[k] = SegmentOf(file.headers[h[k]])
      BY <1>8 DEF Describe
    <3>6. \A j \in 1..e : file.headers[j].load => \E k \in 0..(i - 1) : h[k] = j
      BY <1>8 DEF Describe
    <3>7. file.headers[g[i]] = p
      BY <1>4, <2>6
    <3>8. \A k \in 0..i : /\ file.headers[g[k]].load
                          /\ segments'[k] = SegmentOf(file.headers[g[k]])
      BY <1>11, <2>6, <3>1, <3>2, <3>5, <3>7
    <3>9. \A j \in 1..(e + 1) : file.headers[j].load => \E k \in 0..i : g[k] = j
      BY <2>6, <3>3, <3>4, <3>6
    <3> QED
      BY <3>8, <3>9
  <2>8. \A j, k \in 0..i : j < k => g[j] < g[k]
    BY <1>5, <1>6, <1>8, <2>6, SMTT(30)
  <2>9. Gathered(i + 1, e + 1)'
    <3>1. (i + 1) - 1 = i
      BY <1>5
    <3>2. \A k : SegmentOf(file'.headers[k]) = SegmentOf(file.headers[k])
      BY <1>1
    <3>3. Describe(g, i + 1, e + 1)'
      BY <1>1, <2>7, <3>1, <3>2 DEF Describe
    <3> QED
      BY <2>8, <3>1, <3>3 DEF Gathered
  <2> QED
    BY <1>4, <1>5, <1>10, <2>1, <2>4, <2>5, <2>9
<1>12. CASE ~p.load
  <2>1. phnum' = phnum - 1 /\ index' = i - 1 /\ segments' = segments
    BY <1>4, <1>7, <1>12 DEF EvalProgramHeader, OtherHeader
  <2>2. TypeInv'
    BY <1>1, <1>2, <1>3, <1>5, <1>9, <2>1 DEF TypeInv, EvalProgramHeader, CopyState
  <2>3. Evaluated(index + 1)' = e + 1 /\ (index + 1 \in 0..phnum)' /\ (index + 1)' = i
    BY <1>1, <1>4, <1>5, <1>6, <2>1 DEF Evaluated
  <2>4. h \in [0..(i - 1) -> 1..(e + 1)]
    BY <1>6, <1>8
  <2>5. Describe(h, i, e + 1)'
    <3>1. \A j \in 1..(e + 1) : j = e + 1 \/ j \in 1..e
      BY <1>6
    <3>2. \A k : SegmentOf(file'.headers[k]) = SegmentOf(file.headers[k])
      BY <1>1
    <3> QED
      BY <1>1, <1>4, <1>8, <1>12, <2>1, <3>1, <3>2 DEF Describe
  <2>6. Gathered(i, e + 1)'
    BY <1>8, <2>4, <2>5 DEF Gathered
  <2> QED
    BY <1>4, <1>5, <1>10, <2>1, <2>2, <2>3, <2>6
<1> QED
  BY <1>11, <1>12

LEMMA ProgramHeaderDoneInv ==
  ASSUME LoaderInv, NEW ok \in BOOLEAN, ProgramHeaderDone(ok)
  PROVE  LoaderInv'
<1> USE DEF Goto
<1>1. /\ state = "PROGRAM_HEADER_DONE" /\ InTable(phnum) /\ offset = HeadersEnd
      /\ UNCHANGED <<file, phnum, offset>> /\ segments' = Sorted
  BY DEF ProgramHeaderDone, At, LoaderInv, TableInv
<1>2. Position' /\ MemoryRight' /\ pc' = "process" /\ ~started'
  BY <1>1, EvalKept DEF ProgramHeaderDone, At, FinalState
<1>3. TypeInv /\ TypeInv'
  <2>1. TypeInv
    BY DEF LoaderInv
  <2>2. segments' \in [0..(MaxSegments - 1) -> Segment]
    BY <1>1, <2>1, SortedInOrder
  <2>3. index' \in Int
    BY <2>1 DEF ProgramHeaderDone, TypeInv
  <2>4. state' \in EvalState \union FinalState
    BY DEF ProgramHeaderDone, EvalState, FinalState
  <2>5. UNCHANGED <<file, phnum, dest, destEnd, mem, started>>
    BY DEF ProgramHeaderDone
  <2> QED
    BY <1>2, <2>1, <2>2, <2>3, <2>4, <2>5 DEF TypeInv
<1>4. InOrder' /\ HeaderRead'
  <2>1. InOrder'
    BY <1>1, <1>3, SortedInOrder
  <2> QED
    BY <1>1, <2>1 DEF InTable, HeaderRead
<1>5. CASE ok
  <2>1. state' = "NEXT_SEGMENT" /\ index' = -1
    BY <1>5 DEF ProgramHeaderDone
  <2>2. phnum' \in Nat
    BY <1>3 DEF TypeInv
  <2>3. index' \in -1..(phnum' - 1)
    <3>1. \A n \in Nat : -1 \in -1..(n - 1)
      OBVIOUS
    <3> QED
      BY <2>1, <2>2, <3>1
  <2>4. 0..((index' + 1) - 1) = {}
    BY <2>1
  <2>5. Chained(index + 1)' /\ Loaded(index + 1)'
    BY <2>4 DEF Chained, Loaded
  <2>6. (offset = SegmentEnd(index))'
    BY <1>1, <2>1 DEF SegmentEnd, HeadersEnd
  <2>7. SegmentInv'
    BY <1>4, <2>1, <2>3, <2>5, <2>6 DEF SegmentInv
  <2>8. ElfHeaderInv' /\ TableInv' /\ FinalInv'
    BY <1>2, <2>1 DEF ElfHeaderInv, TableInv, FinalInv
  <2> QED
    BY <1>2, <1>3, <2>7, <2>8 DEF LoaderInv
<1>6. CASE ~ok
  <2>1. state' = "ERROR_SEGMENTS"
    BY <1>6 DEF ProgramHeaderDone
  <2>2. ElfHeaderInv' /\ TableInv' /\ SegmentInv' /\ FinalInv'
    BY <1>2, <2>1 DEF ElfHeaderInv, TableInv, SegmentInv, FinalInv
  <2> QED
    BY <1>2, <1>3, <2>2 DEF LoaderInv
<1> QED
  BY <1>5, <1>6

(* A segment is what a PT_LOAD header describes. *)
LEMMA Described ==
  ASSUME TypeInv, InOrder, HeaderRead, NEW k \in 0..(phnum - 1)
  PROVE  /\ \E j \in Load : segments[k] = SegmentOf(file.headers[j])
         /\ segments[k] \in Segment
         /\ segments[k].begin <= segments[k].end
         /\ segments[k].begin..(segments[k].end - 1) \subseteq Address
<1>1. PICK h \in [0..(phnum - 1) -> 1..Len(file.headers)] :
        Describe(h, phnum, Len(file.headers))
  BY DEF InOrder
<1>2. PICK j \in 1..Len(file.headers) :
        file.headers[j].load /\ segments[k] = SegmentOf(file.headers[j])
  BY <1>1 DEF Describe
<1>3. j \in Load
  BY <1>2, FileType DEF Load
<1>4. PICK p : p = file.headers[j]
  OBVIOUS
<1>5. p \in Header /\ p.load
  BY <1>2, <1>4, FileType
<1>6. p.addr..(p.addr + p.size - 1) \subseteq Address
  <2>1. j \in DOMAIN file.headers
    BY FileType
  <2> QED
    BY <1>4, <1>5, <2>1, FileAssumption DEF TypeInv
<1>7. segments[k].begin = p.addr /\ segments[k].end = p.addr + p.size
  BY <1>2, <1>4 DEF SegmentOf
<1>8. k \in 0..(MaxSegments - 1)
  BY FileType, SMTT(30) DEF HeaderRead
<1>9. segments[k] \in Segment
  BY <1>8 DEF TypeInv
<1>10. p.addr \in Nat /\ p.size \in Nat
  BY <1>5 DEF Header
<1> QED
  BY <1>2, <1>3, <1>6, <1>7, <1>9, <1>10

LEMMA NextSegmentInv ==
  ASSUME LoaderInv, NextSegment
  PROVE  LoaderInv'
<1> USE DEF Goto, Copying
<1>1. /\ state = "NEXT_SEGMENT" /\ HeaderRead /\ InOrder
      /\ index \in -1..(phnum - 1)
      /\ Chained(index + 1) /\ Loaded(index + 1) /\ offset = SegmentEnd(index)
      /\ index' = index + 1
      /\ UNCHANGED <<file, phnum, segments, offset, mem>>
  BY DEF NextSegment, At, LoaderInv, SegmentInv
<1>2. /\ Position' /\ MemoryRight' /\ pc' = "process" /\ ~started'
      /\ offset < read /\ read' = read
  BY <1>1, EvalKept DEF NextSegment, At, FinalState
<1>3. TypeInv
  BY DEF LoaderInv
<1>4. /\ phnum \in Nat /\ index' \in 0..phnum /\ index' - 1 = index
  BY <1>1, <1>3 DEF TypeInv
<1>5. /\ HeaderRead' /\ InOrder' /\ Chained(index)' /\ Loaded(index)'
      /\ SegmentEnd(index - 1)' = offset
  <2>1. Chained(index') /\ Loaded(index') /\ offset = SegmentEnd(index' - 1)
    BY <1>1, <1>4
  <2> QED
    BY <1>1, <2>1, TableKept, MemoryKept
<1>6. CASE index' < phnum
  <2>1. /\ state' = "SEGMENT_SKIP" /\ next' = "SEGMENT_SKIP_DONE" /\ dest' = 0
        /\ destEnd' = (segments[index'].off - offset) % Word /\ copy' = "nothing"
    BY <1>6 DEF NextSegment
  <2>2. index' \in 0..(phnum' - 1)
    BY <1>1, <1>4, <1>6
  <2>3. destEnd' \in Nat
    <3>1. segments[index'].off \in Int /\ offset \in Int
      <4>1. segments[index'] \in Segment
        BY <1>1, <1>3, <2>2, Described
      <4> QED
        BY <1>3, <4>1, FileType DEF Segment, LoaderInv, Position
    <3>2. Word \in Nat /\ Word > 0
      BY <1>3, FileType
    <3>3. segments[index'].off - offset \in Int
      BY <3>1
    <3> QED
      BY <2>1, <3>2, <3>3
  <2>4. TypeInv'
    <3>1. UNCHANGED <<file, phnum, segments, mem, started>>
      BY DEF NextSegment
    <3>2. 0 \in Int /\ destEnd' \in Int /\ index' \in Int
      BY <1>4, <2>3
    <3> QED
      BY <1>2, <1>3, <2>1, <3>1, <3>2 DEF TypeInv, CopyState
  <2>5. offset \in Nat /\ offset' = offset + 0
    BY <1>1 DEF LoaderInv, Position
  <2>6. SegmentInv'
    BY <1>1, <1>5, <2>1, <2>2, <2>3, <2>5 DEF SegmentInv
  <2>7. ElfHeaderInv' /\ TableInv' /\ FinalInv'
    BY <1>2, <2>1 DEF ElfHeaderInv, TableInv, FinalInv
  <2> QED
    BY <1>2, <2>4, <2>6, <2>7 DEF LoaderInv
<1>7. CASE ~(index' < phnum)
  <2>1. /\ state' = "COPY_DONE" /\ index' = phnum'
        /\ UNCHANGED <<dest, destEnd, started>>
    BY <1>1, <1>4, <1>7 DEF NextSegment
  <2>2. TypeInv'
    BY <1>1, <1>2, <1>3, <1>4, <2>1 DEF TypeInv, FinalState
  <2>3. FinalInv'
    BY <1>1, <1>2, <1>5, <2>1 DEF FinalInv
  <2>4. ElfHeaderInv' /\ TableInv' /\ SegmentInv'
    BY <2>1 DEF ElfHeaderInv, TableInv, SegmentInv
  <2> QED
    BY <1>2, <2>2, <2>3, <2>4 DEF LoaderInv
<1> QED
  BY <1>6, <1>7

LEMMA SegmentSkipDoneInv ==
  ASSUME LoaderInv, SegmentSkipDone
  PROVE  LoaderInv'
<1> USE DEF Goto, Copying
<1>1. /\ state = "SEGMENT_SKIP_DONE" /\ HeaderRead /\ InOrder
      /\ index \in 0..(phnum - 1)
      /\ Chained(index + 1) /\ Loaded(index) /\ offset = segments[index].off
      /\ UNCHANGED <<file, phnum, segments, index, offset, mem, started>>
      /\ state' = "COPY_SEGMENT" /\ next' = "NEXT_SEGMENT" /\ copy' = "memory"
      /\ dest' = segments[index].begin /\ destEnd' = segments[index].end
  BY DEF SegmentSkipDone, At, LoaderInv, SegmentInv
<1>2. Position' /\ MemoryRight' /\ pc' = "process" /\ ~started'
  BY <1>1, EvalKept DEF SegmentSkipDone, At, FinalState
<1>3. TypeInv
  BY DEF LoaderInv
<1>4. /\ segments[index].begin \in Nat /\ segments[index].end \in Nat
      /\ segments[index].begin <= segments[index].end
  BY <1>1, <1>3, Described DEF Segment
<1>5. TypeInv'
  BY <1>1, <1>2, <1>3, <1>4 DEF TypeInv, CopyState
<1>6. /\ HeaderRead' /\ InOrder' /\ Chained(index + 1)' /\ Loaded(index)'
  BY <1>1, TableKept, MemoryKept
<1>7. LoadedTo(index, dest)'
  <2>1. segments[index].begin..(segments[index].begin - 1) = {}
    BY <1>4
  <2> QED
    BY <1>1, <2>1 DEF LoadedTo
<1>8. offset' = segments'[index'].off + (dest' - segments'[index'].begin)
  BY <1>1, <1>4 DEF LoaderInv, Position
<1>9. SegmentInv'
  BY <1>1, <1>4, <1>6, <1>7, <1>8 DEF SegmentInv
<1>10. ElfHeaderInv' /\ TableInv' /\ FinalInv'
  BY <1>1, <1>2 DEF ElfHeaderInv, TableInv, FinalInv
<1> QED
  BY <1>2, <1>5, <1>9, <1>10 DEF LoaderInv

(* What every copy does, wherever to. *)
LEMMA Copied ==
  ASSUME LoaderInv, DoCopy, dest <= destEnd
  PROVE  \E size \in Nat :
           /\ offset' = offset + size /\ dest' = dest + size
           /\ \/ state' = next /\ dest' = destEnd
              \/ state' = state /\ dest' < destEnd
           /\ UNCHANGED <<file, phnum, index, segments, next, destEnd, copy>>
           /\ copy # "memory" => mem' = mem
           /\ copy = "memory" =>
                mem' = [a \in Address |->
                           IF a \in dest..(dest' - 1) THEN offset + (a - dest)
                           ELSE mem[a]]
           /\ next \notin FinalState => Position'
           /\ pc' = "process" /\ ~started' /\ started' \in BOOLEAN
<1>1. /\ src \in Nat \ {0} /\ read \in Nat /\ offset \in Nat
      /\ dest \in Int /\ destEnd \in Int /\ offset + src = read
  <2>1. state \notin FinalState /\ src # 0
    BY DEF DoCopy, CopyState, FinalState
  <2>2. TypeInv /\ Position
    BY DEF LoaderInv
  <2>3. file.len \in Nat
    BY <2>2, FileType
  <2>4. dest \in Int /\ destEnd \in Int
    BY <2>2 DEF TypeInv
  <2> QED
    BY <2>1, <2>2, <2>3, <2>4 DEF Position
<1>2. PICK size : size = CopySize
  OBVIOUS
<1>3. /\ size \in Nat /\ size <= src /\ dest + size <= destEnd
  BY <1>1, <1>2 DEF CopySize
<1>4. /\ offset' = offset + size /\ dest' = dest + size /\ src' = src - size
      /\ UNCHANGED <<file, phnum, index, segments, next, destEnd, copy, read, pc, started>>
      /\ pc = "process" /\ state \in CopyState
      /\ IF dest + size = destEnd THEN state' = next ELSE state' = state
  BY <1>2 DEF DoCopy, Arrived, Goto
<1>5. \/ state' = next /\ dest' = destEnd
      \/ state' = state /\ dest' < destEnd
  BY <1>1, <1>3, <1>4
<1>6. next \notin FinalState => Position'
  BY <1>1, <1>3, <1>4 DEF LoaderInv, Position
<1>7. /\ copy # "memory" => mem' = mem
      /\ copy = "memory" =>
           mem' = [a \in Address |->
                      IF a \in dest..((dest + size) - 1) THEN offset + (a - dest)
                      ELSE mem[a]]
  <2>1. dest + size - 1 = (dest + size) - 1
    BY <1>1, <1>3
  <2> QED
    BY <1>2, <2>1 DEF DoCopy
<1>8. ~started' /\ started' \in BOOLEAN
  BY <1>4 DEF LoaderInv, FinalInv, TypeInv
<1> QED
  BY <1>3, <1>4, <1>5, <1>6, <1>7, <1>8

(* A copy to elsewhere than memory: what is left to show is the position. *)
LEMMA CopyHeaderInv ==
  ASSUME LoaderInv, DoCopy,
         state \in {"COPY_ELF_HEADER", "COPY_PROGRAM_HEADER", "SKIP_PROGRAM_HEADER"}
  PROVE  LoaderInv'
<1>1. TypeInv
  BY DEF LoaderInv
<1>2. /\ dest <= destEnd /\ copy # "memory"
      /\ next \in EvalState /\ dest \in Int /\ destEnd \in Int
  BY DEF LoaderInv, ElfHeaderInv, TableInv, EvalState, TypeInv
<1>3. PICK size \in Nat :
        /\ offset' = offset + size /\ dest' = dest + size
        /\ \/ state' = next /\ dest' = destEnd
           \/ state' = state /\ dest' < destEnd
        /\ UNCHANGED <<file, phnum, index, segments, next, destEnd, copy, mem>>
        /\ Position'
        /\ pc' = "process" /\ ~started' /\ started' \in BOOLEAN
  <2>1. next \notin FinalState
    BY <1>2 DEF EvalState, FinalState
  <2> QED
    BY <1>2, <2>1, Copied
<1>4. MemoryRight'
  BY <1>3, MemoryKept DEF LoaderInv
<1>5. TypeInv'
  <2>1. state' \in CopyState \union EvalState
    BY <1>2, <1>3 DEF CopyState
  <2>2. dest' \in Int
    BY <1>2, <1>3
  <2> QED
    BY <1>1, <1>3, <2>1, <2>2 DEF TypeInv
<1>6. offset \in Nat
  BY DEF LoaderInv, Position
<1>7. CASE state = "COPY_ELF_HEADER"
  <2>1. next = "EVAL_ELF_HEADER" /\ copy = "header" /\ dest = offset /\ destEnd = EhSize
    BY <1>7 DEF LoaderInv, ElfHeaderInv
  <2>2. ElfHeaderInv'
    BY <1>3, <1>7, <2>1 DEF ElfHeaderInv
  <2>3. TableInv' /\ SegmentInv' /\ FinalInv'
    BY <1>3, <1>7, <2>1 DEF TableInv, SegmentInv, FinalInv
  <2> QED
    BY <1>3, <1>4, <1>5, <2>2, <2>3 DEF LoaderInv
<1>8. CASE state = "COPY_PROGRAM_HEADER"
  <2>1. /\ InTable(index) /\ index < phnum
        /\ next = "EVAL_PROGRAM_HEADER" /\ copy = "header"
        /\ 0 <= dest /\ dest < destEnd /\ destEnd = PhSize
        /\ offset = EntryEnd(Evaluated(index)) + dest
    BY <1>8 DEF LoaderInv, TableInv
  <2>2. InTable(index)' /\ EntryEnd(Evaluated(index))' = EntryEnd(Evaluated(index))
    BY <1>3, <2>1, TableKept
  <2>3. EntryEnd(Evaluated(index)) \in Nat
    <3>1. Evaluated(index) \in Nat
      BY <1>1, <2>1, FileType DEF InTable, HeaderRead, Evaluated
    <3> QED
      BY <1>1, <3>1, Entries
  <2>4. offset' = EntryEnd(Evaluated(index))' + dest' /\ 0 <= dest'
    BY <1>2, <1>3, <2>1, <2>2, <2>3
  <2>5. TableInv'
    BY <1>3, <1>8, <2>1, <2>2, <2>4 DEF TableInv
  <2>6. ElfHeaderInv' /\ SegmentInv' /\ FinalInv'
    BY <1>3, <1>8, <2>1 DEF ElfHeaderInv, SegmentInv, FinalInv
  <2> QED
    BY <1>3, <1>4, <1>5, <2>5, <2>6 DEF LoaderInv
<1>9. CASE state = "SKIP_PROGRAM_HEADER"
  <2>1. /\ InTable(index + 1)
        /\ next = "NEXT_PROGRAM_HEADER" /\ copy = "nothing"
        /\ 0 <= dest /\ dest <= destEnd /\ destEnd = Extra
        /\ offset = EntryEnd(Evaluated(index + 1)) - (destEnd - dest)
    BY <1>9 DEF LoaderInv, TableInv
  <2>2. /\ InTable(index + 1)' /\ Extra' = Extra
        /\ EntryEnd(Evaluated(index + 1))' = EntryEnd(Evaluated(index + 1))
    BY <1>3, <2>1, TableKept
  <2>3. EntryEnd(Evaluated(index + 1)) \in Nat
    <3>1. Evaluated(index + 1) \in Nat
      BY <1>1, <2>1, FileType, SMTT(30) DEF InTable, HeaderRead, Evaluated
    <3> QED
      BY <1>1, <3>1, Entries
  <2>4. /\ offset' = EntryEnd(Evaluated(index + 1))' - (destEnd' - dest')
        /\ 0 <= dest'
    BY <1>2, <1>3, <2>1, <2>2, <2>3
  <2>5. dest' = destEnd' => offset' = EntryEnd(Evaluated(index + 1))'
    BY <1>2, <1>3, <2>2, <2>3, <2>4
  <2>6. TableInv'
    BY <1>2, <1>3, <1>9, <2>1, <2>2, <2>4, <2>5 DEF TableInv
  <2>7. ElfHeaderInv' /\ SegmentInv' /\ FinalInv'
    BY <1>3, <1>9, <2>1 DEF ElfHeaderInv, SegmentInv, FinalInv
  <2> QED
    BY <1>3, <1>4, <1>5, <2>6, <2>7 DEF LoaderInv
<1> QED
  BY <1>7, <1>8, <1>9

LEMMA SegmentEnds ==
  ASSUME TypeInv, InOrder, HeaderRead, NEW k \in -1..(phnum - 1)
  PROVE  /\ SegmentEnd(k) \in Nat
         /\ k # -1 => SegmentEnd(k) >= segments[k].off
<1>1. phnum \in Nat
  BY DEF TypeInv
<1>2. CASE k = -1
  <2>1. HeadersEnd \in Nat
    BY Entries, FileType
  <2> QED
    BY <1>2, <2>1 DEF SegmentEnd
<1>3. CASE k # -1
  <2>1. k \in 0..(phnum - 1)
    BY <1>1, <1>3
  <2>2. /\ segments[k].off \in Nat /\ segments[k].begin \in Nat
        /\ segments[k].end \in Nat /\ segments[k].begin <= segments[k].end
    BY <2>1, Described, FileType, SMTT(30) DEF Segment
  <2> QED
    BY <1>3, <2>2 DEF SegmentEnd
<1> QED
  BY <1>2, <1>3

(* A skip modulo Word that ends below Word went forward. *)
LEMMA SkipForward ==
  ASSUME NEW w \in Nat, NEW gap \in Nat, NEW off \in 0..(w - 1),
         gap < w, gap + ((off - gap) % w) < w
  PROVE  gap <= off /\ gap + ((off - gap) % w) = off
<1>1. CASE gap <= off
  <2>1. off - gap \in 0..(w - 1)
    BY <1>1
  <2>2. (off - gap) % w = off - gap
    BY <2>1
  <2> QED
    BY <1>1, <2>2
<1>2. CASE gap > off
  <2>1. off - gap + w \in 0..(w - 1) /\ off - gap = (-1) * w + (off - gap + w)
    BY <1>2
  <2>2. (off - gap) % w = off - gap + w
    BY <1>2, <2>1
  <2> QED
    BY <1>2, <2>2
<1> QED
  BY <1>1, <1>2

(***************************************************************************)
(* To skip up to a segment that lies behind is to skip almost Word bytes,  *)
(* which no file has.  So the skip ends at the begin of its segment.       *)
(***************************************************************************)
LEMMA CopySkipInv ==
  ASSUME LoaderInv, DoCopy, state = "SEGMENT_SKIP"
  PROVE  LoaderInv'
<1>1. /\ HeaderRead /\ InOrder
      /\ index \in 0..(phnum - 1)
      /\ Chained(index) /\ Loaded(index)
      /\ next = "SEGMENT_SKIP_DONE" /\ copy = "nothing"
      /\ 0 <= dest /\ dest <= destEnd
      /\ destEnd = (segments[index].off - SegmentEnd(index - 1)) % Word
      /\ offset = SegmentEnd(index - 1) + dest
  BY DEF LoaderInv, SegmentInv
<1>2. TypeInv
  BY DEF LoaderInv
<1>3. PICK size \in Nat :
        /\ offset' = offset + size /\ dest' = dest + size
        /\ \/ state' = next /\ dest' = destEnd
           \/ state' = state /\ dest' < destEnd
        /\ UNCHANGED <<file, phnum, index, segments, next, destEnd, copy, mem>>
        /\ Position'
        /\ pc' = "process" /\ ~started' /\ started' \in BOOLEAN
  BY <1>1, Copied DEF FinalState
<1>4. MemoryRight'
  BY <1>3, MemoryKept DEF LoaderInv
<1>5. dest \in Int /\ destEnd \in Int
  BY <1>2 DEF TypeInv
<1>6. TypeInv'
  <2>1. state' \in CopyState \union EvalState
    BY <1>1, <1>3 DEF CopyState, EvalState
  <2>2. dest' \in Int
    BY <1>3, <1>5
  <2> QED
    BY <1>2, <1>3, <2>1, <2>2 DEF TypeInv
<1>7. /\ HeaderRead' /\ InOrder' /\ Chained(index)' /\ Loaded(index)'
      /\ SegmentEnd(index - 1)' = SegmentEnd(index - 1)
  BY <1>1, <1>3, TableKept, MemoryKept
<1>8. PICK gap, off : gap = SegmentEnd(index - 1) /\ off = segments[index].off
  OBVIOUS
<1>9. offset \in Nat /\ offset' \in Nat
  BY <1>3 DEF LoaderInv, Position
<1>10. gap \in Nat
  <2>1. index - 1 \in -1..(phnum - 1)
    BY <1>1, <1>2 DEF TypeInv
  <2> QED
    BY <1>1, <1>2, <1>8, <2>1, SegmentEnds
<1>11. gap + dest = offset /\ gap + dest' = offset'
  BY <1>1, <1>3, <1>5, <1>8, <1>9, <1>10
<1>12. Word \in Nat \ {0} /\ off \in 0..(Word - 1)
  <2>1. segments[index] \in Segment
    BY <1>1, <1>2, Described
  <2>2. file.len \in 0..(Word - 1) /\ Word \in Nat
    BY <1>2, FileType
  <2> QED
    BY <1>8, <2>1, <2>2 DEF Segment
<1>13. CASE state' = state /\ dest' < destEnd
  <2>1. SegmentInv'
    <3>1. 0 <= dest'
      BY <1>1, <1>3, <1>5
    <3>2. (offset = SegmentEnd(index - 1) + dest)'
      BY <1>7, <1>8, <1>11
    <3>3. (destEnd = (segments[index].off - SegmentEnd(index - 1)) % Word)'
      BY <1>1, <1>3, <1>7
    <3>4. (dest <= destEnd)'
      BY <1>3, <1>5, <1>13
    <3> QED
      BY <1>1, <1>3, <1>7, <1>13, <3>1, <3>2, <3>3, <3>4 DEF SegmentInv
  <2>2. ElfHeaderInv' /\ TableInv' /\ FinalInv'
    BY <1>3, <1>13 DEF ElfHeaderInv, TableInv, FinalInv
  <2> QED
    BY <1>3, <1>4, <1>6, <2>1, <2>2 DEF LoaderInv
<1>14. CASE state' = next /\ dest' = destEnd
  <2>1. offset' < Word
    <3>0. offset' + src' <= read' /\ src' \in Nat
      BY <1>3 DEF Position
    <3>1. read' \in 0..file'.len
      BY <1>3 DEF Position
    <3>2. PICK l : l = file'.len
      OBVIOUS
    <3>3. l \in 0..(Word - 1)
      BY <1>2, <1>3, <3>2, FileType
    <3>4. read' \in 0..l
      BY <3>1, <3>2
    <3>5. read' \in Nat /\ read' < Word
      BY <1>12, <3>3, <3>4
    <3>6. offset' <= read'
      <4>1. \A a, b, c \in Nat : a + b <= c => a <= c
        OBVIOUS
      <4>2. offset' \in Nat
        BY <1>9
      <4> QED
        BY <3>0, <3>5, <4>1, <4>2
    <3> QED
      BY <1>9, <1>12, <3>5, <3>6
  <2>2. gap < Word
    BY <1>1, <1>3, <1>5, <1>9, <1>10, <1>11, <1>12, <2>1
  <2>3. gap + ((off - gap) % Word) = offset'
    BY <1>1, <1>3, <1>8, <1>11, <1>14
  <2>4. gap <= off /\ offset' = off
    BY <1>10, <1>12, <2>1, <2>2, <2>3, SkipForward
  <2>5. Chained(index + 1)'
    <3>1. \A i \in 0..index : i = index \/ i \in 0..(index - 1)
      BY <1>1, <1>2 DEF TypeInv
    <3>2. \A i \in 0..index : SegmentEnd(i - 1) <= segments[i].off
      BY <1>1, <1>8, <2>4, <3>1 DEF Chained
    <3>3. Chained(index + 1)
      BY <1>1, <3>2 DEF Chained
    <3> QED
      BY <1>3, <3>3, TableKept
  <2>6. SegmentInv'
    BY <1>1, <1>3, <1>7, <1>8, <1>14, <2>4, <2>5 DEF SegmentInv
  <2>7. ElfHeaderInv' /\ TableInv' /\ FinalInv'
    BY <1>1, <1>3, <1>14 DEF ElfHeaderInv, TableInv, FinalInv
  <2> QED
    BY <1>3, <1>4, <1>6, <2>6, <2>7 DEF LoaderInv
<1> QED
  BY <1>3, <1>13, <1>14

(* The bytes of a segment go to their places, and nothing else is written. *)
LEMMA CopySegmentInv ==
  ASSUME LoaderInv, DoCopy, state = "COPY_SEGMENT"
  PROVE  LoaderInv'
<1>1. /\ HeaderRead /\ InOrder
      /\ index \in 0..(phnum - 1)
      /\ Chained(index + 1) /\ Loaded(index) /\ LoadedTo(index, dest)
      /\ next = "NEXT_SEGMENT" /\ copy = "memory"
      /\ segments[index].begin <= dest /\ dest <= destEnd
      /\ destEnd = segments[index].end
      /\ offset = segments[index].off + (dest - segments[index].begin)
  BY DEF LoaderInv, SegmentInv
<1>2. TypeInv
  BY DEF LoaderInv
<1>3. PICK size \in Nat :
        /\ offset' = offset + size /\ dest' = dest + size
        /\ \/ state' = next /\ dest' = destEnd
           \/ state' = state /\ dest' < destEnd
        /\ UNCHANGED <<file, phnum, index, segments, next, destEnd, copy>>
        /\ mem' = [a \in Address |->
                      IF a \in dest..(dest' - 1) THEN offset + (a - dest) ELSE mem[a]]
        /\ Position'
        /\ pc' = "process" /\ ~started' /\ started' \in BOOLEAN
  BY <1>1, Copied DEF FinalState
<1>4. PICK seg, i : seg = segments[index] /\ i = index
  OBVIOUS
<1>5. /\ seg.off \in Nat /\ seg.begin \in Nat /\ seg.end \in Nat
      /\ dest \in Int /\ destEnd \in Int /\ offset \in Nat
      /\ seg.begin..(seg.end - 1) \subseteq Address
  <2>1. seg.off \in Nat /\ seg.begin \in Nat /\ seg.end \in Nat
    BY <1>1, <1>2, <1>4, Described, FileType, SMTT(30) DEF Segment
  <2>2. seg.begin..(seg.end - 1) \subseteq Address
    BY <1>1, <1>2, <1>4, Described
  <2>3. dest \in Int /\ destEnd \in Int /\ offset \in Nat
    BY DEF TypeInv, LoaderInv, Position
  <2> QED
    BY <2>1, <2>2, <2>3
<1>6. \A a \in Address : /\ mem'[a] \in Int
                         /\ mem[a] # -1 => mem'[a] # -1
                         /\ mem'[a] # mem[a] =>
                              /\ a \in dest..(dest' - 1)
                              /\ mem'[a] = seg.off + (a - seg.begin)
  <2> TAKE a \in Address
  <2>1. CASE a \in dest..(dest' - 1)
    <3>1. mem'[a] = offset + (a - dest)
      BY <1>3, <2>1
    <3>2. a \in Int /\ a >= dest
      BY <1>3, <1>5, <2>1
    <3>3. mem'[a] = seg.off + (a - seg.begin) /\ mem'[a] \in Nat
      BY <1>1, <1>4, <1>5, <3>1, <3>2
    <3> QED
      BY <2>1, <3>3
  <2>2. CASE a \notin dest..(dest' - 1)
    BY <1>2, <1>3, <2>2 DEF TypeInv
  <2> QED
    BY <2>1, <2>2
<1>7. TypeInv'
  <2>1. mem' \in [Address -> Int]
    BY <1>3, <1>6
  <2>2. state' \in CopyState \union EvalState
    BY <1>1, <1>3 DEF CopyState, EvalState
  <2>3. dest' \in Int
    BY <1>3, <1>5
  <2> QED
    BY <1>2, <1>3, <2>1, <2>2, <2>3 DEF TypeInv
<1>8. MemoryRight'
  <2> SUFFICES ASSUME NEW a \in Address, mem'[a] # -1
               PROVE  \E k \in Load :
                        /\ a \in file.headers[k].addr..(file.headers[k].addr
                                                          + file.headers[k].size - 1)
                        /\ mem'[a] = file.headers[k].off + (a - file.headers[k].addr)
    BY <1>3 DEF MemoryRight, Load
  <2>1. CASE mem'[a] = mem[a]
    BY <2>1 DEF LoaderInv, MemoryRight
  <2>2. CASE mem'[a] # mem[a]
    <3>1. a \in dest..(dest' - 1) /\ mem'[a] = seg.off + (a - seg.begin)
      BY <1>6, <2>2
    <3>2. PICK k \in Load : seg = SegmentOf(file.headers[k])
      BY <1>1, <1>2, <1>4, Described
    <3>3. PICK p : p = file.headers[k]
      OBVIOUS
    <3>4. seg.off = p.off /\ seg.begin = p.addr /\ seg.end = p.addr + p.size
      BY <3>2, <3>3 DEF SegmentOf
    <3>5. p \in Header
      BY <1>2, <3>3, FileType DEF Load
    <3>6. p.addr \in Nat /\ p.size \in Nat
      BY <3>5 DEF Header
    <3>7. a \in p.addr..(p.addr + p.size - 1)
      BY <1>1, <1>3, <1>4, <1>5, <3>1, <3>4, <3>6
    <3> QED
      BY <3>1, <3>3, <3>4, <3>7
  <2> QED
    BY <2>1, <2>2
<1>9. Loaded(index)' /\ LoadedTo(index, dest)'
  <2>1. ASSUME NEW j \in 0..(index - 1) PROVE LoadedTo(j, segments[j].end)'
    <3>1. j \in 0..(phnum - 1)
      BY <1>1, <1>2 DEF TypeInv
    <3>2. segments[j].begin..(segments[j].end - 1) \subseteq Address
      BY <1>1, <1>2, <3>1, Described
    <3>3. LoadedTo(j, segments[j].end)
      BY <1>1 DEF Loaded
    <3> QED
      BY <1>3, <1>6, <3>2, <3>3 DEF LoadedTo
  <2>2. ASSUME NEW a \in seg.begin..(dest' - 1) PROVE mem'[a] # -1
    <3>1. a \in Address
      BY <1>1, <1>3, <1>4, <1>5
    <3>2. CASE a \in dest..(dest' - 1)
      <4>1. mem'[a] = offset + (a - dest) /\ a - dest \in Nat
        BY <1>3, <1>5, <3>1, <3>2
      <4> QED
        BY <1>5, <4>1
    <3>3. CASE a \in seg.begin..(dest - 1)
      BY <1>1, <1>4, <1>6, <3>1, <3>3 DEF LoadedTo
    <3> QED
      BY <1>3, <1>5, <3>2, <3>3
  <2>3. Loaded(index)'
    BY <1>3, <2>1 DEF Loaded
  <2>4. LoadedTo(index, dest)'
    BY <1>3, <1>4, <2>2 DEF LoadedTo
  <2> QED
    BY <2>3, <2>4
<1>10. /\ HeaderRead' /\ InOrder' /\ Chained(index + 1)'
       /\ SegmentEnd(index)' = SegmentEnd(index)
  BY <1>1, <1>3, TableKept
<1>11. /\ offset' = seg.off + (dest' - seg.begin)
       /\ seg.begin <= dest'
  BY <1>1, <1>3, <1>4, <1>5
<1>12. CASE state' = state /\ dest' < destEnd
  <2>1. SegmentInv'
    BY <1>1, <1>3, <1>4, <1>5, <1>9, <1>10, <1>11, <1>12 DEF SegmentInv
  <2>2. ElfHeaderInv' /\ TableInv' /\ FinalInv'
    BY <1>3, <1>12 DEF ElfHeaderInv, TableInv, FinalInv
  <2> QED
    BY <1>3, <1>7, <1>8, <2>1, <2>2 DEF LoaderInv
<1>13. CASE state' = next /\ dest' = destEnd
  <2>1. Loaded(index + 1)'
    <3>1. \A j \in 0..index' : j = index' \/ j \in 0..(index' - 1)
      BY <1>1, <1>2, <1>3 DEF TypeInv
    <3>2. \A j \in 0..index' : LoadedTo(j, segments[j].end)'
      BY <1>1, <1>3, <1>9, <1>13, <3>1 DEF Loaded
    <3>3. 0..((index' + 1) - 1) = 0..index'
      BY <1>1, <1>3
    <3> QED
      BY <3>2, <3>3 DEF Loaded
  <2>2. offset' = SegmentEnd(index)'
    <3>1. index # -1
      BY <1>1, <1>2 DEF TypeInv
    <3> QED
      BY <1>1, <1>4, <1>10, <1>11, <1>13, <3>1 DEF SegmentEnd
  <2>3. (index \in -1..(phnum - 1))'
    BY <1>1, <1>2, <1>3 DEF TypeInv
  <2>4. SegmentInv'
    BY <1>1, <1>10, <1>13, <2>1, <2>2, <2>3 DEF SegmentInv
  <2>5. ElfHeaderInv' /\ TableInv' /\ FinalInv'
    BY <1>1, <1>3, <1>13 DEF ElfHeaderInv, TableInv, FinalInv
  <2> QED
    BY <1>3, <1>7, <1>8, <2>4, <2>5 DEF LoaderInv
<1> QED
  BY <1>3, <1>12, <1>13

LEMMA NextInv == LoaderInv /\ [Next]_vars => LoaderInv'
<1> SUFFICES ASSUME LoaderInv, [Next]_vars PROVE LoaderInv'
  OBVIOUS
<1>1. ASSUME NEW n \in Piece, Read(n) PROVE LoaderInv'
  BY <1>1, ReadInv
<1>2. CASE DoCopy
  BY <1>2, CopyHeaderInv, CopySkipInv, CopySegmentInv DEF DoCopy, CopyState
<1>3. CASE EvalElfHeader
  BY <1>3, EvalElfHeaderInv
<1>4. CASE NextProgramHeader
  BY <1>4, NextProgramHeaderInv
<1>5. CASE EvalProgramHeader
  BY <1>5, EvalProgramHeaderInv
<1>6. ASSUME NEW ok \in BOOLEAN, ProgramHeaderDone(ok) PROVE LoaderInv'
  BY <1>6, ProgramHeaderDoneInv
<1>7. CASE NextSegment
  BY <1>7, NextSegmentInv
<1>8. CASE SegmentSkipDone
  BY <1>8, SegmentSkipDoneInv
<1>9. CASE Ignore
  BY <1>9, IgnoreInv
<1>10. CASE Return
  BY <1>10, ReturnInv
<1>11. CASE Final
  BY <1>11, FinalStepInv
<1>12. CASE UNCHANGED vars
  <2>1. /\ UNCHANGED <<file, loader, offset, mem>>
        /\ UNCHANGED <<read, pc, src, started, state, phnum, segments>>
    BY <1>12 DEF vars, loader
  <2>2. ElfHeaderInv' /\ TableInv' /\ SegmentInv' /\ MemoryRight'
    BY <2>1, LoaderKept DEF LoaderInv
  <2>3. TypeInv' /\ Position'
    BY <1>12 DEF vars, loader, LoaderInv, TypeInv, Position
  <2>4. FinalInv'
    BY <2>1, TableKept, MemoryKept DEF LoaderInv, FinalInv
  <2> QED
    BY <2>2, <2>3, <2>4 DEF LoaderInv
<1> QED
  BY <1>1, <1>2, <1>3, <1>4, <1>5, <1>6, <1>7, <1>8, <1>9, <1>10, <1>11, <1>12
     DEF Next, Process

(***************************************************************************)
(* In every state of the loader file_offset is where segment_index and the *)
(* copy under way say, whatever the pieces were.                           *)
(***************************************************************************)
THEOREM LoaderAlways == Spec => []LoaderInv
  BY InitInv, NextInv, PTL DEF Spec

(***************************************************************************)
(* Memory holds nothing but bytes of the segments at their addresses: for  *)
(* every file, well formed or not, and for every size of the pieces.       *)
(***************************************************************************)
THEOREM MemoryAlwaysRight == Spec => []MemoryRight
<1>1. LoaderInv => MemoryRight
  BY DEF LoaderInv
<1> QED
  BY <1>1, LoaderAlways, PTL

LEMMA LeastIndex ==
  ASSUME NEW T \in SUBSET Nat, T # {}
  PROVE  \E n \in T : \A m \in T : n <= m
<1>1. PICK n \in T : \A m \in T : <<m, n>> \notin OpToRel(<, Nat)
  BY NatLessThanWellFounded, WFMin
<1>2. \A m \in T : ~(m < n)
  BY <1>1 DEF OpToRel
<1> QED
  BY <1>2

(* Segments that lie behind their predecessors lie behind all before them. *)
LEMMA ChainedAll ==
  ASSUME TypeInv, InOrder, HeaderRead, Chained(phnum)
  PROVE  \A i \in 0..(phnum - 1) : \A j \in -1..(i - 1) :
           SegmentEnd(j) <= segments[i].off
<1>1. phnum \in Nat
  BY DEF TypeInv
<1> DEFINE T == {i \in 0..(phnum - 1) :
                   \E j \in -1..(i - 1) : ~(SegmentEnd(j) <= segments[i].off)}
<1>2. SUFFICES ASSUME T # {} PROVE FALSE
  OBVIOUS
<1>3. T \in SUBSET Nat
  BY <1>1
<1>4. PICK i \in T : \A m \in T : i <= m
  BY <1>2, <1>3, LeastIndex
<1>5. PICK j \in -1..(i - 1) : ~(SegmentEnd(j) <= segments[i].off)
  BY <1>4
<1>6. i \in 0..(phnum - 1) /\ i \in Nat
  BY <1>3, <1>4
<1>7. SegmentEnd(i - 1) <= segments[i].off
  BY <1>6 DEF Chained
<1>8. j # i - 1 /\ j <= i - 2 /\ i - 1 \in 0..(phnum - 1) /\ i - 1 # -1 /\ j \in Int
  BY <1>1, <1>5, <1>6, <1>7
<1>9. SegmentEnd(j) <= segments[i - 1].off
  <2>1. i - 1 \notin T
    BY <1>4, <1>6
  <2>2. j \in -1..((i - 1) - 1)
    BY <1>5, <1>6, <1>8
  <2> QED
    BY <1>8, <2>1, <2>2
<1>10. /\ SegmentEnd(j) \in Nat /\ SegmentEnd(i - 1) \in Nat
       /\ segments[i].off \in Nat /\ segments[i - 1].off \in Nat
       /\ segments[i - 1].off <= SegmentEnd(i - 1)
  <2>1. j \in -1..(phnum - 1) /\ i - 1 \in -1..(phnum - 1)
    BY <1>1, <1>5, <1>6, <1>8
  <2>2. SegmentEnd(j) \in Nat /\ SegmentEnd(i - 1) \in Nat
    BY <2>1, SegmentEnds
  <2>3. segments[i - 1].off <= SegmentEnd(i - 1)
    BY <1>8, <2>1, SegmentEnds
  <2>4. segments[i] \in Segment /\ segments[i - 1] \in Segment
    BY <1>6, <1>8, Described
  <2> QED
    BY <2>2, <2>3, <2>4, FileType, SMTT(30) DEF Segment
<1> QED
  BY <1>5, <1>7, <1>9, <1>10

LEMMA LoadType ==
  ASSUME TypeInv
  PROVE  \A k \in Load : /\ k \in 1..Len(file.headers) /\ k \in Nat
                         /\ file.headers[k].off \in Nat
                         /\ file.headers[k].size \in Nat
<1> SUFFICES ASSUME NEW k \in Load
             PROVE  /\ k \in 1..Len(file.headers) /\ k \in Nat
                    /\ file.headers[k].off \in Nat
                    /\ file.headers[k].size \in Nat
  OBVIOUS
<1>1. k \in 1..Len(file.headers)
  BY FileType DEF Load
<1>2. file.headers[k] \in Header
  BY <1>1, FileType
<1>3. \A p \in Header : p.off \in 0..(Word - 1) /\ p.size \in Nat
  BY DEF Header
<1>4. 0..(Word - 1) \subseteq Nat
  BY FileType
<1> QED
  BY <1>1, <1>2, <1>3, <1>4, FileType

(* The segments are all PT_LOAD headers. *)
LEMMA Complete ==
  ASSUME TypeInv, InOrder, HeaderRead
  PROVE  \E h \in [0..(phnum - 1) -> Load] :
           /\ \A i \in 0..(phnum - 1) : LET p == file.headers[h[i]]
                                        IN  /\ p.off = segments[i].off
                                            /\ p.addr = segments[i].begin
                                            /\ p.off + p.size = SegmentEnd(i)
                                            /\ p.addr + p.size = segments[i].end
           /\ \A k \in Load : \E i \in 0..(phnum - 1) : h[i] = k
           /\ \A i, j \in 0..(phnum - 1) : i < j => Follows(h[i], h[j])
<1>1. PICK h \in [0..(phnum - 1) -> 1..Len(file.headers)] :
        /\ Describe(h, phnum, Len(file.headers))
        /\ \A i, j \in 0..(phnum - 1) : i < j => Follows(h[i], h[j])
  BY DEF InOrder
<1>2. Load = {k \in 1..Len(file.headers) : file.headers[k].load}
  BY FileType DEF Load
<1>3. h \in [0..(phnum - 1) -> Load]
  BY <1>1, <1>2 DEF Describe
<1>4. \A k \in Load : \E i \in 0..(phnum - 1) : h[i] = k
  BY <1>1, <1>2 DEF Describe
<1>5. ASSUME NEW i \in 0..(phnum - 1), NEW p, p = file.headers[h[i]]
      PROVE  /\ p.off = segments[i].off
             /\ p.addr = segments[i].begin
             /\ p.off + p.size = SegmentEnd(i)
             /\ p.addr + p.size = segments[i].end
  <2>1. segments[i] = SegmentOf(p)
    BY <1>1, <1>5 DEF Describe
  <2>2. p \in Header
    BY <1>1, <1>5, FileType
  <2>3. p.addr \in Nat /\ p.size \in Nat /\ i # -1
    BY <2>2 DEF Header, TypeInv
  <2>4. /\ segments[i].off = p.off /\ segments[i].begin = p.addr
        /\ segments[i].end = p.addr + p.size
    BY <2>1 DEF SegmentOf
  <2> QED
    BY <2>3, <2>4 DEF SegmentEnd
<1> QED
  BY <1>1, <1>3, <1>4, <1>5

(* A loader that is done has come over a loadable file to its end. *)
LEMMA DoneIsLong ==
  ASSUME LoaderInv, state = "COPY_DONE"
  PROVE  Loadable /\ Long
<1>1. /\ TypeInv /\ HeaderRead /\ InOrder /\ Chained(phnum)
      /\ offset = SegmentEnd(phnum - 1) /\ offset < read
  BY DEF LoaderInv, FinalInv
<1>2. /\ phnum \in Nat /\ offset \in Nat /\ read \in Nat /\ file.len \in Nat
      /\ read <= file.len
  <2>1. Position /\ file.len \in Nat
    BY <1>1, FileType DEF LoaderInv
  <2> QED
    BY <1>1, <2>1 DEF TypeInv, Position
<1>3. PICK h \in [0..(phnum - 1) -> Load] :
        /\ \A i \in 0..(phnum - 1) : LET p == file.headers[h[i]]
                                     IN  /\ p.off = segments[i].off
                                         /\ p.off + p.size = SegmentEnd(i)
        /\ \A k \in Load : \E i \in 0..(phnum - 1) : h[i] = k
        /\ \A i, j \in 0..(phnum - 1) : i < j => Follows(h[i], h[j])
  BY <1>1, Complete
<1>4. \A i \in 0..(phnum - 1) : \A j \in -1..(i - 1) :
        SegmentEnd(j) <= segments[i].off
  BY <1>1, ChainedAll
<1>5. \A k \in Load : /\ file.headers[k].off \in Nat
                      /\ file.headers[k].size \in Nat
                      /\ k \in Nat
  BY <1>1, LoadType
<1>6. SegmentEnd(-1) = HeadersEnd /\ HeadersEnd \in Nat
  <2>1. -1 \in -1..(phnum - 1)
    BY <1>2
  <2> QED
    BY <1>1, <2>1, SegmentEnds DEF SegmentEnd
<1>7. ASSUME NEW k \in Load
      PROVE  /\ file.headers[k].off >= HeadersEnd
             /\ file.headers[k].off + file.headers[k].size <= offset
  <2>1. PICK i \in 0..(phnum - 1) : h[i] = k
    BY <1>3
  <2>2. file.headers[k].off = segments[i].off
    BY <1>3, <2>1
  <2>3. file.headers[k].off + file.headers[k].size = SegmentEnd(i)
    BY <1>3, <2>1
  <2>4. -1 \in -1..(i - 1)
    BY <1>2
  <2>5. HeadersEnd <= segments[i].off
    BY <1>4, <1>6, <2>4
  <2>6. SegmentEnd(i) <= offset
    <3>1. CASE i = phnum - 1
      BY <1>1, <1>5, <2>3, <3>1, <1>2
    <3>2. CASE i # phnum - 1
      <4>1. i \in -1..((phnum - 1) - 1) /\ phnum - 1 \in 0..(phnum - 1)
        BY <1>2, <3>2
      <4>2. SegmentEnd(i) <= segments[phnum - 1].off
        BY <1>4, <4>1
      <4>3. /\ segments[phnum - 1].off <= SegmentEnd(phnum - 1)
            /\ segments[phnum - 1].off \in Nat
        <5>1. phnum - 1 \in -1..(phnum - 1) /\ phnum - 1 # -1
          BY <1>2, <4>1
        <5>2. segments[phnum - 1] \in Segment
          BY <1>1, <4>1, Described
        <5> QED
          BY <1>1, <5>1, <5>2, SegmentEnds, FileType, SMTT(30) DEF Segment
      <4>4. SegmentEnd(i) \in Nat
        BY <1>5, <2>3
      <4> QED
        BY <1>1, <1>2, <4>2, <4>3, <4>4
    <3> QED
      BY <3>1, <3>2
  <2>7. HeadersEnd <= file.headers[k].off
    BY <2>2, <2>5
  <2> QED
    BY <1>5, <1>6, <2>3, <2>6, <2>7
<1>8. ASSUME NEW k \in Load, NEW j \in Load, Follows(k, j)
      PROVE  file.headers[k].off + file.headers[k].size <= file.headers[j].off
  <2>1. PICK a \in 0..(phnum - 1), b \in 0..(phnum - 1) : h[a] = k /\ h[b] = j
    BY <1>3
  <2>2. ~Follows(j, k) /\ ~Follows(k, k)
    BY <1>5, <1>8 DEF Follows
  <2>3. ~(b < a) /\ a # b
    BY <1>3, <1>8, <2>1, <2>2
  <2>4. a \in -1..(b - 1)
    BY <1>2, <2>3
  <2>5. SegmentEnd(a) <= segments[b].off
    BY <1>4, <2>4
  <2>6. file.headers[k].off + file.headers[k].size = SegmentEnd(a)
    BY <1>3, <2>1
  <2>7. file.headers[j].off = segments[b].off
    BY <1>3, <2>1
  <2> QED
    BY <2>5, <2>6, <2>7
<1>9. HeadersEnd <= offset
  <2>1. CASE phnum = 0
    BY <1>1, <1>6, <2>1, <1>2
  <2>2. CASE phnum # 0
    <3>1. 0 \in 0..(phnum - 1)
      BY <1>2, <2>2
    <3>2. h[0] \in Load
      BY <1>3, <3>1
    <3>3. /\ file.headers[h[0]].off >= HeadersEnd
          /\ file.headers[h[0]].off + file.headers[h[0]].size <= offset
      BY <1>7, <3>2
    <3> QED
      BY <1>2, <1>5, <1>6, <3>2, <3>3, SMTT(30)
  <2> QED
    BY <2>1, <2>2
<1>10. Loadable
  BY <1>1, <1>7, <1>8 DEF Loadable, HeaderRead
<1>11. Long
  <2>1. file.len > HeadersEnd
    BY <1>1, <1>2, <1>6, <1>9
  <2>2. ASSUME NEW k \in Load
        PROVE  file.len > file.headers[k].off + file.headers[k].size
    <3>1. file.headers[k].off + file.headers[k].size \in Nat
      BY <1>5
    <3>2. file.headers[k].off + file.headers[k].size <= offset
      BY <1>7
    <3> QED
      BY <1>1, <1>2, <3>1, <3>2
  <2> QED
    BY <2>1, <2>2 DEF Long
<1> QED
  BY <1>10, <1>11

(* Within the headers of a long file, the loader is not at its end. *)
LEMMA HeadersLeft ==
  ASSUME LoaderInv, Long,
         state \in {"COPY_ELF_HEADER", "EVAL_ELF_HEADER", "NEXT_PROGRAM_HEADER",
                    "COPY_PROGRAM_HEADER", "EVAL_PROGRAM_HEADER",
                    "SKIP_PROGRAM_HEADER", "PROGRAM_HEADER_DONE"}
  PROVE  offset < file.len
<1> DEFINE N == Len(file.headers)
<1>1. TypeInv /\ offset \in Nat /\ file.len \in Nat
  BY FileType DEF LoaderInv, Position
<1>2. /\ HeadersEnd \in Nat /\ HeadersEnd >= EhSize /\ EhSize \in Nat
      /\ HeadersEnd = EntryEnd(N) /\ N \in Nat
      /\ file.entsize \in Nat /\ PhSize \in Nat
  BY <1>1, Entries, FileType
<1>3. SUFFICES offset <= HeadersEnd
  BY <1>1, <1>2 DEF Long
<1> HIDE DEF N
<1>4. ASSUME NEW n, InTable(n)
      PROVE  /\ Evaluated(n) \in Nat /\ EntryEnd(Evaluated(n)) \in Nat
             /\ EntryEnd(Evaluated(n)) <= HeadersEnd
             /\ n < phnum => EntryEnd(Evaluated(n)) + file.entsize <= HeadersEnd
             /\ file.entsize >= PhSize
  <2>1. /\ n \in 0..phnum /\ phnum \in 0..N /\ file.entsize >= PhSize
        /\ Evaluated(n) = n + (N - phnum)
    BY <1>4 DEF InTable, HeaderRead, Evaluated, N
  <2>2. PICK e : e = Evaluated(n)
    OBVIOUS
  <2>3. e \in Nat /\ e <= N /\ (n < phnum => e # N)
    BY <1>2, <2>1, <2>2
  <2>4. EntryEnd(e) \in Nat
    BY <1>1, <2>3, Entries
  <2>5. EntryEnd(e) <= EntryEnd(N) /\ (e # N => EntryEnd(e) + file.entsize <= EntryEnd(N))
    BY <1>1, <1>2, <2>3, EntriesGrow
  <2> QED
    BY <1>2, <2>1, <2>2, <2>3, <2>4, <2>5
<1>5. CASE state \in {"COPY_ELF_HEADER", "EVAL_ELF_HEADER"}
  BY <1>1, <1>2, <1>5 DEF LoaderInv, ElfHeaderInv
<1>6. CASE state = "NEXT_PROGRAM_HEADER"
  BY <1>4, <1>6 DEF LoaderInv, TableInv
<1>7. CASE state \in {"COPY_PROGRAM_HEADER", "EVAL_PROGRAM_HEADER"}
  <2>1. /\ InTable(index) /\ index < phnum
        /\ \E n \in 0..PhSize : offset = EntryEnd(Evaluated(index)) + n
    <3>1. dest \in Int
      BY <1>1 DEF TypeInv
    <3>2. CASE state = "COPY_PROGRAM_HEADER"
      <4>1. dest \in 0..PhSize
        BY <1>2, <3>1, <3>2 DEF LoaderInv, TableInv
      <4> QED
        BY <3>2, <4>1 DEF LoaderInv, TableInv
    <3>3. CASE state = "EVAL_PROGRAM_HEADER"
      BY <1>2, <3>3, PhSize \in 0..PhSize DEF LoaderInv, TableInv
    <3> QED
      BY <1>7, <3>2, <3>3
  <2>2. PICK n \in 0..PhSize : offset = EntryEnd(Evaluated(index)) + n
    BY <2>1
  <2> QED
    BY <1>2, <1>4, <2>1, <2>2
<1>8. CASE state = "SKIP_PROGRAM_HEADER"
  <2>1. /\ InTable(index + 1) /\ dest <= destEnd /\ dest \in Int /\ destEnd \in Int
        /\ offset = EntryEnd(Evaluated(index + 1)) - (destEnd - dest)
    BY <1>1, <1>8 DEF LoaderInv, TableInv, TypeInv
  <2>2. /\ EntryEnd(Evaluated(index + 1)) \in Nat
        /\ EntryEnd(Evaluated(index + 1)) <= HeadersEnd
    BY <1>4, <2>1
  <2> QED
    BY <1>2, <2>1, <2>2
<1>9. CASE state = "PROGRAM_HEADER_DONE"
  BY <1>2, <1>9 DEF LoaderInv, TableInv
<1> QED
  BY <1>5, <1>6, <1>7, <1>8, <1>9

(* Nor is it before it has noticed the end of the last segment. *)
LEMMA SegmentsLeft ==
  ASSUME LoaderInv, Loadable, Long,
         state \in {"NEXT_SEGMENT", "SEGMENT_SKIP", "SEGMENT_SKIP_DONE", "COPY_SEGMENT"}
  PROVE  offset < file.len
<1>1. /\ TypeInv /\ HeaderRead /\ InOrder /\ index \in -1..(phnum - 1)
      /\ offset \in Nat /\ file.len \in Nat /\ phnum \in Nat
      /\ dest \in Int /\ destEnd \in Int
  <2>1. TypeInv /\ offset \in Nat /\ phnum \in Nat /\ dest \in Int /\ destEnd \in Int
    BY DEF LoaderInv, Position, TypeInv
  <2>2. file.len \in Nat
    BY <2>1, FileType
  <2>3. HeaderRead /\ InOrder /\ index \in -1..(phnum - 1)
    BY <2>1 DEF LoaderInv, SegmentInv
  <2> QED
    BY <2>1, <2>2, <2>3
<1>2. PICK h \in [0..(phnum - 1) -> Load] :
        /\ \A i \in 0..(phnum - 1) : LET p == file.headers[h[i]]
                                     IN  /\ p.off = segments[i].off
                                         /\ p.off + p.size = SegmentEnd(i)
                                         /\ p.addr = segments[i].begin
                                         /\ p.addr + p.size = segments[i].end
        /\ \A i, j \in 0..(phnum - 1) : i < j => Follows(h[i], h[j])
  BY <1>1, Complete
<1>3. ASSUME NEW i \in -1..(phnum - 1)
      PROVE  /\ SegmentEnd(i) \in Nat /\ SegmentEnd(i) < file.len
             /\ i # -1 => /\ segments[i].off \in Nat
                          /\ segments[i].off <= SegmentEnd(i)
                          /\ SegmentEnd(i - 1) <= segments[i].off
  <2>1. SegmentEnd(i) \in Nat /\ (i # -1 => SegmentEnd(i) >= segments[i].off)
    BY <1>1, SegmentEnds
  <2>2. CASE i = -1
    BY <2>1, <2>2 DEF Long, SegmentEnd
  <2>3. CASE i # -1
    <3>1. i \in 0..(phnum - 1)
      BY <1>1, <2>3
    <3>2. h[i] \in Load
      BY <1>2, <3>1
    <3>3. /\ file.headers[h[i]].off = segments[i].off
          /\ file.headers[h[i]].off + file.headers[h[i]].size = SegmentEnd(i)
      BY <1>2, <3>1
    <3>4. SegmentEnd(i) < file.len
      BY <1>1, <2>1, <3>2, <3>3 DEF Long
    <3>5. segments[i].off \in Nat
      BY <1>1, <3>2, <3>3, LoadType
    <3>6. CASE i = 0
      BY <1>1, <3>2, <3>3, <3>4, <3>5, <3>6, <2>1 DEF SegmentEnd, Loadable
    <3>7. CASE i # 0
      <4>1. i - 1 \in 0..(phnum - 1) /\ i - 1 < i
        BY <1>1, <3>1, <3>7
      <4>2. Follows(h[i - 1], h[i]) /\ h[i - 1] \in Load
        BY <1>2, <3>1, <4>1
      <4>3. file.headers[h[i - 1]].off + file.headers[h[i - 1]].size = SegmentEnd(i - 1)
        BY <1>2, <4>1
      <4>4. SegmentEnd(i - 1) <= segments[i].off
        BY <3>2, <3>3, <4>2, <4>3 DEF Loadable
      <4> QED
        BY <2>1, <3>4, <3>5, <4>4
    <3> QED
      BY <3>6, <3>7
  <2> QED
    BY <2>2, <2>3
<1>4. CASE state = "NEXT_SEGMENT"
  BY <1>1, <1>3, <1>4 DEF LoaderInv, SegmentInv
<1>5. CASE state # "NEXT_SEGMENT"
  <2>1. index \in 0..(phnum - 1)
    BY <1>5 DEF LoaderInv, SegmentInv
  <2>2. PICK i, off : i = index /\ off = segments[index].off
    OBVIOUS
  <2>3. /\ i - 1 \in -1..(phnum - 1) /\ i \in -1..(phnum - 1) /\ i # -1
    BY <1>1, <2>1, <2>2
  <2>4. /\ off \in Nat /\ off <= SegmentEnd(i) /\ SegmentEnd(i - 1) <= off
        /\ SegmentEnd(i) \in Nat /\ SegmentEnd(i) < file.len
        /\ SegmentEnd(i - 1) \in Nat
    BY <1>3, <2>2, <2>3
  <2>5. CASE state = "SEGMENT_SKIP"
    <3>1. dest <= (off - SegmentEnd(i - 1)) % Word
      BY <2>2, <2>5 DEF LoaderInv, SegmentInv
    <3>2. offset = SegmentEnd(i - 1) + dest
      BY <2>2, <2>5 DEF LoaderInv, SegmentInv
    <3>3. off < Word /\ Word \in Nat
      <4>1. segments[index] \in Segment
        BY <1>1, <2>1, Described
      <4> QED
        BY <1>1, <2>2, <4>1, FileType DEF Segment
    <3>4. off - SegmentEnd(i - 1) \in 0..(Word - 1)
      BY <2>4, <3>3
    <3>5. (off - SegmentEnd(i - 1)) % Word = off - SegmentEnd(i - 1)
      BY <3>3, <3>4
    <3>6. dest <= off - SegmentEnd(i - 1)
      BY <3>1, <3>5
    <3>7. \A g, d \in Int : d <= off - g => g + d <= off
      BY <2>4
    <3>8. offset <= off
      BY <1>1, <2>4, <3>2, <3>6, <3>7
    <3> QED
      BY <1>1, <2>4, <3>8
  <2>6. CASE state = "SEGMENT_SKIP_DONE"
    BY <1>1, <2>2, <2>4, <2>6 DEF LoaderInv, SegmentInv
  <2>7. CASE state = "COPY_SEGMENT"
    <3>1. PICK b, e, end : /\ b = segments[i].begin /\ e = segments[i].end
                           /\ end = SegmentEnd(i)
      OBVIOUS
    <3>2. dest <= e /\ offset = off + (dest - b)
      BY <2>2, <2>7, <3>1 DEF LoaderInv, SegmentInv
    <3>3. end = off + (e - b)
      BY <2>2, <2>3, <3>1 DEF SegmentEnd
    <3>4. b \in Nat /\ e \in Nat
      BY <1>1, <2>1, <2>2, <3>1, Described DEF Segment
    <3>5. offset <= end
      BY <1>1, <2>4, <3>2, <3>3, <3>4
    <3> QED
      BY <1>1, <2>4, <3>1, <3>5
  <2> QED
    BY <1>5, <2>5, <2>6, <2>7
<1> QED
  BY <1>4, <1>5

(* A program that is started was loaded completely. *)
THEOREM StartedAlwaysLoaded == Spec => []StartedIsLoaded
<1>1. ASSUME LoaderInv, started, NEW k \in Load,
             NEW a \in file.headers[k].addr..(file.headers[k].addr
                                                + file.headers[k].size - 1)
      PROVE  mem[a] # -1
  <2>1. /\ state = "COPY_DONE" /\ TypeInv /\ HeaderRead /\ InOrder
        /\ Loaded(phnum)
    BY <1>1 DEF LoaderInv, FinalInv
  <2>2. PICK i \in 0..(phnum - 1) :
          /\ file.headers[k].addr = segments[i].begin
          /\ file.headers[k].addr + file.headers[k].size = segments[i].end
    BY <2>1, Complete
  <2>3. segments[i].begin \in Nat /\ file.headers[k].size \in Nat
    BY <2>1, Described, LoadType DEF Segment
  <2>4. a \in segments[i].begin..(segments[i].end - 1)
    <3>1. file.headers[k].addr + file.headers[k].size - 1 = segments[i].end - 1
      BY <2>2, <2>3
    <3> QED
      BY <2>2, <3>1
  <2> QED
    BY <2>1, <2>4 DEF Loaded, LoadedTo
<1>2. LoaderInv => StartedIsLoaded
  BY <1>1 DEF StartedIsLoaded
<1> QED
  BY <1>2, LoaderAlways, PTL

(***************************************************************************)
(* Whether a program is started depends on the file alone: it is started   *)
(* only if the loader, which never goes back, can load the file, and of    *)
(* those files every one is started that check_segments accepts and that   *)
(* goes on behind its last segment.                                        *)
(***************************************************************************)
THEOREM StartedAlwaysIffLong == Spec => []StartedIffLong
<1>1. ASSUME LoaderInv, pc = "done", started
      PROVE  Loadable /\ Long
  BY <1>1, DoneIsLong DEF LoaderInv, FinalInv
<1>2. ASSUME LoaderInv, pc = "done", Loadable, Long
      PROVE  started \/ state = "ERROR_SEGMENTS"
  <2>1. TypeInv /\ file.len \in Nat /\ offset \in Nat /\ src = 0 /\ read = file.len
    BY <1>2, FileType DEF LoaderInv, Position, FinalInv
  <2>2. state \in FinalState
    <3>1. state \notin FinalState => offset = file.len
      BY <1>2, <2>1 DEF LoaderInv, Position
    <3>2. ~(offset < file.len) \/ state \in FinalState
      BY <2>1, <3>1
    <3>3. state \in CopyState \union EvalState => offset < file.len
      BY <1>2, HeadersLeft, SegmentsLeft DEF CopyState, EvalState
    <3> QED
      BY <2>1, <3>1, <3>3 DEF TypeInv
  <2>3. /\ state # "ERROR_PROGRAM_HEADER_ENTRY_SIZE"
        /\ state # "ERROR_PROGRAM_HEADER_OFFSET"
        /\ state # "ERROR_SEGMENTS_ALLOCATION"
    <3>1. /\ file.entsize \in Nat /\ PhSize \in Nat
          /\ Len(file.headers) \in Nat /\ MaxSegments \in Nat
      BY <2>1, FileType
    <3> QED
      BY <1>2, <3>1 DEF LoaderInv, FinalInv, Loadable
  <2> QED
    BY <1>2, <2>2, <2>3 DEF LoaderInv, FinalInv, FinalState
<1>3. LoaderInv => StartedIffLong
  BY <1>1, <1>2 DEF StartedIffLong
<1> QED
  BY <1>3, LoaderAlways, PTL
=============================================================================
