------------------------------- MODULE Bootmem -------------------------------
(***************************************************************************)
(* The boot-time page allocator, mm/bootmem.c: a bitmap per NUMA node,     *)
(* kept with the bootmem_node structure in the last pages of the node's    *)
(* range.  Every call runs under node->lock and is one step.               *)
(*                                                                         *)
(* The code mixes 64-bit words with 32-bit shifts (1 << n, n up to 64),    *)
(* which the build compiles to sllw: the low half of the word's bits, the  *)
(* shift amount modulo 32, the result sign-extended.  The width of a word  *)
(* and of an int, the bits of a byte and the pages one page of bitmap      *)
(* describes are parameters, so that small instances meet every boundary;  *)
(* IntBits = WordBits is the code as it would be with 1UL throughout.      *)
(* Page frames are numbered as the code's pfn; frame 0 is never RAM.       *)
(***************************************************************************)
EXTENDS Integers, FiniteSets

CONSTANT
    Machines    \* what the kernel may find when it boots, as records:
                \*   base       first page frame of each node (base_address)
                \*   size       page frames of each node (ram_size)
                \*   kernelEnd  first page frame after the kernel
                \*   word, int  bits of a word and of an int (64, 32)
                \*   requests   page counts that callers ask for
                \*   mayFree    callers free pages

CONSTANTS
    ByteBits,       \* 8
    BitsPerPage     \* bits in a page of bitmap

VARIABLES
    machine,    \* the machine; it never changes
    bitmap,     \* bitmap[d]: the offsets whose bit is set
    nextOff,    \* nextOff[d]: node->next_offset
    count       \* count[f]: how many allocations hold page frame f

vars == <<machine, bitmap, nextOff, count>>

Nodes == DOMAIN machine.base     \* NUMA nodes with memory
WordBits == machine.word
IntBits == machine.int

CeilDiv(a, b) == (a + b - 1) \div b

-----------------------------------------------------------------------------
(* The layout that bootmem_init() computes.                                *)

\* start_addr moves past the kernel, the size stays.
StartPfn(d) == IF machine.base[d] >= machine.kernelEnd THEN machine.base[d] ELSE machine.kernelEnd
NPages(d) == machine.size[d]
Rows(d) == CeilDiv(NPages(d), WordBits)
BitmapPages(d) == CeilDiv(Rows(d) * WordBits, BitsPerPage)

\* The offset of node->bitmap; the bootmem_node is in the page after it.
BitmapOff(d) == NPages(d) - 1 - BitmapPages(d)

\* The frames that hold the allocator's own data.
OwnFrames(d) == {StartPfn(d) + i : i \in BitmapOff(d)..NPages(d) - 1}

Offsets(d) == 0..Rows(d) * WordBits - 1
Frames == UNION {StartPfn(d)..StartPfn(d) + NPages(d) - 1 : d \in Nodes}

TypeOK ==
    /\ machine \in Machines
    /\ \A d \in Nodes : bitmap[d] \subseteq Offsets(d) /\ nextOff[d] \in 0..NPages(d)
    /\ count \in [Frames -> Nat]

-----------------------------------------------------------------------------
(* Bit arithmetic.  Column c of a row is bit WordBits - 1 - c of its word. *)

\* The bits of 1 << s with a 32-bit 1, sign-extended to a word.
IntShift(s) ==
    LET t == s % IntBits
    IN  IF t = IntBits - 1 THEN t..WordBits - 1 ELSE {t}

\* The bits of (1 << s) - 1, the same way; a shift by 31 wraps to 0x7fffffff.
IntOnes(s) == 0..(s % IntBits) - 1

\* The offsets that a set of bits of the word of offset off stands for.
InRow(off, bits) ==
    {(off \div WordBits) * WordBits + WordBits - 1 - b : b \in bits}

\* 1 << (63 - col), as bootmem_alloc() tests it and bootmem_free() clears it.
IntMask(off) == InRow(off, IntShift(WordBits - 1 - (off % WordBits)))

\* 1UL << (63 - col), as bootmem_alloc() sets it.
LongMask(off) == InRow(off, {WordBits - 1 - (off % WordBits)})

\* The offsets bootmem_init() marks as used: the rest of the bitmap's first
\* row, then bytes filled with 1.
Marked(d) ==
    LET off == BitmapOff(d)
        rest == WordBits - (off % WordBits)
        bytes == (NPages(d) - (off + rest)) \div ByteBits
        low(k) == off + rest + WordBits * ((k * ByteBits) \div WordBits)
    IN  InRow(off, IntOnes(rest)) \cup
        UNION {InRow(low(k), {(k * ByteBits) % WordBits}) : k \in 0..bytes - 1}

\* bootmem_init()
Init ==
    /\ machine \in Machines
    /\ bitmap = [d \in Nodes |-> Marked(d)]
    /\ nextOff = [d \in Nodes |-> 0]
    /\ count = [f \in Frames |-> 0]

-----------------------------------------------------------------------------
(* bootmem_alloc() and bootmem_free()                                      *)

Used(d, off) == IntMask(off) \cap bitmap[d] # {}

\* Where the search for n free pages from offset o ends, and whether it found
\* them: a page in use moves the search behind it.
Search(d, n) ==
    LET scan[o \in 0..NPages(d)] ==
            LET hits == {s \in o..o + n - 1 : Used(d, s)}
            IN  IF o + n >= NPages(d) THEN [found |-> FALSE, off |-> o]
                ELSE IF hits = {} THEN [found |-> TRUE, off |-> o]
                ELSE scan[1 + CHOOSE s \in hits : \A t \in hits : s <= t]
    IN  scan

\* The search goes on from next_offset and, if that fails, once from 0.
FindPages(d, n) ==
    LET first == Search(d, n)[nextOff[d]]
    IN  IF first.found THEN first ELSE Search(d, n)[0]

\* A request that does not fit the node at all changes nothing; neither does
\* one that fails, next_offset apart.
Alloc(d, n) ==
    /\ n < NPages(d)
    /\ UNCHANGED machine
    /\ LET r == FindPages(d, n)
           got == {StartPfn(d) + r.off + i : i \in 0..n - 1}
       IN  IF r.found
           THEN /\ bitmap' = [bitmap EXCEPT ![d] =
                                 @ \cup UNION {LongMask(r.off + i) : i \in 0..n - 1}]
                /\ nextOff' = [nextOff EXCEPT ![d] = r.off + n]
                /\ count' = [f \in Frames |-> count[f] + IF f \in got THEN 1 ELSE 0]
           ELSE /\ nextOff' = [nextOff EXCEPT ![d] = r.off]
                /\ UNCHANGED <<bitmap, count>>

\* The owner of n pages from frame f on frees them, on a hart of their node.
Free(d, f, n) ==
    /\ machine.mayFree
    /\ f >= StartPfn(d) /\ f + n <= StartPfn(d) + NPages(d)
    /\ \A i \in 0..n - 1 : count[f + i] > 0
    /\ bitmap' = [bitmap EXCEPT ![d] =
                     @ \ UNION {IntMask(f + i - StartPfn(d)) : i \in 0..n - 1}]
    /\ count' = [g \in Frames |-> count[g] - IF g \in f..f + n - 1 THEN 1 ELSE 0]
    /\ UNCHANGED <<machine, nextOff>>

Next ==
    \E d \in Nodes, n \in machine.requests :
        \/ Alloc(d, n)
        \/ \E f \in Frames : Free(d, f, n)

Spec == Init /\ [][Next]_vars

-----------------------------------------------------------------------------
(* Properties.                                                             *)

\* bootmem_alloc() hands out "usable continuous pages" (line 106): never a page
\* that somebody already has, also when the search has wrapped around.
NoDoubleAlloc == \A f \in Frames : count[f] <= 1

\* "mark pages of bootmem_node with related bitmap as used" (line 64): the
\* pages that hold a bitmap or a bootmem_node, of any node, are not handed out.
\* They are meant to be "the last page of mem in this numa node" (line 43).
OwnPagesKept == \A d \in Nodes : \A f \in OwnFrames(d) : count[f] = 0

\* A bit that is 1 says that the page is allocated (Documentation/bootmem.md
\* line 11), so the bit of a page somebody has is 1.
OwnedMarked ==
    \A d \in Nodes : \A i \in 0..NPages(d) - 1 :
        count[StartPfn(d) + i] > 0 => i \in bitmap[d]

\* A page has at most one owner, the allocator's own data included.
OneOwner == NoDoubleAlloc /\ OwnPagesKept

\* The bitmaps never lose track of a page that is in use.
BitmapInv == TypeOK /\ OwnedMarked
=============================================================================
