------------------------------- MODULE FdtEdit -------------------------------
(***************************************************************************)
(* The write side of libfdt (fdt_rw.c, fdt_wip.c and the appending part of *)
(* fdt_addresses.c) over one blob, called in any order with any offset.    *)
(*                                                                         *)
(* Every function returns [err, fdt]: the code it returns and the blob it  *)
(* leaves.  The header's offsets are what the code computes; at_rsvmap,    *)
(* at_struct and at_strings are where fdt_splice_() and fdt_packblocks_()  *)
(* have really moved the blocks.                                           *)
(***************************************************************************)
EXTENDS FdtRead

LOCAL INSTANCE SequencesExt

CONSTANTS
    NodeNames, SetProps, Values, RsvEntries,    \* what callers pass
    Ranges,     \* [addr, size] of fdt_appendprop_addrrange()
    CellMod,    \* the values of a cell are 0..CellMod-1 (2^32)
    BufSizes,   \* buffer sizes given to fdt_open_into()
    Compatible, \* a string that callers look for in "compatible"
    NoTree      \* what a blob without a root stands for

VARIABLE fdt

Ok(b) == [err |-> 0, fdt |-> b]
Fail(err, b) == [err |-> err, fdt |-> b]

-----------------------------------------------------------------------------
(* Layout                                                                  *)

\* fdt_blocks_misordered_()
BlocksMisordered(b, rsvsize, structsize) ==
    \/ b.off_mem_rsvmap < HeaderSize
    \/ b.off_dt_struct < b.off_mem_rsvmap + rsvsize
    \/ b.off_dt_strings < b.off_dt_struct + structsize
    \/ b.totalsize < b.off_dt_strings + b.size_dt_strings

\* fdt_rw_probe_()
FdtRwProbe(b) ==
    IF FdtRoProbe(b) < 0 THEN FdtRoProbe(b)
    ELSE IF b.version < 17 THEN BADVERSION
    ELSE IF BlocksMisordered(b, RsvSize(1), b.size_dt_struct) THEN BADLAYOUT
    ELSE 0

\* FDT_RW_PROBE() in front of a call
Probed(b, call) == IF FdtRwProbe(b) # 0 THEN Fail(FdtRwProbe(b), b) ELSE call

\* fdt_splice_() at byte p: what lies behind the old bytes moves.
FdtSplice(b, p, oldlen, newlen) ==
    LET dsize == b.off_dt_strings + b.size_dt_strings
        moved(at) == IF p < at /\ p + oldlen <= at /\ at < dsize THEN at + newlen - oldlen ELSE at
    IN  IF p + oldlen > dsize THEN Fail(BADOFFSET, b)
        ELSE IF dsize - oldlen + newlen > b.totalsize THEN Fail(NOSPACE, b)
        ELSE Ok([b EXCEPT !.at_rsvmap = moved(@), !.at_struct = moved(@), !.at_strings = moved(@)])

\* fdt_splice_mem_rsv_(): cut entries from number n on, put new ones there.
FdtSpliceMemRsv(b, n, cut, new) ==
    LET r == FdtSplice(b, b.off_mem_rsvmap + RsvSize(n), RsvSize(cut), RsvSize(Len(new)))
        delta == RsvSize(Len(new) - cut)
        map == b.rsvmap
    IN  IF r.err # 0 THEN r
        ELSE Ok([r.fdt EXCEPT !.off_dt_struct = @ + delta, !.off_dt_strings = @ + delta,
                              !.rsvmap = SubSeq(map, 1, n) \o new \o SubSeq(map, n + cut + 1, Len(map))])

\* Mutant: the strings block is moved but not its offset in the header.
FdtSpliceStructMutant(b, o, cut, new) ==
    LET old == b.dtstruct
        oldlen == Bytes(SubSeq(old, o + 1, o + cut))
        r == FdtSplice(b, b.off_dt_struct + Bytes(SubSeq(old, 1, o)), oldlen, Bytes(new))
    IN  IF r.err # 0 THEN r
        ELSE Ok([r.fdt EXCEPT !.size_dt_struct = @ + Bytes(new) - oldlen,
                              !.dtstruct = SubSeq(old, 1, o) \o new \o SubSeq(old, o + cut + 1, Len(old))])

\* fdt_splice_struct_(): cut items from offset o on, put new ones there.
FdtSpliceStruct(b, o, cut, new) ==
    LET old == b.dtstruct
        oldlen == Bytes(SubSeq(old, o + 1, o + cut))
        r == FdtSplice(b, b.off_dt_struct + Bytes(SubSeq(old, 1, o)), oldlen, Bytes(new))
        delta == Bytes(new) - oldlen
    IN  IF r.err # 0 THEN r
        ELSE Ok([r.fdt EXCEPT !.size_dt_struct = @ + delta, !.off_dt_strings = @ + delta,
                              !.dtstruct = SubSeq(old, 1, o) \o new \o SubSeq(old, o + cut + 1, Len(old))])

\* fdt_find_string_(), fdt_find_add_string_(): a property name is found as a
\* string of the block or the tail of one, and added at its end if not.
FdtFindAddString(b, p) ==
    LET hits == {k \in DOMAIN b.strings : IsTail(p, b.strings[k])}
        k == CHOOSE k \in hits : \A j \in hits : k <= j
        r == FdtSplice(b, b.off_dt_strings + b.size_dt_strings, 0, PropLen[p] + 1)
    IN  IF hits # {}
        THEN [err |-> 0, fdt |-> b, allocated |-> FALSE,
              off |-> [str |-> k, cut |-> PropLen[b.strings[k]] - PropLen[p]]]
        ELSE IF r.err # 0 THEN [err |-> r.err, fdt |-> b, allocated |-> FALSE, off |-> <<>>]
        ELSE [err |-> 0, allocated |-> TRUE, off |-> [str |-> Len(b.strings) + 1, cut |-> 0],
              fdt |-> [r.fdt EXCEPT !.size_dt_strings = @ + PropLen[p] + 1, !.strings = Append(@, p)]]

\* fdt_del_last_string_()
FdtDelLastString(b, p) ==
    [b EXCEPT !.size_dt_strings = @ - (PropLen[p] + 1), !.strings = SubSeq(@, 1, Len(@) - 1)]

-----------------------------------------------------------------------------
(* The calls                                                               *)

\* fdt_num_mem_rsv(): the entries before the one of size 0.
FdtNumMemRsv(b) == Len(b.rsvmap)

FdtAddMemRsv(b, e) == Probed(b, FdtSpliceMemRsv(b, FdtNumMemRsv(b), 0, <<e>>))

FdtDelMemRsv(b, n) ==
    Probed(b, IF n >= FdtNumMemRsv(b) THEN Fail(NOTFOUND, b) ELSE FdtSpliceMemRsv(b, n, 1, <<>>))

\* Mutant: the name stays when the item does not fit.
FdtAddPropertyMutant(b, node, p, val) ==
    LET next == CheckOffset(b, node, "BEGIN")
        str == FdtFindAddString(b, p)
        r == FdtSpliceStruct(str.fdt, next, 0, <<Prop(str.off, val)>>)
    IN  IF next < 0 THEN Fail(next, b) ELSE IF str.err # 0 THEN Fail(str.err, b) ELSE r

\* fdt_add_property_(): the name first, taken back if the item does not fit.
FdtAddProperty(b, node, p, val) ==
    LET next == CheckOffset(b, node, "BEGIN")
        str == FdtFindAddString(b, p)
        r == FdtSpliceStruct(str.fdt, next, 0, <<Prop(str.off, val)>>)
    IN  IF next < 0 THEN Fail(next, b)
        ELSE IF str.err # 0 THEN Fail(str.err, b)
        ELSE IF r.err = 0 THEN r
        ELSE Fail(r.err, IF str.allocated THEN FdtDelLastString(str.fdt, p) ELSE str.fdt)

\* fdt_setprop(): fdt_resize_property_(), or fdt_add_property_().
FdtSetprop(b, node, p, val) ==
    LET o == FdtGetProperty(b, node, p)
    IN  Probed(b, IF o >= 0 THEN FdtSpliceStruct(b, o, 1, <<[b.dtstruct[o + 1] EXCEPT !.val = val]>>)
                  ELSE IF o = NOTFOUND THEN FdtAddProperty(b, node, p, val)
                  ELSE Fail(o, b))

FdtAppendprop(b, node, p, val) ==
    LET o == FdtGetProperty(b, node, p)
    IN  Probed(b, IF o >= 0 THEN FdtSpliceStruct(b, o, 1, <<[b.dtstruct[o + 1] EXCEPT !.val = @ \o val]>>)
                  ELSE FdtAddProperty(b, node, p, val))

FdtDelprop(b, node, p) ==
    LET o == FdtGetProperty(b, node, p)
    IN  Probed(b, IF o < 0 THEN Fail(o, b) ELSE FdtSpliceStruct(b, o, 1, <<>>))

\* fdt_set_name(); nothing checks that the name is new among the siblings.
FdtSetName(b, node, name) ==
    Probed(b, IF CheckOffset(b, node, "BEGIN") < 0 THEN Fail(BADOFFSET, b)
              ELSE FdtSpliceStruct(b, node, 1, <<BeginNode(name)>>))

\* fdt_add_subnode(): behind the parent's properties, before its subnodes.
RECURSIVE BehindProps(_, _)
BehindProps(b, o) ==
    LET t == FdtNextTag(b, o) IN IF t.tag \in {"PROP", "NOP"} THEN BehindProps(b, t.next) ELSE o

FdtAddSubnode(b, parent, name) ==
    LET o == FdtSubnodeOffset(b, parent, name)
    IN  Probed(b, IF o >= 0 THEN Fail(EXISTS, b)
                  ELSE IF o # NOTFOUND THEN Fail(o, b)
                  ELSE FdtSpliceStruct(b, BehindProps(b, parent + 1), 0, <<BeginNode(name), EndNode>>))

\* fdt_node_end_offset_()
RECURSIVE NodeEndFrom(_, _, _)
NodeEndFrom(b, o, d) ==
    IF o < 0 \/ d < 0 THEN o ELSE LET r == FdtNextNode(b, o, d) IN NodeEndFrom(b, r.off, r.depth)

FdtDelNode(b, node) ==
    LET end == NodeEndFrom(b, node, 0)
    IN  Probed(b, IF end < 0 THEN Fail(end, b) ELSE FdtSpliceStruct(b, node, end - node, <<>>))

\* fdt_setprop_inplace_namelen_partial(): the bytes from idx on.
FdtSetpropInplacePartial(b, node, p, idx, val) ==
    LET o == FdtGetProperty(b, node, p)
        old == b.dtstruct[o + 1].val
    IN  IF o < 0 THEN Fail(o, b)
        ELSE IF Len(old) < Len(val) + idx THEN Fail(NOSPACE, b)
        ELSE Ok([b EXCEPT !.dtstruct[o + 1].val =
                    SubSeq(old, 1, idx) \o val \o SubSeq(old, idx + Len(val) + 1, Len(old))])

FdtSetpropInplace(b, node, p, val) ==
    LET r == FdtGetprop(b, node, p)
    IN  IF r.err < 0 THEN Fail(r.err, b)
        ELSE IF Len(r.val) # Len(val) THEN Fail(NOSPACE, b)
        ELSE FdtSetpropInplacePartial(b, node, p, 0, val)

\* fdt_nop_region_(): every word of the items becomes a NOP.
FdtNopRegion(b, o, end) ==
    LET s == b.dtstruct
    IN  [b EXCEPT !.dtstruct = SubSeq(s, 1, o) \o [w \in 1..Bytes(SubSeq(s, o + 1, end)) \div 4 |-> Nop]
                                                \o SubSeq(s, end + 1, Len(s))]

FdtNopProperty(b, node, p) ==
    LET o == FdtGetProperty(b, node, p) IN IF o < 0 THEN Fail(o, b) ELSE Ok(FdtNopRegion(b, o, o + 1))

FdtNopNode(b, node) ==
    LET end == NodeEndFrom(b, node, 0) IN IF end < 0 THEN Fail(end, b) ELSE Ok(FdtNopRegion(b, node, end))

\* fdt_appendprop_addrrange(): numbers as big-endian cells; UINT32_MAX + 1 is
\* an unsigned int and is 0.
Cells(n, x) == IF n = 1 THEN <<0, 0, 0, x>> ELSE <<0, 0, 0, x \div CellMod, 0, 0, 0, x % CellMod>>

FdtAppendpropAddrrange(b, parent, node, p, addr, size) ==
    LET append(ac, sc) ==
            IF ac < 0 THEN Fail(ac, b)
            ELSE IF sc < 0 THEN Fail(sc, b)
            ELSE IF ac = 1 /\ (addr >= CellMod \/ (0 - addr) % (CellMod * CellMod) < size) THEN Fail(BADVALUE, b)
            ELSE IF ac > 2 THEN Fail(BADNCELLS, b)
            ELSE IF sc = 1 /\ size >= CellMod THEN Fail(BADVALUE, b)
            ELSE IF sc \notin {1, 2} THEN Fail(BADNCELLS, b)
            ELSE FdtAppendprop(b, node, p, Cells(ac, addr) \o Cells(sc, size))
    IN  append(FdtAddressCells(b, parent), FdtSizeCells(b, parent))

\* fdt_packblocks_(): the blocks without gaps, in the order of the rw calls.
FdtPackblocks(b, rsvsize, structsize) ==
    LET s == HeaderSize + rsvsize
    IN  [b EXCEPT !.off_mem_rsvmap = HeaderSize, !.at_rsvmap = HeaderSize,
                  !.off_dt_struct = s, !.at_struct = s, !.size_dt_struct = structsize,
                  !.off_dt_strings = s + structsize, !.at_strings = s + structsize]

\* fdt_open_into(), into a buffer that starts where the blob does or elsewhere.
FdtOpenInto(b, bufsize, inplace) ==
    LET rsvsize == RsvSize(Len(b.rsvmap) + 1)
        structsize == IF b.version >= 17 THEN b.size_dt_struct ELSE Bytes(b.dtstruct)
        newsize == HeaderSize + rsvsize + structsize + b.size_dt_strings
        opened == [b EXCEPT !.version = 17, !.size_dt_struct = structsize, !.totalsize = bufsize]
    IN  IF FdtRoProbe(b) < 0 THEN Fail(FdtRoProbe(b), b)
        ELSE IF ~BlocksMisordered(b, rsvsize, structsize)
             THEN IF b.totalsize > bufsize THEN Fail(NOSPACE, b) ELSE Ok(opened)
        ELSE IF bufsize < newsize \/ (inplace /\ b.totalsize + newsize > bufsize) THEN Fail(NOSPACE, b)
        ELSE Ok([FdtPackblocks(b, rsvsize, structsize) EXCEPT !.version = 17, !.totalsize = bufsize])

FdtPack(b) ==
    LET r == FdtPackblocks(b, RsvSize(Len(b.rsvmap) + 1), b.size_dt_struct)
    IN  Probed(b, Ok([r EXCEPT !.totalsize = r.off_dt_strings + r.size_dt_strings]))

-----------------------------------------------------------------------------
(* Callers                                                                 *)

Call(r) == fdt' = r.fdt
Offsets == 0..Len(fdt.dtstruct) - 1

AddMemRsv == \E e \in RsvEntries : Call(FdtAddMemRsv(fdt, e))
DelMemRsv == \E n \in 0..Len(fdt.rsvmap) : Call(FdtDelMemRsv(fdt, n))
Setprop == \E o \in Offsets, p \in SetProps, v \in Values : Call(FdtSetprop(fdt, o, p, v))
Appendprop == \E o \in Offsets, p \in SetProps, v \in Values : Call(FdtAppendprop(fdt, o, p, v))
AppendpropAddrrange == \E o, q \in Offsets, r \in Ranges :
    Call(FdtAppendpropAddrrange(fdt, q, o, "reg", r.addr, r.size))
Delprop == \E o \in Offsets, p \in PropNames : Call(FdtDelprop(fdt, o, p))
\* The root keeps its empty name.
SetName == \E o \in Offsets \ {0}, n \in NodeNames : Call(FdtSetName(fdt, o, n))
AddSubnode == \E o \in Offsets, n \in NodeNames : Call(FdtAddSubnode(fdt, o, n))
DelNode == \E o \in Offsets : Call(FdtDelNode(fdt, o))
SetpropInplace == \E o \in Offsets, p \in SetProps, v \in Values : Call(FdtSetpropInplace(fdt, o, p, v))
SetpropInplacePartial == \E o \in Offsets, p \in SetProps, v \in Values, idx \in {0, 4} :
    Call(FdtSetpropInplacePartial(fdt, o, p, idx, v))
NopProperty == \E o \in Offsets, p \in PropNames : Call(FdtNopProperty(fdt, o, p))
NopNode == \E o \in Offsets : Call(FdtNopNode(fdt, o))
OpenInto == \E size \in BufSizes, inplace \in BOOLEAN : Call(FdtOpenInto(fdt, size, inplace))
Pack == Call(FdtPack(fdt))

Edit ==
    \/ AddMemRsv \/ DelMemRsv
    \/ Setprop \/ Appendprop \/ AppendpropAddrrange \/ Delprop
    \/ SetName \/ AddSubnode \/ DelNode
    \/ SetpropInplace \/ SetpropInplacePartial \/ NopProperty \/ NopNode
    \/ OpenInto \/ Pack

-----------------------------------------------------------------------------
(* The tree that a blob stands for, read by descent                        *)

\* The rest of a node's body from offset o; off is where the node begins.
RECURSIVE BodyFrom(_, _, _)
BodyFrom(b, o, node) ==
    LET i == b.dtstruct[o + 1]
    IN  CASE i.tag = "NOP" -> BodyFrom(b, o + 1, node)
          [] i.tag = "PROP" ->
                BodyFrom(b, o + 1, [node EXCEPT !.props =
                    Append(@, [name |-> FdtGetString(b, i.nameoff), val |-> i.val])])
          [] i.tag = "BEGIN" ->
                LET sub == BodyFrom(b, o + 1, [off |-> o, name |-> i.name, props |-> <<>>, kids |-> <<>>])
                IN  BodyFrom(b, sub.end, [node EXCEPT !.kids = Append(@, sub.node)])
          [] i.tag = "END" -> [node |-> node, end |-> o + 1]

RootOf(b) ==
    BodyFrom(b, 1, [off |-> 0, name |-> b.dtstruct[1].name, props |-> <<>>, kids |-> <<>>])

HasRoot(b) == b.dtstruct[1].tag = "BEGIN"

RECURSIVE Bare(_)
Bare(n) == [name |-> n.name, props |-> n.props, kids |-> [k \in DOMAIN n.kids |-> Bare(n.kids[k])]]

TreeOf(b) == IF HasRoot(b) THEN Bare(RootOf(b).node) ELSE NoTree

TailsOf(p) == {q \in PropNames : IsTail(q, p)}

Known(b) == UNION {TailsOf(b.strings[k]) : k \in DOMAIN b.strings}

Tree == INSTANCE FdtTree WITH
    tree <- TreeOf(fdt), rsv <- fdt.rsvmap, known <- Known(fdt), PropNames <- SetProps \cup {"reg"},
    Values <- Values \cup {Cells(a, r.addr) \o Cells(s, r.size) : a, s \in {1, 2}, r \in Ranges}

\* Every call of libfdt, whatever its offset, edits the tree as its name says
\* or, when it fails, leaves it alone: the tree read back from the blob, the
\* reserved ranges and the property names stored follow FdtTree.  A property
\* that does not fit after its name was stored takes the name back.  (This is
\* Tree!Spec, with the two states of a step spelled out.)
RefinesTree ==
    /\ Tree!Init
    /\ [][\/ Tree!Step(TreeOf(fdt), TreeOf(fdt'), Known(fdt), Known(fdt'), fdt.rsvmap, fdt'.rsvmap)
          \/ TreeOf(fdt') = TreeOf(fdt) /\ Known(fdt') = Known(fdt) /\ fdt'.rsvmap = fdt.rsvmap]_fdt

-----------------------------------------------------------------------------
\* After the last node there are only NOPs and the end.
Closed(b, o) ==
    /\ b.dtstruct[Len(b.dtstruct)] = FdtEnd
    /\ \A k \in o + 1..Len(b.dtstruct) - 1 : b.dtstruct[k] = Nop

RECURSIVE NodesOf(_)
NodesOf(n) == {n} \cup UNION {NodesOf(n.kids[k]) : k \in DOMAIN n.kids}

StringBytes(b) ==
    LET sum[k \in 0..Len(b.strings)] == IF k = 0 THEN 0 ELSE sum[k - 1] + PropLen[b.strings[k]] + 1
    IN  sum[Len(b.strings)]

\* The blob is well formed however it was edited: its header points at the
\* blocks where they are, with their sizes, apart from each other and inside
\* the total size; the nodes are nested and closed by FDT_END; the properties
\* of a node come before its subnodes, have names that can be read, and no
\* two have the same.
BlobInv ==
    LET rsv == RsvSize(Len(fdt.rsvmap) + 1)
        struct == Bytes(fdt.dtstruct)
    IN  /\ fdt.at_rsvmap = fdt.off_mem_rsvmap /\ fdt.at_struct = fdt.off_dt_struct
        /\ fdt.at_strings = fdt.off_dt_strings
        /\ fdt.size_dt_strings = StringBytes(fdt)
        /\ fdt.version = 17 => fdt.size_dt_struct = struct
        /\ \/ fdt.at_rsvmap + rsv <= fdt.at_struct /\ fdt.at_struct + struct <= fdt.at_strings
           \/ fdt.at_rsvmap + rsv <= fdt.at_strings /\ fdt.at_strings + StringBytes(fdt) <= fdt.at_struct
        /\ fdt.magic => FdtCheckHeader(fdt) = 0
        /\ IF ~HasRoot(fdt) THEN Closed(fdt, 0)
           ELSE /\ Closed(fdt, RootOf(fdt).end)
                /\ fdt.magic => \A n \in NodesOf(RootOf(fdt).node) : \A i \in DOMAIN n.props :
                      FdtGetprop(fdt, n.off, n.props[i].name) = [err |-> 0, val |-> n.props[i].val]

-----------------------------------------------------------------------------
(* What the searches should find, said of the tree                         *)

\* The nodes under n and n itself, parents first.
RECURSIVE Preorder(_)
Preorder(n) ==
    LET under[k \in 0..Len(n.kids)] == IF k = 0 THEN <<>> ELSE under[k - 1] \o Preorder(n.kids[k])
    IN  <<n>> \o under[Len(n.kids)]

\* The offset of the first of a sequence of nodes that passes, or NOTFOUND.
FirstOf(nodes, Test(_)) ==
    LET hits == {k \in DOMAIN nodes : Test(nodes[k])}
    IN  IF hits = {} THEN NOTFOUND ELSE nodes[CHOOSE k \in hits : \A j \in hits : k <= j].off

Val(n, p) == {n.props[k].val : k \in {j \in DOMAIN n.props : n.props[j].name = p}}

PhandleOf(n) ==
    LET four(p) == {v \in Val(n, p) : Len(v) = 4}
        vals == IF four("phandle") # {} THEN four("phandle") ELSE four("linux,phandle")
    IN  IF vals = {} THEN 0 ELSE Be32(CHOOSE v \in vals : TRUE)

\* The path of every node, from the root's.
RECURSIVE PathsUnder(_, _)
PathsUnder(n, path) ==
    {<<n, path>>} \cup UNION {PathsUnder(n.kids[k], Append(path, n.kids[k].name)) : k \in DOMAIN n.kids}

\* The node a path leads to: at each step the first subnode that matches.
RECURSIVE Follow(_, _)
Follow(n, path) ==
    LET hits == {k \in DOMAIN n.kids : Tree!Matches(n.kids[k], Head(path))}
    IN  IF path = <<>> THEN n.off
        ELSE IF hits = {} THEN NOTFOUND
        ELSE Follow(n.kids[CHOOSE k \in hits : \A j \in hits : k <= j], Tail(path))

\* A value is a list of strings when each ends in \0 (libfdt.h:1092), and these
\* are its strings.
IsList(v) == v # <<>> => v[Len(v)] = 0

InList(str, v) ==
    \E from \in 1..Len(v) :
       /\ from = 1 \/ v[from - 1] = 0
       /\ from + Len(str) <= Len(v) /\ v[from + Len(str)] = 0
       /\ SubSeq(v, from, from + Len(str) - 1) = str

\* Every search of libfdt, which scans the flat form and counts depths, finds
\* what it is defined to find in the tree: the subnodes in order, the first
\* subnode of a name with or without unit, parents, depths and paths (a path
\* is returned exactly when the buffer holds it), nodes by path and alias, by
\* phandle, property value and compatible string.  An offset inside the root
\* that is no node's is refused.  A value that is no list of strings is refused
\* by fdt_stringlist_count(); fdt_stringlist_contains() never misses a string that
\* is ended, but may report the one that is not (README, section 6), so that a
\* search for a compatible string is exact where the values are lists.
LookupsExact ==
    fdt.magic /\ HasRoot(fdt) =>
    LET root == RootOf(fdt).node
        all == Preorder(root)
    IN  /\ \A x \in PathsUnder(root, <<>>) :
              LET n == x[1]
                  path == x[2]
                  need == IF path = <<>> THEN 2 ELSE PathBytes(path) + 1
              IN  /\ ForEachSubnode(fdt, n.off) = [k \in DOMAIN n.kids |-> n.kids[k].off]
                  /\ \A name \in NodeNames :
                        LET matches(k) == Tree!Matches(k, name)
                        IN  FdtSubnodeOffset(fdt, n.off, name) = FirstOf(n.kids, matches)
                  /\ \A k \in DOMAIN n.kids : FdtParentOffset(fdt, n.kids[k].off) = n.off
                  /\ FdtNodeDepth(fdt, n.off) = Len(path)
                  /\ FdtGetPath(fdt, n.off, need) = [err |-> 0, path |-> path]
                  /\ FdtGetPath(fdt, n.off, need - 1).err = NOSPACE
                  /\ FdtPathOffset(fdt, NoAlias, path) = Follow(root, path)
                  /\ FdtGetPhandle(fdt, n.off) = PhandleOf(n)
                  /\ LET r == FdtNodeCheckCompatible(fdt, n.off, Compatible)
                     IN  /\ Val(n, "compatible") = {} => r = NOTFOUND
                         /\ \A v \in Val(n, "compatible") :
                               \/ InList(Compatible, v) /\ r = 0
                               \/ ~InList(Compatible, v) /\ r = 1
                               \/ ~IsList(v) /\ r = 0 /\ IsSuffix(Compatible, v)
                  /\ \A p \in PropNames :
                        LET count == FdtStringlistCount(fdt, n.off, p)
                            get(i) == FdtStringlistGet(fdt, n.off, p, i)
                        IN  IF Val(n, p) = {} THEN count = NOTFOUND
                            ELSE IF \E v \in Val(n, p) : ~IsList(v) THEN count = BADVALUE
                            ELSE /\ count >= 0
                                 /\ get(count).err = NOTFOUND
                                 /\ \A i \in 0..count - 1 :
                                       /\ InList(get(i).str, CHOOSE v \in Val(n, p) : TRUE)
                                       /\ FdtStringlistSearch(fdt, n.off, p, get(i).str) <= i
        /\ FdtParentOffset(fdt, 0) = NOTFOUND
        /\ \A alias \in PropNames :
              FdtPathOffset(fdt, alias, <<>>) =
                LET under == {k \in DOMAIN root.kids : root.kids[k].off = Follow(root, <<AliasesName>>)}
                    vals == UNION {Val(root.kids[k], alias) : k \in under} \cap DOMAIN ValuePath
                IN  IF vals = {} THEN BADPATH ELSE Follow(root, ValuePath[CHOOSE v \in vals : TRUE])
        /\ LET used == {PhandleOf(all[k]) : k \in DOMAIN all}
               new == FdtGeneratePhandle(fdt)
           IN  /\ \A ph \in (used \cup {1, 2}) \ {0} :
                     LET has(n) == PhandleOf(n) = ph
                     IN  FdtNodeOffsetByPhandle(fdt, ph) = FirstOf(all, has)
               /\ IF MaxPhandle \in used THEN new = NOPHANDLES ELSE new > 0 /\ new \notin used
        /\ \A p \in PropNames, v \in Values :
              LET has(n) == v \in Val(n, p)
              IN  FdtNodeOffsetByPropValue(fdt, -1, p, v) = FirstOf(all, has)
        /\ LET has(n) == \E v \in Val(n, "compatible") : InList(Compatible, v)
           IN  (\A k \in DOMAIN all : \A v \in Val(all[k], "compatible") : IsList(v)) =>
                  FdtNodeOffsetByCompatible(fdt, 0, Compatible) = FirstOf(Tail(all), has)
        /\ \A o \in 0..RootOf(fdt).end - 1 :
              fdt.dtstruct[o + 1].tag # "BEGIN" =>
                 /\ FdtParentOffset(fdt, o) = BADOFFSET
                 /\ FdtGetPath(fdt, o, 100).err = BADOFFSET

=============================================================================
