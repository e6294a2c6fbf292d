------------------------------- MODULE FdtRead -------------------------------
(***************************************************************************)
(* The read side of libfdt (fdt.c, fdt_ro.c, fdt_addresses.c): how a       *)
(* flattened device tree is walked and searched.  Operators only; FdtEdit  *)
(* has the state.                                                          *)
(*                                                                         *)
(* A blob is a record.  Its three blocks are the memory reserve map        *)
(* (rsvmap), the structure block (dtstruct, a sequence of tagged items)    *)
(* and the strings block (strings, the property names in the order they    *)
(* were added); the other fields are those of the header and the places    *)
(* where the blocks really are.  An offset in the structure block is the   *)
(* number of items before it; sizes are in bytes, as in the code.          *)
(*                                                                         *)
(* A node name is [base, unit], printed base@unit, or base when the unit   *)
(* is NoUnit.  A property value is a sequence of bytes.                    *)
(***************************************************************************)
EXTENDS Integers, Sequences

CONSTANTS
    NameLen,    \* NameLen[n]: strlen of node name n
    PropLen,    \* PropLen[p]: strlen of property name p
    Tails,      \* pairs <<p, q>> of property names: p is a proper tail of q
    ValuePath,  \* ValuePath[v]: the absolute path that value v spells, as
                \* node names; the other values are no path and no alias
    MaxPhandle  \* FDT_MAX_PHANDLE

NoUnit == 0
PropNames == DOMAIN PropLen

\* The error codes, negated as the functions return them.
NOTFOUND == -1
EXISTS == -2
NOSPACE == -3
BADOFFSET == -4
BADPATH == -5
BADPHANDLE == -6
TRUNCATED == -8
BADMAGIC == -9
BADVERSION == -10
BADSTRUCTURE == -11
BADLAYOUT == -12
BADNCELLS == -14
BADVALUE == -15
NOPHANDLES == -17

TagAlign(n) == 4 * ((n + 3) \div 4)

\* Items of the structure block: FDT_BEGIN_NODE, FDT_PROP, FDT_END_NODE,
\* FDT_NOP and FDT_END.
BeginNode(name) == [tag |-> "BEGIN", name |-> name]
Prop(nameoff, val) == [tag |-> "PROP", nameoff |-> nameoff, val |-> val]
EndNode == [tag |-> "END"]
Nop == [tag |-> "NOP"]
FdtEnd == [tag |-> "FIN"]

\* The bytes of an item, alignment included.
ItemSize(i) ==
    CASE i.tag = "BEGIN" -> 4 + TagAlign(NameLen[i.name] + 1)
      [] i.tag = "PROP" -> 12 + TagAlign(Len(i.val))
      [] OTHER -> 4

Bytes(items) ==
    LET sum[k \in 0..Len(items)] == IF k = 0 THEN 0 ELSE sum[k - 1] + ItemSize(items[k])
    IN  sum[Len(items)]

HeaderSize == 40        \* sizeof(struct fdt_header), FDT_V17_SIZE
RsvSize(n) == 16 * n    \* n entries of struct fdt_reserve_entry

-----------------------------------------------------------------------------
(* The header                                                              *)

\* fdt_header_size_(): the header grew by a field with version 17.
FdtHeaderSize(b) == IF b.version <= 16 THEN 36 ELSE HeaderSize

\* check_off_() and check_block_()
CheckOff(b, off) == off >= FdtHeaderSize(b) /\ off <= b.totalsize
CheckBlock(b, base, size) == CheckOff(b, base) /\ CheckOff(b, base + size)

\* fdt_check_header() of a blob at an aligned address
FdtCheckHeader(b) ==
    IF ~b.magic THEN BADMAGIC
    ELSE IF b.totalsize < FdtHeaderSize(b) \/ ~CheckOff(b, b.off_mem_rsvmap) THEN TRUNCATED
    ELSE IF ~(IF b.version < 17 THEN CheckOff(b, b.off_dt_struct)
              ELSE CheckBlock(b, b.off_dt_struct, b.size_dt_struct)) THEN TRUNCATED
    ELSE IF ~CheckBlock(b, b.off_dt_strings, b.size_dt_strings) THEN TRUNCATED
    ELSE 0

\* fdt_ro_probe_()
FdtRoProbe(b) == IF b.magic THEN b.totalsize ELSE BADMAGIC

-----------------------------------------------------------------------------
(* Walking the structure block                                             *)

\* fdt_next_tag(): the tag at an offset, and the offset behind the item.
FdtNextTag(b, o) ==
    IF o \in 0..Len(b.dtstruct) - 1
    THEN [tag |-> b.dtstruct[o + 1].tag, next |-> o + 1]
    ELSE [tag |-> "FIN", next |-> TRUNCATED]

\* fdt_check_node_offset_() and fdt_check_prop_offset_()
CheckOffset(b, o, tag) ==
    IF FdtNextTag(b, o).tag = tag THEN FdtNextTag(b, o).next ELSE BADOFFSET

\* The loop of fdt_next_node() from offset o at depth d: the next node, or
\* the offset behind the end of the node where the depth falls below 0.  An
\* offset below 0 is an error, which is passed on.
RECURSIVE NextNodeFrom(_, _, _)
NextNodeFrom(b, o, d) ==
    LET at(t) == CASE t.tag = "BEGIN" -> [off |-> o, depth |-> d + 1]
                   [] t.tag = "END" /\ d = 0 -> [off |-> t.next, depth |-> -1]
                   [] t.tag = "END" /\ d # 0 -> NextNodeFrom(b, t.next, d - 1)
                   [] t.tag \in {"PROP", "NOP"} -> NextNodeFrom(b, t.next, d)
                   [] t.tag = "FIN" -> [off |-> IF t.next >= 0 THEN NOTFOUND ELSE t.next, depth |-> d]
    IN  IF o < 0 THEN [off |-> o, depth |-> d] ELSE at(FdtNextTag(b, o))

FdtNextNode(b, o, d) == NextNodeFrom(b, IF o < 0 THEN 0 ELSE CheckOffset(b, o, "BEGIN"), d)

\* fdt_next_node() without a depth never leaves the subtree early and takes a
\* block that ends too soon for its end.
NextNodeAnyDepth(b, o) ==
    LET r == FdtNextNode(b, o, Len(b.dtstruct)).off IN IF r = TRUNCATED THEN NOTFOUND ELSE r

FdtFirstSubnode(b, o) ==
    LET r == FdtNextNode(b, o, 0) IN IF r.off < 0 \/ r.depth # 1 THEN NOTFOUND ELSE r.off

RECURSIVE NextSubnodeFrom(_, _, _)
NextSubnodeFrom(b, o, d) ==
    LET r == FdtNextNode(b, o, d)
    IN  IF r.off < 0 \/ r.depth < 1 THEN NOTFOUND
        ELSE IF r.depth > 1 THEN NextSubnodeFrom(b, r.off, r.depth)
        ELSE r.off

FdtNextSubnode(b, o) == NextSubnodeFrom(b, o, 1)

\* fdt_for_each_subnode(): the subnodes of o, in order.
RECURSIVE SubnodesFrom(_, _)
SubnodesFrom(b, o) == IF o < 0 THEN <<>> ELSE <<o>> \o SubnodesFrom(b, FdtNextSubnode(b, o))
ForEachSubnode(b, o) == SubnodesFrom(b, FdtFirstSubnode(b, o))

\* Every node behind o in the order fdt_next_node() gives, and the error that
\* ends the walk: the loop of each search over the whole tree.
RECURSIVE NodesBehind(_, _)
NodesBehind(b, o) ==
    LET n == NextNodeAnyDepth(b, o)
    IN  IF n < 0 THEN [nodes |-> <<>>, err |-> n]
        ELSE LET rest == NodesBehind(b, n) IN [rest EXCEPT !.nodes = <<n>> \o @]

\* The first node behind o that passes the test, or the walk's error.
FirstNode(b, o, Test(_)) ==
    LET first(walk) ==
            LET hits == {k \in DOMAIN walk.nodes : Test(walk.nodes[k])}
            IN  IF hits = {} THEN walk.err ELSE walk.nodes[CHOOSE k \in hits : \A j \in hits : k <= j]
    IN  first(NodesBehind(b, o))

-----------------------------------------------------------------------------
(* Names and properties                                                    *)

\* fdt_get_name()
FdtGetName(b, o) == b.dtstruct[o + 1].name

\* Mutant: the byte behind the compared name is not looked at.
NodenameEqMutant(b, o, name) == FdtGetName(b, o).base = name.base

\* fdt_nodename_eq_(): a name without a unit matches one with any unit.
NodenameEq(b, o, name) ==
    \/ FdtGetName(b, o) = name
    \/ name.unit = NoUnit /\ FdtGetName(b, o).base = name.base

IsTail(p, q) == p = q \/ <<p, q>> \in Tails
NoString == "no string"

\* fdt_get_string(): the string at an offset, which is a string of the block
\* or the tail of one.
FdtGetString(b, off) ==
    IF FdtRoProbe(b) < 0 \/ off.str \notin 1..Len(b.strings) THEN NoString
    ELSE LET q == b.strings[off.str]
         IN  CHOOSE p \in PropNames : IsTail(p, q) /\ PropLen[q] - PropLen[p] = off.cut

\* nextprop_(): NOPs are skipped, anything but a property ends the list.  An
\* offset below 0 is an error, which is passed on.
RECURSIVE Nextprop(_, _)
Nextprop(b, o) ==
    LET at(t) == CASE t.tag = "FIN" -> IF t.next >= 0 THEN BADSTRUCTURE ELSE t.next
                   [] t.tag = "PROP" -> o
                   [] t.tag = "NOP" -> Nextprop(b, t.next)
                   [] t.tag \in {"BEGIN", "END"} -> NOTFOUND
    IN  IF o < 0 THEN o ELSE at(FdtNextTag(b, o))

\* fdt_first_property_offset() and fdt_next_property_offset()
PropertyBehind(b, o, tag) == Nextprop(b, CheckOffset(b, o, tag))

\* fdt_get_property_namelen_(): the offset of the property, or the error.
RECURSIVE PropertyFrom(_, _, _)
PropertyFrom(b, o, p) ==
    IF o < 0 \/ FdtGetString(b, b.dtstruct[o + 1].nameoff) = p THEN o
    ELSE PropertyFrom(b, PropertyBehind(b, o, "PROP"), p)

FdtGetProperty(b, node, p) == PropertyFrom(b, PropertyBehind(b, node, "BEGIN"), p)

\* fdt_getprop(): err is 0 or the error that lenp carries.
FdtGetprop(b, node, p) ==
    LET at(o) == IF o < 0 THEN [err |-> o, val |-> <<>>] ELSE [err |-> 0, val |-> b.dtstruct[o + 1].val]
    IN  at(FdtGetProperty(b, node, p))

\* fdt32_ld(): four bytes, the highest first.
Be32(v) == ((v[1] * 256 + v[2]) * 256 + v[3]) * 256 + v[4]

FdtGetPhandle(b, node) ==
    LET ph == FdtGetprop(b, node, "phandle").val
        linux == FdtGetprop(b, node, "linux,phandle").val
    IN  IF Len(ph) = 4 THEN Be32(ph) ELSE IF Len(linux) = 4 THEN Be32(linux) ELSE 0

\* fdt_find_max_phandle() and fdt_generate_phandle()
FdtFindMaxPhandle(b) ==
    LET highest(walk) ==
            LET all == {FdtGetPhandle(b, walk.nodes[k]) : k \in DOMAIN walk.nodes} \cup {0}
            IN  IF walk.err # NOTFOUND THEN walk.err ELSE CHOOSE m \in all : \A q \in all : q <= m
    IN  highest(NodesBehind(b, -1))

FdtGeneratePhandle(b) ==
    LET behind(m) == IF m < 0 THEN m ELSE IF m = MaxPhandle THEN NOPHANDLES ELSE m + 1
    IN  behind(FdtFindMaxPhandle(b))

FdtNodeOffsetByPhandle(b, ph) ==
    LET test(n) == FdtGetPhandle(b, n) = ph
    IN  IF ph = 0 \/ ph > MaxPhandle THEN BADPHANDLE ELSE FirstNode(b, -1, test)

FdtNodeOffsetByPropValue(b, start, p, val) ==
    LET test(n) == FdtGetprop(b, n, p) = [err |-> 0, val |-> val] IN FirstNode(b, start, test)

\* The strings of a list, each ended by a 0 byte; the last may lack it.
RECURSIVE Split(_)
Split(v) ==
    LET nuls == {k \in DOMAIN v : v[k] = 0}
        cut == CHOOSE k \in nuls : \A j \in nuls : k <= j
    IN  IF nuls = {} THEN [strs |-> <<>>, ended |-> v = <<>>, rest |-> v]
        ELSE LET rest == Split(SubSeq(v, cut + 1, Len(v)))
             IN  [rest EXCEPT !.strs = <<SubSeq(v, 1, cut - 1)>> \o @]

\* fdt_stringlist_count(), fdt_stringlist_search() and fdt_stringlist_get()
FdtStringlistCount(b, node, p) ==
    LET r == FdtGetprop(b, node, p)
    IN  IF r.err < 0 THEN r.err ELSE IF Split(r.val).ended THEN Len(Split(r.val).strs) ELSE BADVALUE

FdtStringlistSearch(b, node, p, str) ==
    LET r == FdtGetprop(b, node, p)
        list == Split(r.val)
        hits == {k \in DOMAIN list.strs : list.strs[k] = str}
    IN  IF r.err < 0 THEN r.err
        ELSE IF hits # {} THEN (CHOOSE k \in hits : \A j \in hits : k <= j) - 1
        ELSE IF list.ended THEN NOTFOUND ELSE BADVALUE

FdtStringlistGet(b, node, p, idx) ==
    LET r == FdtGetprop(b, node, p)
        list == Split(r.val)
    IN  IF r.err < 0 THEN [err |-> r.err, str |-> <<>>]
        ELSE IF idx < Len(list.strs) THEN [err |-> 0, str |-> list.strs[idx + 1]]
        ELSE [err |-> IF list.ended THEN NOTFOUND ELSE BADVALUE, str |-> <<>>]

\* fdt_stringlist_contains() compares one byte more than the string, so that
\* an unended last string matches too when the byte behind the value is a 0: the
\* first byte of the next tag is one, and padding is taken to be.
FdtStringlistContains(v, str) ==
    LET list == Split(v)
    IN  (\E k \in DOMAIN list.strs : list.strs[k] = str) \/ (~list.ended /\ list.rest = str)

\* fdt_node_check_compatible(): 0 when the node is compatible.
FdtNodeCheckCompatible(b, node, str) ==
    LET r == FdtGetprop(b, node, "compatible")
    IN  IF r.err < 0 THEN r.err ELSE IF FdtStringlistContains(r.val, str) THEN 0 ELSE 1

\* fdt_node_offset_by_compatible(): an error of the check other than a
\* missing property would end the walk.
FdtNodeOffsetByCompatible(b, start, str) ==
    LET ends(n) == FdtNodeCheckCompatible(b, n, str) \notin {1, NOTFOUND}
        found(n) ==
            IF n < 0 THEN n
            ELSE IF FdtNodeCheckCompatible(b, n, str) < 0 THEN FdtNodeCheckCompatible(b, n, str) ELSE n
    IN  found(FirstNode(b, start, ends))

-----------------------------------------------------------------------------
(* Places in the tree                                                      *)

\* fdt_subnode_offset(): the loop at offset o and depth d.
RECURSIVE SubnodeFrom(_, _, _, _)
SubnodeFrom(b, o, d, name) ==
    IF d < 0 THEN NOTFOUND
    ELSE IF o < 0 \/ (d = 1 /\ NodenameEq(b, o, name)) THEN o
    ELSE LET r == FdtNextNode(b, o, d) IN SubnodeFrom(b, r.off, r.depth, name)

FdtSubnodeOffset(b, o, name) ==
    IF FdtRoProbe(b) < 0 THEN FdtRoProbe(b) ELSE SubnodeFrom(b, o, 0, name)

\* The components of a path, one fdt_subnode_offset() each.
RECURSIVE PathFrom(_, _, _)
PathFrom(b, o, path) ==
    IF o < 0 \/ path = <<>> THEN o ELSE PathFrom(b, FdtSubnodeOffset(b, o, Head(path)), Tail(path))

NoAlias == "no alias"
AliasesName == [base |-> "aliases", unit |-> NoUnit]

\* fdt_path_offset(): a path that does not start with a slash starts with an
\* alias, a property of /aliases whose value is a path.
FdtPathOffset(b, alias, path) ==
    LET aliases == PathFrom(b, 0, <<AliasesName>>)
        v == FdtGetprop(b, aliases, alias)
    IN  IF FdtRoProbe(b) < 0 THEN FdtRoProbe(b)
        ELSE IF alias = NoAlias THEN PathFrom(b, 0, path)
        ELSE IF aliases < 0 \/ v.err < 0 \/ v.val \notin DOMAIN ValuePath THEN BADPATH
        ELSE PathFrom(b, PathFrom(b, 0, ValuePath[v.val]), path)

\* fdt_get_path(): buf holds the names on the way to offset o; a name that
\* does not fit is left out.
PathBytes(names) ==
    LET sum[k \in 0..Len(names)] == IF k = 0 THEN 0 ELSE sum[k - 1] + NameLen[names[k]] + 1
    IN  sum[Len(names)]

RECURSIVE GetPathFrom(_, _, _, _, _, _)
GetPathFrom(b, o, d, buf, node, buflen) ==
    IF o < 0 \/ o > node THEN [err |-> BADOFFSET, path |-> <<>>]
    ELSE LET kept == SubSeq(buf, 1, IF Len(buf) > d THEN d ELSE Len(buf))
             name == FdtGetName(b, o)
             names == IF Len(kept) >= d /\ PathBytes(kept) + NameLen[name] + 1 <= buflen
                      THEN Append(kept, name) ELSE kept
             r == FdtNextNode(b, o, d)
         IN  IF o # node THEN GetPathFrom(b, r.off, r.depth, names, node, buflen)
             ELSE IF Len(names) < d + 1 THEN [err |-> NOSPACE, path |-> <<>>]
             ELSE [err |-> 0, path |-> Tail(names)]

FdtGetPath(b, node, buflen) ==
    IF FdtRoProbe(b) < 0 THEN [err |-> FdtRoProbe(b), path |-> <<>>]
    ELSE IF buflen < 2 THEN [err |-> NOSPACE, path |-> <<>>]
    ELSE GetPathFrom(b, 0, 0, <<>>, node, buflen)

\* fdt_supernode_atdepth_offset(): the last node met at the wanted depth.
RECURSIVE SupernodeFrom(_, _, _, _, _, _)
SupernodeFrom(b, o, d, super, node, wanted) ==
    IF o < 0 \/ o > node THEN [off |-> BADOFFSET, depth |-> 0]
    ELSE LET s == IF d = wanted THEN o ELSE super
             r == FdtNextNode(b, o, d)
         IN  IF o = node THEN [off |-> IF wanted > d THEN NOTFOUND ELSE s, depth |-> d]
             ELSE SupernodeFrom(b, r.off, r.depth, s, node, wanted)

FdtSupernodeAtdepthOffset(b, node, wanted) ==
    IF FdtRoProbe(b) < 0 THEN [off |-> FdtRoProbe(b), depth |-> 0]
    ELSE IF wanted < 0 THEN [off |-> NOTFOUND, depth |-> 0]
    ELSE SupernodeFrom(b, 0, 0, -13, node, wanted)

FdtNodeDepth(b, node) ==
    LET r == FdtSupernodeAtdepthOffset(b, node, 0) IN IF r.off # 0 THEN r.off ELSE r.depth

FdtParentOffset(b, node) ==
    LET d == FdtNodeDepth(b, node)
    IN  IF d < 0 THEN d ELSE FdtSupernodeAtdepthOffset(b, node, d - 1).off

-----------------------------------------------------------------------------
(* Cells                                                                   *)

FDT_MAX_NCELLS == 4

FdtCells(b, node, p) ==
    LET c == FdtGetprop(b, node, p)
    IN  IF c.err < 0 THEN c.err
        ELSE IF Len(c.val) # 4 THEN BADNCELLS
        ELSE IF Be32(c.val) > FDT_MAX_NCELLS THEN BADNCELLS ELSE Be32(c.val)

FdtAddressCells(b, node) ==
    LET v == FdtCells(b, node, "#address-cells")
    IN  IF v = 0 THEN BADNCELLS ELSE IF v = NOTFOUND THEN 2 ELSE v

FdtSizeCells(b, node) ==
    LET v == FdtCells(b, node, "#size-cells") IN IF v = NOTFOUND THEN 1 ELSE v

=============================================================================
