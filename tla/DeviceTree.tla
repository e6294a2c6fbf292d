----------------------------- MODULE DeviceTree ------------------------------
(***************************************************************************)
(* How the kernel reads the device tree at boot (kernel/device_tree.c): a  *)
(* firmware that prepares the blob with libfdt's calls, and the boot hart, *)
(* which takes it over and runs parse_device_tree() on it.                 *)
(*                                                                         *)
(* One step parses one subnode of the root.  A string of the blob is taken *)
(* to fit the field it is copied to (MAX_INFO_STR_LEN), and the nodes of a *)
(* kind the arrays of device_tree.                                         *)
(***************************************************************************)
EXTENDS FdtEdit, FiniteSets

LOCAL INSTANCE SequencesExt

CONSTANTS
    Starts,     \* the blobs a firmware may start from, each with the number
                \* of calls it has made already
    MaxCalls    \* bound on the firmware's calls that change the blob

VARIABLES
    phase,      \* "firmware", "parse", "booted", "refused" or "fault"
    calls,      \* calls made so far
    cursor,     \* offset: the root's subnode to parse next
    cells,      \* address_cells and size_cells
    dt          \* the device_tree structure

vars == <<fdt, phase, calls, cursor, cells, dt>>
boot == <<phase, cursor, cells, dt>>

NoCpu == [cpu_id |-> 0, phandle |-> 0, numa |-> 0, status |-> <<>>, isa |-> <<>>, mmu |-> <<>>]
NoMem == [numa |-> 0, base |-> 0, size |-> 0]
NoDt == [cpus |-> <<>>, nodes |-> <<>>, memory |-> <<>>, distance |-> <<>>]

Plain(base) == [base |-> base, unit |-> NoUnit]
HasUnit(name, base) == name.base = base /\ name.unit # NoUnit

\* Cell i of a value; a read behind its end finds the next item's bytes.
Cell(v, i) == IF 4 * i + 4 <= Len(v) THEN Be32(SubSeq(v, 4 * i + 1, 4 * i + 4)) ELSE CellMod

\* n cells from cell i on as a 64-bit number
Number(v, i, n) ==
    LET num[k \in 0..n] == IF k = 0 THEN 0 ELSE (num[k - 1] * CellMod + Cell(v, i + k - 1)) % (CellMod * CellMod)
    IN  num[n]

\* The bytes strlen() counts.
CString(v) == IF Split(v).strs = <<>> THEN v ELSE Split(v).strs[1]

-----------------------------------------------------------------------------
(* The parser                                                              *)

\* get_prop_of_node(): a value of another length leaves the field as it was.
GetPropOfNode(b, node, p) ==
    LET r == FdtGetprop(b, node, p)
    IN  IF r.err < 0 THEN [err |-> -1, val |-> 0]
        ELSE [err |-> 0, val |-> CASE Len(r.val) = 1 -> r.val[1]
                                   [] Len(r.val) = 2 -> r.val[1] * 256 + r.val[2]
                                   [] Len(r.val) = 4 -> Be32(r.val)
                                   [] OTHER -> 0]

\* A parser returns dt and whether it faults: {FALSE}, {TRUE} or, where the
\* outcome is undefined, both.  A missing numa-node-id is reported with the
\* node's offset as the argument of %s.
Fine(d) == [dt |-> d, fault |-> {FALSE}]
Undefined(d) == [dt |-> d, fault |-> BOOLEAN]

\* parse_cpu_node(): an entry is counted before anything of it is read, and
\* the strings are read without a look at the pointer.
ParseCpuNode(b, node, d) ==
    LET reg == FdtGetprop(b, node, "reg")
        numa == GetPropOfNode(b, node, "numa-node-id")
        status == FdtGetprop(b, node, "status")
        isa == FdtGetprop(b, node, "riscv,isa")
        mmu == FdtGetprop(b, node, "mmu-type")
        named == [NoCpu EXCEPT !.cpu_id = Cell(reg.val, 0), !.phandle = FdtGetPhandle(b, node)]
        full == [named EXCEPT !.numa = numa.val, !.status = CString(status.val),
                              !.isa = CString(isa.val), !.mmu = CString(mmu.val)]
        with(cpu) == [d EXCEPT !.cpus = Append(@, cpu)]
    IN  IF reg.err < 0 THEN Fine(with(NoCpu))
        ELSE IF numa.err < 0 THEN Undefined(with(named))
        ELSE [dt |-> with(full), fault |-> {status.err < 0 \/ isa.err < 0 \/ mmu.err < 0}]

\* parse_cpu_map_node(): a core without "cpu" ends the whole map.
RECURSIVE ParseCores(_, _, _)
ParseCores(b, cores, got) ==
    IF cores = <<>> THEN [got |-> got, err |-> FALSE]
    ELSE LET cpu == FdtGetprop(b, Head(cores), "cpu")
         IN  IF cpu.err < 0 THEN [got |-> got, err |-> TRUE]
             ELSE ParseCores(b, Tail(cores), Append(got, Cell(cpu.val, 0)))

RECURSIVE ParseClusters(_, _, _)
ParseClusters(b, clusters, d) ==
    IF clusters = <<>> THEN d
    ELSE LET r == ParseCores(b, ForEachSubnode(b, Head(clusters)), <<>>)
             with == [d EXCEPT !.nodes = Append(@, r.got)]
         IN  IF r.err THEN with ELSE ParseClusters(b, Tail(clusters), with)

\* parse_cpus_node() on one subnode
ParseCpusSubnode(b, node, d) ==
    LET name == FdtGetName(b, node)
    IN  IF HasUnit(name, "cpu") THEN ParseCpuNode(b, node, d)
        ELSE IF name = Plain("cpu-map") THEN Fine(ParseClusters(b, ForEachSubnode(b, node), d))
        ELSE Fine(d)

\* parse_cpus_node(); what its calls return is ignored.
RECURSIVE ParseCpus(_, _, _)
ParseCpus(b, nodes, d) ==
    LET behind(r) ==
            IF FALSE \notin r.fault THEN r
            ELSE [ParseCpus(b, Tail(nodes), r.dt) EXCEPT !.fault = @ \cup (r.fault \ {FALSE})]
    IN  IF nodes = <<>> THEN Fine(d) ELSE behind(ParseCpusSubnode(b, Head(nodes), d))

\* Mutant: a reg property with no bytes to spare is taken for too short.
ParseMemoryNodeMutant(b, node, ac, sc, d) ==
    LET reg == FdtGetprop(b, node, "reg")
        numa == GetPropOfNode(b, node, "numa-node-id")
        with(mem) == [d EXCEPT !.memory = Append(@, mem)]
    IN  IF reg.err < 0 THEN Fine(with(NoMem))
        ELSE IF numa.err < 0 THEN Undefined(with(NoMem))
        ELSE IF ac < 0 \/ sc < 0 \/ Len(reg.val) <= 4 * (ac + sc) THEN Fine(with([NoMem EXCEPT !.numa = numa.val]))
        ELSE Fine(with([numa |-> numa.val, base |-> Number(reg.val, 0, ac), size |-> Number(reg.val, ac, sc)]))

\* parse_memory_node()
ParseMemoryNode(b, node, ac, sc, d) ==
    LET reg == FdtGetprop(b, node, "reg")
        numa == GetPropOfNode(b, node, "numa-node-id")
        with(mem) == [d EXCEPT !.memory = Append(@, mem)]
    IN  IF reg.err < 0 THEN Fine(with(NoMem))
        ELSE IF numa.err < 0 THEN Undefined(with(NoMem))
        ELSE IF ac < 0 \/ sc < 0 \/ Len(reg.val) < 4 * (ac + sc) THEN Fine(with([NoMem EXCEPT !.numa = numa.val]))
        ELSE Fine(with([numa |-> numa.val, base |-> Number(reg.val, 0, ac), size |-> Number(reg.val, ac, sc)]))

\* parse_distance_map_node(): three cells an entry.
ParseDistanceMapNode(b, node, d) ==
    LET m == FdtGetprop(b, node, "distance-matrix").val
    IN  [d EXCEPT !.distance = @ \o
            [k \in 1..(Len(m) \div 4 + 2) \div 3 |->
                [src |-> Cell(m, 3 * k - 3), dst |-> Cell(m, 3 * k - 2), value |-> Cell(m, 3 * k - 1)]]]

\* parse_device_tree() on one subnode of the root
ParseNode(b, node, ac, sc, d) ==
    LET name == FdtGetName(b, node)
    IN  IF HasUnit(name, "memory") THEN ParseMemoryNode(b, node, ac, sc, d)
        ELSE IF name = Plain("cpus") THEN ParseCpus(b, ForEachSubnode(b, node), d)
        ELSE IF name = Plain("distance-map") THEN Fine(ParseDistanceMapNode(b, node, d))
        ELSE Fine(d)

-----------------------------------------------------------------------------
(* ram_start(), ram_size(), ram_end() and cpu_of_phandle()                 *)

RamStart == IF dt.memory = <<>> THEN 0 ELSE dt.memory[1].base
RamSize == FoldLeft(LAMBDA sum, m : sum + m.size, 0, dt.memory)
RamEnd == FoldLeft(LAMBDA end, m : IF m.base + m.size > end THEN m.base + m.size ELSE end, 0, dt.memory)

CpuOfPhandle(ph) ==
    LET hits == {k \in DOMAIN dt.cpus : dt.cpus[k].phandle = ph}
    IN  IF hits = {} THEN 0 ELSE CHOOSE k \in hits : \A j \in hits : k <= j

-----------------------------------------------------------------------------
Init ==
    /\ \E s \in Starts : fdt = s.fdt /\ calls = s.calls
    /\ phase = "firmware"
    /\ cursor = 0 /\ cells = <<0, 0>> /\ dt = NoDt

\* A call that changes the blob; the others are stuttering steps.
Firmware ==
    /\ phase = "firmware" /\ calls < MaxCalls
    /\ Edit /\ fdt' # fdt
    /\ calls' = calls + 1
    /\ UNCHANGED boot

\* main() calls parse_device_tree(): the header, the root, the cells of its
\* subnodes.  After a failure main() goes on with an empty structure.
Start ==
    /\ phase = "firmware"
    /\ IF FdtCheckHeader(fdt) # 0 \/ FdtPathOffset(fdt, NoAlias, <<>>) < 0
       THEN phase' = "refused" /\ UNCHANGED <<cursor, cells>>
       ELSE /\ phase' = "parse"
            /\ cells' = <<FdtAddressCells(fdt, 0), FdtSizeCells(fdt, 0)>>
            /\ cursor' = FdtFirstSubnode(fdt, 0)
    /\ dt' = NoDt
    /\ UNCHANGED <<fdt, calls>>

ParseSubnode ==
    /\ phase = "parse" /\ cursor >= 0
    /\ LET r == ParseNode(fdt, cursor, cells[1], cells[2], dt)
       IN  dt' = r.dt /\ \E fault \in r.fault : phase' = IF fault THEN "fault" ELSE "parse"
    /\ cursor' = FdtNextSubnode(fdt, cursor)
    /\ UNCHANGED <<fdt, calls, cells>>

Finish ==
    /\ phase = "parse" /\ cursor < 0
    /\ phase' = "booted"
    /\ UNCHANGED <<fdt, calls, cursor, cells, dt>>

Next == Firmware \/ Start \/ ParseSubnode \/ Finish

Spec == Init /\ [][Next]_vars

-----------------------------------------------------------------------------
(* What a tree describes                                                   *)

\* The subnodes of n whose name passes, and those of several nodes.
Subnodes(n, Test(_)) == SelectSeq(n.kids, LAMBDA k : Test(k.name))
SubnodesOfAll(nodes, Test(_)) == FlattenSeq([k \in DOMAIN nodes |-> Subnodes(nodes[k], Test)])

IsCpus(name) == name = Plain("cpus")
IsCpu(name) == HasUnit(name, "cpu")
IsMap(name) == name = Plain("cpu-map")
IsMemory(name) == HasUnit(name, "memory")
IsDistance(name) == name = Plain("distance-map")
AnyName(name) == TRUE

Missing(n, p) == Val(n, p) = {}
ValueOf(n, p) == IF Missing(n, p) THEN <<>> ELSE CHOOSE v \in Val(n, p) : TRUE
SmallNumber(v) == IF Len(v) \in {1, 2, 4} THEN FoldLeft(LAMBDA x, byte : x * 256 + byte, 0, v) ELSE 0

CpuDescribed(n) ==
    IF Missing(n, "reg") THEN NoCpu
    ELSE LET id == [NoCpu EXCEPT !.cpu_id = Cell(ValueOf(n, "reg"), 0), !.phandle = PhandleOf(n)]
         IN  IF Missing(n, "numa-node-id") THEN id
             ELSE [id EXCEPT !.numa = SmallNumber(ValueOf(n, "numa-node-id")),
                             !.status = CString(ValueOf(n, "status")),
                             !.isa = CString(ValueOf(n, "riscv,isa")),
                             !.mmu = CString(ValueOf(n, "mmu-type"))]

\* What the parser needs in a processor to read it at all.
Unreadable(n) ==
    /\ ~Missing(n, "reg") /\ ~Missing(n, "numa-node-id")
    /\ Missing(n, "status") \/ Missing(n, "riscv,isa") \/ Missing(n, "mmu-type")

\* A node, as sequences have them, that has a register but no NUMA node.
Unplaced(nodes) == \E k \in DOMAIN nodes : ~Missing(nodes[k], "reg") /\ Missing(nodes[k], "numa-node-id")

\* The number of cells a property of the root asks for, or a default; more
\* than four, or another length, is an error.
CellsDescribed(root, p, default) ==
    LET v == ValueOf(root, p)
    IN  IF Missing(root, p) THEN default
        ELSE IF Len(v) # 4 THEN BADNCELLS
        ELSE IF SmallNumber(v) > FDT_MAX_NCELLS \/ (SmallNumber(v) = 0 /\ p = "#address-cells") THEN BADNCELLS
        ELSE SmallNumber(v)

MemDescribed(root, n) ==
    LET ac == CellsDescribed(root, "#address-cells", 2)
        sc == CellsDescribed(root, "#size-cells", 1)
        reg == ValueOf(n, "reg")
    IN  IF Missing(n, "reg") \/ Missing(n, "numa-node-id") THEN NoMem
        ELSE LET numa == SmallNumber(ValueOf(n, "numa-node-id"))
             IN  IF ac < 0 \/ sc < 0 \/ Len(reg) < 4 * (ac + sc) THEN [NoMem EXCEPT !.numa = numa]
                 ELSE [numa |-> numa, base |-> Number(reg, 0, ac), size |-> Number(reg, ac, sc)]

\* The memory nodes follow each other without a gap, from the first one on.
Contiguous(mem) == \A k \in 2..Len(mem) : mem[k].base = mem[k - 1].base + mem[k - 1].size

\* A kernel that has booted from a blob knows exactly what the blob's tree
\* describes, in the order of the nodes: the processors, the cores of each
\* cluster up to the first one that names no processor, the memory ranges and
\* the distances.  It finds the processor of a phandle, and its RAM ends where
\* the last range does when the ranges are contiguous.  Parsing faults only
\* on a processor without status, riscv,isa or mmu-type or on a node without
\* numa-node-id.
ParseExact ==
    LET root == RootOf(fdt).node
        cpus == SubnodesOfAll(Subnodes(root, IsCpus), IsCpu)
        clusters == SubnodesOfAll(SubnodesOfAll(Subnodes(root, IsCpus), IsMap), AnyName)
        coresOf(c) == [k \in DOMAIN c.kids |-> Cell(ValueOf(c.kids[k], "cpu"), 0)]
        bad(c) == {k \in DOMAIN c.kids : Missing(c.kids[k], "cpu")}
        mems == Subnodes(root, IsMemory)
        matrix == FlattenSeq([k \in DOMAIN Subnodes(root, IsDistance) |->
                                ValueOf(Subnodes(root, IsDistance)[k], "distance-matrix")])
    IN  /\ phase = "booted" /\ HasRoot(fdt) =>
              /\ dt.cpus = [k \in DOMAIN cpus |-> CpuDescribed(cpus[k])]
              /\ \A k \in DOMAIN cpus : ~Unreadable(cpus[k])
              /\ Len(dt.nodes) <= Len(clusters)
              /\ \A k \in DOMAIN dt.nodes : bad(clusters[k]) = {} => dt.nodes[k] = coresOf(clusters[k])
              /\ Len(dt.nodes) < Len(clusters) => bad(clusters[Len(dt.nodes)]) # {}
              /\ dt.memory = [k \in DOMAIN mems |-> MemDescribed(root, mems[k])]
              /\ Contiguous(dt.memory) => RamEnd = RamStart + RamSize
              /\ FlattenSeq([k \in DOMAIN dt.distance |->
                    <<dt.distance[k].src, dt.distance[k].dst, dt.distance[k].value>>])
                 = [i \in 1..Len(matrix) \div 4 |-> Cell(matrix, i - 1)]
              /\ \A k \in DOMAIN cpus : dt.cpus[k].phandle # 0 =>
                    \E j \in 1..k : /\ CpuOfPhandle(dt.cpus[k].phandle) = j
                                    /\ PhandleOf(cpus[j]) = PhandleOf(cpus[k])
        /\ phase = "fault" => (\E k \in DOMAIN cpus : Unreadable(cpus[k])) \/ Unplaced(cpus) \/ Unplaced(mems)
        /\ phase = "refused" => ~fdt.magic

=============================================================================
