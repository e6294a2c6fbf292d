------------------------------ MODULE MCDevices ------------------------------
(***************************************************************************)
(* What the board has: the device tree that describes it, and its disk.    *)
(* The two share no state, so a behaviour follows one model and the other  *)
(* one rests.                                                              *)
(*                                                                         *)
(* Small trees that firmware edits in any way, and a board whose tree has  *)
(* everything parse_device_tree() looks for.  Three processes that use the *)
(* disk, with descriptors for two requests at a time and two to spare;     *)
(* ring indices wrap after IdxMod requests.                                *)
(***************************************************************************)
EXTENDS DeviceTree, Disk, TLC

VARIABLE device     \* the part this behaviour follows

ASSUME V!VirtioAssumption

Symmetry == Permutations(Tasks)

-----------------------------------------------------------------------------
(* Names, values and changes of the trees                                  *)

N(base, unit) == [base |-> base, unit |-> unit]
A == N("a", NoUnit)
A1 == N("a", 1)
Aliases == N("aliases", NoUnit)
Root == N("", NoUnit)

MCNameLen ==
    [n \in {Root, A, A1, Aliases, N("cpus", NoUnit), N("cpu", 1), N("cpu", 2), N("cpu-map", NoUnit),
            N("cluster", NoUnit), N("core", 1), N("core", 2), N("memory", 1), N("memory", 2),
            N("distance-map", NoUnit), N("soc", NoUnit)} |->
        CASE n = Root -> 0 [] n = A -> 1 [] n = A1 -> 4 [] OTHER -> 7]

MCPropLen ==
    [p \in {"phandle", "linux,phandle", "compatible", "reg", "cpu", "status", "riscv,isa", "mmu-type",
            "numa-node-id", "distance-matrix", "#address-cells", "#size-cells"} |->
        CASE p = "phandle" -> 7 [] p = "linux,phandle" -> 13 [] OTHER -> 3]

MCTails == {<<"phandle", "linux,phandle">>}

V1 == <<0, 0, 0, 1>>
VList == <<5, 6, 0, 5, 0>>
VOpen == <<6, 0, 5>>
VPath == <<47, 97, 0>>
MCValuePath == [v \in {VPath} |-> <<A>>]

MCNodeNames == {A, A1}
MCSetProps == {"phandle", "compatible"}
MCValues == {V1, VList, VOpen}
MCRsvEntries == {[addr |-> 1, size |-> 1]}
MCRanges == {[addr |-> 1, size |-> 2]}
MCCompatible == <<5>>

-----------------------------------------------------------------------------
(* Blobs from trees                                                        *)

P(p, v) == <<p, v>>
T(name, props, kids) == [name |-> name, props |-> props, kids |-> kids]

\* The strings block of a tree: the names of its properties, without tails.
Strings == <<"linux,phandle", "compatible", "reg", "cpu", "status", "riscv,isa", "mmu-type",
             "numa-node-id", "distance-matrix", "#address-cells", "#size-cells">>

NameOff(strings, p) ==
    LET k == CHOOSE k \in DOMAIN strings : IsTail(p, strings[k])
    IN  [str |-> k, cut |-> MCPropLen[strings[k]] - MCPropLen[p]]

RECURSIVE Items(_, _)
Items(t, strings) ==
    LET sub[k \in 0..Len(t.kids)] == IF k = 0 THEN <<>> ELSE sub[k - 1] \o Items(t.kids[k], strings)
    IN  <<BeginNode(t.name)>>
        \o [k \in DOMAIN t.props |-> Prop(NameOff(strings, t.props[k][1]), t.props[k][2])]
        \o sub[Len(t.kids)] \o <<EndNode>>

\* A blob of version v with slack bytes behind it; its strings lie behind its
\* structure block or before it.
Blob(t, strings, v, slack, reversed) ==
    LET items == Items(t, strings) \o <<FdtEnd>>
        s == Bytes(items)
        n == StringBytes([strings |-> strings])
        first == HeaderSize + RsvSize(1)
        offStruct == IF reversed THEN first + n ELSE first
        offStrings == IF reversed THEN first ELSE first + s
    IN  [magic |-> TRUE, version |-> v, totalsize |-> first + s + n + slack,
         off_mem_rsvmap |-> HeaderSize, at_rsvmap |-> HeaderSize,
         off_dt_struct |-> offStruct, at_struct |-> offStruct,
         size_dt_struct |-> IF v = 17 THEN s ELSE 0,
         off_dt_strings |-> offStrings, at_strings |-> offStrings, size_dt_strings |-> n,
         rsvmap |-> <<>>, dtstruct |-> items, strings |-> strings]

Small == T(Root, <<P("compatible", VList)>>, <<T(A1, <<P("phandle", V1)>>, <<>>)>>)
Aliased == T(Root, <<>>, <<T(A1, <<>>, <<T(A, <<>>, <<>>)>>),
                           T(Aliases, <<P("compatible", VPath)>>, <<>>)>>)

Word(x) == <<0, 0, 0, x>>
Core(unit, ph) == T(N("core", unit), <<P("cpu", Word(ph))>>, <<>>)
Cpu(unit, ph) ==
    T(N("cpu", unit), <<P("reg", Word(unit)), P("phandle", Word(ph)), P("numa-node-id", <<unit>>),
                        P("status", <<9, 0>>), P("riscv,isa", <<8, 8, 0>>), P("mmu-type", <<7, 0>>)>>, <<>>)
Memory(unit, base, size, numa) ==
    T(N("memory", unit), <<P("reg", <<0, 0, 0, 0>> \o Word(base) \o <<0, 0, 0, 0>> \o Word(size)),
                           P("numa-node-id", numa)>>, <<>>)

Board == T(Root, <<P("#address-cells", Word(2)), P("#size-cells", Word(2))>>,
    << T(N("cpus", NoUnit), <<P("#address-cells", Word(1))>>,
          << Cpu(1, 3), Cpu(2, 2),
             T(N("cpu-map", NoUnit), <<>>,
               <<T(N("cluster", NoUnit), <<>>, <<Core(1, 2), Core(2, 3)>>),
                 T(N("cluster", NoUnit), <<>>, <<Core(1, 3)>>)>>) >>),
       T(N("soc", NoUnit), <<>>, <<T(N("memory", 1), <<>>, <<>>)>>),
       Memory(1, 4, 3, <<0, 1>>), Memory(2, 7, 5, Word(2)),
       T(N("distance-map", NoUnit),
         <<P("distance-matrix", Word(0) \o Word(1) \o Word(2) \o Word(1) \o Word(0) \o Word(3))>>, <<>>) >>)

MCStarts ==
    {[fdt |-> Blob(Small, <<"linux,phandle", "compatible">>, 17, 24, FALSE), calls |-> 0],
     [fdt |-> Blob(Small, <<"compatible", "phandle">>, 16, 0, TRUE), calls |-> 0],
     [fdt |-> Blob(Aliased, <<"compatible">>, 17, 20, FALSE), calls |-> 0],
     [fdt |-> [Blob(Small, <<"compatible", "phandle">>, 17, 0, FALSE) EXCEPT !.magic = FALSE], calls |-> 0],
     [fdt |-> Blob(Board, Strings, 17, 0, FALSE), calls |-> 1]}

MCBufSizes == {150, 200}

-----------------------------------------------------------------------------
\* parse_device_tree() ends; main() goes on without it.
Parsed == phase \notin {"firmware", "parse"} /\ UNCHANGED vars

DevicesInit ==
    /\ device \in {"tree", "disk"} /\ Init /\ V!Init
    /\ device = "disk" => ~fdt.magic

TreeNext == device = "tree" /\ (Next \/ Parsed) /\ UNCHANGED <<device, diskVars>>
DiskNext == device = "disk" /\ V!Next /\ UNCHANGED <<device, vars>>

DevicesSpec == DevicesInit /\ [][TreeNext \/ DiskNext]_<<device, vars, diskVars>>
=============================================================================
