------------------------------- MODULE Blocks -------------------------------
(***************************************************************************)
(* The blocks of files: balloc(), bfree(), bmap(), itrunc(), readi() and   *)
(* writei() of kernel/fs.c under fileread() and filewrite() of             *)
(* kernel/file.c, on the disk that the log promises (TxDisk): blocks that  *)
(* were logged reach the disk together, when the last operation ends, and  *)
(* what a crash leaves is what the disk had then.                          *)
(*                                                                         *)
(* One step of a write is one block: others, who hold other inodes, may    *)
(* allocate and free blocks between two of them.  The disk is the boot     *)
(* block, one block of inodes, one of the bitmap, and data.  A number of a *)
(* block takes as much room as a byte.                                     *)
(***************************************************************************)
EXTENDS Integers, Sequences, FiniteSets

CONSTANTS
    Procs,          \* processes, as numbers
    Nobody,         \* the holder of a free lock
    Inums,
    Files, Ino,     \* open files; Ino[f] is the inode of f
    Size,           \* sb.size
    BSIZE, NDIRECT, MAXOPBLOCKS,
    Starts,         \* disks that the kernel may find
    Lengths,        \* what programs read and write
    MaxCalls        \* bound on the calls

NINDIRECT == BSIZE
MAXFILE == NDIRECT + NINDIRECT

BlocksAssumption ==
    /\ Procs \cup Inums \cup Lengths \subseteq Nat /\ Nobody \notin Procs
    /\ Ino \in [Files -> Inums]
    /\ Size \in Nat /\ Size > 3 /\ BSIZE \in Nat \ {0} /\ NDIRECT \in Nat /\ MAXOPBLOCKS >= 6

InodeBlock == 1
Bitmap == 2
Metadata == 0..2
AllBlocks == 0..Size - 1
Zero == [k \in 0..BSIZE - 1 |-> 0]

\* Byte k of what process p writes; no byte is 0 and none is Torn.
UserByte(p, k) == 10 * p + k
Torn == 1

VARIABLES
    cache,      \* cache[b]: block b as bread() returns it
    home,       \* home[b]: block b on the disk
    lh,         \* the blocks in the log
    ops,        \* the processes between begin_op() and end_op()
    wrote,      \* history: wrote[p] is the blocks p's operation has logged
    inode,      \* inode[i]: size and addrs of the inode in memory
    lock,       \* lock[i]: who holds ip->lock
    off,        \* off[f]: f->off
    pc, req,    \* where p is, and the locals of its call
    calls,      \* calls made
    shown,      \* history: shown[i] is what the file was when it was locked
    torn        \* history: bytes <<i, k>> that a failed copy left undefined

disk == <<cache, home, lh, ops, wrote>>
vars == <<disk, inode, lock, off, pc, req, calls, shown, torn>>

EmptyFile == [size |-> 0, addrs |-> [k \in 0..NDIRECT |-> 0]]
NoReq == [op |-> "none", file |-> CHOOSE f \in Files : TRUE, n |-> 0, i |-> 0, n1 |-> 0, tot |-> 0, r |-> 0]

\* Files as they may be when the kernel has run for a while: open, and read up
\* to the end or not at all.
Init ==
    /\ cache \in Starts /\ home = cache /\ lh = {}
    /\ ops = {} /\ wrote = [p \in Procs |-> {}]
    /\ inode = cache[InodeBlock] /\ lock = [i \in Inums |-> Nobody]
    /\ \E read \in SUBSET Files :
          off = [f \in Files |-> IF f \in read THEN cache[InodeBlock][Ino[f]].size ELSE 0]
    /\ pc = [p \in Procs |-> "idle"] /\ req = [p \in Procs |-> NoReq] /\ calls = 0
    /\ shown = [i \in Inums |-> <<>>] /\ torn = {}

-----------------------------------------------------------------------------
(* kernel/fs.c.  A call works on d, the cache with what it logs, and ip.   *)

Buffers == [cache |-> cache, logged |-> {}, panic |-> FALSE]

\* log_write() of a buffer that was changed.
LogWrite(d, b, v) == [d EXCEPT !.cache[b] = v, !.logged = @ \cup {b}]

\* balloc() and bzero(): the first free block, with zeros in it.
Balloc(d) ==
    LET free == AllBlocks \ d.cache[Bitmap]
        b == CHOOSE x \in free : \A y \in free : x <= y
    IN  IF free = {} THEN [addr |-> 0, d |-> d]
        ELSE [addr |-> b, d |-> LogWrite(LogWrite(d, Bitmap, d.cache[Bitmap] \cup {b}), b, Zero)]

\* bfree() of a set of blocks
Bfree(d, blocks) ==
    IF blocks = {} THEN d
    ELSE [LogWrite(d, Bitmap, d.cache[Bitmap] \ blocks) EXCEPT !.panic = @ \/ ~(blocks \subseteq d.cache[Bitmap])]

\* Mutant: an indirect block without a data block behind it is not kept.
BmapMutant(d, ip, bn) ==
    LET slot == IF bn < NDIRECT THEN bn ELSE NDIRECT
        top == IF ip.addrs[slot] # 0 THEN [addr |-> ip.addrs[slot], d |-> d] ELSE Balloc(d)
        ip1 == [ip EXCEPT !.addrs[slot] = top.addr]
        a == top.d.cache[top.addr]
        sub == IF a[bn - NDIRECT] # 0 THEN [addr |-> a[bn - NDIRECT], d |-> top.d] ELSE Balloc(top.d)
    IN  IF bn < NDIRECT \/ top.addr = 0 THEN [addr |-> top.addr, d |-> top.d, ip |-> ip1]
        ELSE IF sub.addr = 0 THEN [addr |-> 0, d |-> sub.d, ip |-> ip]
        ELSE [addr |-> sub.addr, d |-> LogWrite(sub.d, top.addr, [a EXCEPT ![bn - NDIRECT] = sub.addr]), ip |-> ip1]

\* bmap(): the address of block bn of ip, allocated if there is none; 0 when
\* the disk is full, even if an indirect block was allocated before.
Bmap(d, ip, bn) ==
    LET slot == IF bn < NDIRECT THEN bn ELSE NDIRECT
        top == IF ip.addrs[slot] # 0 THEN [addr |-> ip.addrs[slot], d |-> d] ELSE Balloc(d)
        ip1 == [ip EXCEPT !.addrs[slot] = top.addr]
        a == top.d.cache[top.addr]
        sub == IF a[bn - NDIRECT] # 0 THEN [addr |-> a[bn - NDIRECT], d |-> top.d] ELSE Balloc(top.d)
    IN  IF bn < NDIRECT \/ top.addr = 0 THEN [addr |-> top.addr, d |-> top.d, ip |-> ip1]
        ELSE IF a[bn - NDIRECT] # 0 THEN [addr |-> sub.addr, d |-> sub.d, ip |-> ip1]
        ELSE IF sub.addr = 0 THEN [addr |-> 0, d |-> sub.d, ip |-> ip1]
        ELSE [addr |-> sub.addr, d |-> LogWrite(sub.d, top.addr, [a EXCEPT ![bn - NDIRECT] = sub.addr]), ip |-> ip1]

\* iupdate()
Iupdate(d, i, ip) == LogWrite(d, InodeBlock, [d.cache[InodeBlock] EXCEPT ![i] = ip])

\* itrunc(): the direct blocks, those of the indirect block, and itself.
Itrunc(d, i) ==
    LET ip == inode[i]
        direct == {ip.addrs[k] : k \in 0..NDIRECT - 1} \ {0}
        ind == ip.addrs[NDIRECT]
        indirect == IF ind = 0 THEN {} ELSE {ind} \cup ({d.cache[ind][j] : j \in 0..NINDIRECT - 1} \ {0})
    IN  Iupdate(Bfree(d, direct \cup indirect), i, EmptyFile)

\* The address of block bn, 0 if there is none.
Mapped(dsk, ip, bn) ==
    IF bn < NDIRECT THEN ip.addrs[bn]
    ELSE IF ip.addrs[NDIRECT] = 0 THEN 0 ELSE dsk[ip.addrs[NDIRECT]][bn - NDIRECT]

\* The bytes of a file
Bytes(dsk, ip) == [k \in 1..ip.size |-> dsk[Mapped(dsk, ip, (k - 1) \div BSIZE)][(k - 1) % BSIZE]]
Visible(i) == LET s == Bytes(cache, inode[i])
              IN  [k \in DOMAIN s |-> IF <<i, k - 1>> \in torn THEN Torn ELSE s[k]]

-----------------------------------------------------------------------------
(* kernel/file.c                                                           *)

\* What filewrite() writes in one operation
MaxChunk == ((MAXOPBLOCKS - 1 - 1 - 2) \div 2) * BSIZE

Least(x, y) == IF x < y THEN x ELSE y
GoTo(p, label) == pc' = [pc EXCEPT ![p] = label]
InodeOf(p) == Ino[req[p].file]
Apply(p, d) == cache' = d.cache /\ lh' = lh \cup d.logged /\ wrote' = [wrote EXCEPT ![p] = @ \cup d.logged]

\* sys_write() or an open() with O_TRUNC
Call(p) ==
    /\ pc[p] = "idle" /\ calls < MaxCalls
    /\ \E f \in Files, op \in {"write", "trunc"}, n \in Lengths :
          /\ op = "trunc" => n = CHOOSE x \in Lengths : TRUE
          /\ req' = [req EXCEPT ![p] = [NoReq EXCEPT !.op = op, !.file = f, !.n = n]]
    /\ calls' = calls + 1
    /\ GoTo(p, "begin")
    /\ UNCHANGED <<disk, inode, lock, off, shown, torn>>

Begin(p) ==
    /\ pc[p] = "begin"
    /\ ops' = ops \cup {p} /\ wrote' = [wrote EXCEPT ![p] = {}]
    /\ req' = [req EXCEPT ![p].n1 = Least(req[p].n - req[p].i, MaxChunk), ![p].tot = 0]
    /\ GoTo(p, "ilock")
    /\ UNCHANGED <<cache, home, lh, inode, lock, off, calls, shown, torn>>

\* ilock(), and the checks of writei()
Ilock(p) ==
    LET i == InodeOf(p)
        o == off[req[p].file]
        refused == o > inode[i].size \/ o + req[p].n1 > MAXFILE * BSIZE
    IN  /\ pc[p] = "ilock" /\ lock[i] = Nobody
        /\ lock' = [lock EXCEPT ![i] = p] /\ shown' = [shown EXCEPT ![i] = Visible(i)]
        /\ IF req[p].op = "trunc" THEN GoTo(p, "trunc") /\ UNCHANGED req
           ELSE IF refused THEN GoTo(p, "iunlock") /\ req' = [req EXCEPT ![p].r = -1]
           ELSE GoTo(p, "copy") /\ UNCHANGED req
        /\ UNCHANGED <<disk, inode, off, calls, torn>>

\* One turn of writei()'s loop: the block is there or allocated, m bytes are
\* copied or, if the program's memory is bad, fewer, and then not logged.
CopyBlock(p) ==
    LET r == req[p]
        i == InodeOf(p)
        o == off[r.file] + r.tot
        at == o % BSIZE
        m == Least(r.n1 - r.tot, BSIZE - at)
        b == Bmap(Buffers, inode[i], o \div BSIZE)
        stored(k) == [x \in 0..BSIZE - 1 |-> IF x \in at..at + k - 1 THEN UserByte(p, r.i + r.tot + x - at + 1)
                                             ELSE b.d.cache[b.addr][x]]
        place(k) == {<<i, o + x>> : x \in 0..k - 1}
    IN  /\ pc[p] = "copy" /\ r.tot < r.n1
        /\ inode' = [inode EXCEPT ![i] = b.ip]
        /\ \/ /\ b.addr = 0
              /\ Apply(p, b.d) /\ GoTo(p, "update")
              /\ UNCHANGED <<req, torn>>
           \/ /\ b.addr # 0
              /\ Apply(p, LogWrite(b.d, b.addr, stored(m)))
              /\ req' = [req EXCEPT ![p].tot = @ + m]
              /\ torn' = torn \ place(m)
              /\ UNCHANGED pc
           \/ /\ b.addr # 0
              /\ \E k \in 0..m - 1 : /\ Apply(p, [b.d EXCEPT !.cache[b.addr] = stored(k)])
                                     /\ torn' = torn \cup place(k)
              /\ GoTo(p, "update")
              /\ UNCHANGED req
        /\ UNCHANGED <<home, ops, lock, off, calls, shown>>

\* Mutant: a write in the middle makes the file shorter.
GrownMutant(ip, end) == [ip EXCEPT !.size = end]

\* The file reaches to end at least.
Grown(ip, end) == [ip EXCEPT !.size = IF end > @ THEN end ELSE @]

\* The end of writei()
Update(p) ==
    LET i == InodeOf(p)
        end == off[req[p].file] + req[p].tot
        ip == Grown(inode[i], end)
    IN  /\ \/ pc[p] = "update"
           \/ pc[p] = "copy" /\ req[p].tot = req[p].n1
        /\ inode' = [inode EXCEPT ![i] = ip]
        /\ Apply(p, Iupdate(Buffers, i, ip))
        /\ req' = [req EXCEPT ![p].r = req[p].tot]
        /\ GoTo(p, "iunlock")
        /\ UNCHANGED <<home, ops, lock, off, calls, shown, torn>>

Trunc(p) ==
    LET i == InodeOf(p)
        d == Itrunc(Buffers, i)
    IN  /\ pc[p] = "trunc"
        /\ inode' = [inode EXCEPT ![i] = EmptyFile]
        /\ Apply(p, d)
        /\ req' = [req EXCEPT ![p].n = 0, ![p].n1 = 0, ![p].r = 0]
        /\ torn' = {t \in torn : t[1] # i}
        /\ GoTo(p, IF d.panic THEN "panic" ELSE "iunlock")
        /\ UNCHANGED <<home, ops, lock, off, calls, shown>>

\* f->off moves while the inode is still locked.
Iunlock(p) ==
    /\ pc[p] = "iunlock"
    /\ off' = [off EXCEPT ![req[p].file] = IF req[p].r > 0 THEN @ + req[p].r ELSE @]
    /\ lock' = [lock EXCEPT ![InodeOf(p)] = Nobody]
    /\ shown' = [shown EXCEPT ![InodeOf(p)] = <<>>]
    /\ GoTo(p, "end")
    /\ UNCHANGED <<disk, inode, req, calls, torn>>

\* end_op(): the last operation commits.  A part that was not stored whole
\* ends the call, and it returns -1.
EndOp(p) ==
    LET r == req[p]
        done == r.i + r.r
    IN  /\ pc[p] = "end"
        /\ ops' = ops \ {p}
        /\ IF ops = {p}
           THEN home' = [b \in AllBlocks |-> IF b \in lh THEN cache[b] ELSE home[b]] /\ lh' = {}
           ELSE UNCHANGED <<home, lh>>
        /\ IF r.r # r.n1 \/ done >= r.n
           THEN GoTo(p, "idle") /\ req' = [req EXCEPT ![p] = NoReq]
           ELSE GoTo(p, "begin") /\ req' = [req EXCEPT ![p].i = done]
        /\ UNCHANGED <<cache, wrote, inode, lock, off, calls, shown, torn>>

\* fileread(): readi() under ip->lock and outside of any operation; a copy that
\* fails leaves f->off alone.  A block that is missing would be allocated, and
\* log_write() panics or logs it into somebody else's operation.
Read(p) ==
    /\ pc[p] = "idle" /\ calls < MaxCalls
    /\ \E f \in Files, n \in Lengths :
          LET ip == inode[Ino[f]]
              got == IF off[f] > ip.size THEN 0 ELSE Least(n, ip.size - off[f])
              hole == \E k \in off[f]..off[f] + got - 1 : Mapped(cache, ip, k \div BSIZE) = 0
          IN  /\ lock[Ino[f]] = Nobody
              /\ off' \in {off, [off EXCEPT ![f] = @ + got]}
              /\ GoTo(p, IF hole THEN "panic" ELSE "idle")
    /\ calls' = calls + 1
    /\ UNCHANGED <<disk, inode, lock, req, shown, torn>>

\* A buffer that nobody uses is recycled and what was not logged forgotten.
Evict(b) ==
    /\ b \notin lh /\ cache[b] # home[b]
    /\ cache' = [cache EXCEPT ![b] = home[b]]
    /\ UNCHANGED <<home, lh, ops, wrote, inode, lock, off, pc, req, calls, shown, torn>>

\* A crash, and what initlog() recovers; programs open their files again.
Crash ==
    /\ cache' = home /\ lh' = {} /\ ops' = {} /\ wrote' = [p \in Procs |-> {}]
    /\ inode' = home[InodeBlock] /\ lock' = [i \in Inums |-> Nobody]
    /\ off' = [f \in Files |-> 0]
    /\ pc' = [p \in Procs |-> "idle"] /\ req' = [p \in Procs |-> NoReq]
    /\ shown' = [i \in Inums |-> <<>>] /\ torn' = {}
    /\ UNCHANGED <<home, calls>>

Next ==
    \/ \E p \in Procs : \/ Call(p) \/ Begin(p) \/ Ilock(p) \/ CopyBlock(p) \/ Update(p)
                        \/ Trunc(p) \/ Iunlock(p) \/ EndOp(p) \/ Read(p)
    \/ \E b \in AllBlocks : Evict(b)
    \/ Crash

Spec == Init /\ [][Next]_vars

-----------------------------------------------------------------------------
\* Every block is of one place in one file or free, and the bitmap knows; a
\* file has a block for each of its bytes.
BlocksExact(dsk, inodes) ==
    LET places == {<<i, k>> : i \in Inums, k \in 0..MAXFILE}
        at(x) == IF x[2] = MAXFILE THEN inodes[x[1]].addrs[NDIRECT] ELSE Mapped(dsk, inodes[x[1]], x[2])
        taken == {x \in places : at(x) # 0}
        used == {at(x) : x \in taken}
    IN  /\ Cardinality(used) = Cardinality(taken)
        /\ dsk[Bitmap] = Metadata \cup used
        /\ \A i \in Inums : \A k \in 0..inodes[i].size - 1 : Mapped(dsk, inodes[i], k \div BSIZE) # 0

\* At every moment, and on the disk at every moment a crash may come, no block
\* is lost, used twice or missing in a file, even when the disk becomes full
\* between the allocation of an indirect block and of the block it should name,
\* or the copy from the program fails.  The inode on the disk is the one in
\* memory when nobody holds it; reads never allocate, and nothing panics.  An
\* operation never logs more than the MAXOPBLOCKS it has reserved.
BlocksInv ==
    /\ BlocksExact(cache, inode)
    /\ BlocksExact(home, home[InodeBlock])
    /\ \A i \in Inums : lock[i] = Nobody => cache[InodeBlock][i] = inode[i]
    /\ \A p \in Procs : pc[p] # "panic" /\ Cardinality(wrote[p]) <= MAXOPBLOCKS
    /\ \A b \in AllBlocks : cache[b] # home[b] => b \in lh \/ b \notin Metadata

\* filewrite() as Contents has it: it stores each part of a write at once, in
\* the order of the program's bytes and without a gap, a failed copy tears no
\* more than the bytes behind, and after a crash each file is what it was when
\* the last operation had ended.
C == INSTANCE Contents WITH
    content <- [i \in Inums |-> IF lock[i] = Nobody THEN Visible(i) ELSE shown[i]],
    saved <- [i \in Inums |-> Bytes(home, home[InodeBlock][i])]

RefinesContents == C!Spec
=============================================================================
