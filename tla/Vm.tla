--------------------------------- MODULE Vm ---------------------------------
(***************************************************************************)
(* User memory: the page allocator kernel/kalloc.c, the page tables of     *)
(* kernel/vm.c, and the calls that build and take down address spaces:     *)
(* userinit(), fork(), sbrk(), exit() and wait() of kernel/proc.c, exec()  *)
(* of kernel/exec.c.  Page-table pages below the root come from            *)
(* alloc_pages(), which is bootmem_alloc() (module Bootmem), and are given *)
(* back to kfree(); all other pages come from kalloc().  The two have      *)
(* different pages here: what kinit() would do to the nodes of bootmem is  *)
(* in section 6 of the README.                                             *)
(*                                                                         *)
(* An allocation is a step, because another hart may take the last page    *)
(* before or after it.  Giving memory back only makes others succeed, so   *)
(* taking down a table is one step.  A table of the lowest level describes *)
(* Fan pages, and virtual addresses are page numbers; sizes are in bytes,  *)
(* PGSIZE of which make a page.  A page-table entry is the page it points  *)
(* to and PTE_U.                                                           *)
(***************************************************************************)
EXTENDS Integers, Sequences, FiniteSets, Bags

CONSTANTS
    Machines, ByteBits, BitsPerPage,    \* see Bootmem
    KPages,         \* the pages of kinit(), none of them in a node of Bootmem
    Procs, InitProc,
    PGSIZE,
    Fan,            \* entries of a page-table page (512)
    LEVELS,         \* of page tables (4)
    Grows,          \* the arguments of sbrk()
    Programs,       \* each a sequence of segments, [vaddr, end]
    MaxArgs         \* bound on the arguments of exec()

\* What the constants have to be.
VmAssumption ==
    /\ InitProc \in Procs /\ KPages \subseteq Nat \ {0} /\ IsFiniteSet(KPages)
    /\ {PGSIZE, Fan, LEVELS} \subseteq Nat \ {0}
    /\ Grows \subseteq Int /\ MaxArgs \in Nat
    /\ \A g \in Programs : /\ g \in Seq([vaddr : Nat, end : Nat])
                            /\ \A i \in 1..Len(g) : g[i].vaddr % PGSIZE = 0

BootmemAssumption ==
    /\ {ByteBits, BitsPerPage} \subseteq Nat \ {0}
    /\ \A mc \in Machines :
          /\ mc.base \in [DOMAIN mc.base -> Nat] /\ mc.size \in [DOMAIN mc.base -> Nat]
          /\ mc.kernelEnd \in Nat /\ mc.requests \subseteq Nat \ {0}
          /\ mc.int \in Nat \ {0} /\ mc.word \in {mc.int, 2 * mc.int}
          /\ mc.word % ByteBits = 0
          /\ mc.mayFree \in BOOLEAN
          /\ \A d, e \in DOMAIN mc.base : d # e =>
                \/ mc.base[d] + mc.size[d] <= mc.base[e]
                \/ mc.base[e] + mc.size[e] <= mc.base[d]

VARIABLES
    machine, bitmap, nextOff, count,    \* of Bootmem
    freelist,   \* kmem.freelist, a bag of pages
    state,      \* state[p]: "UNUSED", "USED", "RUNNABLE" or "ZOMBIE"
    sz,         \* sz[p]: p->sz
    trapframe,  \* trapframe[p]: p->trapframe, 0 if there is none
    pt,         \* pt[<<p, "proc">>]: p->pagetable; pt[<<p, "exec">>]: the local
                \* pagetable of an exec() of p
    pc,         \* pc[p]: where p is in its system call
    job         \* job[p]: the locals of that call

B == INSTANCE Bootmem

bootVars == <<machine, bitmap, nextOff, count>>
procVars == <<state, sz, trapframe>>
vars == <<bootVars, freelist, procVars, pt, pc, job>>

Tables == Procs \X {"proc", "exec"}

\* In the code it is half of that: the root uses the lower half of its entries.
MAX_VA == Fan ^ LEVELS
TRAMPOLINE == MAX_VA - 1
TRAPFRAME == MAX_VA - 2

PGROUNDUP(n) == ((n + PGSIZE - 1) \div PGSIZE) * PGSIZE
Pages(n) == PGROUNDUP(n) \div PGSIZE        \* pages of n bytes

\* root is 0 for a null pagetable_t; tables maps the page-table pages below it,
\* named by level and index, and leaf virtual pages to their entries.
NoTable == [root |-> 0, tables |-> <<>>, leaf |-> <<>>]

\* op is what p executes and q the process whose memory it builds, in table
\* which; from, va and end are where the loop of uvmalloc() or uvmcopy() began, is
\* and ends; mem is its page.  argv, size (sz) and segs, what is left to load, are
\* exec()'s; stack says that its uvmalloc() is the one for the stack.
NoJob == [op |-> "none"]

Call(op, q, which) ==
    [op |-> op, q |-> q, which |-> which, stage |-> "page", from |-> 0, va |-> 0,
     end |-> 0, mem |-> 0, argv |-> <<>>, size |-> 0, segs |-> <<>>, stack |-> FALSE]

\* After kinit(), whose freerange() frees the pages one by one.
Init ==
    /\ B!Init
    /\ freelist = SetToBag(KPages)
    /\ state = [p \in Procs |-> "UNUSED"]
    /\ sz = [p \in Procs |-> 0]
    /\ trapframe = [p \in Procs |-> 0]
    /\ pt = [t \in Tables |-> NoTable]
    /\ pc = [p \in Procs |-> IF p = InitProc THEN "boot" ELSE "user"]
    /\ job = [p \in Procs |-> NoJob]

-----------------------------------------------------------------------------
(* Helpers.                                                                *)

Target(p) == <<job[p].q, job[p].which>>

GoTo(p, label) == pc' = [pc EXCEPT ![p] = label]
SetJob(p, j) == job' = [job EXCEPT ![p] = j]
Return(p) == GoTo(p, "user") /\ SetJob(p, NoJob)
Panics(p) == GoTo(p, "panic") /\ UNCHANGED <<bootVars, freelist, procVars, pt, job>>

Extend(f, x, y) == [z \in DOMAIN f \cup {x} |-> IF z = x THEN y ELSE f[z]]
Without(f, S) == [z \in DOMAIN f \ S |-> f[z]]

\* The page-table pages between the root and the entry of va.
Path(va) == {<<l, va \div Fan ^ (l + 1)>> : l \in 0..LEVELS - 2}
Missing(t, va) == Path(va) \ DOMAIN t.tables

\* The bag of the pages that a function or a sequence names.
BagOf(f) ==
    [x \in {f[i] : i \in DOMAIN f} |-> Cardinality({i \in DOMAIN f : f[i] = x})]

\* Which page of the free list kalloc() returns makes no difference to anyone: the
\* order of the list is left out, and its lowest page is returned.
Available == freelist # EmptyBag
Page == CHOOSE f \in BagToSet(freelist) : \A g \in BagToSet(freelist) : f <= g
Kalloc == Available /\ freelist' = freelist (-) SetToBag({Page})
Kfree(pages) == freelist' = freelist (+) pages

\* A page pointer that may be null.
Ptr(f) == IF f = 0 THEN EmptyBag ELSE SetToBag({f})

\* What uvmunmap(t, va, n, 1) frees, for the virtual pages vs.
Leaves(t, vs) == BagOf([v \in vs |-> t.leaf[v].pa])

\* What freewalk(t) frees.
Freewalk(t) == BagOf(t.tables) (+) Ptr(t.root)

\* proc_freepagetable(t, size) does not panic: uvmunmap() finds everything it
\* wants to unmap, and freewalk() no leaf after that.
CanFree(t, size) == DOMAIN t.leaf = (0..Pages(size) - 1) \cup {TRAMPOLINE, TRAPFRAME}
FreePagetable(t, size) == Leaves(t, 0..Pages(size) - 1) (+) Freewalk(t)

-----------------------------------------------------------------------------
(* kalloc(), walk() and mappages()                                         *)

\* kalloc() of p->trapframe, by allocproc().
AllocTrapframe(p) ==
    /\ pc[p] = "kalloc" /\ job[p].stage = "trapframe" /\ Kalloc
    /\ trapframe' = [trapframe EXCEPT ![job[p].q] = Page]
    /\ SetJob(p, [job[p] EXCEPT !.stage = "root"])
    /\ UNCHANGED <<bootVars, state, sz, pt, pc>>

\* uvmcreate(), at the start of proc_pagetable().
uvmcreate(p) ==
    /\ pc[p] = "kalloc" /\ job[p].stage = "root" /\ Kalloc
    /\ pt' = [pt EXCEPT ![Target(p)] = [NoTable EXCEPT !.root = Page]]
    /\ SetJob(p, [job[p] EXCEPT !.stage = "trampoline", !.va = TRAMPOLINE])
    /\ GoTo(p, "map")
    /\ UNCHANGED <<bootVars, procVars>>

\* uvmcopy() finds the page to copy in the page table of the parent.
Present(p) == job[p].op = "fork" => job[p].va \in DOMAIN pt[<<p, "proc">>].leaf

\* mem = kalloc(), in uvmalloc(), uvmcopy() and uvmfirst().
AllocPage(p) ==
    /\ pc[p] = "kalloc" /\ job[p].stage = "page"
    /\ \/ /\ Present(p) /\ Kalloc
          /\ SetJob(p, [job[p] EXCEPT !.mem = Page])
          /\ GoTo(p, "map")
          /\ UNCHANGED <<bootVars, procVars, pt>>
       \/ ~ Present(p) /\ Panics(p)

\* kalloc() returns 0.
KallocFails(p) ==
    /\ pc[p] = "kalloc" /\ ~ Available /\ (job[p].stage = "page" => Present(p))
    /\ GoTo(p, "failed")
    /\ UNCHANGED <<bootVars, freelist, procVars, pt, job>>

\* An iteration of walk() that finds no table: the highest one that is missing is
\* allocated on the node d of this hart, or mappages() fails and leaves the tables
\* that were added in place.
walk(p) ==
    /\ pc[p] = "map" /\ Missing(pt[Target(p)], job[p].va) # {}
    /\ \E d \in B!Nodes :
          LET r == B!FindPages(d, 1)
              n == CHOOSE x \in Missing(pt[Target(p)], job[p].va) :
                       \A y \in Missing(pt[Target(p)], job[p].va) : x[1] >= y[1]
          IN  /\ B!Alloc(d, 1)
              /\ IF r.found
                 THEN /\ pt' = [pt EXCEPT ![Target(p)].tables =
                                   Extend(@, n, B!StartPfn(d) + r.off)]
                      /\ UNCHANGED pc
                 ELSE GoTo(p, "failed") /\ UNCHANGED pt
    /\ UNCHANGED <<freelist, procVars, job>>

\* The page that is mapped at va, and whether with PTE_U.  uvmcopy() copies the
\* flags of the parent's entry.
Pte(p) ==
    CASE job[p].stage = "trampoline" -> [pa |-> 0, u |-> FALSE]
      [] job[p].stage = "trapframe_va" -> [pa |-> trapframe[job[p].q], u |-> FALSE]
      [] OTHER -> [pa |-> job[p].mem,
                   u  |-> IF job[p].op = "fork" THEN pt[<<p, "proc">>].leaf[job[p].va].u
                          ELSE TRUE]

\* Where the loop over user pages goes on, after a page or before the first.
Loop(p, j) ==
    /\ SetJob(p, j)
    /\ GoTo(p, IF j.va * PGSIZE < j.end THEN "kalloc" ELSE "mapped")

\* The end of mappages(), and what its caller maps next.
mappages(p) ==
    LET j == job[p]
        t == pt[Target(p)]
    IN  /\ pc[p] = "map" /\ Missing(t, j.va) = {}
        /\ \/ j.va \in DOMAIN t.leaf /\ Panics(p)
           \/ /\ j.va \notin DOMAIN t.leaf
              /\ pt' = [pt EXCEPT ![Target(p)].leaf = Extend(@, j.va, Pte(p))]
              /\ \/ /\ j.stage = "trampoline"
                    /\ SetJob(p, [j EXCEPT !.stage = "trapframe_va", !.va = TRAPFRAME])
                    /\ UNCHANGED pc
                 \/ /\ j.stage = "trapframe_va" /\ j.op # "exec"
                    /\ Loop(p, [j EXCEPT !.stage = "page", !.va = 0])
                 \/ /\ j.stage = "trapframe_va" /\ j.op = "exec"
                    /\ SetJob(p, [j EXCEPT !.stage = "page"])
                    /\ GoTo(p, "segment")
                 \/ /\ j.stage = "page"
                    /\ Loop(p, [j EXCEPT !.va = @ + 1, !.mem = 0])
              /\ UNCHANGED <<bootVars, freelist, procVars>>

-----------------------------------------------------------------------------
(* What a call that runs out of memory gives back.                         *)

\* uvmalloc() that gives back everything from page 0 on.
MappedMutant(p) == 0..job[p].va - 1

\* uvmdealloc() in uvmalloc() and uvmunmap() in uvmcopy() unmap and free the pages
\* that were mapped since the loop began.
Mapped(p) == job[p].from..job[p].va - 1

\* uvmalloc() that returns 0 without uvmdealloc().
UndoneMutant(p) == pt[Target(p)]

Undone(p) == [pt[Target(p)] EXCEPT !.leaf = Without(@, Mapped(p))]

\* Those pages, and the one that could not be mapped.
Released(p) ==
    Ptr(job[p].mem) (+) Leaves(pt[Target(p)], Mapped(p))

\* proc_pagetable() that fails frees the tables, if there are any.
Unbuilt(p) == Freewalk(pt[Target(p)])

\* freeproc() of q, whose page table is t by now.
Freeproc(q, t) ==
    Ptr(trapframe[q]) (+) IF t.root = 0 THEN EmptyBag ELSE FreePagetable(t, sz[q])

ClearProc(q) ==
    /\ state' = [state EXCEPT ![q] = "UNUSED"]
    /\ sz' = [sz EXCEPT ![q] = 0]
    /\ trapframe' = [trapframe EXCEPT ![q] = 0]
    /\ pt' = [pt EXCEPT ![<<q, "proc">>] = NoTable]

-----------------------------------------------------------------------------
(* userinit() and fork()                                                   *)

\* userinit(): a machine whose memory nobody else asks for.
userinit(p) ==
    /\ pc[p] = "boot" /\ machine.requests = {}
    /\ state' = [state EXCEPT ![p] = "USED"]
    /\ SetJob(p, [Call("userinit", p, "proc") EXCEPT !.stage = "trapframe", !.end = PGSIZE])
    /\ GoTo(p, "kalloc")
    /\ UNCHANGED <<bootVars, freelist, sz, trapframe, pt>>

fork(p, q) ==
    /\ pc[p] = "user" /\ state[p] = "RUNNABLE" /\ state[q] = "UNUSED"
    /\ state' = [state EXCEPT ![q] = "USED"]
    /\ SetJob(p, [Call("fork", q, "proc") EXCEPT !.stage = "trapframe", !.end = sz[p]])
    /\ GoTo(p, "kalloc")
    /\ UNCHANGED <<bootVars, freelist, sz, trapframe, pt>>

\* The new process has all its memory.
Born(p) ==
    /\ pc[p] = "mapped" /\ job[p].op \in {"userinit", "fork"}
    /\ sz' = [sz EXCEPT ![job[p].q] = job[p].end]
    /\ state' = [state EXCEPT ![job[p].q] = "RUNNABLE"]
    /\ Return(p)
    /\ UNCHANGED <<bootVars, freelist, trapframe, pt>>

\* fork() without memory: uvmcopy() or proc_pagetable() undoes what it did, and
\* freeproc() the rest.
ForkFails(p) ==
    LET q == job[p].q
    IN  /\ pc[p] = "failed" /\ job[p].op = "fork"
        /\ \/ /\ job[p].stage # "page"
              /\ Kfree(Unbuilt(p) (+) Freeproc(q, NoTable))
              /\ ClearProc(q) /\ Return(p)
              /\ UNCHANGED bootVars
           \/ /\ job[p].stage = "page" /\ CanFree(Undone(p), sz[q])
              /\ Kfree(Released(p) (+) Freeproc(q, Undone(p)))
              /\ ClearProc(q) /\ Return(p)
              /\ UNCHANGED bootVars
           \/ job[p].stage = "page" /\ ~ CanFree(Undone(p), sz[q]) /\ Panics(p)

-----------------------------------------------------------------------------
(* exit() and wait()                                                       *)

exit(p) ==
    /\ pc[p] = "user" /\ state[p] = "RUNNABLE" /\ p # InitProc
    /\ state' = [state EXCEPT ![p] = "ZOMBIE"]
    /\ UNCHANGED <<bootVars, freelist, sz, trapframe, pt, pc, job>>

\* The parent calls freeproc(); who the parent is, is left out.
wait(p, q) ==
    /\ pc[p] = "user" /\ state[p] = "RUNNABLE" /\ state[q] = "ZOMBIE"
    /\ \/ /\ CanFree(pt[<<q, "proc">>], sz[q])
          /\ Kfree(Freeproc(q, pt[<<q, "proc">>]))
          /\ ClearProc(q)
          /\ UNCHANGED <<bootVars, pc, job>>
       \/ ~ CanFree(pt[<<q, "proc">>], sz[q]) /\ Panics(p)

-----------------------------------------------------------------------------
(* sbrk()                                                                  *)

\* growproc(n), n > 0
Grow(p, n) ==
    /\ pc[p] = "user" /\ state[p] = "RUNNABLE" /\ n > 0
    /\ Loop(p, [Call("sbrk", p, "proc") EXCEPT !.from = Pages(sz[p]), !.va = Pages(sz[p]),
                                              !.end = sz[p] + n])
    /\ UNCHANGED <<bootVars, freelist, procVars, pt>>

Grown(p) ==
    /\ pc[p] = "mapped" /\ job[p].op = "sbrk"
    /\ sz' = [sz EXCEPT ![p] = job[p].end]
    /\ Return(p)
    /\ UNCHANGED <<bootVars, freelist, state, trapframe, pt>>

GrowFails(p) ==
    /\ pc[p] = "failed" /\ job[p].op = "sbrk"
    /\ Kfree(Released(p))
    /\ pt' = [pt EXCEPT ![Target(p)] = Undone(p)]
    /\ Return(p)
    /\ UNCHANGED <<bootVars, procVars>>

\* growproc(n), n < 0: uvmdealloc().  sz + n is unsigned; below 0 it is larger
\* than any size, and nothing happens.
Shrink(p, n) ==
    LET newsz == sz[p] + n
        gone == Pages(newsz)..Pages(sz[p]) - 1
        t == pt[<<p, "proc">>]
    IN  /\ pc[p] = "user" /\ state[p] = "RUNNABLE" /\ n < 0 /\ newsz >= 0
        /\ \/ /\ gone \subseteq DOMAIN t.leaf
              /\ Kfree(Leaves(t, gone))
              /\ pt' = [pt EXCEPT ![<<p, "proc">>].leaf = Without(@, gone)]
              /\ sz' = [sz EXCEPT ![p] = newsz]
              /\ UNCHANGED <<bootVars, state, trapframe, pc, job>>
           \/ ~ gone \subseteq DOMAIN t.leaf /\ Panics(p)

-----------------------------------------------------------------------------
(* exec()                                                                  *)

sys_exec(p, g) ==
    /\ pc[p] = "user" /\ state[p] = "RUNNABLE"
    /\ SetJob(p, [Call("exec", p, "exec") EXCEPT !.stage = "root", !.segs = g])
    /\ GoTo(p, "argv")
    /\ UNCHANGED <<bootVars, freelist, procVars, pt>>

\* argv[i] = kalloc(), in sys_exec()
FetchArg(p) ==
    /\ pc[p] = "argv" /\ Kalloc /\ Len(job[p].argv) < MaxArgs
    /\ SetJob(p, [job[p] EXCEPT !.argv = Append(@, Page)])
    /\ UNCHANGED <<bootVars, procVars, pt, pc>>

\* kalloc(), fetchaddr() or fetchstr() fails, or exec() finds no program: namei(),
\* or the ELF header, or its magic number.
ArgsBad(p) ==
    /\ pc[p] = "argv"
    /\ Kfree(BagOf(job[p].argv))
    /\ Return(p)
    /\ UNCHANGED <<bootVars, procVars, pt>>

\* exec() up to proc_pagetable()
StartExec(p) ==
    /\ pc[p] = "argv"
    /\ GoTo(p, "kalloc")
    /\ UNCHANGED <<bootVars, freelist, procVars, pt, job>>

\* uvmalloc() for the next segment: nothing to do if it ends below sz, and an
\* empty program at 0 takes its 0 for an error.
Segment(p) ==
    LET j == job[p]
        s == Head(job[p].segs)
    IN  /\ pc[p] = "segment" /\ j.segs # <<>>
        /\ \/ s.end < j.size /\ SetJob(p, [j EXCEPT !.end = j.size]) /\ GoTo(p, "mapped")
           \/ s.end >= j.size /\ s.end = 0 /\ GoTo(p, "bad") /\ UNCHANGED job
           \/ /\ s.end >= j.size /\ s.end > 0
              /\ Loop(p, [j EXCEPT !.from = Pages(j.size), !.va = Pages(j.size),
                                   !.end = s.end])
        /\ UNCHANGED <<bootVars, freelist, procVars, pt>>

\* sz = sz1 and loadseg(), which fails if readi() does.
loadseg(p) ==
    LET j == job[p]
        s == Head(job[p].segs)
        need == (s.vaddr \div PGSIZE)..Pages(s.end) - 1
        leaf == pt[Target(p)].leaf
    IN  /\ pc[p] = "mapped" /\ j.op = "exec" /\ ~ j.stack
        /\ \/ /\ \A v \in need : v \in DOMAIN leaf /\ leaf[v].u
              /\ SetJob(p, [j EXCEPT !.size = j.end, !.segs = Tail(@)])
              /\ \E next \in {"segment", "bad"} : GoTo(p, next)
              /\ UNCHANGED <<bootVars, freelist, procVars, pt>>
           \/ (\E v \in need : v \notin DOMAIN leaf \/ ~ leaf[v].u) /\ Panics(p)

\* A program header that cannot be read or makes no sense.
SegmentBad(p) ==
    /\ pc[p] = "segment" /\ job[p].segs # <<>>
    /\ GoTo(p, "bad")
    /\ UNCHANGED <<bootVars, freelist, procVars, pt, job>>

\* uvmalloc() of the guard page and the stack.
StackPages(p) ==
    LET top == PGROUNDUP(job[p].size)
    IN  /\ pc[p] = "segment" /\ job[p].segs = <<>>
        /\ Loop(p, [job[p] EXCEPT !.stack = TRUE, !.size = top, !.from = Pages(top),
                                  !.va = Pages(top), !.end = top + 2 * PGSIZE])
        /\ UNCHANGED <<bootVars, freelist, procVars, pt>>

\* uvmclear() of the guard page; the arguments may be too long for the stack.
UserStack(p) ==
    /\ pc[p] = "mapped" /\ job[p].op = "exec" /\ job[p].stack
    /\ SetJob(p, [job[p] EXCEPT !.size = job[p].end])
    /\ pt' = [pt EXCEPT ![Target(p)].leaf[Pages(job[p].end) - 2].u = FALSE]
    /\ \E next \in {"commit", "bad"} : GoTo(p, next)
    /\ UNCHANGED <<bootVars, freelist, procVars>>

\* "Commit to the user image": proc_freepagetable() of the old one, and sys_exec()
\* frees argv.
Commit(p) ==
    LET old == pt[<<p, "proc">>]
    IN  /\ pc[p] = "commit"
        /\ \/ /\ CanFree(old, sz[p])
              /\ pt' = [pt EXCEPT ![<<p, "proc">>] = pt[<<p, "exec">>],
                                  ![<<p, "exec">>] = NoTable]
              /\ sz' = [sz EXCEPT ![p] = job[p].size]
              /\ Kfree(FreePagetable(old, sz[p]) (+) BagOf(job[p].argv))
              /\ Return(p)
              /\ UNCHANGED <<bootVars, state, trapframe>>
           \/ ~ CanFree(old, sz[p]) /\ Panics(p)

\* bad: after an error, and after an allocation that failed.
ExecBad(p) ==
    LET j == job[p]
        undone == IF pc[p] = "bad" THEN pt[Target(p)] ELSE Undone(p)
        released == IF pc[p] = "bad" THEN EmptyBag ELSE Released(p)
        back == IF j.stage = "page" THEN released (+) FreePagetable(undone, j.size)
                ELSE Unbuilt(p)
    IN  /\ pc[p] \in {"bad", "failed"} /\ j.op = "exec"
        /\ \/ /\ j.stage = "page" => CanFree(undone, j.size)
              /\ Kfree(back (+) BagOf(j.argv))
              /\ pt' = [pt EXCEPT ![Target(p)] = NoTable]
              /\ Return(p)
              /\ UNCHANGED <<bootVars, procVars>>
           \/ j.stage = "page" /\ ~ CanFree(undone, j.size) /\ Panics(p)

-----------------------------------------------------------------------------
\* Other callers of alloc_pages() and free_pages(), on a machine that is booting.
Bootmem ==
    /\ B!Next
    /\ UNCHANGED <<freelist, procVars, pt, pc, job>>

Step(p) ==
    \/ AllocTrapframe(p) \/ uvmcreate(p) \/ AllocPage(p) \/ KallocFails(p)
    \/ walk(p) \/ mappages(p)
    \/ userinit(p) \/ Born(p) \/ ForkFails(p) \/ exit(p)
    \/ \E q \in Procs : fork(p, q) \/ wait(p, q)
    \/ Grown(p) \/ GrowFails(p) \/ \E n \in Grows : Grow(p, n) \/ Shrink(p, n)
    \/ FetchArg(p) \/ ArgsBad(p) \/ StartExec(p) \/ \E g \in Programs : sys_exec(p, g)
    \/ Segment(p) \/ loadseg(p) \/ SegmentBad(p) \/ StackPages(p) \/ UserStack(p)
    \/ Commit(p) \/ ExecBad(p)

Next == Bootmem \/ \E p \in Procs : Step(p)

Spec == Init /\ [][Next]_vars

-----------------------------------------------------------------------------
(* Properties.                                                             *)

PCs == {"boot", "user", "kalloc", "map", "mapped", "failed", "argv", "segment",
        "commit", "bad", "panic"}

RAM == KPages \cup B!Frames

TypeOK ==
    /\ B!TypeOK
    /\ IsABag(freelist) /\ BagToSet(freelist) \subseteq RAM
    /\ state \in [Procs -> {"UNUSED", "USED", "RUNNABLE", "ZOMBIE"}]
    /\ sz \in [Procs -> Nat]
    /\ trapframe \in [Procs -> RAM \cup {0}]
    /\ pc \in [Procs -> PCs]
    /\ \A t \in Tables :
          /\ pt[t].root \in RAM \cup {0}
          /\ \A n \in DOMAIN pt[t].tables : pt[t].tables[n] \in RAM
          /\ DOMAIN pt[t].leaf \subseteq 0..MAX_VA - 1

\* No panic of kernel/vm.c is reached: whatever failed on the way, what is
\* unmapped was mapped, nothing is mapped twice, and freewalk() meets no leaf.
NoPanic == \A p \in Procs : pc[p] # "panic"

\* p->sz and the page table agree whenever p is in user mode, and the page below
\* the trampoline is p's trapframe.
SizeExact ==
    \A p \in Procs : state[p] \in {"RUNNABLE", "ZOMBIE"} /\ pc[p] = "user" =>
        /\ CanFree(pt[<<p, "proc">>], sz[p])
        /\ pt[<<p, "proc">>].leaf[TRAPFRAME].pa = trapframe[p]

\* The places where page f is in use or on the free list.
Uses(f) ==
    (IF f \in BagToSet(freelist) THEN freelist[f] ELSE 0)
    + Cardinality({p \in Procs : trapframe[p] = f})
    + Cardinality({t \in Tables : pt[t].root = f})
    + Cardinality(UNION {{<<t, n>> : n \in {m \in DOMAIN pt[t].tables : pt[t].tables[m] = f}} :
                           t \in Tables})
    + Cardinality(UNION {{<<t, v>> : v \in {w \in DOMAIN pt[t].leaf \ {TRAPFRAME} :
                                               pt[t].leaf[w].pa = f}} : t \in Tables})
    + Cardinality({p \in Procs : job[p] # NoJob /\ job[p].mem = f})
    + Cardinality({x \in Procs \X (1..MaxArgs) :
                       LET j == job[x[1]] IN j # NoJob /\ x[2] \in DOMAIN j.argv /\ j.argv[x[2]] = f})

\* "frees any allocated pages on failure" (vm.c line 305): a page that kinit() or
\* alloc_pages() gave out is in exactly one place, in the middle of any call and
\* after any failure.  None is leaked, none is freed twice or shared, and none of
\* them is one that bootmem gives to somebody else.
OneOwner ==
    /\ B!OneOwner
    /\ \A f \in KPages : Uses(f) = 1
    /\ machine.requests = {} => \A f \in B!Frames : Uses(f) = count[f]

\* Memory is where the kernel thinks it is: no panic, sizes and page tables agree,
\* the bitmaps of bootmem never lose track of a page, and every page has one owner.
MemInv == TypeOK /\ NoPanic /\ SizeExact /\ B!BitmapInv /\ OneOwner

\* A process keeps its memory whatever other processes do and whichever of its own
\* calls fails: the pages below p->sz change only when exec() commits.
ImageStays ==
    [][\A p \in Procs :
          LET old == pt[<<p, "proc">>]
              new == pt'[<<p, "proc">>]
          IN  state[p] = "RUNNABLE" /\ state'[p] = "RUNNABLE" /\ pc[p] # "commit" =>
                  /\ new.root = old.root
                  /\ \A v \in DOMAIN old.leaf :
                        v < Pages(sz[p]) /\ v < Pages(sz'[p]) =>
                            v \in DOMAIN new.leaf /\ new.leaf[v] = old.leaf[v]]_vars
=============================================================================
