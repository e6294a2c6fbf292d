------------------------------- MODULE FdtTree -------------------------------
(***************************************************************************)
(* What libfdt promises of a device tree, without the flat form: a tree of *)
(* named nodes with properties, edited one call at a time, and a list of   *)
(* reserved memory ranges.  A call that fails changes nothing.             *)
(***************************************************************************)
EXTENDS Integers, Sequences

CONSTANTS
    NodeNames, PropNames, Values, RsvEntries,
    NoUnit,     \* the unit of a name without one
    TailsOf(_), \* the property names that a name in the strings block serves
    NoTree      \* the tree after its root was deleted

VARIABLES
    tree,       \* a node: its name, properties and subnodes, in order
    known,      \* the property names that the blob has stored
    rsv         \* the reserved ranges

vars == <<tree, known, rsv>>

Node(name) == [name |-> name, props |-> <<>>, kids |-> <<>>]

-----------------------------------------------------------------------------
(* A place in the tree is the sequence of the subnode numbers on the way.  *)

RECURSIVE Places(_)
Places(t) ==
    IF t = NoTree THEN {}
    ELSE {<<>>} \cup UNION {{<<k>> \o p : p \in Places(t.kids[k])} : k \in DOMAIN t.kids}

RECURSIVE At(_, _)
At(t, p) == IF p = <<>> THEN t ELSE At(t.kids[Head(p)], Tail(p))

\* t with node n at place p
RECURSIVE Put(_, _, _)
Put(t, p, n) ==
    IF p = <<>> THEN n ELSE [t EXCEPT !.kids[Head(p)] = Put(@, Tail(p), n)]

Without(seq, k) == SubSeq(seq, 1, k - 1) \o SubSeq(seq, k + 1, Len(seq))

\* A name matches a node of that name, and without a unit one with any unit.
Matches(n, name) == n.name = name \/ (name.unit = NoUnit /\ n.name.base = name.base)

-----------------------------------------------------------------------------
(* What a call may make of a node n                                        *)

\* Bytes of a property are overwritten from index at on.
Overwrite(old, at, val) == SubSeq(old, 1, at) \o val \o SubSeq(old, at + Len(val) + 1, Len(old))

\* A property is set, extended or overwritten where it is, or removed.
PropEdits(n) ==
    UNION {LET old == n.props[k].val
           IN  {[n EXCEPT !.props[k].val = v] :
                   v \in Values \cup {old \o v : v \in Values}
                         \cup {Overwrite(old, 0, v) : v \in {x \in Values : Len(x) <= Len(old)}}
                         \cup {Overwrite(old, 4, v) : v \in {x \in Values : 4 + Len(x) <= Len(old)}}}
               \cup {[n EXCEPT !.props = Without(@, k)]} : k \in DOMAIN n.props}

\* A new subnode comes before the others, none of which may match its name; a
\* subnode is deleted with everything under it.
KidEdits(n) ==
    {[n EXCEPT !.kids = <<Node(name)>> \o @] :
        name \in {x \in NodeNames : \A k \in DOMAIN n.kids : ~Matches(n.kids[k], x)}}
    \cup {[n EXCEPT !.kids = Without(@, k)] : k \in DOMAIN n.kids}

Renamings(n) == {[n EXCEPT !.name = name] : name \in NodeNames}

\* A property the node lacks becomes its first one.
NewProps(n, name) == {[n EXCEPT !.props = <<[name |-> name, val |-> v]>> \o @] : v \in Values}

\* names becomes names2 as node n becomes n2: only a new property stores a name.
EditNode(n, n2, names, names2) ==
    \/ names2 = names /\ n2 \in PropEdits(n) \cup KidEdits(n) \cup Renamings(n)
    \/ \E name \in PropNames :
          /\ \A k \in DOMAIN n.props : n.props[k].name # name
          /\ names2 = names \cup TailsOf(name)
          /\ n2 \in NewProps(n, name)

-----------------------------------------------------------------------------
\* One node of t changes, or the root goes.
EditTo(t, t2, names, names2) ==
    \/ t2 = NoTree /\ names2 = names
    \/ t2 # NoTree /\ \E p \in Places(t) \cap Places(t2) :
                         t2 = Put(t, p, At(t2, p)) /\ EditNode(At(t, p), At(t2, p), names, names2)

\* A range is added at the end or one is deleted.
EditRsv(r, r2) ==
    \/ \E e \in RsvEntries : r2 = Append(r, e)
    \/ \E k \in DOMAIN r : r2 = Without(r, k)

\* One call, from tree t, stored names and ranges r to t2, names2 and r2.
Step(t, t2, names, names2, r, r2) ==
    \/ r2 = r /\ EditTo(t, t2, names, names2)
    \/ t2 = t /\ names2 = names /\ EditRsv(r, r2)

Init == rsv \in Seq(RsvEntries)
Next == Step(tree, tree', known, known', rsv, rsv')
Spec == Init /\ [][Next]_vars

=============================================================================
