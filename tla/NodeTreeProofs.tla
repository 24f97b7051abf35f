---------------------------- MODULE NodeTreeProofs ----------------------------
(***************************************************************************)
(* Proofs about the node tree, for any nodes, names, directory iterators   *)
(* and sequences of calls.                                                 *)
(***************************************************************************)
EXTENDS NodeTree, FiniteSetTheorems, SequenceTheorems, WellFoundedInduction, TLAPS

NodeRecs == [refcount : Nat, name : Names \cup {0}, parent : Nodes \cup {NULL},
             children : Seq(Nodes), nchildren : Nat]
IterRecs == [dir : Nodes \cup {NULL}, pos : (Nodes \ {Root}) \cup {NULL},
             flag : BOOLEAN, due : SUBSET (Nodes \ {Root}), lost : BOOLEAN]

Memory == [Nodes -> NodeRecs]

\* Node m is a child of directory d.
Holds(h, d, m) == \E k \in 1 .. Len(h[d].children) : h[d].children[k] = m

\* Both directions of the tree agree, and the root is nobody's child.
Linked(h) ==
  /\ \A d \in Nodes : h[d].nchildren = Len(h[d].children)
  /\ \A d \in Nodes : \A k \in 1 .. Len(h[d].children) :
       h[d].children[k] # Root /\ h[h[d].children[k]].parent = d
  /\ \A m \in Nodes \ {Root} : h[m].parent # NULL =>
       h[m].parent # m /\ Holds(h, h[m].parent, m)
  /\ h[Root].parent \in {Root, NULL}

\* Nobody holds dead nodes, and they hold nobody.
DeadAlone(h) ==
  /\ \A d \in Nodes : h[d].children # <<>> => h[d].refcount > 0
  /\ h[Root].parent = NULL => h[Root].refcount = 0

\* The children are sorted, if one does not care for n, and differ.
SortedBut(h, n) ==
  \A d \in Nodes : \A j, k \in 1 .. Len(h[d].children) : j < k =>
    /\ h[d].children[j] # h[d].children[k]
    /\ h[d].children[j] # n /\ h[d].children[k] # n =>
         h[h[d].children[j]].name < h[h[d].children[k]].name

Sorted(h) ==
  \A d \in Nodes : \A j, k \in 1 .. Len(h[d].children) : j < k =>
    h[h[d].children[j]].name < h[h[d].children[k]].name

\* No directory is below itself.
Grounded(h) ==
  \A S \in SUBSET (Nodes \ {Root}) : S # {} => \E m \in S : h[m].parent \notin S

\* A node which is no root has a parent.
HasParent(h, n) == h[n].parent \notin {NULL, n}

\* Besides of its directory, a node has so many owners.
Owned(h, own) ==
  \A n \in Nodes : h[n].refcount = own[n] + Count(HasParent(h, n))

GoodBut(h, own, n) ==
  /\ h \in Memory /\ own \in [Nodes -> Nat]
  /\ Linked(h) /\ Grounded(h) /\ DeadAlone(h) /\ SortedBut(h, n) /\ Owned(h, own)

Good(h, own) ==
  /\ h \in Memory /\ own \in [Nodes -> Nat]
  /\ Linked(h) /\ Grounded(h) /\ DeadAlone(h) /\ Sorted(h) /\ Owned(h, own)

-----------------------------------------------------------------------------
(* Lists.                                                                  *)

LEMMA LeastNatural ==
  ASSUME NEW T, T \subseteq Nat, T # {}
  PROVE  \E x \in T : \A y \in T : x =< y
<1>1. PICK R : R = OpToRel(<, Nat)
  OBVIOUS
<1>2. IsWellFoundedOn(R, Nat)
  BY <1>1, NatLessThanWellFounded
<1>3. PICK x \in T : \A y \in T : ~(<<y, x>> \in R)
  BY <1>2, WFMin
<1>4. \A y \in T : ~(y < x)
  BY <1>1, <1>3 DEF OpToRel
<1> QED  BY <1>3, <1>4

LEMMA MinIs ==
  ASSUME NEW T, T \subseteq Nat, T # {}
  PROVE  Min(T) \in T /\ \A y \in T : Min(T) =< y
BY LeastNatural DEF Min

\* InsertAt() shifts what follows.
LEMMA InsertIs ==
  ASSUME NEW s \in Seq(Nodes), NEW k \in 1 .. Len(s) + 1, NEW e \in Nodes
  PROVE  /\ InsertAt(s, k, e) \in Seq(Nodes)
         /\ Len(InsertAt(s, k, e)) = Len(s) + 1
         /\ \A i \in 1 .. Len(s) + 1 : InsertAt(s, k, e)[i] =
              IF i < k THEN s[i] ELSE IF i = k THEN e ELSE s[i - 1]
<1>1. PICK n \in Nat : n = Len(s) /\ \A i \in 1 .. n : s[i] \in Nodes
  BY LenProperties
<1>2. PICK a : a = SubSeq(s, 1, k - 1)
  OBVIOUS
<1>3. PICK b : b = SubSeq(s, k, n)
  OBVIOUS
<1>4. /\ a \in Seq(Nodes) /\ Len(a) = k - 1 /\ \A i \in 1 .. k - 1 : a[i] = s[i]
  BY <1>1, <1>2, SubSeqProperties
<1>5. /\ b \in Seq(Nodes) /\ Len(b) = n - k + 1
      /\ \A i \in 1 .. n - k + 1 : b[i] = s[i + k - 1]
  BY <1>1, <1>3, SubSeqProperties
<1>6. PICK o : o = <<e>>
  OBVIOUS
<1>7. o \in Seq(Nodes) /\ Len(o) = 1 /\ o[1] = e
  BY <1>6
<1>8. PICK c : c = a \o o
  OBVIOUS
<1>9. c \in Seq(Nodes) /\ Len(c) = k /\ \A i \in 1 .. k : c[i] = IF i < k THEN s[i] ELSE e
  <2>1. /\ c \in Seq(Nodes) /\ Len(c) = Len(a) + Len(o)
        /\ \A i \in 1 .. Len(a) + Len(o) :
             c[i] = IF i <= Len(a) THEN a[i] ELSE o[i - Len(a)]
    BY <1>4, <1>7, <1>8, ConcatProperties
  <2> QED  BY <1>1, <1>4, <1>7, <2>1
<1>10. InsertAt(s, k, e) = c \o b
  BY <1>1, <1>2, <1>3, <1>6, <1>8 DEF InsertAt
<1>11. /\ c \o b \in Seq(Nodes) /\ Len(c \o b) = Len(c) + Len(b)
       /\ \A i \in 1 .. Len(c) + Len(b) :
            (c \o b)[i] = IF i <= Len(c) THEN c[i] ELSE b[i - Len(c)]
  BY <1>5, <1>9, ConcatProperties
<1> QED  BY <1>1, <1>5, <1>9, <1>10, <1>11

LEMMA RemoveAtIs ==
  ASSUME NEW s \in Seq(Nodes), NEW k \in 1 .. Len(s)
  PROVE  /\ RemoveAt(s, k) \in Seq(Nodes)
         /\ Len(RemoveAt(s, k)) = Len(s) - 1
         /\ \A i \in 1 .. Len(s) - 1 :
              RemoveAt(s, k)[i] = IF i < k THEN s[i] ELSE s[i + 1]
<1>1. PICK n \in Nat : n = Len(s) /\ \A i \in 1 .. n : s[i] \in Nodes
  BY LenProperties
<1>2. PICK a : a = SubSeq(s, 1, k - 1)
  OBVIOUS
<1>3. PICK b : b = SubSeq(s, k + 1, n)
  OBVIOUS
<1>4. /\ a \in Seq(Nodes) /\ Len(a) = k - 1 /\ \A i \in 1 .. k - 1 : a[i] = s[i]
  BY <1>1, <1>2, SubSeqProperties
<1>5. /\ b \in Seq(Nodes) /\ Len(b) = n - k
      /\ \A i \in 1 .. n - k : b[i] = s[i + k]
  BY <1>1, <1>3, SubSeqProperties
<1>6. RemoveAt(s, k) = a \o b
  BY <1>1, <1>2, <1>3 DEF RemoveAt
<1>7. /\ a \o b \in Seq(Nodes) /\ Len(a \o b) = Len(a) + Len(b)
      /\ \A i \in 1 .. Len(a) + Len(b) :
           (a \o b)[i] = IF i <= Len(a) THEN a[i] ELSE b[i - Len(a)]
  BY <1>4, <1>5, ConcatProperties
<1> QED  BY <1>1, <1>4, <1>5, <1>6, <1>7

\* The place of a node in a list, 0 if it is not there.
Place(s, e) == SelectInSeq(s, LAMBDA m : m = e)

LEMMA PlaceIs ==
  ASSUME NEW s \in Seq(Nodes), NEW e
  PROVE  /\ Place(s, e) \in 0 .. Len(s)
         /\ Place(s, e) = 0 => \A i \in 1 .. Len(s) : s[i] # e
         /\ Place(s, e) # 0 => /\ s[Place(s, e)] = e
                              /\ \A i \in 1 .. Place(s, e) - 1 : s[i] # e
<1> DEFINE T == {i \in 1 .. Len(s) : s[i] = e}
<1>1. T \subseteq Nat /\ Len(s) \in Nat
  OBVIOUS
<1>2. Place(s, e) = IF T # {} THEN Min(T) ELSE 0
  BY DEF Place, SelectInSeq
<1>3. CASE T = {}
  BY <1>1, <1>2, <1>3
<1>4. CASE T # {}
  <2>1. PICK p : p = Min(T)
    OBVIOUS
  <2>2. p \in T /\ \A y \in T : p =< y
    BY <1>1, <1>4, <2>1, MinIs
  <2>3. p \in 1 .. Len(s) /\ s[p] = e /\ \A i \in 1 .. p - 1 : s[i] # e
    BY <2>2, <1>1
  <2>4. p = Place(s, e)
    BY <1>2, <1>4, <2>1
  <2> QED  BY <1>1, <2>3, <2>4
<1> QED  BY <1>3, <1>4

LEMMA RemoveIs ==
  ASSUME NEW s \in Seq(Nodes), NEW k \in 1 .. Len(s),
         \A i, j \in 1 .. Len(s) : i < j => s[i] # s[j]
  PROVE  RemoveFirst(s, s[k]) = RemoveAt(s, k)
<1>1. PICK e : e = s[k]
  OBVIOUS
<1>2. PICK p : p = Place(s, e)
  OBVIOUS
<1>3. p \in 1 .. Len(s) /\ s[p] = e
  BY <1>1, <1>2, PlaceIs
<1>4. p = k
  BY <1>1, <1>3
<1>5. RemoveFirst(s, e) = RemoveAt(s, Place(s, e))
  BY <1>1 DEF RemoveFirst, Place
<1> QED  BY <1>1, <1>2, <1>4, <1>5

LEMMA RemoveNothing ==
  ASSUME NEW s, NEW e, \A i \in 1 .. Len(s) : s[i] # e
  PROVE  RemoveFirst(s, e) = s
BY DEF RemoveFirst

-----------------------------------------------------------------------------
(* References.                                                             *)

LEMMA RootIs == Root \in Nodes /\ NULL \notin Nodes
BY NodeAssumption

LEMMA MemoryIs ==
  ASSUME NEW h \in Memory, NEW m \in Nodes
  PROVE  /\ h[m] \in NodeRecs /\ h[m].refcount \in Nat /\ h[m].name \in Names \cup {0}
         /\ h[m].name \in Nat
         /\ h[m].parent \in Nodes \cup {NULL} /\ h[m].nchildren \in Nat
         /\ h[m].children \in Seq(Nodes) /\ Len(h[m].children) \in Nat
         /\ \A k \in 1 .. Len(h[m].children) : h[m].children[k] \in Nodes
<1>1. PICK r \in NodeRecs : r = h[m]
  BY DEF Memory
<1>2. /\ r.refcount \in Nat /\ r.name \in Names \cup {0} /\ r.parent \in Nodes \cup {NULL}
      /\ r.nchildren \in Nat /\ r.children \in Seq(Nodes)
  BY DEF NodeRecs
<1>3. r.name \in Nat
  <2>1. Names \cup {0} \subseteq Nat
    BY NodeAssumption
  <2>2. r.name \in Names \cup {0}
    BY <1>2
  <2> QED  BY <2>1, <2>2
<1>4. Len(r.children) \in Nat /\ \A k \in 1 .. Len(r.children) : r.children[k] \in Nodes
  BY <1>2, LenProperties
<1> QED  BY <1>1, <1>2, <1>3, <1>4

\* What is left unchanged by a function which only touches reference counts.
SameTree(h, g) ==
  \A m \in Nodes : /\ g[m].name = h[m].name /\ g[m].parent = h[m].parent
                    /\ g[m].children = h[m].children
                    /\ g[m].nchildren = h[m].nchildren

Counted(h, n, c) == [h EXCEPT ![n].refcount = c]

LEMMA CountedAnew ==
  ASSUME NEW h \in Memory, NEW n \in Nodes, NEW c \in Nat
  PROVE  /\ Counted(h, n, c) \in Memory /\ SameTree(h, Counted(h, n, c))
         /\ \A m \in Nodes :
              Counted(h, n, c)[m].refcount = IF m = n THEN c ELSE h[m].refcount
<1> DEFINE g == Counted(h, n, c)
<1>1. PICK r \in NodeRecs : r = h[n]
  BY DEF Memory
<1>2. PICK q : q = [r EXCEPT !.refcount = c]
  OBVIOUS
<1>3. /\ q \in NodeRecs /\ q.refcount = c /\ q.name = r.name /\ q.parent = r.parent
      /\ q.children = r.children /\ q.nchildren = r.nchildren
  BY <1>2 DEF NodeRecs
<1>4. g = [h EXCEPT ![n] = q]
  BY <1>1, <1>2 DEF Counted
<1>5. g \in Memory /\ \A m \in Nodes : g[m] = IF m = n THEN q ELSE h[m]
  BY <1>3, <1>4 DEF Memory
<1> QED  BY <1>1, <1>3, <1>5 DEF SameTree

LEMMA RefIs ==
  ASSUME NEW h \in Memory, NEW n \in Nodes
  PROVE  /\ Ref(h, n) \in Memory /\ SameTree(h, Ref(h, n))
         /\ \A m \in Nodes :
              Ref(h, n)[m].refcount = IF m = n THEN h[m].refcount + 1 ELSE h[m].refcount
<1>1. PICK c, c1 \in Nat : c = h[n].refcount /\ c1 = c + 1
  BY MemoryIs
<1>2. Ref(h, n) = Counted(h, n, c1)
  BY <1>1 DEF Ref, Counted
<1>3. Counted(h, n, c1) \in Memory /\ SameTree(h, Counted(h, n, c1))
  BY CountedAnew
<1>4. \A m \in Nodes : Counted(h, n, c1)[m].refcount = IF m = n THEN c1 ELSE h[m].refcount
  BY CountedAnew
<1> QED  BY <1>1, <1>2, <1>3, <1>4

\* Cutting the tree makes no cycles.
LEMMA StaysGrounded ==
  ASSUME NEW h, Grounded(h), NEW g, \A m \in Nodes : g[m].parent \in {NULL, h[m].parent}
  PROVE  Grounded(g)
BY RootIs DEF Grounded

\* The same tree with counts that fit to the owners is as good.
LEMMA SameTreeGood ==
  ASSUME NEW h, NEW own, NEW x, GoodBut(h, own, x), NEW g \in Memory, SameTree(h, g),
         NEW o \in [Nodes -> Nat], Owned(g, o),
         \A m \in Nodes : h[m].refcount > 0 => g[m].refcount > 0,
         h[Root].parent = NULL => g[Root].refcount = 0
  PROVE  GoodBut(g, o, x) /\ (Sorted(h) => Good(g, o))
<1> USE RootIs
<1>1. h \in Memory /\ Linked(h) /\ DeadAlone(h) /\ SortedBut(h, x)
  BY DEF GoodBut
<1>2. Linked(g)
  <2>1. \A d, m \in Nodes : Holds(g, d, m) <=> Holds(h, d, m)
    BY DEF Holds, SameTree
  <2>2. ASSUME NEW d \in Nodes, NEW k \in 1 .. Len(g[d].children)
        PROVE  g[d].children[k] # Root /\ g[g[d].children[k]].parent = d
    <3>1. g[d].children = h[d].children
      BY DEF SameTree
    <3>2. PICK c \in Nodes : c = h[d].children[k]
      BY <1>1, <3>1, MemoryIs
    <3>3. c # Root /\ h[c].parent = d
      BY <1>1, <3>1, <3>2 DEF Linked
    <3> QED  BY <3>1, <3>2, <3>3 DEF SameTree
  <2>3. ASSUME NEW m \in Nodes \ {Root}, g[m].parent # NULL
        PROVE  g[m].parent # m /\ Holds(g, g[m].parent, m)
    <3>1. g[m].parent = h[m].parent /\ h[m].parent \in Nodes
      BY <1>1, <2>3, MemoryIs DEF SameTree
    <3>2. h[m].parent # m /\ Holds(h, h[m].parent, m)
      BY <1>1, <2>3, <3>1 DEF Linked
    <3> QED  BY <2>1, <3>1, <3>2
  <2>4. \A d \in Nodes : g[d].nchildren = Len(g[d].children)
    BY <1>1 DEF Linked, SameTree
  <2>5. g[Root].parent \in {Root, NULL}
    BY <1>1 DEF Linked, SameTree
  <2> QED  BY <2>2, <2>3, <2>4, <2>5 DEF Linked
<1>3. DeadAlone(g)
  BY <1>1 DEF DeadAlone, SameTree
<1>4. \A d \in Nodes : \A k \in 1 .. Len(h[d].children) :
        g[h[d].children[k]].name = h[h[d].children[k]].name
  BY <1>1, MemoryIs DEF SameTree
<1>a. \A d \in Nodes : g[d].children = h[d].children
  BY DEF SameTree
<1>5. SortedBut(g, x)
  <2> SUFFICES ASSUME NEW d \in Nodes, NEW j \in 1 .. Len(g[d].children),
                      NEW k \in 1 .. Len(g[d].children), j < k
               PROVE  /\ g[d].children[j] # g[d].children[k]
                      /\ g[d].children[j] # x /\ g[d].children[k] # x =>
                           g[g[d].children[j]].name < g[g[d].children[k]].name
    BY DEF SortedBut
  <2>1. g[d].children = h[d].children
    BY <1>a
  <2> QED  BY <1>1, <1>4, <2>1 DEF SortedBut
<1>6. ASSUME Sorted(h) PROVE Sorted(g)
  <2> SUFFICES ASSUME NEW d \in Nodes, NEW j \in 1 .. Len(g[d].children),
                      NEW k \in 1 .. Len(g[d].children), j < k
               PROVE  g[g[d].children[j]].name < g[g[d].children[k]].name
    BY DEF Sorted
  <2>1. g[d].children = h[d].children
    BY <1>a
  <2> QED  BY <1>4, <1>6, <2>1 DEF Sorted
<1>7. Grounded(g)
  <2>1. \A m \in Nodes : g[m].parent \in {NULL, h[m].parent}
    BY DEF SameTree
  <2>2. Grounded(h)
    BY DEF GoodBut
  <2> QED  BY <2>1, <2>2, StaysGrounded
<1> QED  BY <1>2, <1>3, <1>5, <1>6, <1>7 DEF GoodBut, Good

LEMMA GoodIsGoodBut ==
  ASSUME NEW h, NEW own, NEW x, Good(h, own)
  PROVE  GoodBut(h, own, x)
<1>1. h \in Memory /\ Sorted(h)
  BY DEF Good
<1>2. ASSUME NEW d \in Nodes, NEW j \in 1 .. Len(h[d].children),
             NEW k \in 1 .. Len(h[d].children), j < k
      PROVE  h[d].children[j] # h[d].children[k]
  <2>1. PICK m, n \in Nodes : m = h[d].children[j] /\ n = h[d].children[k]
    BY <1>1, MemoryIs
  <2>2. h[m].name < h[n].name
    BY <1>1, <1>2, <2>1 DEF Sorted
  <2>3. h[m].name \in Nat
    BY <1>1, MemoryIs
  <2> QED  BY <2>1, <2>2, <2>3
<1>3. SortedBut(h, x)
  BY <1>1, <1>2 DEF Sorted, SortedBut
<1> QED  BY <1>3 DEF Good, GoodBut

\* The owners of the nodes when n has got one more or one less.
More(own, n) == [m \in Nodes |-> IF m = n THEN own[m] + 1 ELSE own[m]]
Less(own, n) == [m \in Nodes |-> IF m = n THEN own[m] - 1 ELSE own[m]]

\* iso_node_ref() of a living node makes one more owner.
LEMMA RefGood ==
  ASSUME NEW h, NEW own, NEW x, GoodBut(h, own, x), NEW n \in Nodes, h[n].refcount > 0
  PROVE  /\ GoodBut(Ref(h, n), More(own, n), x)
         /\ SameTree(h, Ref(h, n))
         /\ Sorted(h) => Good(Ref(h, n), More(own, n))
<1> USE RootIs
<1>1. h \in Memory /\ own \in [Nodes -> Nat] /\ DeadAlone(h) /\ Owned(h, own)
  BY DEF GoodBut
<1>2. PICK c \in Nat : c = h[n].refcount
  BY <1>1, MemoryIs
<1>3. PICK g : g = Ref(h, n)
  OBVIOUS
<1>a. PICK c1 \in Nat : c1 = c + 1
  OBVIOUS
<1>4. g = Counted(h, n, c1)
  BY <1>2, <1>3, <1>a DEF Ref, Counted
<1>5. /\ g \in Memory /\ SameTree(h, g)
      /\ \A m \in Nodes : g[m].refcount = IF m = n THEN c1 ELSE h[m].refcount
  <2>1. h \in Memory
    BY <1>1
  <2>2. Counted(h, n, c1) \in Memory
    BY <2>1, CountedAnew
  <2>3. SameTree(h, Counted(h, n, c1))
    BY <2>1, CountedAnew
  <2>4. \A m \in Nodes : Counted(h, n, c1)[m].refcount = IF m = n THEN c1 ELSE h[m].refcount
    BY <2>1, CountedAnew
  <2> QED  BY <2>2, <2>3, <2>4, <1>4
<1>b. PICK w \in Nat : w = own[n]
  BY <1>1
<1>c. PICK o : o = More(own, n)
  OBVIOUS
<1>6. o \in [Nodes -> Nat] /\ \A m \in Nodes : o[m] = IF m = n THEN w + 1 ELSE own[m]
  BY <1>1, <1>b, <1>c DEF More
<1>7. Owned(g, o)
  BY <1>1, <1>2, <1>a, <1>b, <1>5, <1>6 DEF Owned, SameTree, HasParent, Count
<1>8. h[Root].parent = NULL => Root # n /\ h[Root].refcount = 0
  BY <1>1 DEF DeadAlone
<1>9. \A m \in Nodes : h[m].refcount > 0 => g[m].refcount > 0
  BY <1>a, <1>5
<1>10. h[Root].parent = NULL => g[Root].refcount = 0
  BY <1>5, <1>8
<1> QED  BY <1>3, <1>5, <1>c, <1>6, <1>7, <1>9, <1>10, SameTreeGood

\* The same for a reference that is given up without being the last one.
LEMMA UnrefCounts ==
  ASSUME NEW h, NEW own, NEW x, GoodBut(h, own, x), NEW n \in Nodes,
         own[n] > 0, h[n].refcount > 1
  PROVE  /\ GoodBut(Unref(h, n), Less(own, n), x)
         /\ SameTree(h, Unref(h, n))
         /\ \A m \in Nodes : h[m].refcount > 0 => Unref(h, n)[m].refcount > 0
         /\ Sorted(h) => Good(Unref(h, n), Less(own, n))
<1> USE RootIs
<1>1. h \in Memory /\ own \in [Nodes -> Nat] /\ DeadAlone(h) /\ Owned(h, own)
  BY DEF GoodBut
<1>2. PICK c \in Nat : c = h[n].refcount
  BY <1>1, MemoryIs
<1>3. PICK g : g = Unref(h, n)
  OBVIOUS
<1>a. PICK c1 \in Nat : c1 = c - 1 /\ c1 > 0
  BY <1>2
<1>4. g = Counted(h, n, c1)
  BY <1>2, <1>3, <1>a DEF Unref, Counted
<1>5. /\ g \in Memory /\ SameTree(h, g)
      /\ \A m \in Nodes : g[m].refcount = IF m = n THEN c1 ELSE h[m].refcount
  <2>1. h \in Memory
    BY <1>1
  <2>2. Counted(h, n, c1) \in Memory
    BY <2>1, CountedAnew
  <2>3. SameTree(h, Counted(h, n, c1))
    BY <2>1, CountedAnew
  <2>4. \A m \in Nodes : Counted(h, n, c1)[m].refcount = IF m = n THEN c1 ELSE h[m].refcount
    BY <2>1, CountedAnew
  <2> QED  BY <2>2, <2>3, <2>4, <1>4
<1>b. PICK w \in Nat : w = own[n] /\ w > 0
  BY <1>1
<1>c. PICK o : o = Less(own, n)
  OBVIOUS
<1>6. o \in [Nodes -> Nat] /\ \A m \in Nodes : o[m] = IF m = n THEN w - 1 ELSE own[m]
  BY <1>1, <1>b, <1>c DEF Less
<1>7. Owned(g, o)
  BY <1>1, <1>2, <1>a, <1>b, <1>5, <1>6 DEF Owned, SameTree, HasParent, Count
<1>8. h[Root].parent = NULL => Root # n /\ h[Root].refcount = 0
  BY <1>1, <1>2 DEF DeadAlone
<1>9. \A m \in Nodes : h[m].refcount > 0 => g[m].refcount > 0
  BY <1>a, <1>5
<1>10. h[Root].parent = NULL => g[Root].refcount = 0
  BY <1>5, <1>8
<1> QED  BY <1>3, <1>5, <1>c, <1>6, <1>7, <1>9, <1>10, SameTreeGood

\* The freed nodes: n, and those owned by nothing but a freed directory.
LEMMA FreedIs ==
  ASSUME NEW h \in Memory, NEW n \in Nodes
  PROVE  /\ FreedWith(h, n) \subseteq Nodes /\ n \in FreedWith(h, n)
         /\ \A d \in FreedWith(h, n) : \A c \in Nodes :
              Holds(h, d, c) /\ h[c].refcount = 1 => c \in FreedWith(h, n)
         /\ \A c \in FreedWith(h, n) \ {n} :
              h[c].refcount = 1 /\ \E d \in FreedWith(h, n) : Holds(h, d, c)
         /\ \A S \in SUBSET Nodes :
              n \in S /\ (\A d \in S : \A c \in Nodes :
                           Holds(h, d, c) /\ h[c].refcount = 1 => c \in S)
              => FreedWith(h, n) \subseteq S
<1> DEFINE Closed(S) == n \in S /\ \A d \in S : \A c \in Nodes :
                          Holds(h, d, c) /\ h[c].refcount = 1 => c \in S
<1>1. \A d, c \in Nodes : c \in ToSet(h[d].children) <=> Holds(h, d, c)
  BY LenProperties, MemoryIs DEF ToSet, Holds
<1>2. \A d \in Nodes : ToSet(h[d].children) \subseteq Nodes
  BY LenProperties, MemoryIs DEF ToSet
<1>3. PICK F : F = {m \in Nodes : \A S \in SUBSET Nodes : Closed(S) => m \in S}
  OBVIOUS
<1>4. FreedWith(h, n) = F
  <2>1. \A S \in SUBSET Nodes :
          (/\ n \in S
           /\ \A d \in S : \A c \in ToSet(h[d].children) : h[c].refcount = 1 => c \in S)
          <=> Closed(S)
    BY <1>1, <1>2
  <2> HIDE DEF Closed
  <2> QED  BY <1>3, <2>1 DEF FreedWith
<1>5. F \subseteq Nodes /\ n \in F
  BY <1>3
<1>6. Closed(F)
  BY <1>3
<1>7. ASSUME NEW c \in F \ {n}
      PROVE  h[c].refcount = 1 /\ \E d \in F : Holds(h, d, c)
  <2>1. SUFFICES ASSUME ~(h[c].refcount = 1 /\ \E d \in F : Holds(h, d, c)) PROVE FALSE
    OBVIOUS
  <2>2. Closed(F \ {c})
    BY <1>6, <2>1
  <2>3. F \ {c} \in SUBSET Nodes
    BY <1>5
  <2> QED  BY <1>3, <2>2, <2>3
<1>8. \A S \in SUBSET Nodes : Closed(S) => F \subseteq S
  BY <1>3
<1> QED  BY <1>4, <1>5, <1>6, <1>7, <1>8

Orphan(r) == [r EXCEPT !.refcount = @ - 1, !.parent = NULL]

LEMMA OrphanIs ==
  ASSUME NEW r \in NodeRecs, r.refcount > 0
  PROVE  /\ Orphan(r) \in NodeRecs
         /\ Orphan(r).refcount = r.refcount - 1 /\ Orphan(r).parent = NULL
         /\ Orphan(r).name = r.name /\ Orphan(r).children = r.children
         /\ Orphan(r).nchildren = r.nchildren
<1>1. PICK c \in Nat : c = r.refcount /\ c - 1 \in Nat
  BY DEF NodeRecs
<1>2. PICK q : q = [r EXCEPT !.refcount = c - 1]
  OBVIOUS
<1>3. /\ q \in NodeRecs /\ q.refcount = c - 1 /\ q.name = r.name
      /\ q.children = r.children /\ q.nchildren = r.nchildren
  BY <1>1, <1>2 DEF NodeRecs
<1>4. PICK p : p = [q EXCEPT !.parent = NULL]
  OBVIOUS
<1>5. /\ p \in NodeRecs /\ p.refcount = c - 1 /\ p.name = r.name /\ p.parent = NULL
      /\ p.children = r.children /\ p.nchildren = r.nchildren
  BY <1>3, <1>4 DEF NodeRecs
<1>6. Orphan(r) = p
  BY <1>1, <1>2, <1>4 DEF Orphan
<1> QED  BY <1>1, <1>5, <1>6

LEMMA NoNodeIs ==
  /\ NoNode \in NodeRecs /\ NoNode.refcount = 0 /\ NoNode.parent = NULL
  /\ NoNode.name = 0 /\ NoNode.children = <<>> /\ NoNode.nchildren = 0
<1>1. <<>> \in Seq(Nodes)
  BY EmptySeq
<1> QED  BY <1>1 DEF NoNode, NodeRecs

LEMMA UnrefIs ==
  ASSUME NEW h, NEW n, ~(h[n].refcount > 1)
  PROVE  Unref(h, n) = [m \in Nodes |-> IF m \in FreedWith(h, n) THEN NoNode
            ELSE IF \E d \in FreedWith(h, n) : Holds(h, d, m) THEN Orphan(h[m]) ELSE h[m]]
<1>1. PICK F : F = FreedWith(h, n)
  OBVIOUS
<1>2. \A d \in F : \A m : Contains(h[d].children, m) <=> Holds(h, d, m)
  BY DEF Contains, Holds
<1>3. Unref(h, n) = [m \in Nodes |-> IF m \in F THEN NoNode
         ELSE IF \E d \in F : Contains(h[d].children, m) THEN Orphan(h[m]) ELSE h[m]]
  BY <1>1 DEF Unref, Orphan
<1> HIDE DEF Contains
<1> QED  BY <1>1, <1>2, <1>3

\* Parents and names of the nodes that stay in the tree do not change.
Pruned(h, g) ==
  \A m \in Nodes : g[m].parent # NULL =>
    g[m].parent = h[m].parent /\ g[m].name = h[m].name

\* The last reference is given up: the node dies, with its part of the tree.
LEMMA UnrefFrees ==
  ASSUME NEW h, NEW own, Good(h, own), NEW n \in Nodes, own[n] > 0, h[n].refcount = 1
  PROVE  Good(Unref(h, n), Less(own, n)) /\ Pruned(h, Unref(h, n))
<1> USE RootIs
<1>1. /\ h \in Memory /\ own \in [Nodes -> Nat]
      /\ Linked(h) /\ DeadAlone(h) /\ Sorted(h) /\ Owned(h, own)
  BY DEF Good
<1>2. PICK g : g = Unref(h, n)
  OBVIOUS
<1>3. PICK F : F = FreedWith(h, n)
  OBVIOUS
<1>4. /\ F \subseteq Nodes /\ n \in F
      /\ \A d \in F : \A c \in Nodes : Holds(h, d, c) /\ h[c].refcount = 1 => c \in F
      /\ \A c \in F \ {n} : h[c].refcount = 1 /\ \E d \in F : Holds(h, d, c)
  BY <1>1, <1>3, FreedIs
<1>5. \A m \in Nodes : own[m] \in Nat
  BY <1>1
<1>6. own[n] = 1 /\ ~HasParent(h, n)
  BY <1>1, <1>5 DEF Owned, Count
<1>7. \A d, m \in Nodes : Holds(h, d, m) => m # Root /\ h[m].parent = d /\ HasParent(h, m)
  <2> SUFFICES ASSUME NEW d \in Nodes, NEW k \in 1 .. Len(h[d].children)
               PROVE  h[d].children[k] \in Nodes =>
                        h[d].children[k] # Root /\ h[h[d].children[k]].parent = d
                        /\ HasParent(h, h[d].children[k])
    BY DEF Holds
  <2>1. PICK c : c = h[d].children[k]
    OBVIOUS
  <2>2. c # Root /\ h[c].parent = d
    BY <1>1, <2>1 DEF Linked
  <2>3. c \in Nodes => h[c].parent # c
    BY <1>1, <2>2 DEF Linked
  <2> QED  BY <2>1, <2>2, <2>3 DEF HasParent
<1> DEFINE Lost(m) == m \notin F /\ \E d \in F : Holds(h, d, m)
<1>8. \A m \in Nodes : Lost(m) =>
        /\ m # Root /\ m # n /\ HasParent(h, m) /\ h[m].parent \in F
        /\ h[m].refcount \in Nat /\ h[m].refcount > 1 /\ own[m] = h[m].refcount - 1
  <2> SUFFICES ASSUME NEW m \in Nodes, Lost(m)
               PROVE  /\ m # Root /\ m # n /\ HasParent(h, m) /\ h[m].parent \in F
                      /\ h[m].refcount \in Nat /\ h[m].refcount > 1
                      /\ own[m] = h[m].refcount - 1
    OBVIOUS
  <2>1. PICK d \in F : Holds(h, d, m)
    OBVIOUS
  <2>2. m # Root /\ m # n /\ h[m].parent = d /\ HasParent(h, m)
    BY <1>4, <1>7, <2>1
  <2>3. h[m].refcount = own[m] + 1 /\ own[m] \in Nat
    BY <1>1, <1>5, <2>2 DEF Owned, Count
  <2>4. h[m].refcount # 1
    BY <1>4, <2>1
  <2> QED  BY <2>2, <2>3, <2>4
<1> DEFINE Rec(m) == IF m \in F THEN NoNode ELSE IF Lost(m) THEN Orphan(h[m]) ELSE h[m]
<1>9. g = [m \in Nodes |-> Rec(m)]
  <2>1. ~(h[n].refcount > 1)
    OBVIOUS
  <2>2. g = [m \in Nodes |-> IF m \in F THEN NoNode
                ELSE IF \E d \in F : Holds(h, d, m) THEN Orphan(h[m]) ELSE h[m]]
    BY <1>2, <1>3, <2>1, UnrefIs
  <2> QED  BY <2>2
<1>10. \A m \in Nodes : h[m] \in NodeRecs
  BY <1>1, MemoryIs
<1>11. \A m \in Nodes : Rec(m) \in NodeRecs
  BY <1>8, <1>10, OrphanIs, NoNodeIs
<1>12. g \in Memory /\ \A m \in Nodes : g[m] = Rec(m)
  <2> HIDE DEF Rec
  <2> QED  BY <1>9, <1>11 DEF Memory
<1>13. \A m \in F : g[m] = NoNode
  BY <1>4, <1>12
<1>14. \A m \in Nodes : Lost(m) =>
         /\ g[m].refcount = h[m].refcount - 1 /\ g[m].parent = NULL
         /\ g[m].name = h[m].name /\ g[m].children = h[m].children
         /\ g[m].nchildren = h[m].nchildren
  BY <1>8, <1>10, <1>12, OrphanIs
<1>15. \A m \in Nodes \ F : ~Lost(m) => g[m] = h[m]
  BY <1>12
<1>16. \A m \in Nodes \ F : /\ g[m].name = h[m].name /\ g[m].children = h[m].children
                             /\ g[m].nchildren = h[m].nchildren
  BY <1>14, <1>15
<1>17. \A d \in Nodes \ F : \A c \in Nodes : Holds(h, d, c) =>
         c \notin F /\ g[c] = h[c]
  <2> SUFFICES ASSUME NEW d \in Nodes \ F, NEW c \in Nodes, Holds(h, d, c)
               PROVE  c \notin F /\ g[c] = h[c]
    OBVIOUS
  <2>1. h[c].parent = d /\ HasParent(h, c)
    BY <1>7
  <2>2. c \notin F
    BY <1>4, <1>6, <1>7, <2>1
  <2>3. ~Lost(c)
    BY <1>8, <2>1
  <2> QED  BY <1>15, <2>2, <2>3
<1> HIDE DEF Lost, Rec
<1>18. Linked(g)
  <2>1. ASSUME NEW d \in Nodes PROVE g[d].nchildren = Len(g[d].children)
    <3>1. CASE d \in F
      <4>1. Len(<<>>) = 0
        BY EmptySeq
      <4> QED  BY <1>13, <3>1, <4>1, NoNodeIs
    <3>2. CASE d \notin F
      BY <1>1, <1>16, <3>2 DEF Linked
    <3> QED  BY <3>1, <3>2
  <2>2. ASSUME NEW d \in Nodes, NEW k \in 1 .. Len(g[d].children)
        PROVE  g[d].children[k] # Root /\ g[g[d].children[k]].parent = d
    <3>1. CASE d \in F
      <4>1. Len(g[d].children) = 0
        BY <1>13, <3>1, NoNodeIs, EmptySeq
      <4> QED  BY <4>1
    <3>2. CASE d \notin F
      <4>1. g[d].children = h[d].children
        BY <1>16, <3>2
      <4>2. PICK c \in Nodes : c = h[d].children[k]
        BY <1>1, <4>1, MemoryIs
      <4>3. Holds(h, d, c)
        BY <4>1, <4>2 DEF Holds
      <4> QED  BY <1>7, <1>17, <3>2, <4>1, <4>2, <4>3
    <3> QED  BY <3>1, <3>2
  <2>3. ASSUME NEW m \in Nodes \ {Root}, g[m].parent # NULL
        PROVE  g[m].parent # m /\ Holds(g, g[m].parent, m)
    <3>1. m \notin F /\ ~Lost(m)
      BY <1>13, <1>14, <2>3, NoNodeIs
    <3>2. g[m] = h[m]
      BY <1>15, <3>1
    <3>3. PICK d : d = h[m].parent
      OBVIOUS
    <3>4. d \in Nodes /\ d # m /\ Holds(h, d, m)
      BY <1>1, <2>3, <3>2, <3>3, MemoryIs DEF Linked
    <3>5. d \notin F
      BY <3>1, <3>4 DEF Lost
    <3>6. Holds(g, d, m)
      BY <1>16, <3>4, <3>5 DEF Holds
    <3> QED  BY <3>2, <3>3, <3>4, <3>6
  <2>4. g[Root].parent \in {Root, NULL}
    BY <1>1, <1>13, <1>14, <1>15, NoNodeIs DEF Linked
  <2> QED  BY <2>1, <2>2, <2>3, <2>4 DEF Linked
<1>19. DeadAlone(g)
  <2>1. ASSUME NEW d \in Nodes, g[d].children # <<>> PROVE g[d].refcount > 0
    <3>1. d \notin F
      BY <1>13, <2>1, NoNodeIs
    <3>2. CASE Lost(d)
      BY <1>8, <1>14, <3>2
    <3>3. CASE ~Lost(d)
      BY <1>1, <1>15, <2>1, <3>1, <3>3 DEF DeadAlone
    <3> QED  BY <3>2, <3>3
  <2>2. ASSUME g[Root].parent = NULL PROVE g[Root].refcount = 0
    <3>1. CASE Root \in F
      BY <1>13, <3>1, NoNodeIs
    <3>2. CASE Root \notin F
      BY <1>1, <1>8, <1>15, <2>2, <3>2 DEF DeadAlone
    <3> QED  BY <3>1, <3>2
  <2> QED  BY <2>1, <2>2 DEF DeadAlone
<1>20. Sorted(g)
  <2> SUFFICES ASSUME NEW d \in Nodes, NEW j \in 1 .. Len(g[d].children),
                      NEW k \in 1 .. Len(g[d].children), j < k
               PROVE  g[g[d].children[j]].name < g[g[d].children[k]].name
    BY DEF Sorted
  <2>1. d \notin F
    <3>1. SUFFICES ASSUME d \in F PROVE FALSE
      OBVIOUS
    <3>2. Len(g[d].children) = 0
      BY <1>13, <3>1, NoNodeIs, EmptySeq
    <3> QED  BY <3>2
  <2>2. g[d].children = h[d].children
    BY <1>16, <2>1
  <2>3. PICK a, b \in Nodes : a = h[d].children[j] /\ b = h[d].children[k]
    BY <1>1, <2>2, MemoryIs
  <2>4. Holds(h, d, a) /\ Holds(h, d, b)
    BY <2>2, <2>3 DEF Holds
  <2>5. h[a].name < h[b].name
    BY <1>1, <2>2, <2>3 DEF Sorted
  <2> QED  BY <1>17, <2>1, <2>2, <2>3, <2>4, <2>5
<1>21. Owned(g, Less(own, n)) /\ Less(own, n) \in [Nodes -> Nat]
  <2>1. ASSUME NEW m \in Nodes
        PROVE  Less(own, n)[m] \in Nat /\ g[m].refcount = Less(own, n)[m] + Count(HasParent(g, m))
    <3>1. Less(own, n)[m] = IF m = n THEN 0 ELSE own[m]
      BY <1>6 DEF Less
    <3>2. CASE m = n
      BY <1>4, <1>13, <3>1, <3>2, NoNodeIs DEF HasParent, Count
    <3>3. CASE m \in F \ {n}
      <4>1. h[m].refcount = 1 /\ HasParent(h, m)
        BY <1>4, <1>7, <3>3
      <4>2. own[m] = 0
        BY <1>1, <1>5, <4>1 DEF Owned, Count
      <4>3. g[m].refcount = 0 /\ ~HasParent(g, m)
        BY <1>13, <3>3, NoNodeIs DEF HasParent
      <4> QED  BY <3>1, <3>3, <4>2, <4>3 DEF Count
    <3>4. CASE Lost(m)
      BY <1>5, <1>8, <1>14, <3>1, <3>4 DEF HasParent, Count
    <3>5. CASE m \notin F /\ ~Lost(m)
      <4>1. g[m] = h[m] /\ m # n
        BY <1>4, <1>15, <3>5
      <4> QED  BY <1>1, <1>5, <3>1, <4>1 DEF Owned, HasParent
    <3> QED  BY <3>2, <3>3, <3>4, <3>5
  <2>2. Less(own, n) = [m \in Nodes |-> Less(own, n)[m]]
    BY DEF Less
  <2>3. Less(own, n) \in [Nodes -> Nat]
    BY <2>1, <2>2
  <2> QED  BY <2>1, <2>3 DEF Owned
<1>22. Pruned(h, g)
  BY <1>13, <1>14, <1>15, NoNodeIs DEF Pruned
<1>23. Grounded(g)
  <2>1. \A m \in Nodes : g[m].parent \in {NULL, h[m].parent}
    BY <1>22 DEF Pruned
  <2>2. Grounded(h)
    BY DEF Good
  <2> QED  BY <2>1, <2>2, StaysGrounded
<1> QED  BY <1>2, <1>12, <1>18, <1>19, <1>20, <1>21, <1>22, <1>23 DEF Good

\* iso_node_unref() by an owner.
LEMMA UnrefGood ==
  ASSUME NEW h, NEW own, Good(h, own), NEW n \in Nodes, own[n] > 0
  PROVE  Good(Unref(h, n), Less(own, n)) /\ Pruned(h, Unref(h, n))
<1>1. h \in Memory /\ own \in [Nodes -> Nat] /\ Sorted(h) /\ Owned(h, own)
  BY DEF Good
<1>2. PICK w \in Nat : w = own[n] /\ w > 0
  BY <1>1
<1>3. PICK c \in Nat : c = h[n].refcount /\ c > 0
  BY <1>1, <1>2 DEF Owned, Count
<1>4. CASE c = 1
  BY <1>3, <1>4, UnrefFrees
<1>5. CASE c > 1
  <2>1. GoodBut(h, own, n)
    BY GoodIsGoodBut
  <2>2. Good(Unref(h, n), Less(own, n)) /\ SameTree(h, Unref(h, n))
    BY <1>1, <1>3, <1>5, <2>1, UnrefCounts
  <2> QED  BY <2>2 DEF SameTree, Pruned
<1> QED  BY <1>3, <1>4, <1>5

\* A directory that lives on keeps its children.
LEMMA ChildrenStay ==
  ASSUME NEW h, NEW own, Good(h, own), NEW n \in Nodes, own[n] > 0,
         NEW d \in Nodes, NEW m \in Nodes \ {Root}, h[m].parent = d,
         Unref(h, n)[d].refcount > 0
  PROVE  Unref(h, n)[m].parent = d
<1> USE RootIs
<1>1. h \in Memory /\ Linked(h) /\ DeadAlone(h)
  BY DEF Good
<1>2. PICK g : g = Unref(h, n)
  OBVIOUS
<1>3. Linked(g)
  BY <1>2, UnrefGood DEF Good
<1>4. Holds(h, d, m)
  BY <1>1 DEF Linked
<1>5. h[d].refcount > 0
  <2>1. h[d].children # <<>>
    <3>1. Len(<<>>) = 0
      BY EmptySeq
    <3> QED  BY <1>4, <3>1 DEF Holds
  <2> QED  BY <1>1, <2>1 DEF DeadAlone
<1>6. g[d].children = h[d].children
  <2>1. CASE h[n].refcount > 1
    <3>1. PICK c \in Nat : c = h[n].refcount - 1
      BY <1>1, <2>1, MemoryIs
    <3>2. g = Counted(h, n, c)
      BY <1>2, <2>1, <3>1 DEF Unref, Counted
    <3>3. SameTree(h, Counted(h, n, c))
      BY <1>1, CountedAnew
    <3> QED  BY <3>2, <3>3 DEF SameTree
  <2>2. CASE ~(h[n].refcount > 1)
    <3>1. g[d] \in {NoNode, Orphan(h[d]), h[d]}
      BY <1>2, <2>2, UnrefIs
    <3>2. g[d] # NoNode
      <4>1. ~(0 > 0)
        OBVIOUS
      <4> QED  BY <1>2, <4>1, NoNodeIs
    <3>3. Orphan(h[d]).children = h[d].children
      BY <1>1, <1>5, MemoryIs, OrphanIs
    <3> QED  BY <3>1, <3>2, <3>3
  <2> QED  BY <2>1, <2>2
<1>7. Holds(g, d, m)
  BY <1>4, <1>6 DEF Holds
<1> QED  BY <1>2, <1>3, <1>7 DEF Holds, Linked

-----------------------------------------------------------------------------
(* Adding, replacing and taking children.                                  *)

\* The list of directory d becomes s, and n gets parent p.
Put(h, d, s, c, n, p) ==
  [h EXCEPT ![d].children = s, ![d].nchildren = c, ![n].parent = p]

LEMMA PutIs ==
  ASSUME NEW h \in Memory, NEW d \in Nodes, NEW s \in Seq(Nodes), NEW c \in Nat,
         NEW n \in Nodes \ {d}, NEW p \in Nodes \cup {NULL}
  PROVE  /\ Put(h, d, s, c, n, p) \in Memory
         /\ \A m \in Nodes :
              /\ Put(h, d, s, c, n, p)[m].refcount = h[m].refcount
              /\ Put(h, d, s, c, n, p)[m].name = h[m].name
              /\ Put(h, d, s, c, n, p)[m].parent = IF m = n THEN p ELSE h[m].parent
              /\ Put(h, d, s, c, n, p)[m].children = IF m = d THEN s ELSE h[m].children
              /\ Put(h, d, s, c, n, p)[m].nchildren = IF m = d THEN c ELSE h[m].nchildren
<1>1. PICK r, q \in NodeRecs : r = h[d] /\ q = h[n]
  BY DEF Memory
<1>2. PICK r1 : r1 = [r EXCEPT !.children = s]
  OBVIOUS
<1>3. /\ r1 \in NodeRecs /\ r1.refcount = r.refcount /\ r1.name = r.name
      /\ r1.parent = r.parent /\ r1.children = s
  BY <1>2 DEF NodeRecs
<1>4. PICK r2 : r2 = [r1 EXCEPT !.nchildren = c]
  OBVIOUS
<1>5. /\ r2 \in NodeRecs /\ r2.refcount = r.refcount /\ r2.name = r.name
      /\ r2.parent = r.parent /\ r2.children = s /\ r2.nchildren = c
  BY <1>3, <1>4 DEF NodeRecs
<1>6. PICK q1 : q1 = [q EXCEPT !.parent = p]
  OBVIOUS
<1>7. /\ q1 \in NodeRecs /\ q1.refcount = q.refcount /\ q1.name = q.name
      /\ q1.parent = p /\ q1.children = q.children /\ q1.nchildren = q.nchildren
  BY <1>6 DEF NodeRecs
<1>8. PICK g : g = [h EXCEPT ![d] = r2, ![n] = q1]
  OBVIOUS
<1>9. Put(h, d, s, c, n, p) = g
  BY <1>1, <1>2, <1>4, <1>6, <1>8 DEF Put, Memory
<1>10. g \in Memory /\ \A m \in Nodes : g[m] = IF m = n THEN q1 ELSE IF m = d THEN r2 ELSE h[m]
  BY <1>5, <1>7, <1>8 DEF Memory
<1> QED  BY <1>1, <1>5, <1>7, <1>9, <1>10

\* The list of directory d changes to s, and the parents accordingly.
NewList(h, g, d, s) ==
  /\ s \in Seq(Nodes)
  /\ \A m \in Nodes :
       /\ g[m].refcount = h[m].refcount /\ g[m].name = h[m].name
       /\ g[m].children = IF m = d THEN s ELSE h[m].children
       /\ g[m].nchildren = IF m = d THEN Len(s) ELSE h[m].nchildren
       /\ (\E k \in 1 .. Len(s) : s[k] = m) => g[m].parent = d
       /\ ~(\E k \in 1 .. Len(s) : s[k] = m) =>
            g[m].parent = IF h[m].parent = d /\ m # Root THEN NULL ELSE h[m].parent
  /\ \A k \in 1 .. Len(s) : s[k] \notin {Root, d} /\ h[s[k]].parent \in {NULL, d}
  /\ \A j, k \in 1 .. Len(s) : j < k => h[s[j]].name < h[s[k]].name

LEMMA Relisted ==
  ASSUME NEW h, NEW own, NEW x, GoodBut(h, own, x), NEW d \in Nodes,
         h[x].parent \in {d, NULL}, h[d].refcount > 0,
         NEW g \in Memory, NEW s, NewList(h, g, d, s),
         Grounded(g), NEW o \in [Nodes -> Nat], Owned(g, o)
  PROVE  Good(g, o)
<1> USE RootIs DEF NewList
<1>1. h \in Memory /\ Linked(h) /\ DeadAlone(h) /\ SortedBut(h, x)
  BY DEF GoodBut
<1>2. \A k \in 1 .. Len(s) : s[k] \in Nodes
  BY LenProperties
<1> DEFINE In(m) == \E k \in 1 .. Len(s) : s[k] = m
<1>3. ASSUME NEW e \in Nodes \ {d}, NEW k \in 1 .. Len(h[e].children)
      PROVE  /\ h[e].children[k] \in Nodes \ {Root} /\ h[h[e].children[k]].parent = e
             /\ ~In(h[e].children[k]) /\ h[e].children[k] # x
             /\ g[h[e].children[k]].parent = e
  <2>1. PICK c \in Nodes : c = h[e].children[k]
    BY <1>1, MemoryIs
  <2>2. c # Root /\ h[c].parent = e
    BY <1>1, <2>1 DEF Linked
  <2>3. ~In(c)
    BY <2>2
  <2>4. c # x
    BY <2>2
  <2>5. g[c].parent = e
    BY <2>2, <2>3
  <2> QED  BY <2>1, <2>2, <2>3, <2>4, <2>5
<1>4. Linked(g)
  <2>1. ASSUME NEW e \in Nodes PROVE g[e].nchildren = Len(g[e].children)
    BY <1>1 DEF Linked
  <2>2. ASSUME NEW e \in Nodes, NEW k \in 1 .. Len(g[e].children)
        PROVE  g[e].children[k] # Root /\ g[g[e].children[k]].parent = e
    <3>1. CASE e = d
      <4>1. g[e].children = s
        BY <3>1
      <4> QED  BY <1>2, <3>1, <4>1
    <3>2. CASE e # d
      <4>1. g[e].children = h[e].children
        BY <3>2
      <4> QED  BY <1>3, <3>2, <4>1
    <3> QED  BY <3>1, <3>2
  <2>3. ASSUME NEW m \in Nodes \ {Root}, g[m].parent # NULL
        PROVE  g[m].parent # m /\ Holds(g, g[m].parent, m)
    <3>1. CASE In(m)
      <4>1. g[m].parent = d /\ m # d
        BY <3>1
      <4>2. Holds(g, d, m)
        BY <3>1 DEF Holds
      <4> QED  BY <4>1, <4>2
    <3>2. CASE ~In(m)
      <4>1. PICK e : e = h[m].parent
        OBVIOUS
      <4>2. e # d /\ e # NULL /\ g[m].parent = e
        BY <2>3, <3>2, <4>1
      <4>3. e \in Nodes /\ e # m /\ Holds(h, e, m)
        BY <1>1, <4>1, <4>2, MemoryIs DEF Linked
      <4>4. Holds(g, e, m)
        BY <4>2, <4>3 DEF Holds
      <4> QED  BY <4>2, <4>3, <4>4
    <3> QED  BY <3>1, <3>2
  <2>4. g[Root].parent \in {Root, NULL}
    BY <1>1 DEF Linked
  <2> QED  BY <2>1, <2>2, <2>3, <2>4 DEF Linked
<1>5. DeadAlone(g)
  BY <1>1 DEF DeadAlone
<1>6. Sorted(g)
  <2> SUFFICES ASSUME NEW e \in Nodes, NEW j \in 1 .. Len(g[e].children),
                      NEW k \in 1 .. Len(g[e].children), j < k
               PROVE  g[g[e].children[j]].name < g[g[e].children[k]].name
    BY DEF Sorted
  <2>1. CASE e = d
    <3>1. g[e].children = s
      BY <2>1
    <3>2. h[s[j]].name < h[s[k]].name
      BY <3>1
    <3>3. s[j] \in Nodes /\ s[k] \in Nodes
      BY <1>2, <3>1
    <3>4. g[s[j]].name = h[s[j]].name /\ g[s[k]].name = h[s[k]].name
      BY <3>3
    <3> QED  BY <3>1, <3>2, <3>4
  <2>2. CASE e # d
    <3>1. g[e].children = h[e].children
      BY <2>2
    <3>2. PICK a, b \in Nodes : a = h[e].children[j] /\ b = h[e].children[k]
      BY <1>1, <3>1, MemoryIs
    <3>3. a # x /\ b # x
      BY <1>3, <2>2, <3>1, <3>2
    <3>4. h[a].name < h[b].name
      BY <1>1, <3>1, <3>2, <3>3 DEF SortedBut
    <3>5. g[a].name = h[a].name /\ g[b].name = h[b].name
      OBVIOUS
    <3> QED  BY <3>1, <3>2, <3>4, <3>5
  <2> QED  BY <2>1, <2>2
<1> QED  BY <1>4, <1>5, <1>6 DEF Good

\* A node which is put below d does not make a cycle, if it is not above d.
LEMMA AddedGrounded ==
  ASSUME NEW h, Grounded(h), NEW d, NEW n, NEW A \in SUBSET Nodes, d \in A, n \notin A,
         \A m \in A : h[m].parent \in A \cup {NULL}, NEW g,
         \A m \in Nodes \ {n} : g[m].parent \in {NULL, h[m].parent}, g[n].parent = d
  PROVE  Grounded(g)
<1> SUFFICES ASSUME NEW S \in SUBSET (Nodes \ {Root}), S # {}
             PROVE  \E m \in S : g[m].parent \notin S
  BY DEF Grounded
<1> USE RootIs
<1>1. CASE n \notin S
  BY <1>1 DEF Grounded
<1>2. CASE n \in S /\ d \notin S
  BY <1>2
<1>3. CASE n \in S /\ d \in S
  <2>1. PICK T : T = S \cap A
    OBVIOUS
  <2>2. T \in SUBSET (Nodes \ {Root}) /\ T # {}
    BY <1>3, <2>1
  <2>3. PICK m \in T : h[m].parent \notin T
    BY <2>2 DEF Grounded
  <2>4. m \in S /\ m \in Nodes \ {n} /\ h[m].parent \notin S
    BY <2>1, <2>3
  <2> QED  BY <2>4
<1> QED  BY <1>1, <1>2, <1>3

\* iso_dir_find()
LEMMA FindIs ==
  ASSUME NEW h \in Memory, NEW d \in Nodes, NEW name
  PROVE  /\ DirFind(h, d, name) \in 1 .. Len(h[d].children) + 1
         /\ \A i \in 1 .. DirFind(h, d, name) - 1 : h[h[d].children[i]].name < name
         /\ DirFind(h, d, name) =< Len(h[d].children) =>
              ~(h[h[d].children[DirFind(h, d, name)]].name < name)
<1>1. PICK s : s = h[d].children
  OBVIOUS
<1>2. PICK len \in Nat : len = Len(s)
  BY <1>1, MemoryIs
<1> DEFINE T == {i \in 1 .. len : ~(h[s[i]].name < name)}
<1>3. DirFind(h, d, name) = IF T # {} THEN IF Min(T) = 0 THEN len + 1 ELSE Min(T)
                            ELSE len + 1
  BY <1>1, <1>2 DEF DirFind, SelectInSeq
<1>4. CASE T = {}
  <2>1. DirFind(h, d, name) = len + 1
    BY <1>3, <1>4
  <2>2. \A i \in 1 .. len : h[s[i]].name < name
    BY <1>4
  <2> QED  BY <1>1, <1>2, <2>1, <2>2
<1>5. CASE T # {}
  <2>1. PICK k : k = Min(T)
    OBVIOUS
  <2>2. k \in T /\ \A y \in T : k =< y
    BY <1>2, <1>5, <2>1, MinIs
  <2>3. DirFind(h, d, name) = k
    BY <1>3, <1>5, <2>1, <2>2
  <2> QED  BY <1>1, <1>2, <2>2, <2>3
<1> QED  BY <1>4, <1>5

\* A node with an owner but without parent is in nobody's list.
LEMMA FreeNode ==
  ASSUME NEW h, NEW own, NEW x, GoodBut(h, own, x), NEW n \in Nodes, own[n] > 0,
         h[n].parent = NULL
  PROVE  /\ n # Root /\ h[n].refcount = own[n]
         /\ \A d \in Nodes : ~Holds(h, d, n)
<1> USE RootIs
<1>1. /\ h \in Memory /\ own \in [Nodes -> Nat] /\ Linked(h) /\ DeadAlone(h)
      /\ Owned(h, own)
  BY DEF GoodBut
<1>2. own[n] \in Nat
  BY <1>1
<1>3. h[n].refcount = own[n]
  BY <1>1, <1>2 DEF Owned, HasParent, Count
<1>4. n # Root
  BY <1>1, <1>3 DEF DeadAlone
<1>5. ASSUME NEW d \in Nodes PROVE ~Holds(h, d, n)
  BY <1>1 DEF Linked, Holds
<1> QED  BY <1>3, <1>4, <1>5

\* Parents and names when n is put below d.
Below(h, g, d, n) ==
  \A m \in Nodes : /\ g[m].name = h[m].name
                    /\ g[m].parent = IF m = n THEN d ELSE h[m].parent

\* iso_dir_insert() without a namesake: the directory takes over the
\* reference of the program.
LEMMA InsertGood ==
  ASSUME NEW h, NEW own, Good(h, own), NEW d \in Nodes, NEW n \in Nodes \ {d},
         own[n] > 0, h[n].parent = NULL, h[d].refcount > 0,
         ~DirExists(h, d, h[n].name),
         NEW A \in SUBSET Nodes, d \in A, n \notin A,
         \A m \in A : h[m].parent \in A \cup {NULL}
  PROVE  Good(Insert(h, d, n), Less(own, n)) /\ Below(h, Insert(h, d, n), d, n)
<1> USE RootIs
<1>1. /\ h \in Memory /\ own \in [Nodes -> Nat] /\ Linked(h) /\ Sorted(h) /\ Grounded(h)
      /\ Owned(h, own)
  BY DEF Good
<1>2. GoodBut(h, own, n)
  BY GoodIsGoodBut
<1>3. n # Root /\ h[n].refcount = own[n] /\ ~Holds(h, d, n)
  BY <1>2, FreeNode
<1>4. PICK ch \in Seq(Nodes) : ch = h[d].children
  BY <1>1, MemoryIs
<1>5. PICK len \in Nat : len = Len(ch) /\ \A i \in 1 .. len : ch[i] \in Nodes
  BY LenProperties
<1>6. PICK name \in Nat : name = h[n].name
  BY <1>1, MemoryIs
<1>7. PICK k : k = DirFind(h, d, name)
  OBVIOUS
<1>8. /\ k \in 1 .. len + 1 /\ \A i \in 1 .. k - 1 : h[ch[i]].name < name
      /\ k =< len => ~(h[ch[k]].name < name) /\ h[ch[k]].name # name
  <2>1. /\ k \in 1 .. len + 1 /\ \A i \in 1 .. k - 1 : h[ch[i]].name < name
        /\ k =< len => ~(h[ch[k]].name < name)
    BY <1>1, <1>4, <1>5, <1>7, FindIs
  <2>2. k =< len => h[ch[k]].name # name
    BY <1>4, <1>5, <1>6, <1>7 DEF DirExists
  <2> QED  BY <2>1, <2>2
<1>9. \A i \in 1 .. len : h[ch[i]].name \in Nat
  BY <1>1, <1>5, MemoryIs
<1>10. \A i, j \in 1 .. len : i < j => h[ch[i]].name < h[ch[j]].name
  BY <1>1, <1>4, <1>5 DEF Sorted
<1>11. \A i \in k .. len : name < h[ch[i]].name
  <2> SUFFICES ASSUME NEW i \in k .. len PROVE name < h[ch[i]].name
    OBVIOUS
  <2>1. k \in 1 .. len /\ name < h[ch[k]].name
    BY <1>8, <1>9
  <2>2. i = k \/ h[ch[k]].name < h[ch[i]].name
    BY <1>10, <2>1
  <2> QED  BY <1>9, <2>1, <2>2
<1>12. PICK s : s = InsertAt(ch, k, n)
  OBVIOUS
<1>13. /\ s \in Seq(Nodes) /\ Len(s) = len + 1
       /\ \A i \in 1 .. len + 1 : s[i] = IF i < k THEN ch[i] ELSE IF i = k THEN n ELSE ch[i - 1]
  <2>1. k \in 1 .. Len(ch) + 1
    BY <1>5, <1>8
  <2>2. InsertAt(ch, k, n) \in Seq(Nodes) /\ Len(InsertAt(ch, k, n)) = Len(ch) + 1
    BY <2>1, InsertIs
  <2>3. \A i \in 1 .. Len(ch) + 1 : InsertAt(ch, k, n)[i] =
             IF i < k THEN ch[i] ELSE IF i = k THEN n ELSE ch[i - 1]
    BY <2>1, InsertIs
  <2> QED  BY <1>5, <1>12, <2>2, <2>3
<1>a. \A i \in 1 .. len + 1 : /\ i < k => i \in 1 .. len /\ s[i] = ch[i]
                              /\ i = k => s[i] = n
                              /\ i > k => i - 1 \in k .. len /\ i - 1 \in 1 .. len /\ s[i] = ch[i - 1]
  BY <1>8, <1>13
<1>14. PICK g : g = Insert(h, d, n)
  OBVIOUS
<1>15. g = Put(h, d, s, len + 1, n, d)
  BY <1>1, <1>4, <1>5, <1>6, <1>7, <1>12, <1>14 DEF Insert, Put, Linked
<1>16. g \in Memory /\ \A m \in Nodes :
         /\ g[m].refcount = h[m].refcount /\ g[m].name = h[m].name
         /\ g[m].parent = IF m = n THEN d ELSE h[m].parent
         /\ g[m].children = IF m = d THEN s ELSE h[m].children
         /\ g[m].nchildren = IF m = d THEN len + 1 ELSE h[m].nchildren
  <2>1. PICK c \in Nat : c = len + 1
    OBVIOUS
  <2>2. h \in Memory /\ s \in Seq(Nodes) /\ d \in Nodes \cup {NULL} /\ n \in Nodes \ {d}
    BY <1>1, <1>13
  <2>3. Put(h, d, s, c, n, d) \in Memory
    BY <2>2, PutIs
  <2>4. \A m \in Nodes :
          /\ Put(h, d, s, c, n, d)[m].refcount = h[m].refcount
          /\ Put(h, d, s, c, n, d)[m].name = h[m].name
          /\ Put(h, d, s, c, n, d)[m].parent = IF m = n THEN d ELSE h[m].parent
          /\ Put(h, d, s, c, n, d)[m].children = IF m = d THEN s ELSE h[m].children
          /\ Put(h, d, s, c, n, d)[m].nchildren = IF m = d THEN c ELSE h[m].nchildren
    BY <2>2, PutIs
  <2> QED  BY <1>15, <2>1, <2>3, <2>4
<1>17. Below(h, g, d, n)
  BY <1>16 DEF Below
<1>18. \A i \in 1 .. len : ch[i] \notin {Root, n, d} /\ h[ch[i]].parent = d
  <2> SUFFICES ASSUME NEW i \in 1 .. len PROVE ch[i] \notin {Root, n, d} /\ h[ch[i]].parent = d
    OBVIOUS
  <2>1. ch[i] # Root /\ h[ch[i]].parent = d
    BY <1>1, <1>4, <1>5 DEF Linked
  <2>2. ch[i] # n
    BY <2>1
  <2>3. ch[i] # d
    BY <1>1, <1>5, <2>1 DEF Linked
  <2> QED  BY <2>1, <2>2, <2>3
<1>19. \A i \in 1 .. Len(s) : s[i] \notin {Root, d} /\ h[s[i]].parent \in {NULL, d}
  <2> SUFFICES ASSUME NEW i \in 1 .. len + 1
               PROVE  s[i] \notin {Root, d} /\ h[s[i]].parent \in {NULL, d}
    BY <1>13
  <2>1. CASE i < k
    BY <1>a, <1>18, <2>1
  <2>2. CASE i = k
    BY <1>a, <1>3, <2>2
  <2>3. CASE i > k
    BY <1>a, <1>18, <2>3
  <2> QED  BY <1>8, <2>1, <2>2, <2>3
<1>20. \A i, j \in 1 .. Len(s) : i < j => h[s[i]].name < h[s[j]].name
  <2> SUFFICES ASSUME NEW i \in 1 .. len + 1, NEW j \in 1 .. len + 1, i < j
               PROVE  h[s[i]].name < h[s[j]].name
    BY <1>13
  <2>1. CASE j < k
    BY <1>a, <1>8, <1>10, <2>1
  <2>2. CASE j = k
    BY <1>a, <1>6, <1>8, <2>2
  <2>3. CASE j > k /\ i = k
    BY <1>a, <1>6, <1>11, <2>3
  <2>4. CASE j > k /\ i > k
    BY <1>a, <1>8, <1>10, <2>4
  <2>5. CASE j > k /\ i < k
    <3>1. i \in 1 .. len /\ j - 1 \in 1 .. len /\ i < j - 1 /\ s[i] = ch[i] /\ s[j] = ch[j - 1]
      BY <1>a, <1>8, <2>5
    <3> QED  BY <1>10, <3>1
  <2> QED  BY <1>8, <2>1, <2>2, <2>3, <2>4, <2>5
<1>21. \A m \in Nodes \ {n} : h[m].parent = d /\ m # Root => \E i \in 1 .. Len(s) : s[i] = m
  <2> SUFFICES ASSUME NEW m \in Nodes \ {n, Root}, h[m].parent = d
               PROVE  \E i \in 1 .. Len(s) : s[i] = m
    OBVIOUS
  <2>1. PICK i \in 1 .. len : ch[i] = m
    BY <1>1, <1>4, <1>5 DEF Linked, Holds
  <2>2. i < k => i \in 1 .. Len(s) /\ s[i] = m
    BY <1>8, <1>13, <2>1
  <2>3. i >= k => i + 1 \in 1 .. Len(s) /\ s[i + 1] = m
    BY <1>8, <1>13, <2>1
  <2> QED  BY <1>8, <2>2, <2>3
<1>22. k \in 1 .. Len(s) /\ s[k] = n
  BY <1>8, <1>13
<1>23. \A i \in 1 .. Len(s) : s[i] # n => h[s[i]].parent = d
  BY <1>8, <1>13, <1>18
<1>24. \A m \in Nodes :
         /\ (\E i \in 1 .. Len(s) : s[i] = m) => g[m].parent = d
         /\ ~(\E i \in 1 .. Len(s) : s[i] = m) =>
              g[m].parent = IF h[m].parent = d /\ m # Root THEN NULL ELSE h[m].parent
  BY <1>16, <1>21, <1>22, <1>23
<1>25. Grounded(g)
  <2>1. g[n].parent = d /\ \A m \in Nodes \ {n} : g[m].parent \in {NULL, h[m].parent}
    BY <1>16
  <2>2. Grounded(h)
    BY <1>1
  <2> QED  BY <2>1, <2>2, AddedGrounded
<1>26. PICK o : o = Less(own, n)
  OBVIOUS
<1>27. o \in [Nodes -> Nat] /\ \A m \in Nodes : o[m] = IF m = n THEN own[m] - 1 ELSE own[m]
  BY <1>1, <1>26 DEF Less
<1>28. Owned(g, o)
  <2> SUFFICES ASSUME NEW m \in Nodes
               PROVE  g[m].refcount = o[m] + Count(HasParent(g, m))
    BY DEF Owned
  <2>1. h[m].refcount = own[m] + Count(HasParent(h, m)) /\ own[m] \in Nat
    BY <1>1 DEF Owned
  <2>2. CASE m = n
    <3>1. HasParent(g, m) /\ ~HasParent(h, m)
      BY <1>16, <2>2 DEF HasParent
    <3>2. Count(HasParent(g, m)) = 1 /\ Count(HasParent(h, m)) = 0
      BY <3>1 DEF Count
    <3> QED  BY <1>16, <1>27, <2>1, <2>2, <3>2
  <2>3. CASE m # n
    <3>1. HasParent(g, m) <=> HasParent(h, m)
      BY <1>16, <2>3 DEF HasParent
    <3> QED  BY <1>16, <1>27, <2>1, <2>3, <3>1 DEF Count
  <2> QED  BY <2>2, <2>3
<1>29. Good(g, o)
  <2>1. \A m \in Nodes :
          /\ g[m].refcount = h[m].refcount /\ g[m].name = h[m].name
          /\ g[m].children = IF m = d THEN s ELSE h[m].children
          /\ g[m].nchildren = IF m = d THEN Len(s) ELSE h[m].nchildren
    BY <1>13, <1>16
  <2>2. NewList(h, g, d, s)
    BY <1>13, <1>19, <1>20, <1>24, <2>1 DEF NewList
  <2>3. h[n].parent \in {d, NULL} /\ g \in Memory
    BY <1>16
  <2> QED  BY <1>2, <1>25, <1>27, <1>28, <2>2, <2>3, Relisted
<1> QED  BY <1>14, <1>17, <1>26, <1>29

\* All nodes below n, and n itself.
LEMMA Descendants ==
  ASSUME NEW h, Linked(h), Grounded(h), NEW n \in Nodes \ {Root}, h[n].parent # NULL
  PROVE  \E B \in SUBSET Nodes :
           /\ n \in B /\ h[n].parent \notin B
           /\ \A d \in B : \A c \in Nodes : Holds(h, d, c) => c \in B
<1> DEFINE Closed(S) == n \in S /\ \A d \in S : \A c \in Nodes : Holds(h, d, c) => c \in S
<1>1. PICK B : B = {m \in Nodes : \A S \in SUBSET Nodes : Closed(S) => m \in S}
  OBVIOUS
<1>2. B \in SUBSET Nodes /\ Closed(B)
  BY <1>1
<1>3. ASSUME NEW c \in B \ {n} PROVE \E d \in B : Holds(h, d, c)
  <2>1. SUFFICES ASSUME ~ \E d \in B : Holds(h, d, c) PROVE FALSE
    OBVIOUS
  <2>2. Closed(B \ {c})
    BY <1>2, <2>1
  <2>3. B \ {c} \in SUBSET Nodes
    BY <1>2
  <2> QED  BY <1>1, <2>2, <2>3
<1>4. \A d, c \in Nodes : Holds(h, d, c) => c # Root /\ h[c].parent = d
  BY DEF Linked, Holds
<1>5. h[n].parent \notin B
  <2>1. SUFFICES ASSUME h[n].parent \in B PROVE FALSE
    OBVIOUS
  <2>2. \A c \in B : h[c].parent \in B /\ c # Root
    BY <1>2, <1>3, <1>4, <2>1
  <2>3. B \in SUBSET (Nodes \ {Root}) /\ B # {}
    BY <1>2, <2>2
  <2> QED  BY <2>2, <2>3 DEF Grounded
<1> QED  BY <1>2, <1>5

\* Node n gets the place of old in the list of directory d.
Swap(h, d, s, n, old) ==
  [h EXCEPT ![d].children = s, ![n].parent = d, ![old].parent = NULL]

LEMMA ReparentIs ==
  ASSUME NEW r \in NodeRecs, NEW p \in Nodes \cup {NULL}
  PROVE  /\ [r EXCEPT !.parent = p] \in NodeRecs /\ [r EXCEPT !.parent = p].parent = p
         /\ [r EXCEPT !.parent = p].refcount = r.refcount
         /\ [r EXCEPT !.parent = p].name = r.name
         /\ [r EXCEPT !.parent = p].children = r.children
         /\ [r EXCEPT !.parent = p].nchildren = r.nchildren
<1>1. PICK q : q = [r EXCEPT !.parent = p]
  OBVIOUS
<1>2. /\ q \in NodeRecs /\ q.parent = p /\ q.refcount = r.refcount /\ q.name = r.name
      /\ q.children = r.children /\ q.nchildren = r.nchildren
  BY <1>1 DEF NodeRecs
<1> QED  BY <1>1, <1>2

LEMMA SwapIs ==
  ASSUME NEW h \in Memory, NEW d \in Nodes, NEW s \in Seq(Nodes), NEW n \in Nodes \ {d},
         NEW old \in Nodes \ {d, n}
  PROVE  /\ Swap(h, d, s, n, old) \in Memory
         /\ Swap(h, d, s, n, old) =
              [h EXCEPT ![d] = [h[d] EXCEPT !.children = s],
                        ![n] = [h[n] EXCEPT !.parent = d],
                        ![old] = [h[old] EXCEPT !.parent = NULL]]
         /\ \A m \in Nodes :
              /\ Swap(h, d, s, n, old)[m].refcount = h[m].refcount
              /\ Swap(h, d, s, n, old)[m].name = h[m].name
              /\ Swap(h, d, s, n, old)[m].parent =
                   IF m = n THEN d ELSE IF m = old THEN NULL ELSE h[m].parent
              /\ Swap(h, d, s, n, old)[m].children = IF m = d THEN s ELSE h[m].children
              /\ Swap(h, d, s, n, old)[m].nchildren = h[m].nchildren
<1>1. PICK r, q, t \in NodeRecs : r = h[d] /\ q = h[n] /\ t = h[old]
  BY DEF Memory
<1>2. PICK r1 : r1 = [r EXCEPT !.children = s]
  OBVIOUS
<1>3. /\ r1 \in NodeRecs /\ r1.refcount = r.refcount /\ r1.name = r.name
      /\ r1.parent = r.parent /\ r1.children = s /\ r1.nchildren = r.nchildren
  BY <1>2 DEF NodeRecs
<1>4. PICK q1, t1 : q1 = [q EXCEPT !.parent = d] /\ t1 = [t EXCEPT !.parent = NULL]
  OBVIOUS
<1>5. /\ q1 \in NodeRecs /\ q1.refcount = q.refcount /\ q1.name = q.name
      /\ q1.parent = d /\ q1.children = q.children /\ q1.nchildren = q.nchildren
  BY <1>4, ReparentIs
<1>6. /\ t1 \in NodeRecs /\ t1.refcount = t.refcount /\ t1.name = t.name
      /\ t1.parent = NULL /\ t1.children = t.children /\ t1.nchildren = t.nchildren
  BY <1>4, ReparentIs
<1>7. PICK g : g = [h EXCEPT ![d] = r1, ![n] = q1, ![old] = t1]
  OBVIOUS
<1>8. Swap(h, d, s, n, old) = g
  BY <1>1, <1>2, <1>4, <1>7 DEF Swap, Memory
<1>9. g \in Memory /\ \A m \in Nodes : g[m] = IF m = old THEN t1 ELSE IF m = n THEN q1
                                               ELSE IF m = d THEN r1 ELSE h[m]
  BY <1>3, <1>5, <1>6, <1>7 DEF Memory
<1>10. g = [h EXCEPT ![d] = [h[d] EXCEPT !.children = s], ![n] = [h[n] EXCEPT !.parent = d],
                     ![old] = [h[old] EXCEPT !.parent = NULL]]
  BY <1>1, <1>2, <1>4, <1>7
<1>11. \A m \in Nodes :
         /\ g[m].refcount = h[m].refcount /\ g[m].name = h[m].name
         /\ g[m].parent = IF m = n THEN d ELSE IF m = old THEN NULL ELSE h[m].parent
         /\ g[m].children = IF m = d THEN s ELSE h[m].children
         /\ g[m].nchildren = h[m].nchildren
  <2> SUFFICES ASSUME NEW m \in Nodes
               PROVE  /\ g[m].refcount = h[m].refcount /\ g[m].name = h[m].name
                      /\ g[m].parent = IF m = n THEN d ELSE IF m = old THEN NULL ELSE h[m].parent
                      /\ g[m].children = IF m = d THEN s ELSE h[m].children
                      /\ g[m].nchildren = h[m].nchildren
    OBVIOUS
  <2>1. CASE m = old
    BY <1>1, <1>6, <1>9, <2>1
  <2>2. CASE m = n
    BY <1>1, <1>5, <1>9, <2>2
  <2>3. CASE m = d
    BY <1>1, <1>3, <1>9, <2>3
  <2>4. CASE m \notin {old, n, d}
    BY <1>9, <2>4
  <2> QED  BY <2>1, <2>2, <2>3, <2>4
<1> QED  BY <1>8, <1>9, <1>10, <1>11

\* Nothing is freed with a child of d that would be above d.
LEMMA FreedBelow ==
  ASSUME NEW h \in Memory, Linked(h), Grounded(h), NEW g \in Memory,
         NEW old \in Nodes \ {Root}, NEW d, d = h[old].parent, d # NULL,
         \A x \in Nodes \ {d} : g[x].children = h[x].children
  PROVE  /\ d \notin FreedWith(g, old)
         /\ \A x \in FreedWith(g, old) : ~Holds(h, x, d)
<1>1. PICK B \in SUBSET Nodes :
        /\ old \in B /\ d \notin B
        /\ \A x \in B : \A c \in Nodes : Holds(h, x, c) => c \in B
  BY Descendants
<1>2. \A x \in B : \A c \in Nodes : Holds(g, x, c) <=> Holds(h, x, c)
  BY <1>1 DEF Holds
<1>3. FreedWith(g, old) \subseteq B
  BY <1>1, <1>2, FreedIs
<1>4. d \in Nodes
  BY MemoryIs
<1> QED  BY <1>1, <1>3, <1>4

\* Only the namesake of n leaves a directory which lives on.
Replaced(h, g, d, n) ==
  \A m \in Nodes \ {Root, n} : h[m].parent \in Nodes /\ g[h[m].parent].refcount > 0 =>
    \/ g[m].parent = h[m].parent
    \/ h[m].parent = d /\ g[n].parent = d /\ g[n].name = h[m].name

\* iso_dir_insert() in the place of a namesake.
LEMMA ReplaceGood ==
  ASSUME NEW h, NEW own, Good(h, own), NEW d \in Nodes, NEW n \in Nodes \ {d},
         own[n] > 0, h[n].parent = NULL, h[d].refcount > 0,
         DirExists(h, d, h[n].name),
         NEW A \in SUBSET Nodes, d \in A, n \notin A,
         \A m \in A : h[m].parent \in A \cup {NULL}
  PROVE  /\ Good(Replace(h, d, n), Less(own, n))
         /\ \A m \in Nodes \ {n} : Replace(h, d, n)[m].parent # NULL =>
              /\ Replace(h, d, n)[m].parent = h[m].parent
              /\ Replace(h, d, n)[m].name = h[m].name
         /\ Replaced(h, Replace(h, d, n), d, n)
<1> USE RootIs
<1>1. /\ h \in Memory /\ own \in [Nodes -> Nat] /\ Linked(h) /\ Sorted(h) /\ Grounded(h)
      /\ Owned(h, own)
  BY DEF Good
<1>2. GoodBut(h, own, n)
  BY GoodIsGoodBut
<1>3. n # Root /\ h[n].refcount = own[n] /\ \A x \in Nodes : ~Holds(h, x, n)
  BY <1>2, FreeNode
<1>4. PICK ch \in Seq(Nodes) : ch = h[d].children
  BY <1>1, MemoryIs
<1>5. PICK len \in Nat : len = Len(ch) /\ \A i \in 1 .. len : ch[i] \in Nodes
  BY LenProperties
<1>6. PICK name \in Nat : name = h[n].name
  BY <1>1, MemoryIs
<1>7. PICK k : k = DirFind(h, d, name)
  OBVIOUS
<1>8. k \in 1 .. len /\ h[ch[k]].name = name
  <2>1. k \in 1 .. len + 1
    BY <1>1, <1>4, <1>5, <1>7, FindIs
  <2> QED  BY <1>4, <1>5, <1>6, <1>7, <2>1 DEF DirExists
<1>9. PICK old \in Nodes : old = ch[k]
  BY <1>5, <1>8
<1>10. old # Root /\ h[old].parent = d /\ old # d /\ old # n /\ Holds(h, d, old)
  <2>1. old # Root /\ h[old].parent = d
    BY <1>1, <1>4, <1>5, <1>8, <1>9 DEF Linked
  <2>2. old # d
    BY <1>1, <2>1 DEF Linked
  <2>3. Holds(h, d, old)
    BY <1>4, <1>5, <1>8, <1>9 DEF Holds
  <2> QED  BY <1>3, <2>1, <2>2, <2>3
<1>11. PICK s : s = ReplaceAt(ch, k, n)
  OBVIOUS
<1>12. s \in Seq(Nodes) /\ Len(s) = len /\ \A i \in 1 .. len : s[i] = IF i = k THEN n ELSE ch[i]
  BY <1>5, <1>8, <1>11, ExceptSeq DEF ReplaceAt
<1>13. PICK r : r = Swap(h, d, s, n, old)
  OBVIOUS
<1>14. r \in Memory /\ \A m \in Nodes :
         /\ r[m].refcount = h[m].refcount /\ r[m].name = h[m].name
         /\ r[m].parent = IF m = n THEN d ELSE IF m = old THEN NULL ELSE h[m].parent
         /\ r[m].children = IF m = d THEN s ELSE h[m].children
         /\ r[m].nchildren = h[m].nchildren
  <2>1. h \in Memory /\ s \in Seq(Nodes) /\ old \in Nodes \ {d, n}
    BY <1>1, <1>10, <1>12
  <2>2. Swap(h, d, s, n, old) \in Memory
    BY <2>1, SwapIs
  <2>3. \A m \in Nodes :
          /\ Swap(h, d, s, n, old)[m].refcount = h[m].refcount
          /\ Swap(h, d, s, n, old)[m].name = h[m].name
          /\ Swap(h, d, s, n, old)[m].parent =
               IF m = n THEN d ELSE IF m = old THEN NULL ELSE h[m].parent
          /\ Swap(h, d, s, n, old)[m].children = IF m = d THEN s ELSE h[m].children
          /\ Swap(h, d, s, n, old)[m].nchildren = h[m].nchildren
    BY <2>1, SwapIs
  <2> QED  BY <1>13, <2>2, <2>3
<1>15. PICK o : o = More(Less(own, n), old)
  OBVIOUS
<1>16. /\ o \in [Nodes -> Nat] /\ Less(o, old) = Less(own, n) /\ o[old] > 0
       /\ \A m \in Nodes : o[m] = IF m = n THEN own[n] - 1
                                 ELSE IF m = old THEN own[old] + 1 ELSE own[m]
  <2>1. \A m \in Nodes : own[m] \in Nat
    BY <1>1
  <2>2. \A m \in Nodes : Less(own, n)[m] = IF m = n THEN own[n] - 1 ELSE own[m]
    BY DEF Less
  <2>3. \A m \in Nodes : o[m] = IF m = n THEN own[n] - 1
                                 ELSE IF m = old THEN own[old] + 1 ELSE own[m]
    BY <1>10, <1>15, <2>2 DEF More
  <2>4. o = [m \in Nodes |-> o[m]]
    BY <1>15 DEF More
  <2>5. \A m \in Nodes : o[m] \in Nat
    BY <2>1, <2>3
  <2>6. \A m \in Nodes : (IF m = old THEN o[m] - 1 ELSE o[m]) = IF m = n THEN own[m] - 1 ELSE own[m]
    BY <1>10, <2>1, <2>3
  <2>7. Less(o, old) = Less(own, n)
    BY <2>6 DEF Less
  <2>8. o \in [Nodes -> Nat]
    BY <2>4, <2>5
  <2> QED  BY <1>10, <2>1, <2>3, <2>7, <2>8
<1>17. Good(r, o)
  <2>1. \A i \in 1 .. len : i # k => /\ ch[i] \notin {Root, n, d, old} /\ h[ch[i]].parent = d
    <3> SUFFICES ASSUME NEW i \in 1 .. len, i # k
                 PROVE  ch[i] \notin {Root, n, d, old} /\ h[ch[i]].parent = d
      OBVIOUS
    <3>1. ch[i] # Root /\ h[ch[i]].parent = d
      BY <1>1, <1>4, <1>5 DEF Linked
    <3>2. ch[i] # n
      BY <3>1
    <3>3. ch[i] # d
      BY <1>1, <1>5, <3>1 DEF Linked
    <3>4. ch[i] # old
      BY <1>2, <1>4, <1>5, <1>8, <1>9 DEF GoodBut, SortedBut
    <3> QED  BY <3>1, <3>2, <3>3, <3>4
  <2>2. \A i \in 1 .. Len(s) : s[i] \notin {Root, d} /\ h[s[i]].parent \in {NULL, d}
    BY <1>3, <1>12, <2>1
  <2>3. \A i, j \in 1 .. Len(s) : i < j => h[s[i]].name < h[s[j]].name
    <3>1. \A i \in 1 .. len : h[s[i]].name = h[ch[i]].name
      BY <1>6, <1>8, <1>12
    <3>2. \A i, j \in 1 .. len : i < j => h[ch[i]].name < h[ch[j]].name
      BY <1>1, <1>4, <1>5 DEF Sorted
    <3> QED  BY <1>12, <3>1, <3>2
  <2>4. \A m \in Nodes \ {n, old} : h[m].parent = d /\ m # Root => \E i \in 1 .. Len(s) : s[i] = m
    <3> SUFFICES ASSUME NEW m \in Nodes \ {n, old, Root}, h[m].parent = d
                 PROVE  \E i \in 1 .. Len(s) : s[i] = m
      OBVIOUS
    <3>1. PICK i \in 1 .. len : ch[i] = m
      BY <1>1, <1>4, <1>5 DEF Linked, Holds
    <3> QED  BY <1>9, <1>12, <3>1
  <2>5. k \in 1 .. Len(s) /\ s[k] = n
    BY <1>8, <1>12
  <2>6. \A i \in 1 .. Len(s) : s[i] # n => h[s[i]].parent = d /\ s[i] # old
    BY <1>12, <2>1
  <2>7. \A m \in Nodes :
          /\ (\E i \in 1 .. Len(s) : s[i] = m) => r[m].parent = d
          /\ ~(\E i \in 1 .. Len(s) : s[i] = m) =>
               r[m].parent = IF h[m].parent = d /\ m # Root THEN NULL ELSE h[m].parent
    BY <1>10, <1>14, <2>4, <2>5, <2>6
  <2>8. Grounded(r)
    <3>1. r[n].parent = d /\ \A m \in Nodes \ {n} : r[m].parent \in {NULL, h[m].parent}
      BY <1>14
    <3>2. Grounded(h)
      BY <1>1
    <3> QED  BY <3>1, <3>2, AddedGrounded
  <2>9. Owned(r, o)
    <3> SUFFICES ASSUME NEW m \in Nodes
                 PROVE  r[m].refcount = o[m] + Count(HasParent(r, m))
      BY DEF Owned
    <3>1. h[m].refcount = own[m] + Count(HasParent(h, m)) /\ own[m] \in Nat
      BY <1>1 DEF Owned
    <3>2. CASE m = n
      <4>1. Count(HasParent(r, m)) = 1 /\ Count(HasParent(h, m)) = 0
        BY <1>14, <3>2 DEF HasParent, Count
      <4> QED  BY <1>14, <1>16, <3>1, <3>2, <4>1
    <3>3. CASE m = old
      <4>1. Count(HasParent(r, m)) = 0 /\ Count(HasParent(h, m)) = 1
        BY <1>10, <1>14, <3>3 DEF HasParent, Count
      <4> QED  BY <1>10, <1>14, <1>16, <3>1, <3>3, <4>1
    <3>4. CASE m \notin {n, old}
      <4>1. HasParent(r, m) <=> HasParent(h, m)
        BY <1>14, <3>4 DEF HasParent
      <4> QED  BY <1>14, <1>16, <3>1, <3>4, <4>1 DEF Count
    <3> QED  BY <3>2, <3>3, <3>4
  <2>10. \A m \in Nodes :
          /\ r[m].refcount = h[m].refcount /\ r[m].name = h[m].name
          /\ r[m].children = IF m = d THEN s ELSE h[m].children
          /\ r[m].nchildren = IF m = d THEN Len(s) ELSE h[m].nchildren
    BY <1>1, <1>4, <1>5, <1>12, <1>14 DEF Linked
  <2>11. NewList(h, r, d, s)
    BY <1>12, <2>2, <2>3, <2>7, <2>10 DEF NewList
  <2>12. h[n].parent \in {d, NULL} /\ r \in Memory /\ o \in [Nodes -> Nat]
    BY <1>14, <1>16
  <2> QED  BY <1>2, <2>8, <2>9, <2>11, <2>12, Relisted
<1>18. Replace(h, d, n) = Unref(r, old)
  <2>1. PICK a, b, t \in NodeRecs : a = h[d] /\ b = h[n] /\ t = h[old]
    BY <1>1 DEF Memory
  <2>2. PICK a1, b1, t1 : /\ a1 = [a EXCEPT !.children = s] /\ b1 = [b EXCEPT !.parent = d]
                          /\ t1 = [t EXCEPT !.parent = NULL]
    OBVIOUS
  <2>3. r = [m \in Nodes |-> IF m = old THEN t1 ELSE IF m = n THEN b1
                             ELSE IF m = d THEN a1 ELSE h[m]]
    <3>a. n \in Nodes \ {d} /\ old \in Nodes \ {d, n} /\ s \in Seq(Nodes) /\ h \in Memory
      BY <1>1, <1>10, <1>12, <2>1
    <3>b. Swap(h, d, s, n, old) = [h EXCEPT ![d] = [h[d] EXCEPT !.children = s],
                                            ![n] = [h[n] EXCEPT !.parent = d],
                                            ![old] = [h[old] EXCEPT !.parent = NULL]]
      BY <3>a, SwapIs
    <3>1. r = [h EXCEPT ![d] = a1, ![n] = b1, ![old] = t1]
      BY <1>13, <2>1, <2>2, <3>b
    <3> QED  BY <1>1, <1>10, <3>1 DEF Memory
  <2>4. PICK e : e = [h EXCEPT ![old] = t1]
    OBVIOUS
  <2>5. e = [m \in Nodes |-> IF m = old THEN t1 ELSE h[m]]
    BY <1>1, <2>4 DEF Memory
  <2>6. t1 \in NodeRecs /\ t1.refcount = t.refcount /\ t1.children = t.children
    BY <2>1, <2>2, ReparentIs
  <2>7. e \in Memory
    BY <1>1, <2>5, <2>6 DEF Memory
  <2>8. PICK u : u = Unref(e, old)
    OBVIOUS
  <2>9. PICK v : v = Unref(r, old)
    OBVIOUS
  <2>10. /\ u = [m \in Nodes |-> u[m]] /\ v = [m \in Nodes |-> v[m]]
         /\ u[d] = a /\ u[n] = b /\ v[d] = a1 /\ v[n] = b1
         /\ \A m \in Nodes \ {d, n} : v[m] = u[m]
    <3>1. PICK c \in Nat : c = t.refcount
      BY <2>1 DEF NodeRecs
    <3>2. t1.refcount = c /\ e[old] = t1 /\ r[old] = t1
      BY <2>3, <2>5, <2>6, <3>1
    <3>3. CASE c > 1
      <4>1. PICK t2 : t2 = [t1 EXCEPT !.refcount = c - 1]
        OBVIOUS
      <4>2. u = [e EXCEPT ![old] = t2] /\ v = [r EXCEPT ![old] = t2]
        BY <2>8, <2>9, <3>2, <3>3, <4>1 DEF Unref
      <4>3. u = [m \in Nodes |-> IF m = old THEN t2 ELSE h[m]]
        BY <2>5, <4>2
      <4>4. v = [m \in Nodes |-> IF m = old THEN t2 ELSE IF m = n THEN b1
                                ELSE IF m = d THEN a1 ELSE h[m]]
        BY <2>3, <4>2
      <4> QED  BY <1>10, <2>1, <4>3, <4>4
    <3>4. CASE ~(c > 1)
      <4>1. PICK F, G : F = FreedWith(e, old) /\ G = FreedWith(r, old)
        OBVIOUS
      <4>2. \A m \in Nodes : e[m].refcount = h[m].refcount /\ r[m].refcount = h[m].refcount
        BY <1>14, <2>1, <2>5, <2>6, ReparentIs
      <4>a. \A x \in Nodes \ {d} : e[x].children = h[x].children
        BY <2>1, <2>5, <2>6
      <4>b. \A x \in Nodes \ {d} : r[x].children = h[x].children
        BY <1>14
      <4>3. /\ F \subseteq Nodes /\ G \subseteq Nodes /\ old \in F /\ old \in G
            /\ d \notin F /\ \A x \in F : ~Holds(h, x, d)
            /\ d \notin G /\ \A x \in G : ~Holds(h, x, d)
        <5>1. F \subseteq Nodes /\ G \subseteq Nodes /\ old \in F /\ old \in G
          BY <1>14, <2>7, <4>1, FreedIs
        <5>2. d = h[old].parent /\ d # NULL /\ old \in Nodes \ {Root}
          BY <1>10
        <5>4. h \in Memory /\ Linked(h) /\ Grounded(h) /\ r \in Memory
          BY <1>1, <1>14
        <5>5. d \notin F /\ \A x \in F : ~Holds(h, x, d)
          BY <2>7, <4>1, <4>a, <5>2, <5>4, FreedBelow
        <5>6. d \notin G /\ \A x \in G : ~Holds(h, x, d)
          BY <4>1, <4>b, <5>2, <5>4, FreedBelow
        <5> QED  BY <5>1, <5>5, <5>6
      <4>4. \A x \in Nodes \ {d} : \A m \in Nodes : Holds(e, x, m) <=> Holds(h, x, m)
        BY <4>a DEF Holds
      <4>c. \A x \in Nodes \ {d} : \A m \in Nodes : Holds(r, x, m) <=> Holds(h, x, m)
        BY <4>b DEF Holds
      <4>d. F \subseteq Nodes \ {d} /\ G \subseteq Nodes \ {d}
        BY <4>3
      <4>5. F = G
        <5>1. \A x \in F : \A m \in Nodes : Holds(e, x, m) /\ e[m].refcount = 1 => m \in F
          BY <2>7, <4>1, FreedIs
        <5>2. \A x \in G : \A m \in Nodes : Holds(r, x, m) /\ r[m].refcount = 1 => m \in G
          BY <1>14, <4>1, FreedIs
        <5>3. \A x \in F : \A m \in Nodes : Holds(r, x, m) /\ r[m].refcount = 1 => m \in F
          BY <4>2, <4>4, <4>c, <4>d, <5>1
        <5>4. \A x \in G : \A m \in Nodes : Holds(e, x, m) /\ e[m].refcount = 1 => m \in G
          BY <4>2, <4>4, <4>c, <4>d, <5>2
        <5>5. F \in SUBSET Nodes /\ G \in SUBSET Nodes /\ old \in F /\ old \in G
          BY <4>3
        <5>6. G \subseteq F
          BY <1>14, <4>1, <5>3, <5>5, FreedIs
        <5>7. F \subseteq G
          BY <2>7, <4>1, <5>4, <5>5, FreedIs
        <5> QED  BY <5>6, <5>7
      <4>6. \A x \in F : ~Holds(h, x, n)
        BY <1>3, <4>3
      <4>7. n \notin F
        <5>1. \A m \in F \ {old} : \E x \in F : Holds(e, x, m)
          BY <2>7, <4>1, FreedIs
        <5> QED  BY <1>10, <4>4, <4>6, <4>d, <5>1
      <4>8. u = [m \in Nodes |-> IF m \in F THEN NoNode
                   ELSE IF \E x \in F : Holds(e, x, m) THEN Orphan(e[m]) ELSE e[m]]
        BY <2>8, <3>2, <3>4, <4>1, UnrefIs
      <4>9. v = [m \in Nodes |-> IF m \in F THEN NoNode
                   ELSE IF \E x \in F : Holds(r, x, m) THEN Orphan(r[m]) ELSE r[m]]
        BY <2>9, <3>2, <3>4, <4>1, <4>5, UnrefIs
      <4>10. \A m \in Nodes : (\E x \in F : Holds(e, x, m)) <=> (\E x \in F : Holds(h, x, m))
        BY <4>4, <4>d
      <4>11. \A m \in Nodes : (\E x \in F : Holds(r, x, m)) <=> (\E x \in F : Holds(h, x, m))
        BY <4>c, <4>d
      <4>12. u[d] = a /\ u[n] = b
        BY <1>10, <2>1, <2>5, <4>3, <4>6, <4>7, <4>8, <4>10
      <4>13. v[d] = a1 /\ v[n] = b1
        BY <1>10, <2>3, <4>3, <4>6, <4>7, <4>9, <4>11
      <4>14. \A m \in Nodes \ {d, n} : e[m] = r[m]
        BY <2>3, <2>5
      <4>15. \A m \in Nodes \ {d, n} : v[m] = u[m]
        BY <4>8, <4>9, <4>10, <4>11, <4>14
      <4> QED  BY <4>8, <4>9, <4>12, <4>13, <4>15
    <3> QED  BY <3>3, <3>4
  <2>11. Replace(h, d, n) = [u EXCEPT ![d].children = ReplaceAt(ch, k, n), ![n].parent = d]
    <3>1. h[d].children[DirFind(h, d, h[n].name)] = old
      BY <1>4, <1>6, <1>7, <1>9
    <3>2. [h EXCEPT ![old].parent = NULL] = e
      BY <2>1, <2>2, <2>4
    <3>3. u[d].children = ch
      BY <1>4, <2>1, <2>10
    <3>4. Replace(h, d, n) = [u EXCEPT ![d].children = ReplaceAt(u[d].children, k, n), ![n].parent = d]
      BY <1>6, <1>7, <2>8, <3>1, <3>2 DEF Replace
    <3> QED  BY <3>3, <3>4
  <2>12. [u EXCEPT ![d].children = ReplaceAt(ch, k, n), ![n].parent = d] =
           [m \in Nodes |-> IF m = n THEN b1 ELSE IF m = d THEN a1 ELSE u[m]]
    BY <1>11, <2>2, <2>10
  <2> QED  BY <2>9, <2>10, <2>11, <2>12
<1>19. Good(Unref(r, old), Less(o, old)) /\ Pruned(r, Unref(r, old))
  BY <1>16, <1>17, UnrefGood
<1>20. Replaced(h, Unref(r, old), d, n)
  <2> SUFFICES ASSUME NEW m \in Nodes \ {Root, n}, NEW x \in Nodes, h[m].parent = x,
                      Unref(r, old)[x].refcount > 0
               PROVE  \/ Unref(r, old)[m].parent = x
                      \/ /\ x = d /\ Unref(r, old)[n].parent = d
                         /\ Unref(r, old)[n].name = h[m].name
    BY DEF Replaced
  <2>1. CASE m # old
    <3>1. r[m].parent = x
      BY <1>14, <2>1
    <3>2. Unref(r, old)[m].parent = x
      BY <1>16, <1>17, <3>1, ChildrenStay
    <3> QED  BY <3>2
  <2>2. CASE m = old
    <3>1. x = d /\ h[m].name = name
      BY <1>8, <1>9, <1>10, <2>2
    <3>2. r[n].parent = d /\ r[n].name = name /\ n \in Nodes \ {Root}
      BY <1>3, <1>6, <1>14
    <3>3. Unref(r, old)[n].parent = d
      BY <1>16, <1>17, <3>1, <3>2, ChildrenStay
    <3>4. Unref(r, old)[n].name = name
      BY <1>19, <3>2, <3>3 DEF Pruned
    <3> QED  BY <3>1, <3>3, <3>4
  <2> QED  BY <2>1, <2>2
<1> QED  BY <1>14, <1>16, <1>18, <1>19, <1>20 DEF Pruned

\* With another name, only the place of n in its list may be wrong.
Renamed(h, n, name) == [h EXCEPT ![n].name = name]

LEMMA RenameGood ==
  ASSUME NEW h, NEW own, Good(h, own), NEW n \in Nodes, NEW name \in Names
  PROVE  /\ GoodBut(Renamed(h, n, name), own, n)
         /\ \A m \in Nodes :
              /\ Renamed(h, n, name)[m].refcount = h[m].refcount
              /\ Renamed(h, n, name)[m].name = IF m = n THEN name ELSE h[m].name
              /\ Renamed(h, n, name)[m].parent = h[m].parent
              /\ Renamed(h, n, name)[m].children = h[m].children
              /\ Renamed(h, n, name)[m].nchildren = h[m].nchildren
<1> USE RootIs
<1>1. /\ h \in Memory /\ own \in [Nodes -> Nat] /\ Linked(h) /\ Grounded(h)
      /\ DeadAlone(h) /\ Owned(h, own)
  BY DEF Good
<1>2. PICK g : g = Renamed(h, n, name)
  OBVIOUS
<1>3. PICK r \in NodeRecs : r = h[n]
  BY <1>1 DEF Memory
<1>4. PICK q : q = [r EXCEPT !.name = name]
  OBVIOUS
<1>5. /\ q \in NodeRecs /\ q.refcount = r.refcount /\ q.name = name /\ q.parent = r.parent
      /\ q.children = r.children /\ q.nchildren = r.nchildren
  BY <1>4 DEF NodeRecs
<1>6. g = [h EXCEPT ![n] = q]
  BY <1>2, <1>3, <1>4 DEF Renamed
<1>7. g \in Memory /\ \A m \in Nodes : g[m] = IF m = n THEN q ELSE h[m]
  BY <1>1, <1>5, <1>6 DEF Memory
<1>8. \A m \in Nodes :
        /\ g[m].refcount = h[m].refcount /\ g[m].name = IF m = n THEN name ELSE h[m].name
        /\ g[m].parent = h[m].parent /\ g[m].children = h[m].children
        /\ g[m].nchildren = h[m].nchildren
  BY <1>3, <1>5, <1>7
<1>9. Linked(g)
  <2>1. ASSUME NEW d \in Nodes, NEW k \in 1 .. Len(g[d].children)
        PROVE  g[d].children[k] # Root /\ g[g[d].children[k]].parent = d
    <3>1. g[d].children = h[d].children
      BY <1>8
    <3>2. PICK c \in Nodes : c = h[d].children[k]
      BY <1>1, <3>1, MemoryIs
    <3>3. c # Root /\ h[c].parent = d
      BY <1>1, <3>1, <3>2 DEF Linked
    <3> QED  BY <1>8, <3>1, <3>2, <3>3
  <2>2. ASSUME NEW m \in Nodes \ {Root}, g[m].parent # NULL
        PROVE  g[m].parent # m /\ Holds(g, g[m].parent, m)
    <3>1. g[m].parent = h[m].parent /\ h[m].parent \in Nodes
      BY <1>1, <1>8, <2>2, MemoryIs
    <3>2. h[m].parent # m /\ Holds(h, h[m].parent, m)
      BY <1>1, <2>2, <3>1 DEF Linked
    <3>3. g[h[m].parent].children = h[h[m].parent].children
      BY <1>8, <3>1
    <3> QED  BY <3>1, <3>2, <3>3 DEF Holds
  <2>3. \A d \in Nodes : g[d].nchildren = Len(g[d].children)
    BY <1>1, <1>8 DEF Linked
  <2>4. g[Root].parent \in {Root, NULL}
    BY <1>1, <1>8 DEF Linked
  <2> QED  BY <2>1, <2>2, <2>3, <2>4 DEF Linked
<1>10. Grounded(g)
  <2>1. \A m \in Nodes : g[m].parent \in {NULL, h[m].parent}
    BY <1>8
  <2> QED  BY <1>1, <2>1, StaysGrounded
<1>11. DeadAlone(g)
  BY <1>1, <1>8 DEF DeadAlone
<1>12. SortedBut(g, n)
  <2> SUFFICES ASSUME NEW d \in Nodes, NEW j \in 1 .. Len(g[d].children),
                      NEW k \in 1 .. Len(g[d].children), j < k
               PROVE  /\ g[d].children[j] # g[d].children[k]
                      /\ g[d].children[j] # n /\ g[d].children[k] # n =>
                           g[g[d].children[j]].name < g[g[d].children[k]].name
    BY DEF SortedBut
  <2>1. g[d].children = h[d].children
    BY <1>8
  <2>2. PICK a, b \in Nodes : a = h[d].children[j] /\ b = h[d].children[k]
    BY <1>1, <2>1, MemoryIs
  <2>3. SortedBut(h, n)
    BY GoodIsGoodBut DEF GoodBut
  <2>4. a # b /\ (a # n /\ b # n => h[a].name < h[b].name)
    BY <2>1, <2>2, <2>3 DEF SortedBut
  <2> QED  BY <1>8, <2>1, <2>2, <2>4
<1>13. Owned(g, own)
  <2>1. \A m \in Nodes : HasParent(g, m) <=> HasParent(h, m)
    BY <1>8 DEF HasParent
  <2> QED  BY <1>1, <1>8, <2>1 DEF Owned, Count
<1>14. GoodBut(g, own, n)
  BY <1>1, <1>7, <1>9, <1>10, <1>11, <1>12, <1>13 DEF GoodBut
<1> QED  BY <1>2, <1>8, <1>14

\* A node without parent is in no list that could be unsorted.
LEMMA Unlisted ==
  ASSUME NEW h, NEW own, NEW n \in Nodes, GoodBut(h, own, n), h[n].parent = NULL
  PROVE  Good(h, own)
<1>1. h \in Memory /\ Linked(h) /\ SortedBut(h, n)
  BY DEF GoodBut
<1>2. Sorted(h)
  <2> SUFFICES ASSUME NEW d \in Nodes, NEW j \in 1 .. Len(h[d].children),
                      NEW k \in 1 .. Len(h[d].children), j < k
               PROVE  h[h[d].children[j]].name < h[h[d].children[k]].name
    BY DEF Sorted
  <2>1. h[d].children[j] # n /\ h[d].children[k] # n
    BY <1>1, RootIs DEF Linked
  <2> QED  BY <1>1, <2>1 DEF SortedBut
<1> QED  BY <1>2 DEF Good, GoodBut

\* The place of a child in the list of its parent, and the list without it.
ListOf(h, n, d, ch) == d = h[n].parent /\ ch = h[d].children

LEMMA TakenOut ==
  ASSUME NEW h, NEW own, NEW n \in Nodes, GoodBut(h, own, n), HasParent(h, n),
         NEW d, NEW ch, ListOf(h, n, d, ch)
  PROVE  /\ n # Root /\ d \in Nodes \ {n} /\ ch \in Seq(Nodes) /\ h[d].refcount > 0
         /\ \E k \in 1 .. Len(ch) :
              /\ ch[k] = n /\ Place(ch, n) = k /\ RemoveFirst(ch, n) = RemoveAt(ch, k)
         /\ RemoveFirst(ch, n) \in Seq(Nodes)
         /\ Len(ch) \in Nat /\ Len(RemoveFirst(ch, n)) = Len(ch) - 1
         /\ \A i \in 1 .. Len(RemoveFirst(ch, n)) : RemoveFirst(ch, n)[i] # n
         /\ RemoveFirst(RemoveFirst(ch, n), n) = RemoveFirst(ch, n)
<1> USE RootIs DEF ListOf
<1>1. h \in Memory /\ Linked(h) /\ DeadAlone(h) /\ SortedBut(h, n)
  BY DEF GoodBut
<1>2. n # Root /\ d \in Nodes \ {n}
  BY <1>1, MemoryIs DEF Linked, HasParent
<1>3. PICK len \in Nat : len = Len(ch) /\ ch \in Seq(Nodes) /\ \A i \in 1 .. len : ch[i] \in Nodes
  BY <1>1, <1>2, MemoryIs
<1>4. PICK k \in 1 .. len : ch[k] = n
  BY <1>1, <1>2, <1>3 DEF Linked, Holds
<1>5. \A i, j \in 1 .. len : i < j => ch[i] # ch[j]
  BY <1>1, <1>2, <1>3 DEF SortedBut
<1>6. RemoveFirst(ch, n) = RemoveAt(ch, k)
  BY <1>3, <1>4, <1>5, RemoveIs
<1>7. Place(ch, n) = k
  <2>1. PICK p \in 0 .. len : p = Place(ch, n)
    BY <1>3, PlaceIs
  <2>2. p # 0 /\ ch[p] = n
    BY <1>3, <1>4, <2>1, PlaceIs
  <2> QED  BY <1>4, <1>5, <2>1, <2>2
<1>8. PICK s : s = RemoveFirst(ch, n)
  OBVIOUS
<1>9. s \in Seq(Nodes) /\ Len(s) = len - 1
      /\ \A i \in 1 .. len - 1 : s[i] = IF i < k THEN ch[i] ELSE ch[i + 1]
  <2>1. k \in 1 .. Len(ch) /\ ch \in Seq(Nodes)
    BY <1>3
  <2>2. s = RemoveAt(ch, k)
    BY <1>4, <1>6, <1>8
  <2>3. /\ RemoveAt(ch, k) \in Seq(Nodes) /\ Len(RemoveAt(ch, k)) = Len(ch) - 1
        /\ \A i \in 1 .. Len(ch) - 1 :
             RemoveAt(ch, k)[i] = IF i < k THEN ch[i] ELSE ch[i + 1]
    BY <2>1, RemoveAtIs
  <2> QED  BY <1>3, <2>2, <2>3
<1>10. \A i \in 1 .. len - 1 : s[i] # n
  <2> TAKE i \in 1 .. len - 1
  <2>1. CASE i < k
    BY <1>4, <1>5, <1>9, <2>1
  <2>2. CASE ~(i < k)
    <3>1. i + 1 \in 1 .. len /\ k < i + 1 /\ s[i] = ch[i + 1]
      BY <1>4, <1>9, <2>2
    <3> QED  BY <1>4, <1>5, <3>1
  <2> QED  BY <2>1, <2>2
<1>11. RemoveFirst(s, n) = s
  BY <1>9, <1>10, RemoveNothing
<1>12. h[d].refcount > 0
  <2>1. ch # <<>>
    BY <1>3, <1>4, EmptySeq
  <2> QED  BY <1>1, <1>2, <2>1 DEF DeadAlone
<1> QED  BY <1>2, <1>3, <1>4, <1>6, <1>7, <1>8, <1>9, <1>10, <1>11, <1>12

\* Node n leaves its directory.
Detached(h, g, n) ==
  \A m \in Nodes :
    /\ g[m].refcount = h[m].refcount /\ g[m].name = h[m].name
    /\ g[m].parent = IF m = n THEN NULL ELSE h[m].parent
    /\ g[m].children = IF m = h[n].parent THEN RemoveFirst(h[m].children, n) ELSE h[m].children
    /\ g[m].nchildren = IF m = h[n].parent THEN h[m].nchildren - 1 ELSE h[m].nchildren

\* The reference of the directory goes to the one who takes the node.
LEMMA DetachGood ==
  ASSUME NEW h, NEW own, NEW n \in Nodes, GoodBut(h, own, n), HasParent(h, n),
         NEW g \in Memory, Detached(h, g, n)
  PROVE  Good(g, More(own, n))
<1> USE RootIs
<1>1. /\ h \in Memory /\ own \in [Nodes -> Nat] /\ Linked(h) /\ SortedBut(h, n)
      /\ Grounded(h) /\ Owned(h, own)
  BY DEF GoodBut
<1>2. PICK d, ch, s : d = h[n].parent /\ ch = h[d].children /\ s = RemoveFirst(ch, n)
  OBVIOUS
<1>a. ListOf(h, n, d, ch)
  BY <1>2 DEF ListOf
<1>3. n # Root /\ d \in Nodes \ {n} /\ ch \in Seq(Nodes) /\ h[d].refcount > 0
  BY <1>a, TakenOut
<1>4. PICK len \in Nat : len = Len(ch) /\ \A i \in 1 .. len : ch[i] \in Nodes
  BY <1>3, LenProperties
<1>5. PICK k \in 1 .. len : ch[k] = n /\ s = RemoveAt(ch, k)
  BY <1>2, <1>4, <1>a, TakenOut
<1>6. s \in Seq(Nodes) /\ Len(s) = len - 1 /\ \A i \in 1 .. Len(s) : s[i] # n
  BY <1>2, <1>4, <1>a, TakenOut
<1>7. \A i \in 1 .. len - 1 : s[i] = IF i < k THEN ch[i] ELSE ch[i + 1]
  <2>1. k \in 1 .. Len(ch) /\ ch \in Seq(Nodes)
    BY <1>3, <1>4
  <2>2. \A i \in 1 .. Len(ch) - 1 :
          RemoveAt(ch, k)[i] = IF i < k THEN ch[i] ELSE ch[i + 1]
    BY <2>1, RemoveAtIs
  <2> QED  BY <1>4, <1>5, <2>2
<1> DEFINE up(i) == IF i < k THEN i ELSE i + 1
<1>8. \A i \in 1 .. len - 1 : up(i) \in 1 .. len /\ up(i) # k /\ s[i] = ch[up(i)]
  BY <1>5, <1>7
<1>9. \A i, j \in 1 .. len - 1 : i < j => up(i) < up(j)
  BY <1>5
<1> HIDE DEF up
<1>10. \A i \in 1 .. len : ch[i] \notin {Root, d} /\ h[ch[i]].parent = d
  <2> SUFFICES ASSUME NEW i \in 1 .. len PROVE ch[i] \notin {Root, d} /\ h[ch[i]].parent = d
    OBVIOUS
  <2>1. ch[i] # Root /\ h[ch[i]].parent = d
    BY <1>1, <1>2, <1>3, <1>4 DEF Linked
  <2>2. ch[i] # d
    BY <1>1, <1>4, <2>1 DEF Linked
  <2> QED  BY <2>1, <2>2
<1>11. \A i, j \in 1 .. len : i < j => ch[i] # ch[j] /\ (ch[i] # n /\ ch[j] # n =>
          h[ch[i]].name < h[ch[j]].name)
  <2> TAKE i, j \in 1 .. len
  <2>1. d \in Nodes /\ h[d].children = ch /\ Len(ch) = len
    BY <1>2, <1>3, <1>4
  <2> QED  BY <1>1, <2>1 DEF SortedBut
<1>12. \A i \in 1 .. Len(s) : s[i] \notin {Root, d} /\ h[s[i]].parent = d
  BY <1>6, <1>8, <1>10
<1>13. \A i, j \in 1 .. Len(s) : i < j => h[s[i]].name < h[s[j]].name
  <2> SUFFICES ASSUME NEW i \in 1 .. len - 1, NEW j \in 1 .. len - 1, i < j
               PROVE  h[s[i]].name < h[s[j]].name
    BY <1>6
  <2>1. PICK a, b \in 1 .. len : a = up(i) /\ b = up(j)
    BY <1>8
  <2>2. a < b /\ s[i] = ch[a] /\ s[j] = ch[b]
    BY <1>8, <1>9, <2>1
  <2>3. s[i] # n /\ s[j] # n
    BY <1>6
  <2> QED  BY <1>11, <2>2, <2>3
<1>14. \A m \in Nodes \ {n, Root} : h[m].parent = d => \E i \in 1 .. Len(s) : s[i] = m
  <2> SUFFICES ASSUME NEW m \in Nodes \ {n, Root}, h[m].parent = d
               PROVE  \E i \in 1 .. Len(s) : s[i] = m
    OBVIOUS
  <2>1. PICK i \in 1 .. len : ch[i] = m
    BY <1>1, <1>2, <1>3, <1>4 DEF Linked, Holds
  <2>2. i # k
    BY <1>5, <2>1
  <2>3. i < k => i \in 1 .. len - 1 /\ s[i] = m
    BY <1>5, <1>7, <2>1
  <2>4. i > k => i - 1 \in 1 .. len - 1 /\ s[i - 1] = m
    BY <1>5, <1>7, <2>1
  <2> QED  BY <1>6, <2>2, <2>3, <2>4
<1>15. \A m \in Nodes :
         /\ (\E i \in 1 .. Len(s) : s[i] = m) => g[m].parent = d
         /\ ~(\E i \in 1 .. Len(s) : s[i] = m) =>
              g[m].parent = IF h[m].parent = d /\ m # Root THEN NULL ELSE h[m].parent
  <2>1. \A m \in Nodes : g[m].parent = IF m = n THEN NULL ELSE h[m].parent
    BY DEF Detached
  <2>2. n # Root /\ n \in Nodes /\ h[n].parent = d
    BY <1>2, <1>3, <1>6
  <2>3. \A i \in 1 .. Len(s) : s[i] # n /\ s[i] # Root /\ h[s[i]].parent = d
    BY <1>6, <1>12
  <2> SUFFICES ASSUME NEW m \in Nodes
               PROVE  /\ (\E i \in 1 .. Len(s) : s[i] = m) => g[m].parent = d
                      /\ ~(\E i \in 1 .. Len(s) : s[i] = m) =>
                           g[m].parent = IF h[m].parent = d /\ m # Root THEN NULL
                                                                        ELSE h[m].parent
    OBVIOUS
  <2>4. ASSUME NEW i \in 1 .. Len(s), s[i] = m PROVE g[m].parent = d
    BY <2>1, <2>3, <2>4
  <2>5. ASSUME ~(\E i \in 1 .. Len(s) : s[i] = m)
        PROVE  g[m].parent = IF h[m].parent = d /\ m # Root THEN NULL ELSE h[m].parent
    BY <1>14, <2>1, <2>2, <2>5
  <2> QED  BY <2>4, <2>5
<1>16. \A m \in Nodes :
         /\ g[m].refcount = h[m].refcount /\ g[m].name = h[m].name
         /\ g[m].children = IF m = d THEN s ELSE h[m].children
         /\ g[m].nchildren = IF m = d THEN Len(s) ELSE h[m].nchildren
  <2>1. h[d].nchildren = len
    BY <1>1, <1>2, <1>3, <1>4 DEF Linked
  <2> QED  BY <1>2, <1>6, <2>1 DEF Detached
<1>17. NewList(h, g, d, s)
  BY <1>6, <1>12, <1>13, <1>15, <1>16 DEF NewList
<1>18. Grounded(g)
  <2>1. \A m \in Nodes : g[m].parent \in {NULL, h[m].parent}
    BY DEF Detached
  <2> QED  BY <1>1, <2>1, StaysGrounded
<1>19. PICK o : o = More(own, n)
  OBVIOUS
<1>20. o \in [Nodes -> Nat] /\ \A m \in Nodes : o[m] = IF m = n THEN own[m] + 1 ELSE own[m]
  BY <1>1, <1>19 DEF More
<1>21. Owned(g, o)
  <2> SUFFICES ASSUME NEW m \in Nodes
               PROVE  g[m].refcount = o[m] + Count(HasParent(g, m))
    BY DEF Owned
  <2>1. h[m].refcount = own[m] + Count(HasParent(h, m)) /\ own[m] \in Nat
    BY <1>1 DEF Owned
  <2>2. CASE m = n
    <3>1. Count(HasParent(g, m)) = 0 /\ Count(HasParent(h, m)) = 1
      BY <2>2 DEF HasParent, Detached, Count
    <3>2. h[m].refcount = own[m] + 1
      BY <2>1, <3>1
    <3>3. o[m] = own[m] + 1 /\ g[m].refcount = h[m].refcount
      BY <1>16, <1>20, <2>2
    <3>4. g[m].refcount = o[m] + 0
      BY <2>1, <3>2, <3>3
    <3> QED  BY <3>1, <3>4
  <2>3. CASE m # n
    <3>1. HasParent(g, m) <=> HasParent(h, m)
      BY <2>3 DEF HasParent, Detached
    <3> QED  BY <1>16, <1>20, <2>1, <2>3, <3>1 DEF Count
  <2> QED  BY <2>2, <2>3
<1>22. h[n].parent \in {d, NULL}
  BY <1>2
<1>23. Good(g, o)
  BY <1>3, <1>17, <1>18, <1>20, <1>21, <1>22, Relisted
<1> QED  BY <1>19, <1>23

-----------------------------------------------------------------------------
(* Iterators as owners.                                                    *)

\* References of the program and of the iterators to a node.
Own(hd, f) ==
  [n \in Nodes |-> hd[n] + Cardinality({i \in Iters : f[i].pos = n})
                         + Cardinality({i \in Iters : f[i].dir = n})]

LEMMA ItersFinite ==
  ASSUME NEW S \in SUBSET Iters
  PROVE  IsFiniteSet(S) /\ Cardinality(S) \in Nat
<1>1. IsFiniteSet(Iters)
  BY NodeAssumption
<1> QED  BY <1>1, FS_Subset, FS_CardinalityType

LEMMA OneMore ==
  ASSUME NEW S \in SUBSET Iters, NEW i \in Iters \ S
  PROVE  Cardinality(S \cup {i}) = Cardinality(S) + 1
BY ItersFinite, FS_AddElement

LEMMA OwnIs ==
  ASSUME NEW hd \in [Nodes -> Nat], NEW f
  PROVE  Own(hd, f) \in [Nodes -> Nat]
<1>1. \A n : /\ Cardinality({i \in Iters : f[i].pos = n}) \in Nat
             /\ Cardinality({i \in Iters : f[i].dir = n}) \in Nat
  BY ItersFinite
<1>2. ASSUME NEW n \in Nodes PROVE Own(hd, f)[n] \in Nat
  <2>1. PICK a, b, w \in Nat : /\ a = Cardinality({i \in Iters : f[i].pos = n})
                               /\ b = Cardinality({i \in Iters : f[i].dir = n}) /\ w = hd[n]
    BY <1>1
  <2>2. Own(hd, f)[n] = w + a + b
    BY <2>1 DEF Own
  <2> QED  BY <2>1, <2>2
<1>3. Own(hd, f) = [n \in Nodes |-> Own(hd, f)[n]]
  BY DEF Own
<1> QED  BY <1>2, <1>3

\* Only iterator i has got another position.
PosSet(f, g, i, p) ==
  \A j \in Iters : /\ g[j].dir = f[j].dir
                    /\ g[j].pos = IF j = i THEN p ELSE f[j].pos

DirSet(f, g, i, d) ==
  \A j \in Iters : /\ g[j].pos = f[j].pos
                    /\ g[j].dir = IF j = i THEN d ELSE f[j].dir

LEMMA PosGiven ==
  ASSUME NEW hd \in [Nodes -> Nat], NEW f, NEW g, NEW i \in Iters, NEW p \in Nodes,
         f[i].pos = NULL, PosSet(f, g, i, p)
  PROVE  Own(hd, g) = More(Own(hd, f), p)
<1> USE RootIs
<1>1. ASSUME NEW n \in Nodes
      PROVE  Own(hd, g)[n] = IF n = p THEN Own(hd, f)[n] + 1 ELSE Own(hd, f)[n]
  <2>1. PICK A, B : A = {j \in Iters : f[j].pos = n} /\ B = {j \in Iters : g[j].pos = n}
    OBVIOUS
  <2>2. PICK D : D = {j \in Iters : f[j].dir = n}
    OBVIOUS
  <2>3. D = {j \in Iters : g[j].dir = n}
    BY <2>2 DEF PosSet
  <2>4. PICK a, b, c, w \in Nat : a = Cardinality(A) /\ b = Cardinality(B) /\ c = Cardinality(D)
                                   /\ w = hd[n]
    BY <2>1, <2>2, ItersFinite
  <2>5. Own(hd, f)[n] = w + a + c /\ Own(hd, g)[n] = w + b + c
    BY <2>1, <2>2, <2>3, <2>4 DEF Own
  <2>6. CASE n = p
    <3>1. A \in SUBSET Iters /\ i \in Iters \ A /\ B = A \cup {i}
      BY <2>1, <2>6 DEF PosSet
    <3>2. b = a + 1
      BY <2>4, <3>1, OneMore
    <3> QED  BY <2>5, <2>6, <3>2
  <2>7. CASE n # p
    <3>1. A = B
      BY <2>1, <2>7 DEF PosSet
    <3> QED  BY <2>4, <2>5, <2>7, <3>1
  <2> QED  BY <2>6, <2>7
<1>2. Own(hd, g) = [n \in Nodes |-> Own(hd, g)[n]]
  BY DEF Own
<1> QED  BY <1>1, <1>2 DEF More

LEMMA DirGiven ==
  ASSUME NEW hd \in [Nodes -> Nat], NEW f, NEW g, NEW i \in Iters, NEW d \in Nodes,
         f[i].dir = NULL, DirSet(f, g, i, d)
  PROVE  Own(hd, g) = More(Own(hd, f), d)
<1> USE RootIs
<1>1. ASSUME NEW n \in Nodes
      PROVE  Own(hd, g)[n] = IF n = d THEN Own(hd, f)[n] + 1 ELSE Own(hd, f)[n]
  <2>1. PICK A, B : A = {j \in Iters : f[j].dir = n} /\ B = {j \in Iters : g[j].dir = n}
    OBVIOUS
  <2>2. PICK D : D = {j \in Iters : f[j].pos = n}
    OBVIOUS
  <2>3. D = {j \in Iters : g[j].pos = n}
    BY <2>2 DEF DirSet
  <2>4. PICK a, b, c, w \in Nat : a = Cardinality(A) /\ b = Cardinality(B) /\ c = Cardinality(D)
                                   /\ w = hd[n]
    BY <2>1, <2>2, ItersFinite
  <2>5. Own(hd, f)[n] = w + c + a /\ Own(hd, g)[n] = w + c + b
    BY <2>1, <2>2, <2>3, <2>4 DEF Own
  <2>6. CASE n = d
    <3>1. A \in SUBSET Iters /\ i \in Iters \ A /\ B = A \cup {i}
      BY <2>1, <2>6 DEF DirSet
    <3>2. b = a + 1
      BY <2>4, <3>1, OneMore
    <3> QED  BY <2>5, <2>6, <3>2
  <2>7. CASE n # d
    <3>1. A = B
      BY <2>1, <2>7 DEF DirSet
    <3> QED  BY <2>4, <2>5, <2>7, <3>1
  <2> QED  BY <2>6, <2>7
<1>2. Own(hd, g) = [n \in Nodes |-> Own(hd, g)[n]]
  BY DEF Own
<1> QED  BY <1>1, <1>2 DEF More

\* An iterator without position, or an unused one, gets one.
PosGained(f, g, i, p) == f[i].pos = NULL /\ PosSet(f, g, i, p)
DirGained(f, g, i, d) == f[i].dir = NULL /\ DirSet(f, g, i, d)

LEMMA Gained ==
  ASSUME NEW hd \in [Nodes -> Nat], NEW f, NEW g, NEW i \in Iters, NEW n \in Nodes
  PROVE  /\ PosGained(f, g, i, n) => Own(hd, g) = More(Own(hd, f), n)
         /\ DirGained(f, g, i, n) => Own(hd, g) = More(Own(hd, f), n)
<1>1. ASSUME PosGained(f, g, i, n) PROVE Own(hd, g) = More(Own(hd, f), n)
  <2>1. f[i].pos = NULL /\ PosSet(f, g, i, n)
    BY <1>1 DEF PosGained
  <2> QED  BY <2>1, PosGiven
<1>2. ASSUME DirGained(f, g, i, n) PROVE Own(hd, g) = More(Own(hd, f), n)
  <2>1. f[i].dir = NULL /\ DirSet(f, g, i, n)
    BY <1>2 DEF DirGained
  <2> QED  BY <2>1, DirGiven
<1> QED  BY <1>1, <1>2

LEMMA MoreLess ==

  ASSUME NEW own \in [Nodes -> Nat], NEW n
  PROVE  Less(More(own, n), n) = own
BY DEF More, Less

LEMMA PosLeft ==
  ASSUME NEW hd \in [Nodes -> Nat], NEW f, NEW g, NEW i \in Iters,
         f[i].pos \in Nodes, PosSet(f, g, i, NULL)
  PROVE  Own(hd, g) = Less(Own(hd, f), f[i].pos) /\ Own(hd, f)[f[i].pos] > 0
<1>a. PICK p \in Nodes : p = f[i].pos
  OBVIOUS
<1>1. PosGained(g, f, i, p)
  BY <1>a DEF PosSet, PosGained

<1>2. PICK a, b : a = Own(hd, f) /\ b = Own(hd, g)
  OBVIOUS
<1>3. b \in [Nodes -> Nat]
  BY <1>2, OwnIs
<1>4. a = More(b, p)
  BY <1>1, <1>2, Gained

<1>5. Less(a, p) = b
  BY <1>3, <1>4, MoreLess
<1>6. a[p] = b[p] + 1 /\ b[p] \in Nat
  BY <1>3, <1>4 DEF More
<1> QED  BY <1>2, <1>5, <1>6, <1>a

LEMMA DirLeft ==
  ASSUME NEW hd \in [Nodes -> Nat], NEW f, NEW g, NEW i \in Iters,
         f[i].dir \in Nodes, DirSet(f, g, i, NULL)
  PROVE  Own(hd, g) = Less(Own(hd, f), f[i].dir) /\ Own(hd, f)[f[i].dir] > 0
<1>a. PICK d \in Nodes : d = f[i].dir
  OBVIOUS
<1>1. DirGained(g, f, i, d)
  BY <1>a DEF DirSet, DirGained

<1>2. PICK a, b : a = Own(hd, f) /\ b = Own(hd, g)
  OBVIOUS
<1>3. b \in [Nodes -> Nat]
  BY <1>2, OwnIs
<1>4. a = More(b, d)
  BY <1>1, <1>2, Gained


<1>5. Less(a, d) = b
  BY <1>3, <1>4, MoreLess
<1>6. a[d] = b[d] + 1 /\ b[d] \in Nat
  BY <1>3, <1>4 DEF More
<1> QED  BY <1>2, <1>5, <1>6, <1>a

\* A directory lives as long as an iterator walks through it.
LEMMA DirOwned ==
  ASSUME NEW hd \in [Nodes -> Nat], NEW f, NEW g, Good(g, Own(hd, f)),
         NEW i \in Iters, NEW d \in Nodes, f[i].dir = d
  PROVE  g[d].refcount > 0
<1>1. PICK B \in SUBSET Iters : B = {j \in Iters : f[j].dir = d}
  OBVIOUS
<1>2. PICK b \in Nat : b = Cardinality(B) /\ b # 0
  <2>1. IsFiniteSet(B) /\ Cardinality(B) \in Nat
    BY ItersFinite
  <2>2. Cardinality(B) # 0
    BY <1>1, <2>1, FS_EmptySet
  <2> QED  BY <2>1, <2>2
<1>3. PICK a, w \in Nat : a = Cardinality({j \in Iters : f[j].pos = d}) /\ w = hd[d]
  BY ItersFinite
<1>4. Own(hd, f)[d] = w + a + b
  BY <1>1, <1>2, <1>3 DEF Own
<1>5. g[d].refcount = (w + a + b) + Count(HasParent(g, d))
  BY <1>4 DEF Good, Owned
<1> QED  BY <1>2, <1>5 DEF Count

\* Flags and bookkeeping do not matter.
LEMMA OwnSame ==
  ASSUME NEW hd, NEW f, NEW g, \A j \in Iters : g[j].pos = f[j].pos /\ g[j].dir = f[j].dir
  PROVE  Own(hd, g) = Own(hd, f)
BY DEF Own

\* References of the program.
LEMMA HeldMore ==
  ASSUME NEW hd \in [Nodes -> Nat], NEW f, NEW n \in Nodes
  PROVE  Own([hd EXCEPT ![n] = @ + 1], f) = More(Own(hd, f), n)
<1>1. PICK g : g = [hd EXCEPT ![n] = @ + 1]
  OBVIOUS
<1>2. \A m \in Nodes : g[m] = IF m = n THEN hd[m] + 1 ELSE hd[m]
  BY <1>1
<1>3. ASSUME NEW m \in Nodes
      PROVE  Own(g, f)[m] = IF m = n THEN Own(hd, f)[m] + 1 ELSE Own(hd, f)[m]
  <2>1. PICK a, b, w \in Nat : /\ a = Cardinality({i \in Iters : f[i].pos = m})
                               /\ b = Cardinality({i \in Iters : f[i].dir = m}) /\ w = hd[m]
    BY ItersFinite
  <2>2. Own(hd, f)[m] = w + a + b /\ Own(g, f)[m] = g[m] + a + b
    BY <2>1 DEF Own
  <2>3. g[m] = IF m = n THEN w + 1 ELSE w
    BY <1>2, <2>1
  <2> QED  BY <2>1, <2>2, <2>3
<1>4. Own(g, f) = [m \in Nodes |-> Own(g, f)[m]]
  BY DEF Own
<1> QED  BY <1>1, <1>3, <1>4 DEF More

LEMMA HeldLess ==
  ASSUME NEW hd \in [Nodes -> Nat], NEW f, NEW n \in Nodes, hd[n] > 0
  PROVE  /\ [hd EXCEPT ![n] = @ - 1] \in [Nodes -> Nat]
         /\ Own([hd EXCEPT ![n] = @ - 1], f) = Less(Own(hd, f), n)
         /\ Own(hd, f)[n] > 0
<1>1. PICK g : g = [hd EXCEPT ![n] = @ - 1]
  OBVIOUS
<1>2. g \in [Nodes -> Nat] /\ hd = [g EXCEPT ![n] = @ + 1]
  <2>1. PICK w \in Nat : w + 1 = hd[n] /\ g = [hd EXCEPT ![n] = w]
    <3>1. PICK v \in Nat : v = hd[n] /\ v > 0
      OBVIOUS
    <3>2. v - 1 \in Nat /\ g = [hd EXCEPT ![n] = v - 1]
      BY <1>1, <3>1
    <3>3. (v - 1) + 1 = hd[n]
      BY <3>1
    <3> QED  BY <3>2, <3>3
  <2>2. g \in [Nodes -> Nat] /\ g[n] = w
    BY <2>1
  <2>3. hd = [g EXCEPT ![n] = w + 1]
    BY <2>1
  <2> QED  BY <2>2, <2>3
<1>3. PICK a, b : a = Own(g, f) /\ b = Own(hd, f)
  OBVIOUS
<1>4. b = More(a, n) /\ a \in [Nodes -> Nat]
  <2>1. Own([g EXCEPT ![n] = @ + 1], f) = More(Own(g, f), n)
    BY <1>2, HeldMore
  <2>2. Own(g, f) \in [Nodes -> Nat]
    BY <1>2, OwnIs
  <2> QED  BY <1>2, <1>3, <2>1, <2>2
<1>5. Less(b, n) = a
  BY <1>4, MoreLess
<1>6. b[n] = a[n] + 1 /\ a[n] \in Nat
  BY <1>4 DEF More
<1> QED  BY <1>1, <1>2, <1>3, <1>5, <1>6

-----------------------------------------------------------------------------
(* iso_node_take()                                                         *)

LEMMA MaxIs ==
  ASSUME NEW n \in Nat, NEW T \in SUBSET (1 .. n), T # {}
  PROVE  Max(T) \in T /\ \A y \in T : y =< Max(T)
<1> DEFINE R == {n - y : y \in T}
<1>1. PICK x \in R : \A y \in R : x =< y
  <2>1. \A y \in T : n - y \in Nat
    OBVIOUS
  <2>2. R \subseteq Nat /\ R # {}
    BY <2>1
  <2> QED  BY <2>2, LeastNatural
<1>2. PICK k \in T : x = n - k
  OBVIOUS
<1>3. \A y \in T : k >= y
  <2> TAKE y \in T
  <2>1. n - k =< n - y /\ k \in Nat /\ y \in Nat
    BY <1>1, <1>2
  <2> QED  BY <2>1
<1>4. \E m \in T : \A y \in T : m >= y
  BY <1>3
<1>5. Max(T) \in T /\ \A y \in T : Max(T) >= y
  BY <1>4 DEF Max
<1> QED  BY <1>5

\* The notification of all iterators, from the newest on.
NotifyAll(r, st, n) == FoldLeft(LAMBDA s, i : NotifyChildTaken(s, i, n), st, r)

Step(r, st, n, g) ==
  [s \in SUBSET DOMAIN r |->
     IF s = {} THEN st ELSE NotifyChildTaken(g[s \ {Max(s)}], r[Max(s)], n)]

\* Iterator i stands at node n of its directory.
Hit(st, i, n) == st.iter[i].dir = st.node[n].parent /\ st.iter[i].pos = n

\* Only the newest iterator at n has an effect.
LEMMA OneNotified ==
  ASSUME NEW r \in Seq(Iters), NEW st, NEW n,
         \A i, j \in Iters : Hit(st, i, n) =>
           NotifyChildTaken(NotifyChildTaken(st, i, n), j, n) = NotifyChildTaken(st, i, n)
  PROVE  \/ NotifyAll(r, st, n) = st /\ \A b \in 1 .. Len(r) : ~Hit(st, r[b], n)
         \/ \E a \in 1 .. Len(r) :
              /\ Hit(st, r[a], n) /\ NotifyAll(r, st, n) = NotifyChildTaken(st, r[a], n)
              /\ \A b \in 1 .. Len(r) : Hit(st, r[b], n) => a =< b
<1>1. PICK len \in Nat : len = Len(r) /\ DOMAIN r = 1 .. len /\ \A j \in 1 .. len : r[j] \in Iters
  BY LenProperties
<1> DEFINE D == DOMAIN r
           J(s) == {j \in s : Hit(st, r[j], n)}
           F == [s \in SUBSET D |-> IF J(s) = {} THEN st
                                    ELSE NotifyChildTaken(st, r[Min(J(s))], n)]
<1>2. NotifyAll(r, st, n) = (CHOOSE g : g = Step(r, st, n, g))[D]
  BY DEF NotifyAll, FoldLeft, MapThenFoldSet, Step
<1>3. \A i : ~Hit(st, i, n) => NotifyChildTaken(st, i, n) = st
  BY DEF Hit, NotifyChildTaken
<1>4. ASSUME NEW s \in SUBSET D, s # {}
      PROVE  F[s] = NotifyChildTaken(F[s \ {Max(s)}], r[Max(s)], n)
  <2>1. PICK x \in s : x = Max(s) /\ (\A y \in s : y =< x) /\ x \in 1 .. len
    BY <1>1, <1>4, MaxIs
  <2>2. PICK t \in SUBSET D : t = s \ {x}
    OBVIOUS
  <2>3. CASE J(t) = {} /\ ~Hit(st, r[x], n)
    <3>1. J(s) = {}
      BY <2>2, <2>3
    <3> QED  BY <1>3, <2>1, <2>2, <2>3, <3>1
  <2>4. CASE J(t) = {} /\ Hit(st, r[x], n)
    <3>1. J(s) = {x}
      BY <2>2, <2>4
    <3>2. Min({x}) = x
      BY <2>1 DEF Min
    <3> QED  BY <2>1, <2>2, <2>4, <3>1, <3>2
  <2>5. CASE J(t) # {}
    <3>1. J(t) \subseteq Nat /\ J(s) \subseteq Nat /\ J(s) # {} /\ J(t) \subseteq J(s)
      BY <1>1, <2>2, <2>5
    <3>2. PICK a \in J(t) : a = Min(J(t)) /\ \A y \in J(t) : a =< y
      BY <2>5, <3>1, MinIs
    <3>3. PICK b \in J(s) : b = Min(J(s)) /\ \A y \in J(s) : b =< y
      BY <3>1, MinIs
    <3>4. a = b
      <4>1. b =< a /\ a =< x /\ a # x /\ a \in Nat /\ b \in Nat /\ x \in Nat
        BY <1>1, <2>1, <2>2, <3>1, <3>2, <3>3
      <4>2. b # x
        BY <4>1
      <4>3. b \in J(t)
        BY <2>2, <3>3, <4>2
      <4>4. a =< b
        BY <3>2, <4>3
      <4> QED  BY <4>1, <4>4
    <3>5. Hit(st, r[a], n) /\ r[a] \in Iters /\ r[x] \in Iters
      BY <1>1, <2>1, <3>2
    <3>6. F[t] = NotifyChildTaken(st, r[a], n)
      BY <2>5, <3>2
    <3>7. F[s] = NotifyChildTaken(st, r[a], n)
      BY <3>1, <3>3, <3>4
    <3> QED  BY <2>1, <2>2, <3>5, <3>6, <3>7
  <2> QED  BY <2>3, <2>4, <2>5
<1>5. F[{}] = st
  OBVIOUS
<1>6. F = Step(r, st, n, F)
  <2> HIDE DEF F
  <2>1. \A s \in SUBSET D : F[s] = IF s = {} THEN st
                                   ELSE NotifyChildTaken(F[s \ {Max(s)}], r[Max(s)], n)
    BY <1>4, <1>5
  <2>2. F = [s \in SUBSET D |-> F[s]]
    BY DEF F
  <2> QED  BY <2>1, <2>2 DEF Step
<1>7. PICK G : G = (CHOOSE g : g = Step(r, st, n, g))
  OBVIOUS
<1>8. G = Step(r, st, n, G)
  BY <1>6, <1>7
<1>9. \A s \in SUBSET D : G[s] = F[s]
  <2> DEFINE T == {Cardinality(s) : s \in {s \in SUBSET D : F[s] # G[s]}}
  <2> HIDE DEF F
  <2>1. \A s \in SUBSET D : IsFiniteSet(s) /\ Cardinality(s) \in Nat
    <3>1. IsFiniteSet(D)
      BY <1>1, FS_Interval
    <3> QED  BY <3>1, FS_Subset, FS_CardinalityType
  <2>2. SUFFICES ASSUME T # {} PROVE FALSE
    OBVIOUS
  <2>3. T \subseteq Nat
    BY <2>1
  <2>4. PICK m \in T : \A y \in T : m =< y
    BY <2>2, <2>3, LeastNatural
  <2>5. PICK s \in SUBSET D : F[s] # G[s] /\ m = Cardinality(s)
    OBVIOUS
  <2>a. G[{}] = st
    BY <1>8 DEF Step
  <2>6. s # {}
    BY <1>5, <2>5, <2>a
  <2>7. PICK x \in s : x = Max(s)
    BY <1>1, <2>6, MaxIs
  <2>8. Cardinality(s \ {x}) = Cardinality(s) - 1
    BY <2>1, FS_RemoveElement
  <2>9. ~(m <= Cardinality(s \ {x}))
    BY <2>1, <2>5, <2>8
  <2>10. F[s \ {x}] = G[s \ {x}]
    BY <2>4, <2>9
  <2>11. G[s] = NotifyChildTaken(G[s \ {x}], r[x], n)
    BY <1>8, <2>6, <2>7 DEF Step
  <2> QED  BY <1>4, <2>5, <2>6, <2>7, <2>10, <2>11
<1>10. NotifyAll(r, st, n) = F[D]
  BY <1>2, <1>7, <1>9
<1>11. CASE J(D) = {}
  BY <1>1, <1>10, <1>11
<1>12. CASE J(D) # {}
  <2>1. J(D) \subseteq Nat
    BY <1>1
  <2>2. PICK a \in J(D) : a = Min(J(D)) /\ \A b \in J(D) : a =< b
    BY <1>12, <2>1, MinIs
  <2>3. F[D] = NotifyChildTaken(st, r[a], n)
    BY <1>12, <2>2
  <2> QED  BY <1>1, <1>10, <2>2, <2>3
<1> QED  BY <1>11, <1>12

Relist(h, d, s) == [h EXCEPT ![d].children = s]

LEMMA ListIs ==
  ASSUME NEW h \in Memory, NEW d \in Nodes, NEW s \in Seq(Nodes)
  PROVE  /\ Relist(h, d, s) \in Memory
         /\ \A m \in Nodes :
              /\ Relist(h, d, s)[m].refcount = h[m].refcount
              /\ Relist(h, d, s)[m].name = h[m].name
              /\ Relist(h, d, s)[m].parent = h[m].parent
              /\ Relist(h, d, s)[m].children = IF m = d THEN s ELSE h[m].children
              /\ Relist(h, d, s)[m].nchildren = h[m].nchildren
<1>1. PICK r \in NodeRecs : r = h[d]
  BY DEF Memory
<1>2. PICK q : q = [r EXCEPT !.children = s]
  OBVIOUS
<1>3. /\ q \in NodeRecs /\ q.refcount = r.refcount /\ q.name = r.name /\ q.parent = r.parent
      /\ q.children = s /\ q.nchildren = r.nchildren
  BY <1>2 DEF NodeRecs
<1>4. PICK g : g = [h EXCEPT ![d] = q]
  OBVIOUS
<1>5. g = Relist(h, d, s)
  BY <1>1, <1>2, <1>4 DEF Relist
<1>6. g \in Memory /\ \A m \in Nodes : g[m] = IF m = d THEN q ELSE h[m]
  BY <1>3, <1>4 DEF Memory
<1> QED  BY <1>1, <1>3, <1>5, <1>6

\* Iterator r of the tree h moves to the predecessor of n, if it moves at all.
MovedBack(h, n, r, r2) ==
  /\ r2.dir = r.dir /\ r2.due = r.due /\ r2.lost = r.lost
  /\ \/ r2.pos = r.pos
     \/ /\ r.pos = n /\ r.dir = h[n].parent
        /\ \/ r2.pos = NULL
           \/ \E k \in 2 .. Len(h[r.dir].children) :
                h[r.dir].children[k] = n /\ r2.pos = h[r.dir].children[k - 1]

\* Except for the list which may still hold n, g is the tree h.
Shortened(h, g, d, n) ==
  /\ \A m \in Nodes : /\ g[m].refcount = h[m].refcount /\ g[m].name = h[m].name
                       /\ g[m].parent = h[m].parent /\ g[m].nchildren = h[m].nchildren
  /\ \A m \in Nodes \ {d} : g[m].children = h[m].children
  /\ g[d].children \in {h[d].children, RemoveFirst(h[d].children, n)}

\* The iterators know that n leaves, and the references have followed them.
Noticed(hd, h, f, n, h0, g, f2) ==
  /\ GoodBut(h0, Own(hd, f2), n) /\ SameTree(h, h0)
  /\ \A m \in Nodes : h[m].refcount > 0 => h0[m].refcount > 0
  /\ f2 \in [Iters -> IterRecs] /\ \A j \in Iters : MovedBack(h, n, f[j], f2[j])
  /\ g \in Memory /\ Shortened(h0, g, h[n].parent, n)

LEMMA PosIs ==
  ASSUME NEW f \in [Iters -> IterRecs], NEW i \in Iters, NEW p \in (Nodes \ {Root}) \cup {NULL}
  PROVE  /\ [f EXCEPT ![i].pos = p] \in [Iters -> IterRecs]
         /\ \A j \in Iters : /\ [f EXCEPT ![i].pos = p][j].dir = f[j].dir
                              /\ [f EXCEPT ![i].pos = p][j].due = f[j].due /\ [f EXCEPT ![i].pos = p][j].lost = f[j].lost
                              /\ [f EXCEPT ![i].pos = p][j].flag = f[j].flag
                              /\ [f EXCEPT ![i].pos = p][j].pos = IF j = i THEN p ELSE f[j].pos
<1>1. PICK r \in IterRecs : r = f[i]
  OBVIOUS
<1>2. PICK q : q = [r EXCEPT !.pos = p]
  OBVIOUS
<1>3. q \in IterRecs /\ q.pos = p /\ q.dir = r.dir /\ q.due = r.due /\ q.lost = r.lost /\ q.flag = r.flag
  BY <1>2 DEF IterRecs
<1>4. PICK g : g = [f EXCEPT ![i] = q]
  OBVIOUS
<1>5. g = [f EXCEPT ![i].pos = p]
  BY <1>1, <1>2, <1>4
<1>6. g \in [Iters -> IterRecs] /\ \A j \in Iters : g[j] = IF j = i THEN q ELSE f[j]
  BY <1>3, <1>4
<1> QED  BY <1>1, <1>3, <1>5, <1>6

Notified(st, i, n) ==
  LET d  == st.iter[i].dir
      ch == st.node[d].children
      k  == Place(ch, n)
      h  == [Unref(st.node, n) EXCEPT ![d].children = RemoveFirst(ch, n)]
  IN  IF d # st.node[n].parent \/ st.iter[i].pos # n \/ k = 0
      THEN st
      ELSE IF k = 1
      THEN [node |-> h, iter |-> [st.iter EXCEPT ![i].pos = NULL]]
      ELSE [node |-> Ref(h, ch[k - 1]),
            iter |-> [st.iter EXCEPT ![i].pos = ch[k - 1]]]

LEMMA NotifyDef ==
  ASSUME NEW st, NEW i, NEW n
  PROVE  NotifyChildTaken(st, i, n) = Notified(st, i, n)
BY DEF NotifyChildTaken, Notified, Place

\* iter_notify_child_taken() of an iterator at n
LEMMA NotifyIs ==
  ASSUME NEW h, NEW f \in [Iters -> IterRecs], NEW hd \in [Nodes -> Nat], NEW n \in Nodes,
         GoodBut(h, Own(hd, f), n), HasParent(h, n), NEW i \in Iters,
         NEW st, st = [node |-> h, iter |-> f], Hit(st, i, n)
  PROVE  \E h0, g, f2 :
           /\ NotifyChildTaken(st, i, n) = [node |-> g, iter |-> f2]
           /\ Noticed(hd, h, f, n, h0, g, f2)
           /\ g[h[n].parent].children = RemoveFirst(h[h[n].parent].children, n)
           /\ f2[i].pos # n
<1> USE RootIs
<1>1. PICK own \in [Nodes -> Nat] : own = Own(hd, f)
  BY OwnIs
<1>2. GoodBut(h, own, n) /\ h \in Memory /\ Owned(h, own) /\ Linked(h)
  BY <1>1 DEF GoodBut
<1>3. PICK d, ch, s : d = h[n].parent /\ ch = h[d].children /\ s = RemoveFirst(ch, n)
  OBVIOUS
<1>4. /\ d \in Nodes \ {n} /\ ch \in Seq(Nodes) /\ Len(ch) \in Nat /\ s \in Seq(Nodes)
      /\ RemoveFirst(s, n) = s
  <2>1. ListOf(h, n, d, ch)
    BY <1>3 DEF ListOf
  <2>2. d \in Nodes \ {n} /\ ch \in Seq(Nodes) /\ Len(ch) \in Nat
    BY <1>2, <2>1, TakenOut
  <2>3. RemoveFirst(ch, n) \in Seq(Nodes)
    BY <1>2, <2>1, TakenOut
  <2>4. RemoveFirst(RemoveFirst(ch, n), n) = RemoveFirst(ch, n)
    BY <1>2, <2>1, TakenOut
  <2> QED  BY <1>3, <2>2, <2>3, <2>4
<1>5. PICK k \in 1 .. Len(ch) : ch[k] = n /\ Place(ch, n) = k
  <2>1. ListOf(h, n, d, ch)
    BY <1>3 DEF ListOf
  <2>2. \E k \in 1 .. Len(ch) :
          ch[k] = n /\ Place(ch, n) = k /\ RemoveFirst(ch, n) = RemoveAt(ch, k)
    BY <1>2, <2>1, TakenOut
  <2> QED  BY <2>2
<1>6. f[i].dir = d /\ f[i].pos = n
  BY <1>3 DEF Hit
<1>7. PICK f1 : f1 = [f EXCEPT ![i].pos = NULL]
  OBVIOUS
<1>8. f1 \in [Iters -> IterRecs] /\ PosSet(f, f1, i, NULL) /\ f1[i].pos = NULL
      /\ \A j \in Iters : f1[j].due = f[j].due /\ f1[j].lost = f[j].lost
  <2>1. [f EXCEPT ![i].pos = NULL] \in [Iters -> IterRecs]
    BY PosIs
  <2>2. \A j \in Iters : /\ [f EXCEPT ![i].pos = NULL][j].dir = f[j].dir
                          /\ [f EXCEPT ![i].pos = NULL][j].due = f[j].due /\ [f EXCEPT ![i].pos = NULL][j].lost = f[j].lost
                          /\ [f EXCEPT ![i].pos = NULL][j].pos = IF j = i THEN NULL ELSE f[j].pos
    BY PosIs
  <2> QED  BY <1>7, <2>1, <2>2 DEF PosSet
<1>9. Own(hd, f1) = Less(own, n) /\ own[n] > 0
  <2>1. f[i].pos = n /\ PosSet(f, f1, i, NULL)
    BY <1>6, <1>8
  <2>2. Own(hd, f1) = Less(Own(hd, f), n) /\ Own(hd, f)[n] > 0
    BY <2>1, PosLeft
  <2> QED  BY <1>1, <2>2
<1>10. h[n].refcount > 1
  <2>1. h[n].refcount = own[n] + 1 /\ own[n] \in Nat
    BY <1>2 DEF Owned, Count
  <2> QED  BY <1>9, <2>1
<1>11. PICK u : u = Unref(h, n)
  OBVIOUS
<1>12. /\ GoodBut(u, Own(hd, f1), n) /\ SameTree(h, u) /\ u \in Memory
       /\ \A m \in Nodes : h[m].refcount > 0 => u[m].refcount > 0
  <2>1. /\ GoodBut(Unref(h, n), Less(own, n), n) /\ SameTree(h, Unref(h, n))
        /\ \A m \in Nodes : h[m].refcount > 0 => Unref(h, n)[m].refcount > 0
    BY <1>2, <1>9, <1>10, UnrefCounts
  <2> QED  BY <1>9, <1>11, <2>1 DEF GoodBut
<1>13. PICK v : v = Relist(u, d, s)
  OBVIOUS
<1>a. v = [u EXCEPT ![d].children = s]
  BY <1>13 DEF Relist
<1>14. /\ v \in Memory
       /\ \A m \in Nodes :
            /\ v[m].refcount = u[m].refcount /\ v[m].name = u[m].name /\ v[m].parent = u[m].parent
            /\ v[m].children = (IF m = d THEN s ELSE u[m].children)
            /\ v[m].nchildren = u[m].nchildren
  <2>1. u \in Memory /\ d \in Nodes /\ s \in Seq(Nodes)
    BY <1>4, <1>12
  <2>2. Relist(u, d, s) \in Memory
    BY <2>1, ListIs
  <2>3. \A m \in Nodes :
          /\ Relist(u, d, s)[m].refcount = u[m].refcount
          /\ Relist(u, d, s)[m].name = u[m].name
          /\ Relist(u, d, s)[m].parent = u[m].parent
          /\ Relist(u, d, s)[m].children = (IF m = d THEN s ELSE u[m].children)
          /\ Relist(u, d, s)[m].nchildren = u[m].nchildren
    BY <2>1, ListIs
  <2> QED  BY <1>13, <2>2, <2>3
<1>15. u[d].children = ch
  BY <1>3, <1>4, <1>12 DEF SameTree
<1>16. NotifyChildTaken(st, i, n) =
         IF k = 1 THEN [node |-> v, iter |-> f1]
         ELSE [node |-> Ref(v, ch[k - 1]), iter |-> [f EXCEPT ![i].pos = ch[k - 1]]]
  <2>2. st.node = h /\ st.iter = f
    OBVIOUS
  <2>3. NotifyChildTaken(st, i, n) = Notified(st, i, n)
    BY NotifyDef
  <2>4. k # 0 /\ Place(ch, n) = k
    BY <1>5
  <2> QED  BY <1>3, <1>6, <1>7, <1>11, <1>a, <2>2, <2>3, <2>4 DEF Notified
<1>17. CASE k = 1
  <2>1. Shortened(u, v, d, n)
    BY <1>3, <1>4, <1>14, <1>15 DEF Shortened
  <2>2. \A j \in Iters : MovedBack(h, n, f[j], f1[j])
    BY <1>3, <1>6, <1>8 DEF MovedBack, PosSet
  <2>3. Noticed(hd, h, f, n, u, v, f1)
    BY <1>3, <1>8, <1>12, <1>14, <2>1, <2>2 DEF Noticed
  <2>4. NotifyChildTaken(st, i, n) = [node |-> v, iter |-> f1]
    BY <1>16, <1>17
  <2>5. v[h[n].parent].children = RemoveFirst(h[h[n].parent].children, n)
    BY <1>3, <1>4, <1>14
  <2> QED  BY <1>8, <2>3, <2>4, <2>5
<1>18. CASE k # 1
  <2>1. PICK p : p = ch[k - 1]
    OBVIOUS
  <2>2. k - 1 \in 1 .. Len(ch) /\ k \in 2 .. Len(ch)
    BY <1>4, <1>5, <1>18
  <2>a. h[d].children = ch /\ d \in Nodes
    BY <1>3, <1>4
  <2>b. p \in Nodes
    BY <1>4, <2>1, <2>2
  <2>3. p \in Nodes \ {Root} /\ h[p].parent = d
    <3>1. PICK l \in 1 .. Len(ch) : l = k - 1
      BY <2>2
    <3>2. h[d].children[l] # Root /\ h[h[d].children[l]].parent = d
      BY <1>2, <2>a, <3>1 DEF Linked
    <3> QED  BY <2>1, <2>a, <2>b, <3>1, <3>2

  <2>4. p # d
    BY <1>2, <1>4, <2>3 DEF Linked
  <2>5. h[p].refcount > 0
    <3>1. h[p].refcount = own[p] + 1 /\ own[p] \in Nat
      BY <1>2, <1>4, <2>3, <2>4 DEF Owned, HasParent, Count
    <3> QED  BY <3>1
  <2>6. PICK f2 : f2 = [f EXCEPT ![i].pos = p]
    OBVIOUS
  <2>7. /\ f2 \in [Iters -> IterRecs] /\ PosSet(f1, f2, i, p)
        /\ \A j \in Iters : /\ f2[j].dir = f[j].dir /\ f2[j].due = f[j].due /\ f2[j].lost = f[j].lost
                             /\ f2[j].pos = IF j = i THEN p ELSE f[j].pos
    <3>1. [f EXCEPT ![i].pos = p] \in [Iters -> IterRecs]
      BY <2>3, PosIs
    <3>2. \A j \in Iters : /\ [f EXCEPT ![i].pos = p][j].dir = f[j].dir
                            /\ [f EXCEPT ![i].pos = p][j].due = f[j].due /\ [f EXCEPT ![i].pos = p][j].lost = f[j].lost
                            /\ [f EXCEPT ![i].pos = p][j].pos = IF j = i THEN p ELSE f[j].pos
      BY <2>3, PosIs
    <3> QED  BY <1>8, <2>6, <3>1, <3>2 DEF PosSet
  <2>8. Own(hd, f2) = More(Own(hd, f1), p)
    <3>1. PosGained(f1, f2, i, p) /\ p \in Nodes
      BY <1>8, <2>3, <2>7 DEF PosGained
    <3> QED  BY <3>1, Gained

  <2>9. PICK u2 : u2 = Ref(u, p)
    OBVIOUS
  <2>10. GoodBut(u2, Own(hd, f2), n) /\ SameTree(u, u2)
    BY <1>12, <2>3, <2>5, <2>8, <2>9, RefGood
  <2>11. PICK c \in Nat : c = u[p].refcount
    BY <1>12, <2>3, MemoryIs
  <2>12. \A m \in Nodes : u2[m].refcount = IF m = p THEN c + 1 ELSE u[m].refcount
    <3>1. u \in Memory /\ p \in Nodes
      BY <1>12, <2>3
    <3>2. \A m \in Nodes : Ref(u, p)[m].refcount = IF m = p THEN u[m].refcount + 1 ELSE u[m].refcount
      BY <3>1, RefIs
    <3> QED  BY <2>9, <2>11, <3>2
  <2>13. PICK v2 : v2 = Ref(v, p)
    OBVIOUS
  <2>14. v2 \in Memory /\ SameTree(v, v2)
         /\ \A m \in Nodes : v2[m].refcount = IF m = p THEN c + 1 ELSE v[m].refcount
    <3>1. v[p].refcount = c
      BY <1>14, <2>3, <2>11
    <3>2. v \in Memory /\ p \in Nodes
      BY <1>14, <2>3
    <3>3. Ref(v, p) \in Memory /\ SameTree(v, Ref(v, p))
      BY <3>2, RefIs
    <3>4. \A m \in Nodes : Ref(v, p)[m].refcount = IF m = p THEN v[m].refcount + 1 ELSE v[m].refcount
      BY <3>2, RefIs
    <3> QED  BY <2>13, <3>1, <3>3, <3>4
  <2>15. Shortened(u2, v2, d, n)
    <3>1. \A m \in Nodes : v2[m].refcount = u2[m].refcount
      BY <1>14, <2>12, <2>14
    <3>2. \A m \in Nodes : /\ v2[m].name = u2[m].name /\ v2[m].parent = u2[m].parent
                            /\ v2[m].nchildren = u2[m].nchildren
      BY <1>14, <2>10, <2>14 DEF SameTree
    <3>a. \A m \in Nodes \ {d} : v2[m].children = u2[m].children
      BY <1>14, <2>10, <2>14 DEF SameTree
    <3>3. v2[d].children = s /\ u2[d].children = ch
      BY <1>4, <1>14, <1>15, <2>10, <2>14 DEF SameTree
    <3> QED  BY <1>3, <3>1, <3>2, <3>3, <3>a DEF Shortened
  <2>16. \A j \in Iters : MovedBack(h, n, f[j], f2[j])
    <3> SUFFICES ASSUME NEW j \in Iters PROVE MovedBack(h, n, f[j], f2[j])
      OBVIOUS
    <3>1. CASE j = i
      <4>1. f2[j].dir = f[j].dir /\ f2[j].due = f[j].due /\ f2[j].lost = f[j].lost /\ f2[j].pos = p
        BY <2>7, <3>1
      <4>2. f[j].pos = n /\ f[j].dir = h[n].parent /\ h[f[j].dir].children = ch
        BY <1>3, <1>6, <3>1
      <4>3. \E l \in 2 .. Len(ch) : ch[l] = n /\ f2[j].pos = ch[l - 1]
        BY <1>5, <2>1, <2>2, <4>1
      <4> QED  BY <4>1, <4>2, <4>3 DEF MovedBack
    <3>2. CASE j # i
      BY <2>7, <3>2 DEF MovedBack
    <3> QED  BY <3>1, <3>2
  <2>17. SameTree(h, u2) /\ \A m \in Nodes : h[m].refcount > 0 => u2[m].refcount > 0
    <3>1. SameTree(h, u2)
      BY <1>12, <2>10 DEF SameTree
    <3>2. \A m \in Nodes : u[m].refcount > 0 => u2[m].refcount > 0
      <4> TAKE m \in Nodes
      <4>1. c + 1 > 0
        OBVIOUS
      <4> QED  BY <2>12, <4>1
    <3> QED  BY <1>12, <3>1, <3>2
  <2>18. Noticed(hd, h, f, n, u2, v2, f2)
    BY <1>3, <2>7, <2>10, <2>14, <2>15, <2>16, <2>17 DEF Noticed
  <2>19. v2[d].children = s
    BY <1>4, <1>14, <2>14 DEF SameTree
  <2>20. f2[i].pos # n
    <3>1. PICK l \in 1 .. Len(ch) : l = k - 1 /\ l < k
      BY <1>4, <2>2
    <3>2. h[d].children[l] # h[d].children[k]
      BY <1>2, <2>a, <3>1 DEF GoodBut, SortedBut
    <3> QED  BY <1>5, <2>1, <2>7, <2>a, <3>1, <3>2
  <2> QED  BY <1>3, <1>16, <1>18, <2>1, <2>6, <2>13, <2>18, <2>19, <2>20
<1> QED  BY <1>17, <1>18

\* Iterator i stands at node n of its directory.
At(h, f, i, n) == f[i].dir = h[n].parent /\ f[i].pos = n

\* An iterator stays at n only if a newer one stood there, too.
Behind(h, f, f2, n) ==
  \A b \in 1 .. Len(reg) : f2[reg[b]].pos = n /\ f[reg[b]].dir = h[n].parent =>
    f[reg[b]].pos = n /\ \E a \in 1 .. b - 1 : At(h, f, reg[a], n)

\* What a take leaves: the node without parent, with the reference of its
\* directory not yet accounted for.
Outcome(hd, h, f, n, st) ==
  /\ Behind(h, f, st.iter, n)
  /\ st = [node |-> st.node, iter |-> st.iter]
  /\ Good(st.node, More(Own(hd, st.iter), n))
  /\ st.iter \in [Iters -> IterRecs] /\ \A j \in Iters : MovedBack(h, n, f[j], st.iter[j])
  /\ \A m \in Nodes :
       /\ st.node[m].name = h[m].name
       /\ st.node[m].parent = IF m = n THEN NULL ELSE h[m].parent
       /\ st.node[m].children = IF m = h[n].parent THEN RemoveFirst(h[m].children, n)
                                                   ELSE h[m].children
       /\ h[m].refcount > 0 => st.node[m].refcount > 0

Cut(g, d, n) == Put(g, d, RemoveFirst(g[d].children, n), g[d].nchildren - 1, n, NULL)

LEMMA TakeIs ==
  ASSUME NEW h, NEW f, NEW n, NEW g \in Memory, NEW f2, NEW d \in Nodes \ {n}, d = h[n].parent,
         n \in Nodes, NotifyAll(reg, [node |-> h, iter |-> f], n) = [node |-> g, iter |-> f2]
  PROVE  Take([node |-> h, iter |-> f], n) = [node |-> Cut(g, d, n), iter |-> f2]
<1>1. PICK s1 : s1 = [node |-> g, iter |-> f2]
  OBVIOUS
<1>2. s1.node = g /\ s1.iter = f2
  BY <1>1
<1> QED  BY <1>1, <1>2 DEF Take, NotifyAll, Cut, Put, Memory

LEMMA TakeGood ==
  ASSUME NEW h, NEW f \in [Iters -> IterRecs], NEW hd \in [Nodes -> Nat], NEW n \in Nodes,
         GoodBut(h, Own(hd, f), n), HasParent(h, n), reg \in Seq(Iters)
  PROVE  Outcome(hd, h, f, n, Take([node |-> h, iter |-> f], n))
<1> USE RootIs
<1>1. PICK st : st = [node |-> h, iter |-> f]
  OBVIOUS
<1>2. st.node = h /\ st.iter = f
  BY <1>1
<1>3. PICK d, ch : d = h[n].parent /\ ch = h[d].children
  OBVIOUS
<1>4. d \in Nodes \ {n} /\ ch \in Seq(Nodes) /\ h \in Memory
  <2>1. ListOf(h, n, d, ch)
    BY <1>3 DEF ListOf
  <2>2. d \in Nodes \ {n} /\ ch \in Seq(Nodes)
    BY <2>1, TakenOut
  <2> QED  BY <2>2 DEF GoodBut
<1>5. PICK s : s = RemoveFirst(ch, n)
  OBVIOUS
<1>6. s \in Seq(Nodes) /\ RemoveFirst(s, n) = s /\ \A i \in 1 .. Len(s) : s[i] # n
  <2>1. ListOf(h, n, d, ch)
    BY <1>3 DEF ListOf
  <2>2. RemoveFirst(ch, n) \in Seq(Nodes)
    BY <2>1, TakenOut
  <2>3. RemoveFirst(RemoveFirst(ch, n), n) = RemoveFirst(ch, n)
    BY <2>1, TakenOut
  <2>4. \A i \in 1 .. Len(RemoveFirst(ch, n)) : RemoveFirst(ch, n)[i] # n
    BY <2>1, TakenOut
  <2> QED  BY <1>5, <2>2, <2>3, <2>4
<1>7. Place(s, n) = 0
  <2>1. PICK k \in 0 .. Len(s) : k = Place(s, n)
    BY <1>6, PlaceIs
  <2>2. k # 0 => s[k] = n
    BY <1>6, <2>1, PlaceIs
  <2> QED  BY <1>6, <2>1, <2>2
<1>8. ASSUME NEW i \in Iters, Hit(st, i, n)
      PROVE  \E h0, g, f2 : /\ NotifyChildTaken(st, i, n) = [node |-> g, iter |-> f2]
                            /\ Noticed(hd, h, f, n, h0, g, f2) /\ g[d].children = s
                            /\ f2[i].pos # n
  <2>2. \E h0, g, f2 :
           /\ NotifyChildTaken(st, i, n) = [node |-> g, iter |-> f2]
           /\ Noticed(hd, h, f, n, h0, g, f2)
           /\ g[h[n].parent].children = RemoveFirst(h[h[n].parent].children, n)
           /\ f2[i].pos # n
    BY <1>1, <1>8, NotifyIs
  <2> QED  BY <1>1, <1>3, <1>5, <2>2
<1>9. ASSUME NEW i \in Iters, NEW j \in Iters, Hit(st, i, n)
      PROVE  NotifyChildTaken(NotifyChildTaken(st, i, n), j, n) = NotifyChildTaken(st, i, n)
  <2>1. PICK h0, g, f2 : /\ NotifyChildTaken(st, i, n) = [node |-> g, iter |-> f2]
                         /\ Noticed(hd, h, f, n, h0, g, f2) /\ g[d].children = s
    BY <1>8, <1>9
  <2>2. PICK t : t = [node |-> g, iter |-> f2]
    OBVIOUS
  <2>3. t.node = g /\ t.iter = f2
    BY <2>2
  <2>4. g[n].parent = d
    <3>1. Shortened(h0, g, h[n].parent, n) /\ SameTree(h, h0)
      BY <2>1 DEF Noticed
    <3>2. g[n].parent = h0[n].parent
      BY <3>1 DEF Shortened
    <3>3. h0[n].parent = h[n].parent
      BY <3>1 DEF SameTree
    <3> QED  BY <1>3, <3>2, <3>3
  <2>5. Notified(t, j, n) = t
    BY <1>7, <2>1, <2>3, <2>4 DEF Notified
  <2> QED  BY <2>1, <2>2, <2>5, NotifyDef
<1>a. \A i : At(h, f, i, n) <=> Hit(st, i, n)
  BY <1>2 DEF At, Hit
<1>b. \A b \in 1 .. Len(reg) : reg[b] \in Iters
  OBVIOUS
<1>10. \E h0, g, f2 : /\ NotifyAll(reg, st, n) = [node |-> g, iter |-> f2]
                      /\ Noticed(hd, h, f, n, h0, g, f2) /\ Behind(h, f, f2, n)
  <2>1. CASE NotifyAll(reg, st, n) = st /\ \A b \in 1 .. Len(reg) : ~Hit(st, reg[b], n)
    <3>1. \A j \in Iters : MovedBack(h, n, f[j], f[j])
      BY DEF MovedBack
    <3>2. SameTree(h, h) /\ Shortened(h, h, h[n].parent, n)
      BY DEF SameTree, Shortened
    <3>3. Noticed(hd, h, f, n, h, h, f)
      BY <1>4, <3>1, <3>2 DEF Noticed
    <3>4. Behind(h, f, f, n)
      BY <1>a, <2>1 DEF Behind, At
    <3> QED  BY <1>1, <2>1, <3>3, <3>4
  <2>2. ASSUME NEW a \in 1 .. Len(reg),
               Hit(st, reg[a], n), NotifyAll(reg, st, n) = NotifyChildTaken(st, reg[a], n),
               \A b \in 1 .. Len(reg) : Hit(st, reg[b], n) => a =< b
        PROVE  \E h0, g, f2 : /\ NotifyAll(reg, st, n) = [node |-> g, iter |-> f2]
                              /\ Noticed(hd, h, f, n, h0, g, f2) /\ Behind(h, f, f2, n)
    <3>1. PICK h0, g, f2 : /\ NotifyAll(reg, st, n) = [node |-> g, iter |-> f2]
                           /\ Noticed(hd, h, f, n, h0, g, f2) /\ f2[reg[a]].pos # n
      BY <1>8, <1>b, <2>2
    <3>2. ASSUME NEW b \in 1 .. Len(reg), f2[reg[b]].pos = n, f[reg[b]].dir = h[n].parent
          PROVE  f[reg[b]].pos = n /\ \E c \in 1 .. b - 1 : At(h, f, reg[c], n)
      <4>1. MovedBack(h, n, f[reg[b]], f2[reg[b]])
        BY <1>b, <3>1 DEF Noticed
      <4>2. f[reg[b]].pos = n
        BY <3>2, <4>1 DEF MovedBack
      <4>3. a =< b
        BY <1>a, <2>2, <3>2, <4>2 DEF At
      <4>4. a # b
        BY <3>1, <3>2
      <4>5. a \in 1 .. b - 1
        BY <4>3, <4>4
      <4> QED  BY <1>a, <2>2, <4>2, <4>5
    <3> QED  BY <3>1, <3>2 DEF Behind
  <2> QED  BY <1>9, <2>1, <2>2, OneNotified
<1>11. PICK h0, g, f2 : /\ NotifyAll(reg, st, n) = [node |-> g, iter |-> f2]
                        /\ Noticed(hd, h, f, n, h0, g, f2) /\ Behind(h, f, f2, n)
  BY <1>10
<1>12. /\ GoodBut(h0, Own(hd, f2), n) /\ SameTree(h, h0)
       /\ \A m \in Nodes : h[m].refcount > 0 => h0[m].refcount > 0
       /\ f2 \in [Iters -> IterRecs] /\ \A j \in Iters : MovedBack(h, n, f[j], f2[j])
       /\ g \in Memory /\ Shortened(h0, g, d, n)
  BY <1>3, <1>11 DEF Noticed
<1>13. PICK e : e = Cut(g, d, n)
  OBVIOUS
<1>14. Take(st, n) = [node |-> e, iter |-> f2]
  BY <1>1, <1>3, <1>4, <1>11, <1>12, <1>13, TakeIs
<1>15. RemoveFirst(g[d].children, n) = s
  <2>1. h0[d].children = ch
    BY <1>3, <1>4, <1>12 DEF SameTree
  <2>2. g[d].children \in {ch, s}
    BY <1>5, <1>12, <2>1 DEF Shortened
  <2> QED  BY <1>5, <1>6, <2>2
<1>16. PICK c \in Nat : c = g[d].nchildren - 1
  <2>1. g[d].nchildren = h[d].nchildren /\ h[d].nchildren = Len(ch)
    <3>1. g[d].nchildren = h0[d].nchildren
      BY <1>4, <1>12 DEF Shortened
    <3>2. h0[d].nchildren = h[d].nchildren
      BY <1>4, <1>12 DEF SameTree
    <3>3. h[d].nchildren = Len(ch)
      BY <1>3, <1>4 DEF GoodBut, Linked
    <3> QED  BY <3>1, <3>2, <3>3
  <2>2. Len(ch) - 1 \in Nat
    <3>1. ListOf(h, n, d, ch)
      BY <1>3 DEF ListOf
    <3>2. \E k \in 1 .. Len(ch) : ch[k] = n /\ Place(ch, n) = k /\ RemoveFirst(ch, n) = RemoveAt(ch, k)
      BY <3>1, TakenOut
    <3>3. Len(ch) \in Nat
      BY <1>4, LenProperties
    <3> QED  BY <3>2, <3>3
  <2> QED  BY <2>1, <2>2
<1>17. e = Put(g, d, s, c, n, NULL)
  BY <1>13, <1>15, <1>16 DEF Cut
<1>18. e \in Memory /\ \A m \in Nodes :
         /\ e[m].refcount = g[m].refcount /\ e[m].name = g[m].name
         /\ e[m].parent = IF m = n THEN NULL ELSE g[m].parent
         /\ e[m].children = IF m = d THEN s ELSE g[m].children
         /\ e[m].nchildren = IF m = d THEN c ELSE g[m].nchildren
  <2>1. /\ g \in Memory /\ s \in Seq(Nodes) /\ d \in Nodes /\ n \in Nodes \ {d}
        /\ NULL \in Nodes \cup {NULL}
    BY <1>4, <1>6, <1>12
  <2>2. Put(g, d, s, c, n, NULL) \in Memory
    BY <2>1, PutIs
  <2>3. \A m \in Nodes :
         /\ Put(g, d, s, c, n, NULL)[m].refcount = g[m].refcount
         /\ Put(g, d, s, c, n, NULL)[m].name = g[m].name
         /\ Put(g, d, s, c, n, NULL)[m].parent = IF m = n THEN NULL ELSE g[m].parent
         /\ Put(g, d, s, c, n, NULL)[m].children = IF m = d THEN s ELSE g[m].children
         /\ Put(g, d, s, c, n, NULL)[m].nchildren = IF m = d THEN c ELSE g[m].nchildren
    BY <2>1, PutIs
  <2> QED  BY <1>17, <2>2, <2>3
<1>19. h0[n].parent = d /\ h0[d].children = ch /\ HasParent(h0, n)
  BY <1>3, <1>4, <1>12 DEF SameTree, HasParent
<1>20. Detached(h0, e, n)
  <2>1. g[d].nchildren = h0[d].nchildren
    <3>1. d \in Nodes
      BY <1>4
    <3>2. Shortened(h0, g, d, n)
      BY <1>12
    <3> QED  BY <3>1, <3>2 DEF Shortened
  <2>2. \A m \in Nodes : /\ g[m].refcount = h0[m].refcount /\ g[m].name = h0[m].name
                          /\ g[m].parent = h0[m].parent /\ g[m].nchildren = h0[m].nchildren
    BY <1>12 DEF Shortened
  <2>a. \A m \in Nodes \ {d} : g[m].children = h0[m].children
    BY <1>12 DEF Shortened
  <2> SUFFICES ASSUME NEW m \in Nodes
               PROVE  /\ e[m].refcount = h0[m].refcount /\ e[m].name = h0[m].name
                      /\ e[m].parent = IF m = n THEN NULL ELSE h0[m].parent
                      /\ e[m].children = IF m = d THEN RemoveFirst(h0[m].children, n)
                                                  ELSE h0[m].children
                      /\ e[m].nchildren = IF m = d THEN h0[m].nchildren - 1 ELSE h0[m].nchildren
    BY <1>19 DEF Detached
  <2>3. /\ e[m].refcount = g[m].refcount /\ e[m].name = g[m].name
        /\ e[m].parent = IF m = n THEN NULL ELSE g[m].parent
        /\ e[m].children = IF m = d THEN s ELSE g[m].children
        /\ e[m].nchildren = IF m = d THEN c ELSE g[m].nchildren
    BY <1>18
  <2>4. /\ g[m].refcount = h0[m].refcount /\ g[m].name = h0[m].name
        /\ g[m].parent = h0[m].parent /\ g[m].nchildren = h0[m].nchildren
    BY <2>2
  <2>5. e[m].children = IF m = d THEN RemoveFirst(h0[m].children, n) ELSE h0[m].children
    BY <1>5, <1>19, <2>3, <2>a
  <2>6. e[m].nchildren = IF m = d THEN h0[m].nchildren - 1 ELSE h0[m].nchildren
    BY <1>16, <2>1, <2>3, <2>4
  <2> QED  BY <2>3, <2>4, <2>5, <2>6
<1>21. Good(e, More(Own(hd, f2), n))
  BY <1>12, <1>18, <1>19, <1>20, DetachGood
<1>22. ASSUME NEW m \in Nodes
       PROVE  /\ e[m].name = h[m].name /\ e[m].parent = IF m = n THEN NULL ELSE h[m].parent
              /\ e[m].children = IF m = h[n].parent THEN RemoveFirst(h[m].children, n)
                                                    ELSE h[m].children
              /\ h[m].refcount > 0 => e[m].refcount > 0
  <2>1. /\ h0[m].name = h[m].name /\ h0[m].parent = h[m].parent
        /\ h0[m].children = h[m].children
    BY <1>12 DEF SameTree
  <2>2. e[m].name = h0[m].name /\ e[m].parent = IF m = n THEN NULL ELSE h0[m].parent
    BY <1>20 DEF Detached
  <2>3. e[m].refcount = h0[m].refcount
    BY <1>20 DEF Detached
  <2>4. e[m].children = IF m = d THEN RemoveFirst(h0[m].children, n) ELSE h0[m].children
    BY <1>19, <1>20 DEF Detached
  <2> QED  BY <1>3, <1>12, <2>1, <2>2, <2>3, <2>4
<1>23. PICK w : w = [node |-> e, iter |-> f2]
  OBVIOUS
<1>24. w.node = e /\ w.iter = f2
  BY <1>23
<1>25. Outcome(hd, h, f, n, w)
  BY <1>11, <1>12, <1>21, <1>22, <1>23, <1>24 DEF Outcome
<1> QED  BY <1>1, <1>14, <1>23, <1>25

-----------------------------------------------------------------------------
(* The inductive invariant.                                                *)

\* An iterator which kept its place stands before all children to return.
Walk(h, r) ==
  ~r.lost =>
    /\ r.due # {} => r.dir # NULL
    /\ r.pos # NULL => h[r.pos].parent = r.dir
    /\ \A m \in r.due : /\ h[m].parent = r.dir
                        /\ r.pos # NULL => h[r.pos].name < h[m].name

Idle(r) == r.dir = NULL => r.pos = NULL

IInv ==
  /\ held \in [Nodes -> 0 .. MaxHeld] /\ reg \in Seq(Iters)
  /\ iter \in [Iters -> IterRecs]
  /\ \A i \in Iters : Idle(iter[i])
  /\ Good(node, Own(held, iter))
  /\ \A i \in Iters : Walk(node, iter[i])

\* What a call may do to an iterator, and to the names of children.
Moved(h, r, r2) ==
  \/ r2 = NoIter
  \/ /\ r2.dir = r.dir /\ r2.due = r.due /\ r2.lost = r.lost
     /\ \/ r2.pos \in {r.pos, NULL}
        \/ /\ r.pos # NULL /\ h[r2.pos].parent = r.dir
           /\ h[r2.pos].name < h[r.pos].name

Keeps(h, g, left) ==
  \A m \in Nodes \ left : h[m].parent # NULL /\ g[m].parent # NULL => g[m].name = h[m].name

Lost(g, r, left) == (r.pos # NULL /\ g[r.pos].parent # r.dir) \/ r.pos \in left

Due(g, r, left) == {n \in r.due \ left : g[n].parent = r.dir}

Committed(g, f, left) ==
  [i \in Iters |-> [f[i] EXCEPT !.due = {n \in @ \ left : g[n].parent = f[i].dir},
                                !.lost = @ \/ Lost(g, f[i], left)]]

LEMMA NoIterIs ==
  /\ NoIter \in IterRecs /\ NoIter.dir = NULL /\ NoIter.pos = NULL /\ NoIter.flag = FALSE
  /\ NoIter.due = {} /\ NoIter.lost = FALSE
BY DEF NoIter, IterRecs

LEMMA CommittedAt ==
  ASSUME NEW g, NEW f \in [Iters -> IterRecs], NEW left, NEW i \in Iters
  PROVE  /\ Committed(g, f, left)[i] \in IterRecs
         /\ Committed(g, f, left)[i].dir = f[i].dir
         /\ Committed(g, f, left)[i].pos = f[i].pos
         /\ Committed(g, f, left)[i].due = Due(g, f[i], left)
         /\ Committed(g, f, left)[i].lost = (f[i].lost \/ Lost(g, f[i], left))
<1>1. PICK r \in IterRecs : r = f[i]
  OBVIOUS
<1>2. PICK D : D = Due(g, r, left)
  OBVIOUS
<1>3. D \subseteq r.due /\ r.due \in SUBSET (Nodes \ {Root})
  BY <1>2 DEF IterRecs, Due
<1>a. PICK L \in BOOLEAN : L = (r.lost \/ Lost(g, r, left))
  OBVIOUS
<1>4. PICK q1, q : q1 = [r EXCEPT !.due = D] /\ q = [q1 EXCEPT !.lost = L]
  OBVIOUS
<1>5. q \in IterRecs /\ q.dir = r.dir /\ q.pos = r.pos /\ q.due = D /\ q.lost = L
  <2>1. q1 \in IterRecs /\ q1.dir = r.dir /\ q1.pos = r.pos /\ q1.due = D
    BY <1>3, <1>4 DEF IterRecs
  <2> QED  BY <1>4, <2>1 DEF IterRecs
<1>6. Committed(g, f, left)[i] = q
  <2>1. q1.lost = r.lost
    BY <1>4 DEF IterRecs
  <2> QED  BY <1>1, <1>2, <1>a, <1>4, <2>1 DEF Committed, Due
<1> QED  BY <1>1, <1>2, <1>a, <1>5, <1>6

LEMMA CommittedIs ==
  ASSUME NEW g, NEW f \in [Iters -> IterRecs], NEW left
  PROVE  /\ Committed(g, f, left) \in [Iters -> IterRecs]
         /\ \A i \in Iters : /\ Committed(g, f, left)[i].dir = f[i].dir
                              /\ Committed(g, f, left)[i].pos = f[i].pos
<1>1. \A i \in Iters : /\ Committed(g, f, left)[i] \in IterRecs
                       /\ Committed(g, f, left)[i].dir = f[i].dir
                       /\ Committed(g, f, left)[i].pos = f[i].pos
  BY CommittedAt
<1>2. Committed(g, f, left) = [i \in Iters |-> Committed(g, f, left)[i]]
  BY DEF Committed
<1> QED  BY <1>1, <1>2

\* Commit() drops the nodes which the iteration need not return any more.
LEMMA CommitWalks ==
  ASSUME NEW h \in Memory, NEW f \in [Iters -> IterRecs], NEW g, NEW f2 \in [Iters -> IterRecs],
         NEW left, Keeps(h, g, left), NEW i \in Iters, Idle(f[i]), Walk(h, f[i]),
         Moved(h, f[i], f2[i])
  PROVE  Idle(Committed(g, f2, left)[i]) /\ Walk(g, Committed(g, f2, left)[i])
<1> USE RootIs
<1>1. PICK r, r2 \in IterRecs : r = f[i] /\ r2 = f2[i]
  OBVIOUS
<1>2. PICK r3 \in IterRecs : r3 = Committed(g, f2, left)[i]
  BY CommittedIs
<1>3. /\ r3.dir = r2.dir /\ r3.pos = r2.pos
      /\ r3.due = {n \in r2.due \ left : g[n].parent = r2.dir}
      /\ r3.lost = (r2.lost \/ Lost(g, r2, left))
  <2>1. /\ Committed(g, f2, left)[i].dir = f2[i].dir
        /\ Committed(g, f2, left)[i].pos = f2[i].pos
        /\ Committed(g, f2, left)[i].due = Due(g, f2[i], left)
        /\ Committed(g, f2, left)[i].lost = (f2[i].lost \/ Lost(g, f2[i], left))
    BY CommittedAt
  <2> QED  BY <1>1, <1>2, <2>1 DEF Due
<1>4. Idle(r3)
  BY <1>1, <1>3, NoIterIs DEF Idle, Moved
<1>5. CASE r2 = NoIter
  BY <1>2, <1>3, <1>4, <1>5, NoIterIs DEF Walk
<1>6. CASE r2 # NoIter
  <2> SUFFICES ASSUME ~r3.lost
               PROVE  /\ r3.due # {} => r3.dir # NULL
                      /\ r3.pos # NULL => g[r3.pos].parent = r3.dir
                      /\ \A m \in r3.due : /\ g[m].parent = r3.dir
                                           /\ r3.pos # NULL => g[r3.pos].name < g[m].name
    BY <1>2, <1>4 DEF Walk
  <2>1. ~Lost(g, r2, left) /\ ~r2.lost /\ r3.due = {n \in r2.due \ left : g[n].parent = r2.dir}
    BY <1>3
  <2>2. /\ r2.dir = r.dir /\ r2.due = r.due /\ r2.lost = r.lost
        /\ \/ r2.pos \in {r.pos, NULL}
           \/ /\ r.pos # NULL /\ h[r2.pos].parent = r.dir
              /\ h[r2.pos].name < h[r.pos].name
    BY <1>1, <1>6 DEF Moved
  <2>3. /\ r.due # {} => r.dir # NULL
        /\ r.pos # NULL => h[r.pos].parent = r.dir /\ r.dir # NULL
        /\ \A m \in r.due : /\ h[m].parent = r.dir
                            /\ r.pos # NULL => h[r.pos].name < h[m].name
    BY <1>1, <2>1, <2>2 DEF Walk, Idle
  <2>4. r2.pos # NULL => g[r2.pos].parent = r.dir /\ r2.pos \in Nodes \ left
    BY <2>1, <2>2 DEF Lost, IterRecs
  <2>5. r2.pos # NULL => r.pos # NULL /\ r.pos \in Nodes /\ h[r2.pos].parent = r.dir
                         /\ (r2.pos = r.pos \/ h[r2.pos].name < h[r.pos].name)
    BY <2>2, <2>3 DEF IterRecs
  <2>6. r2.pos # NULL => g[r2.pos].name = h[r2.pos].name
    BY <2>3, <2>4, <2>5 DEF Keeps
  <2>7. ASSUME NEW m \in r3.due
        PROVE  /\ g[m].parent = r3.dir
               /\ r3.pos # NULL => g[r3.pos].name < g[m].name
    <3>1. m \in r.due /\ m \in Nodes \ left /\ g[m].parent = r.dir
      BY <2>1, <2>2 DEF IterRecs
    <3>2. h[m].parent = r.dir /\ g[m].name = h[m].name
      BY <2>3, <3>1 DEF Keeps
    <3>3. ASSUME r2.pos # NULL PROVE h[r2.pos].name < h[m].name
      <4>1. PICK a, b, c \in Nat : a = h[r2.pos].name /\ b = h[r.pos].name /\ c = h[m].name
        BY <2>4, <2>5, <3>1, <3>3, MemoryIs
      <4>2. b < c /\ (a = b \/ a < b)
        BY <2>3, <2>5, <3>1, <3>3, <4>1
      <4> QED  BY <4>1, <4>2
    <3> QED  BY <1>3, <2>2, <2>6, <3>1, <3>2, <3>3
  <2>8. r3.due # {} => r3.dir # NULL
    BY <2>1, <1>3, <2>2, <2>3
  <2> QED  BY <1>3, <2>2, <2>4, <2>7, <2>8
<1> QED  BY <1>5, <1>6

LEMMA CommitIs ==
  ASSUME NEW g, NEW f, NEW left, NEW st, st = [node |-> g, iter |-> f], Commit(st, left)
  PROVE  node' = g /\ iter' = Committed(g, f, left)
<1>1. st.node = g /\ st.iter = f
  OBVIOUS
<1>2. \A i \in Iters : Stranded(st, i) <=> f[i].pos # NULL /\ g[f[i].pos].parent # f[i].dir
  BY <1>1 DEF Stranded
<1>3. \A i \in Iters : (Stranded(st, i) \/ f[i].pos \in left) <=> Lost(g, f[i], left)
  BY <1>2 DEF Lost
<1>4. iter' = [i \in Iters |->
         [f[i] EXCEPT !.due = {n \in @ \ left : g[n].parent = f[i].dir},
                      !.lost = @ \/ Stranded(st, i) \/ f[i].pos \in left]]
  BY <1>1 DEF Commit
<1> QED  BY <1>1, <1>3, <1>4 DEF Commit, Committed

LEMMA CommitInv ==
  ASSUME IInv, NEW g, NEW f \in [Iters -> IterRecs], NEW left, NEW st,
         st = [node |-> g, iter |-> f], Commit(st, left),
         \A i \in Iters : Moved(node, iter[i], f[i]), Keeps(node, g, left),
         NEW hd \in [Nodes -> 0 .. MaxHeld], held' = hd, reg' \in Seq(Iters),
         Good(g, Own(hd, f))
  PROVE  IInv'
<1>1. PICK h, e : h = node /\ e = iter
  OBVIOUS
<1>2. h \in Memory /\ e \in [Iters -> IterRecs] /\ \A i \in Iters : Idle(e[i]) /\ Walk(h, e[i])
  BY <1>1 DEF IInv, Good
<1>3. PICK f3 : f3 = Committed(g, f, left)
  OBVIOUS
<1>5. node' = g /\ iter' = f3
  BY <1>3, CommitIs
<1>6. /\ f3 \in [Iters -> IterRecs]
      /\ \A i \in Iters : f3[i].dir = f[i].dir /\ f3[i].pos = f[i].pos
  <2>1. Committed(g, f, left) \in [Iters -> IterRecs]
    BY CommittedIs
  <2>2. \A i \in Iters : /\ Committed(g, f, left)[i].dir = f[i].dir
                          /\ Committed(g, f, left)[i].pos = f[i].pos
    BY CommittedIs
  <2> QED  BY <1>3, <2>1, <2>2
<1>7. \A i \in Iters : Idle(f3[i]) /\ Walk(g, f3[i])
  BY <1>1, <1>2, <1>3, CommitWalks
<1>8. Own(hd, f3) = Own(hd, f)
  BY <1>6, OwnSame
<1> QED  BY <1>5, <1>6, <1>7, <1>8 DEF IInv

LEMMA InvIs ==
  ASSUME IInv
  PROVE  /\ held \in [Nodes -> Nat] /\ node \in Memory /\ iter \in [Iters -> IterRecs]
         /\ Own(held, iter) \in [Nodes -> Nat] /\ Good(node, Own(held, iter))
         /\ \A n \in Nodes : held[n] > 0 => Own(held, iter)[n] > 0
         /\ \A n \in Nodes : InTree(n) <=> HasParent(node, n)
         /\ \A n \in Nodes : Known(n) => node[n].refcount > 0
<1>1. held \in [Nodes -> Nat] /\ node \in Memory /\ Good(node, Own(held, iter))
      /\ iter \in [Iters -> IterRecs] /\ Owned(node, Own(held, iter))
  BY NodeAssumption DEF IInv, Good
<1>2. Own(held, iter) \in [Nodes -> Nat]
  BY <1>1, OwnIs
<1>3. ASSUME NEW n \in Nodes, held[n] > 0 PROVE Own(held, iter)[n] > 0
  <2>1. PICK a, b, w \in Nat : /\ a = Cardinality({i \in Iters : iter[i].pos = n})
                               /\ b = Cardinality({i \in Iters : iter[i].dir = n}) /\ w = held[n]
    BY <1>1, ItersFinite
  <2>2. Own(held, iter)[n] = w + a + b
    BY <2>1 DEF Own
  <2> QED  BY <1>3, <2>1, <2>2
<1>4. \A n \in Nodes : InTree(n) <=> HasParent(node, n)
  BY DEF InTree, HasParent
<1>5. ASSUME NEW n \in Nodes, Known(n) PROVE node[n].refcount > 0
  <2>1. PICK w \in Nat : w = Own(held, iter)[n]
    BY <1>2
  <2>2. node[n].refcount = w + Count(HasParent(node, n))
    BY <1>1, <2>1 DEF Owned
  <2>3. w > 0 \/ HasParent(node, n)
    BY <1>3, <1>4, <1>5, <2>1 DEF Known
  <2> QED  BY <2>2, <2>3 DEF Count
<1> QED  BY <1>1, <1>2, <1>3, <1>4, <1>5

\* Children keep their parents and names.
Steady(h, g) ==
  \A m \in Nodes : h[m].parent # NULL => g[m].parent = h[m].parent /\ g[m].name = h[m].name

LEMMA WalkSame ==
  ASSUME NEW h, NEW g, Steady(h, g), NEW r \in IterRecs, Idle(r), Walk(h, r)
  PROVE  Walk(g, r)
<1> SUFFICES ASSUME ~r.lost
             PROVE  /\ r.due # {} => r.dir # NULL
                    /\ r.pos # NULL => g[r.pos].parent = r.dir
                    /\ \A m \in r.due : /\ g[m].parent = r.dir
                                        /\ r.pos # NULL => g[r.pos].name < g[m].name
  BY DEF Walk
<1>1. /\ r.due # {} => r.dir # NULL
      /\ r.pos # NULL => h[r.pos].parent = r.dir /\ r.dir # NULL
      /\ \A m \in r.due : /\ h[m].parent = r.dir
                          /\ r.pos # NULL => h[r.pos].name < h[m].name
  BY DEF Walk, Idle
<1>2. r.due \subseteq Nodes /\ (r.pos # NULL => r.pos \in Nodes)
  BY DEF IterRecs
<1>3. r.pos # NULL => g[r.pos].parent = r.dir /\ g[r.pos].name = h[r.pos].name
  BY <1>1, <1>2 DEF Steady
<1>4. \A m \in r.due : g[m].parent = r.dir /\ g[m].name = h[m].name
  BY <1>1, <1>2 DEF Steady
<1> QED  BY <1>1, <1>3, <1>4

\* iso_node_new_root()
LEMMA InitInv == Init => IInv
<1> SUFFICES ASSUME Init PROVE IInv
  OBVIOUS
<1> USE RootIs
<1>1. \A n \in Nodes : node[n] = IF n = Root
                 THEN [NoNode EXCEPT !.refcount = 1, !.parent = Root] ELSE NoNode
  BY DEF Init
<1>2. PICK r1, r : r1 = [NoNode EXCEPT !.refcount = 1] /\ r = [r1 EXCEPT !.parent = Root]
  OBVIOUS
<1>3. /\ r1 \in NodeRecs /\ r1.refcount = 1 /\ r1.name = 0 /\ r1.parent = NULL
      /\ r1.children = <<>> /\ r1.nchildren = 0
  <2>1. PICK q \in NodeRecs : q = NoNode
    BY NoNodeIs
  <2>2. r1 = [q EXCEPT !.refcount = 1]
    BY <1>2, <2>1
  <2>3. /\ r1 \in NodeRecs /\ r1.refcount = 1 /\ r1.name = q.name /\ r1.parent = q.parent
        /\ r1.children = q.children /\ r1.nchildren = q.nchildren
    BY <2>2 DEF NodeRecs
  <2> QED  BY <2>1, <2>3, NoNodeIs
<1>4. /\ r \in NodeRecs /\ r.refcount = 1 /\ r.name = 0 /\ r.parent = Root
      /\ r.children = <<>> /\ r.nchildren = 0
  BY <1>2, <1>3, ReparentIs
<1>5. node[Root] = r /\ \A n \in Nodes \ {Root} : node[n] = NoNode
  BY <1>1, <1>2
<1>6. node \in Memory
  BY <1>1, <1>4, <1>5, NoNodeIs DEF Init, Memory
<1>7. \A n \in Nodes : node[n].children = <<>> /\ node[n].nchildren = 0
  BY <1>4, <1>5, NoNodeIs
<1>a. \A n \in Nodes \ {Root} : node[n].parent = NULL
  BY <1>5, NoNodeIs
<1>8. Len(<<>>) = 0
  BY EmptySeq
<1>9. Linked(node) /\ Sorted(node)
  <2>1. \A d \in Nodes : Len(node[d].children) = 0
    BY <1>7, <1>8
  <2>2. Sorted(node)
    BY <2>1 DEF Sorted
  <2>3. \A d \in Nodes : node[d].nchildren = Len(node[d].children)
    BY <1>7, <2>1
  <2>4. node[Root].parent = Root
    BY <1>4, <1>5
  <2> QED  BY <1>a, <2>1, <2>2, <2>3, <2>4 DEF Linked
<1>10. Grounded(node)
  BY <1>a DEF Grounded
<1>11. DeadAlone(node)
  BY <1>4, <1>5, <1>7 DEF DeadAlone
<1>12. \A n \in Nodes : held[n] = IF n = Root THEN 1 ELSE 0
  BY DEF Init
<1>13. \A i \in Iters : iter[i] = NoIter
  BY DEF Init
<1>14. ASSUME NEW n \in Nodes
       PROVE  Own(held, iter)[n] \in Nat /\ node[n].refcount = Own(held, iter)[n] + Count(HasParent(node, n))
  <2>1. {i \in Iters : iter[i].pos = n} = {} /\ {i \in Iters : iter[i].dir = n} = {}
    BY <1>13, NoIterIs
  <2>2. Cardinality({}) = 0
    BY FS_EmptySet
  <2>3. Own(held, iter)[n] = held[n]
    BY <1>12, <2>1, <2>2 DEF Own
  <2>4. ~HasParent(node, n)
    BY <1>4, <1>5, <1>a DEF HasParent
  <2>5. node[n].refcount = held[n] /\ held[n] \in Nat
    BY <1>4, <1>5, <1>12, NoNodeIs
  <2> QED  BY <2>3, <2>4, <2>5 DEF Count
<1>15. Own(held, iter) \in [Nodes -> Nat]
  <2>1. Own(held, iter) = [n \in Nodes |-> Own(held, iter)[n]]
    BY DEF Own
  <2> QED  BY <1>14, <2>1
<1>16. Good(node, Own(held, iter))
  BY <1>6, <1>9, <1>10, <1>11, <1>14, <1>15 DEF Good, Owned
<1>17. held \in [Nodes -> 0 .. MaxHeld]
  <2>1. 0 \in 0 .. MaxHeld /\ 1 \in 0 .. MaxHeld
    BY NodeAssumption
  <2> QED  BY <2>1 DEF Init
<1>18. iter \in [Iters -> IterRecs]
  BY NoIterIs DEF Init
<1>19. \A i \in Iters : Idle(iter[i]) /\ Walk(node, iter[i])
  BY <1>13, NoIterIs DEF Idle, Walk
<1>20. reg \in Seq(Iters)
  BY EmptySeq DEF Init
<1> QED  BY <1>16, <1>17, <1>18, <1>19, <1>20 DEF IInv

\* A new node gets its first reference.
Born(h, n, name) == [h EXCEPT ![n] = [NoNode EXCEPT !.refcount = 1, !.name = name]]

LEMMA BornGood ==
  ASSUME NEW h, NEW own, Good(h, own), NEW n \in Nodes \ {Root}, h[n].refcount = 0,
         NEW name \in Names
  PROVE  /\ Good(Born(h, n, name), More(own, n))
         /\ Steady(h, Born(h, n, name))
<1> USE RootIs
<1>1. /\ h \in Memory /\ own \in [Nodes -> Nat] /\ Linked(h) /\ DeadAlone(h) /\ Owned(h, own)
  BY DEF Good
<1>2. PICK w \in Nat : w = own[n]
  BY <1>1
<1>3. w = 0 /\ h[n].parent = NULL
  <2>1. h[n].refcount = w + Count(HasParent(h, n))
    BY <1>1, <1>2 DEF Owned
  <2>2. w = 0 /\ ~HasParent(h, n)
    BY <2>1 DEF Count
  <2> QED  BY <1>1, <2>2 DEF HasParent, Linked
<1>4. h[n].children = <<>> /\ h[n].nchildren = 0
  <2>1. h[n].children = <<>>
    BY <1>1 DEF DeadAlone
  <2>2. Len(<<>>) = 0
    BY EmptySeq
  <2> QED  BY <1>1, <2>1, <2>2 DEF Linked
<1>5. PICK q, q1, q2 : q = NoNode /\ q1 = [q EXCEPT !.refcount = 1] /\ q2 = [q1 EXCEPT !.name = name]
  OBVIOUS
<1>6. q \in NodeRecs /\ q.parent = NULL /\ q.children = <<>> /\ q.nchildren = 0
  BY <1>5, NoNodeIs
<1>7. /\ q1 \in NodeRecs /\ q1.refcount = 1 /\ q1.parent = q.parent
      /\ q1.children = q.children /\ q1.nchildren = q.nchildren
  BY <1>5, <1>6 DEF NodeRecs
<1>8. /\ q2 \in NodeRecs /\ q2.refcount = 1 /\ q2.name = name /\ q2.parent = q.parent
      /\ q2.children = q.children /\ q2.nchildren = q.nchildren
  BY <1>5, <1>7 DEF NodeRecs
<1>9. PICK g : g = Born(h, n, name)
  OBVIOUS
<1>10. g = [h EXCEPT ![n] = q2]
  BY <1>5, <1>9 DEF Born
<1>11. g \in Memory /\ \A m \in Nodes : g[m] = IF m = n THEN q2 ELSE h[m]
  BY <1>1, <1>8, <1>10 DEF Memory
<1>12. PICK e : e = Renamed(h, n, name)
  OBVIOUS
<1>13. GoodBut(e, own, n)
  BY <1>12, RenameGood
<1>14. \A m \in Nodes :
         /\ e[m].refcount = h[m].refcount /\ e[m].name = IF m = n THEN name ELSE h[m].name
         /\ e[m].parent = h[m].parent /\ e[m].children = h[m].children
         /\ e[m].nchildren = h[m].nchildren
  BY <1>12, RenameGood
<1>15. Sorted(e)
  <2>1. e[n].parent = NULL
    BY <1>3, <1>14
  <2> QED  BY <1>13, <2>1, Unlisted DEF Good
<1>16. SameTree(e, g)
  BY <1>3, <1>4, <1>6, <1>8, <1>11, <1>14 DEF SameTree
<1>17. PICK o : o = More(own, n)
  OBVIOUS
<1>18. o \in [Nodes -> Nat] /\ \A m \in Nodes : o[m] = IF m = n THEN own[m] + 1 ELSE own[m]
  BY <1>1, <1>17 DEF More
<1>19. Owned(g, o)
  <2> SUFFICES ASSUME NEW m \in Nodes
               PROVE  g[m].refcount = o[m] + Count(HasParent(g, m))
    BY DEF Owned
  <2>1. CASE m = n
    <3>1. ~HasParent(g, m) /\ g[m].refcount = 1
      BY <1>6, <1>8, <1>11, <2>1 DEF HasParent
    <3>a. own[m] = 0
      BY <1>2, <1>3, <2>1
    <3>b. o[m] = own[m] + 1
      BY <1>18, <2>1
    <3>2. o[m] = 1
      BY <3>a, <3>b
    <3>3. Count(HasParent(g, m)) = 0
      BY <3>1 DEF Count
    <3> QED  BY <3>1, <3>2, <3>3
  <2>2. CASE m # n
    <3>1. g[m] = h[m] /\ o[m] = own[m]
      BY <1>11, <1>18, <2>2
    <3> QED  BY <1>1, <3>1 DEF Owned, HasParent
  <2> QED  BY <2>1, <2>2
<1>20. \A m \in Nodes : e[m].refcount > 0 => g[m].refcount > 0
  BY <1>8, <1>11, <1>14
<1>21. e[Root].parent = NULL => g[Root].refcount = 0
  BY <1>1, <1>11, <1>14 DEF DeadAlone
<1>22. Good(g, o)
  BY <1>11, <1>13, <1>15, <1>16, <1>18, <1>19, <1>20, <1>21, SameTreeGood
<1>23. Steady(h, g)
  BY <1>3, <1>11 DEF Steady
<1> QED  BY <1>9, <1>17, <1>22, <1>23

LEMMA NewNodeInv ==
  ASSUME IInv, NEW n \in Nodes, NEW name \in Names, NewNode(n, name)
  PROVE  IInv'
<1> USE InvIs
<1>1. PICK h, hd, e : h = node /\ hd = held /\ e = iter
  OBVIOUS
<1>2. h[n].refcount = 0 /\ n \in Nodes \ {Root}
  <2>1. h[n].refcount \in Nat
    BY <1>1, MemoryIs
  <2> QED  BY <1>1, <2>1 DEF NewNode, Live
<1>3. node' = Born(h, n, name) /\ iter' = e /\ reg' = reg
  BY <1>1 DEF NewNode, Born
<1>4. Good(Born(h, n, name), More(Own(hd, e), n)) /\ Steady(h, Born(h, n, name))
  BY <1>1, <1>2, BornGood
<1>5. hd[n] = 0
  <2>1. ~(hd[n] > 0)
    BY <1>1, <1>2 DEF Known
  <2>2. hd[n] \in Nat
    BY <1>1
  <2> QED  BY <2>1, <2>2
<1>6. held' = [hd EXCEPT ![n] = @ + 1] /\ held' \in [Nodes -> 0 .. MaxHeld]
  <2>1. held' = [hd EXCEPT ![n] = 1]
    BY <1>1 DEF NewNode
  <2>2. 1 \in 0 .. MaxHeld
    BY NodeAssumption
  <2>3. hd \in [Nodes -> 0 .. MaxHeld]
    BY <1>1 DEF IInv
  <2> QED  BY <1>5, <2>1, <2>2, <2>3
<1>7. Own(held', iter') = More(Own(hd, e), n)
  <2>1. hd \in [Nodes -> Nat]
    BY <1>1
  <2> QED  BY <1>3, <1>6, <2>1, HeldMore
<1>8. \A i \in Iters : Walk(Born(h, n, name), e[i])
  <2>1. \A i \in Iters : Idle(e[i]) /\ Walk(h, e[i]) /\ e[i] \in IterRecs
    BY <1>1 DEF IInv
  <2> QED  BY <1>4, <2>1, WalkSame
<1> QED  BY <1>1, <1>3, <1>4, <1>6, <1>7, <1>8 DEF IInv

LEMMA NodeRefInv ==
  ASSUME IInv, NEW n \in Nodes, NodeRef(n)
  PROVE  IInv'
<1> USE InvIs
<1>1. PICK h, hd, e : h = node /\ hd = held /\ e = iter
  OBVIOUS
<1>2. h[n].refcount > 0
  BY <1>1 DEF NodeRef
<1>3. Good(Ref(h, n), More(Own(hd, e), n)) /\ SameTree(h, Ref(h, n))
  <2>1. Good(h, Own(hd, e))
    BY <1>1
  <2>2. GoodBut(h, Own(hd, e), n) /\ Sorted(h)
    BY <2>1, GoodIsGoodBut DEF Good
  <2> QED  BY <1>2, <2>2, RefGood
<1>4. node' = Ref(h, n) /\ iter' = e /\ reg' = reg
  BY <1>1 DEF NodeRef
<1>5. held' = [hd EXCEPT ![n] = @ + 1] /\ held' \in [Nodes -> 0 .. MaxHeld]
  <2>1. held' = [hd EXCEPT ![n] = @ + 1] /\ hd[n] < MaxHeld
    BY <1>1 DEF NodeRef
  <2>2. hd \in [Nodes -> 0 .. MaxHeld] /\ MaxHeld \in Nat
    BY <1>1, NodeAssumption DEF IInv
  <2>3. hd[n] + 1 \in 0 .. MaxHeld
    BY <2>1, <2>2
  <2> QED  BY <2>1, <2>2, <2>3
<1>6. Own(held', iter') = More(Own(hd, e), n)
  <2>1. hd \in [Nodes -> Nat]
    BY <1>1
  <2> QED  BY <1>4, <1>5, <2>1, HeldMore
<1>7. \A i \in Iters : Walk(Ref(h, n), e[i])
  <2>1. \A i \in Iters : Idle(e[i]) /\ Walk(h, e[i]) /\ e[i] \in IterRecs
    BY <1>1 DEF IInv
  <2>2. Steady(h, Ref(h, n))
    BY <1>3 DEF SameTree, Steady
  <2> QED  BY <2>1, <2>2, WalkSame
<1> QED  BY <1>1, <1>3, <1>4, <1>5, <1>6, <1>7 DEF IInv

\* A call which leaves the iterators alone.
LEMMA CallInv ==
  ASSUME IInv, NEW g, CommitNodes(g), Keeps(node, g, {}), reg' = reg,
         NEW hd \in [Nodes -> 0 .. MaxHeld], held' = hd, Good(g, Own(hd, iter))
  PROVE  IInv'
<1>1. PICK f \in [Iters -> IterRecs] : f = iter
  BY DEF IInv
<1>2. PICK st : st = [node |-> g, iter |-> f]
  OBVIOUS
<1>3. Commit(st, {})
  BY <1>1, <1>2 DEF CommitNodes
<1>4. \A i \in Iters : Moved(node, iter[i], f[i])
  BY <1>1 DEF Moved
<1>5. reg' \in Seq(Iters)
  BY DEF IInv
<1> QED  BY <1>1, <1>2, <1>3, <1>4, <1>5, CommitInv

\* The reference which the program gives up.
LEMMA GivenUp ==
  ASSUME IInv, NEW n \in Nodes, held[n] > 0
  PROVE  /\ [held EXCEPT ![n] = @ - 1] \in [Nodes -> 0 .. MaxHeld]
         /\ Own([held EXCEPT ![n] = @ - 1], iter) = Less(Own(held, iter), n)
         /\ Own(held, iter)[n] > 0
<1>1. PICK hd, f : hd = held /\ f = iter
  OBVIOUS
<1>a. hd \in [Nodes -> Nat]
  BY <1>1, InvIs
<1>2. PICK v \in 0 .. MaxHeld : v = hd[n] /\ v > 0
  BY <1>1 DEF IInv
<1>3. v - 1 \in 0 .. MaxHeld
  BY <1>2, NodeAssumption
<1>4. hd \in [Nodes -> 0 .. MaxHeld] /\ hd[n] - 1 = v - 1
  BY <1>1, <1>2 DEF IInv
<1>5. [hd EXCEPT ![n] = @ - 1] \in [Nodes -> 0 .. MaxHeld]
  BY <1>3, <1>4
<1>6. Own([hd EXCEPT ![n] = @ - 1], f) = Less(Own(hd, f), n) /\ Own(hd, f)[n] > 0
  BY <1>1, <1>2, <1>a, HeldLess
<1> QED  BY <1>1, <1>5, <1>6

LEMMA NodeUnrefInv ==
  ASSUME IInv, NEW n \in Nodes, NodeUnref(n)
  PROVE  IInv'
<1>1. held[n] > 0 /\ CommitNodes(Unref(node, n)) /\ held' = [held EXCEPT ![n] = @ - 1] /\ reg' = reg
  BY DEF NodeUnref
<1>2. PICK hd \in [Nodes -> 0 .. MaxHeld] : hd = [held EXCEPT ![n] = @ - 1]
  BY <1>1, GivenUp
<1>3. Own(hd, iter) = Less(Own(held, iter), n) /\ Own(held, iter)[n] > 0
  BY <1>1, <1>2, GivenUp
<1>4. Good(node, Own(held, iter))
  BY InvIs
<1>5. PICK g : g = Unref(node, n)
  OBVIOUS
<1>6. Good(g, Own(hd, iter)) /\ Pruned(node, g)
  BY <1>3, <1>4, <1>5, UnrefGood
<1>7. Keeps(node, g, {})
  BY <1>6 DEF Pruned, Keeps
<1> QED  BY <1>1, <1>2, <1>5, <1>6, <1>7, CallInv

\* A directory and those which contain it.
LEMMA AboveIs ==
  ASSUME node \in Memory, NEW d \in Nodes
  PROVE  /\ Above(d) \in SUBSET Nodes /\ d \in Above(d)
         /\ \A m \in Above(d) : node[m].parent \in Above(d) \cup {NULL}
<1>1. Above(d) \in SUBSET Nodes /\ d \in Above(d)
  BY DEF Above
<1>2. ASSUME NEW m \in Above(d), node[m].parent # NULL
      PROVE  node[m].parent \in Above(d)
  <2>1. m \in Nodes /\ node[m].parent \in Nodes
    BY <1>1, <1>2, MemoryIs
  <2>2. ASSUME NEW S \in SUBSET Nodes,
               d \in S /\ \A k \in S : node[k].parent \in S \cup {NULL}
        PROVE  node[m].parent \in S
    <3>1. m \in S
      BY <2>2 DEF Above
    <3> QED  BY <1>2, <2>2, <3>1
  <2> QED  BY <2>1, <2>2 DEF Above
<1> QED  BY <1>1, <1>2

\* What iso_dir_add_node() may rely on.
LEMMA MayAddIs ==
  ASSUME IInv, NEW d \in Nodes, NEW n \in Nodes, MayAdd(d, n)
  PROVE  /\ n \in Nodes \ {d} /\ held[n] > 0 /\ node[n].parent = NULL /\ node[d].refcount > 0
         /\ Above(d) \in SUBSET Nodes /\ d \in Above(d) /\ n \notin Above(d)
         /\ \A m \in Above(d) : node[m].parent \in Above(d) \cup {NULL}
<1>1. node \in Memory /\ (Known(d) => node[d].refcount > 0)
  BY InvIs
<1>2. /\ Above(d) \in SUBSET Nodes /\ d \in Above(d)
      /\ \A m \in Above(d) : node[m].parent \in Above(d) \cup {NULL}
  BY <1>1, AboveIs
<1> QED  BY <1>1, <1>2 DEF MayAdd

LEMMA DirAddInv ==
  ASSUME IInv, NEW d \in Nodes, NEW n \in Nodes, DirAdd(d, n)
  PROVE  IInv'
<1>1. /\ MayAdd(d, n) /\ ~DirExists(node, d, node[n].name) /\ CommitNodes(Insert(node, d, n))
      /\ held' = [held EXCEPT ![n] = @ - 1] /\ reg' = reg
  BY DEF DirAdd
<1>2. PICK A : A = Above(d)
  OBVIOUS
<1>3. /\ n \in Nodes \ {d} /\ held[n] > 0 /\ node[n].parent = NULL /\ node[d].refcount > 0
      /\ A \in SUBSET Nodes /\ d \in A /\ n \notin A
      /\ \A m \in A : node[m].parent \in A \cup {NULL}
  BY <1>1, <1>2, MayAddIs
<1>4. PICK hd \in [Nodes -> 0 .. MaxHeld] : hd = [held EXCEPT ![n] = @ - 1]
  BY <1>3, GivenUp
<1>5. Own(hd, iter) = Less(Own(held, iter), n) /\ Own(held, iter)[n] > 0
  BY <1>3, <1>4, GivenUp
<1>6. PICK h, own : h = node /\ own = Own(held, iter) /\ Good(h, own)
  BY InvIs
<1>7. PICK g : g = Insert(h, d, n)
  OBVIOUS
<1>8. Good(g, Less(own, n)) /\ Below(h, g, d, n)
  BY <1>1, <1>3, <1>5, <1>6, <1>7, InsertGood
<1>9. Keeps(h, g, {})
  BY <1>8 DEF Below, Keeps
<1> QED  BY <1>1, <1>4, <1>5, <1>6, <1>7, <1>8, <1>9, CallInv

LEMMA DirReplaceInv ==
  ASSUME IInv, NEW d \in Nodes, NEW n \in Nodes, NEW mode, DirReplace(d, n, mode)
  PROVE  IInv'
<1>1. /\ MayAdd(d, n) /\ DirExists(node, d, node[n].name) /\ CommitNodes(Replace(node, d, n))
      /\ held' = [held EXCEPT ![n] = @ - 1] /\ reg' = reg
  BY DEF DirReplace
<1>2. PICK A : A = Above(d)
  OBVIOUS
<1>3. /\ n \in Nodes \ {d} /\ held[n] > 0 /\ node[n].parent = NULL /\ node[d].refcount > 0
      /\ A \in SUBSET Nodes /\ d \in A /\ n \notin A
      /\ \A m \in A : node[m].parent \in A \cup {NULL}
  BY <1>1, <1>2, MayAddIs
<1>4. PICK hd \in [Nodes -> 0 .. MaxHeld] : hd = [held EXCEPT ![n] = @ - 1]
  BY <1>3, GivenUp
<1>5. Own(hd, iter) = Less(Own(held, iter), n) /\ Own(held, iter)[n] > 0
  BY <1>3, <1>4, GivenUp
<1>6. PICK h, own : h = node /\ own = Own(held, iter) /\ Good(h, own)
  BY InvIs
<1>7. PICK g : g = Replace(h, d, n)
  OBVIOUS
<1>8. Good(g, Less(own, n))
  BY <1>1, <1>3, <1>5, <1>6, <1>7, ReplaceGood
<1>9. \A m \in Nodes \ {n} : g[m].parent # NULL => g[m].parent = h[m].parent /\ g[m].name = h[m].name
  BY <1>1, <1>3, <1>5, <1>6, <1>7, ReplaceGood
<1>10. Keeps(h, g, {})
  BY <1>3, <1>6, <1>9 DEF Keeps
<1> QED  BY <1>1, <1>4, <1>5, <1>6, <1>7, <1>8, <1>10, CallInv

\* The predecessor in the list has a smaller name.
LEMMA MovedBackIs ==
  ASSUME NEW h, NEW own, Good(h, own), NEW n \in Nodes, HasParent(h, n),
         NEW r, NEW r2, MovedBack(h, n, r, r2)
  PROVE  Moved(h, r, r2)
<1> USE RootIs
<1>1. h \in Memory /\ Linked(h) /\ Sorted(h)
  BY DEF Good
<1>2. PICK d \in Nodes : d = h[n].parent
  BY <1>1, MemoryIs DEF HasParent
<1>3. PICK ch \in Seq(Nodes) : ch = h[d].children
  BY <1>1, MemoryIs
<1>4. r2.dir = r.dir /\ r2.due = r.due /\ r2.lost = r.lost
  BY DEF MovedBack
<1>5. CASE r2.pos = r.pos \/ r2.pos = NULL
  BY <1>4, <1>5 DEF Moved
<1>6. CASE ~(r2.pos = r.pos \/ r2.pos = NULL)
  <2>1. /\ r.pos = n /\ r.dir = d
        /\ \E k \in 2 .. Len(ch) : ch[k] = n /\ r2.pos = ch[k - 1]
    BY <1>2, <1>3, <1>6 DEF MovedBack
  <2>2. PICK k \in 2 .. Len(ch) : ch[k] = n /\ r2.pos = ch[k - 1]
    BY <2>1
  <2>3. Len(ch) \in Nat
    BY <1>3, LenProperties
  <2>4. PICK j : j = k - 1
    OBVIOUS
  <2>5. j \in 1 .. Len(ch) /\ k \in 1 .. Len(ch) /\ j < k /\ r2.pos = ch[j]
    BY <2>2, <2>3, <2>4
  <2>6. h[ch[j]].parent = d
    BY <1>1, <1>3, <2>5 DEF Linked
  <2>7. h[ch[j]].name < h[ch[k]].name
    BY <1>1, <1>3, <2>5 DEF Sorted
  <2> QED  BY <1>4, <2>1, <2>2, <2>5, <2>6, <2>7 DEF Moved
<1> QED  BY <1>5, <1>6

\* What iso_node_take() leaves behind.
Taken(n, f, e, f2) ==
  /\ Take([node |-> node, iter |-> f], n) = [node |-> e, iter |-> f2]
  /\ Good(e, More(Own(held, f2), n)) /\ f2 \in [Iters -> IterRecs]
  /\ \A j \in Iters : Moved(node, iter[j], f2[j])
  /\ \A m \in Nodes : /\ e[m].name = node[m].name
                      /\ e[m].parent = IF m = n THEN NULL ELSE node[m].parent
  /\ Behind(node, iter, f2, n)

LEMMA TakeTakes ==
  ASSUME IInv, NEW n \in Nodes, InTree(n), NEW f \in [Iters -> IterRecs],
         \A j \in Iters : /\ f[j].dir = iter[j].dir /\ f[j].pos = iter[j].pos
                          /\ f[j].due = iter[j].due /\ f[j].lost = iter[j].lost
  PROVE  \E e, f2 : Taken(n, f, e, f2)
<1>1. PICK h, hd : h = node /\ hd = held
  OBVIOUS
<1>2. hd \in [Nodes -> Nat] /\ HasParent(h, n) /\ Good(h, Own(held, iter)) /\ reg \in Seq(Iters)
  BY <1>1, InvIs DEF IInv
<1>3. Own(held, iter) = Own(hd, f)
  BY <1>1, OwnSame
<1>4. GoodBut(h, Own(hd, f), n)
  BY <1>2, <1>3, GoodIsGoodBut
<1>5. PICK st : st = Take([node |-> h, iter |-> f], n)
  OBVIOUS
<1>6. Outcome(hd, h, f, n, st)
  BY <1>2, <1>4, <1>5, TakeGood
<1>7. PICK e, f2 : e = st.node /\ f2 = st.iter
  OBVIOUS
<1>8. /\ st = [node |-> e, iter |-> f2]
      /\ Good(e, More(Own(hd, f2), n))
      /\ f2 \in [Iters -> IterRecs] /\ \A j \in Iters : MovedBack(h, n, f[j], f2[j])
  BY <1>6, <1>7 DEF Outcome
<1>9. \A m \in Nodes : e[m].name = h[m].name /\ e[m].parent = IF m = n THEN NULL ELSE h[m].parent
  BY <1>6, <1>7 DEF Outcome
<1>11. Behind(h, iter, f2, n)
  <2>1. Behind(h, f, f2, n)
    BY <1>6, <1>7 DEF Outcome
  <2>2. \A b \in 1 .. Len(reg) : reg[b] \in Iters
    BY <1>2
  <2>3. \A b \in 1 .. Len(reg) : /\ f[reg[b]].dir = iter[reg[b]].dir
                                 /\ f[reg[b]].pos = iter[reg[b]].pos
    BY <2>2
  <2>4. \A b \in 1 .. Len(reg) : At(h, f, reg[b], n) <=> At(h, iter, reg[b], n)
    BY <2>3 DEF At
  <2>5. \A b \in 1 .. Len(reg) : \A a \in 1 .. b - 1 : a \in 1 .. Len(reg)
    <3>1. Len(reg) \in Nat
      BY <1>2, LenProperties
    <3> QED  BY <3>1
  <2> QED  BY <2>1, <2>3, <2>4, <2>5 DEF Behind
<1>10. ASSUME NEW j \in Iters PROVE Moved(h, iter[j], f2[j])
  <2>1. MovedBack(h, n, iter[j], f2[j])
    BY <1>8 DEF MovedBack
  <2> QED  BY <1>2, <2>1, MovedBackIs
<1> QED  BY <1>1, <1>5, <1>8, <1>9, <1>10, <1>11 DEF Taken

LEMMA TakeInv ==
  ASSUME IInv, NEW n \in Nodes, InTree(n), held[n] < MaxHeld, NEW f \in [Iters -> IterRecs],
         \A j \in Iters : /\ f[j].dir = iter[j].dir /\ f[j].pos = iter[j].pos
                          /\ f[j].due = iter[j].due /\ f[j].lost = iter[j].lost,
         Commit(Take([node |-> node, iter |-> f], n), {}),
         held' = [held EXCEPT ![n] = @ + 1], reg' = reg
  PROVE  IInv'
<1>1. PICK e, f2 : Taken(n, f, e, f2)
  BY TakeTakes
<1>2. PICK st : st = [node |-> e, iter |-> f2]
  OBVIOUS
<1>3. Commit(st, {})
  BY <1>1, <1>2 DEF Taken
<1>4. /\ Good(e, More(Own(held, f2), n)) /\ f2 \in [Iters -> IterRecs]
      /\ \A j \in Iters : Moved(node, iter[j], f2[j])
  BY <1>1 DEF Taken
<1>5. Keeps(node, e, {})
  BY <1>1 DEF Taken, Keeps
<1>6. PICK hd \in [Nodes -> 0 .. MaxHeld] : hd = [held EXCEPT ![n] = @ + 1]
  <2>1. held \in [Nodes -> 0 .. MaxHeld] /\ MaxHeld \in Nat
    BY NodeAssumption DEF IInv
  <2>2. held[n] + 1 \in 0 .. MaxHeld
    BY <2>1
  <2> QED  BY <2>1, <2>2
<1>7. Own(hd, f2) = More(Own(held, f2), n)
  <2>1. PICK v \in [Nodes -> Nat] : v = held
    BY InvIs
  <2> QED  BY <1>6, <2>1, HeldMore
<1>8. reg' \in Seq(Iters)
  BY DEF IInv
<1>9. Good(e, Own(hd, f2)) /\ held' = hd
  BY <1>4, <1>6, <1>7
<1> QED  BY <1>2, <1>3, <1>4, <1>5, <1>8, <1>9, CommitInv

LEMMA RemoveInv ==
  ASSUME IInv, NEW n \in Nodes, InTree(n), NEW f \in [Iters -> IterRecs],
         \A j \in Iters : /\ f[j].dir = iter[j].dir /\ f[j].pos = iter[j].pos
                          /\ f[j].due = iter[j].due /\ f[j].lost = iter[j].lost,
         NEW st, st = Take([node |-> node, iter |-> f], n),
         Commit([st EXCEPT !.node = Unref(@, n)], {}),
         held' = held, reg' = reg
  PROVE  IInv'
<1>1. PICK e, f2 : Taken(n, f, e, f2)
  BY TakeTakes
<1>2. PICK g : g = Unref(e, n)
  OBVIOUS
<1>3. PICK st2 : st2 = [node |-> g, iter |-> f2]
  OBVIOUS
<1>4. Commit(st2, {})
  <2>1. st = [node |-> e, iter |-> f2]
    BY <1>1 DEF Taken
  <2>2. [st EXCEPT !.node = Unref(@, n)] = st2
    BY <1>2, <1>3, <2>1
  <2> QED  BY <2>2
<1>5. /\ Good(e, More(Own(held, f2), n)) /\ f2 \in [Iters -> IterRecs]
      /\ \A j \in Iters : Moved(node, iter[j], f2[j])
  BY <1>1 DEF Taken
<1>6. PICK hd \in [Nodes -> 0 .. MaxHeld] : hd = held
  BY DEF IInv
<1>7. PICK own \in [Nodes -> Nat] : own = Own(hd, f2)
  <2>1. hd \in [Nodes -> Nat]
    BY <1>6, InvIs
  <2> QED  BY <2>1, OwnIs
<1>8. Less(More(own, n), n) = own /\ More(own, n)[n] > 0
  <2>1. Less(More(own, n), n) = own
    BY <1>7, MoreLess
  <2>2. own[n] \in Nat /\ More(own, n)[n] = own[n] + 1
    BY <1>7 DEF More
  <2> QED  BY <2>1, <2>2
<1>9. Good(g, own) /\ Pruned(e, g)
  <2>1. Good(e, More(own, n))
    BY <1>5, <1>6, <1>7
  <2>2. Good(Unref(e, n), Less(More(own, n), n)) /\ Pruned(e, Unref(e, n))
    BY <1>8, <2>1, UnrefGood
  <2> QED  BY <1>2, <1>8, <2>2
<1>10. Keeps(node, g, {})
  BY <1>1, <1>9 DEF Taken, Pruned, Keeps
<1>11. reg' \in Seq(Iters)
  BY DEF IInv
<1> QED  BY <1>3, <1>4, <1>5, <1>6, <1>7, <1>9, <1>10, <1>11, CommitInv

LEMMA NodeTakeInv ==
  ASSUME IInv, NEW n \in Nodes, NodeTake(n)
  PROVE  IInv'
<1>1. /\ InTree(n) /\ held[n] < MaxHeld /\ Commit(Take([node |-> node, iter |-> iter], n), {})
      /\ held' = [held EXCEPT ![n] = @ + 1] /\ reg' = reg
  BY DEF NodeTake, Now
<1>2. iter \in [Iters -> IterRecs]
  BY DEF IInv
<1> QED  BY <1>1, <1>2, TakeInv

LEMMA NodeRemoveInv ==
  ASSUME IInv, NEW n \in Nodes, NodeRemove(n)
  PROVE  IInv'
<1>1. PICK st : st = Take([node |-> node, iter |-> iter], n)
  OBVIOUS
<1>2. /\ InTree(n) /\ Commit([st EXCEPT !.node = Unref(@, n)], {})
      /\ held' = held /\ reg' = reg
  BY <1>1 DEF NodeRemove, Now
<1>3. iter \in [Iters -> IterRecs]
  BY DEF IInv
<1> QED  BY <1>1, <1>2, <1>3, RemoveInv

\* A take or a remove uses up the permission of the iterator.
LEMMA FlagIs ==
  ASSUME IInv, NEW i \in Iters
  PROVE  /\ [iter EXCEPT ![i].flag = FALSE] \in [Iters -> IterRecs]
         /\ \A j \in Iters : /\ [iter EXCEPT ![i].flag = FALSE][j].dir = iter[j].dir
                             /\ [iter EXCEPT ![i].flag = FALSE][j].pos = iter[j].pos
                             /\ [iter EXCEPT ![i].flag = FALSE][j].due = iter[j].due /\ [iter EXCEPT ![i].flag = FALSE][j].lost = iter[j].lost
         /\ Unflagged(i) = [node |-> node, iter |-> [iter EXCEPT ![i].flag = FALSE]]
<1>1. PICK e \in [Iters -> IterRecs] : e = iter
  BY DEF IInv
<1>2. PICK r \in IterRecs : r = e[i]
  OBVIOUS
<1>3. PICK q : q = [r EXCEPT !.flag = FALSE]
  OBVIOUS
<1>4. q \in IterRecs /\ q.dir = r.dir /\ q.pos = r.pos /\ q.due = r.due /\ q.lost = r.lost
  BY <1>3 DEF IterRecs
<1>5. PICK f : f = [e EXCEPT ![i] = q]
  OBVIOUS
<1>6. f \in [Iters -> IterRecs] /\ \A j \in Iters : f[j] = IF j = i THEN q ELSE e[j]
  BY <1>4, <1>5
<1>7. [iter EXCEPT ![i].flag = FALSE] = f
  BY <1>1, <1>2, <1>3, <1>5
<1>8. \A j \in Iters : f[j].dir = e[j].dir /\ f[j].pos = e[j].pos /\ f[j].due = e[j].due /\ f[j].lost = e[j].lost
  BY <1>2, <1>4, <1>6
<1>9. Unflagged(i) = [node |-> node, iter |-> [iter EXCEPT ![i].flag = FALSE]]
  <2>1. PICK h : h = node
    OBVIOUS
  <2>2. PICK st : st = [node |-> h, iter |-> e]
    OBVIOUS
  <2>3. [st EXCEPT !.iter[i].flag = FALSE] = [node |-> h, iter |-> [e EXCEPT ![i].flag = FALSE]]
    <3>1. st.iter = e /\ st.node = h
      BY <2>2
    <3>2. PICK x : x = [e EXCEPT ![i].flag = FALSE]
      OBVIOUS
    <3>3. [st EXCEPT !.iter[i].flag = FALSE] = [st EXCEPT !.iter = x]
      BY <3>1, <3>2
    <3>4. [st EXCEPT !.iter = x] = [node |-> h, iter |-> x]
      BY <2>2
    <3> QED  BY <3>2, <3>3, <3>4
  <2> QED  BY <1>1, <2>1, <2>2, <2>3 DEF Unflagged, Now
<1> QED  BY <1>1, <1>6, <1>7, <1>8, <1>9

LEMMA IterTakeInv ==
  ASSUME IInv, NEW i \in Iters, IterTake(i)
  PROVE  IInv'
<1>1. PICK f \in [Iters -> IterRecs] : f = [iter EXCEPT ![i].flag = FALSE]
  BY FlagIs
<1>2. /\ \A j \in Iters : /\ f[j].dir = iter[j].dir /\ f[j].pos = iter[j].pos
                          /\ f[j].due = iter[j].due /\ f[j].lost = iter[j].lost
      /\ Unflagged(i) = [node |-> node, iter |-> f]
  BY <1>1, FlagIs
<1>3. PICK n \in Nodes : n = iter[i].pos
  <2>1. iter[i].pos # NULL /\ iter[i] \in IterRecs
    BY DEF IterTake, IterMayTake, IInv
  <2> QED  BY <2>1 DEF IterRecs
<1>4. /\ InTree(n) /\ held[n] < MaxHeld /\ Commit(Take([node |-> node, iter |-> f], n), {})
      /\ held' = [held EXCEPT ![n] = @ + 1] /\ reg' = reg
  BY <1>2, <1>3 DEF IterTake
<1> QED  BY <1>2, <1>4, TakeInv

LEMMA IterRemoveInv ==
  ASSUME IInv, NEW i \in Iters, IterRemove(i)
  PROVE  IInv'
<1>1. PICK f \in [Iters -> IterRecs] : f = [iter EXCEPT ![i].flag = FALSE]
  BY FlagIs
<1>2. /\ \A j \in Iters : /\ f[j].dir = iter[j].dir /\ f[j].pos = iter[j].pos
                          /\ f[j].due = iter[j].due /\ f[j].lost = iter[j].lost
      /\ Unflagged(i) = [node |-> node, iter |-> f]
  BY <1>1, FlagIs
<1>3. PICK n \in Nodes : n = iter[i].pos
  <2>1. iter[i].pos # NULL /\ iter[i] \in IterRecs
    BY DEF IterRemove, IterMayTake, IInv
  <2> QED  BY <2>1 DEF IterRecs
<1>4. PICK st : st = Take([node |-> node, iter |-> f], n)
  OBVIOUS
<1>5. /\ InTree(n) /\ Commit([st EXCEPT !.node = Unref(@, n)], {})
      /\ held' = held /\ reg' = reg
  BY <1>2, <1>3, <1>4 DEF IterRemove
<1> QED  BY <1>2, <1>4, <1>5, RemoveInv

\* iso_dir_exists() tells whether there is a child of that name.
LEMMA ExistsIs ==
  ASSUME NEW h \in Memory, NEW d \in Nodes, NEW name \in Nat
  PROVE  /\ DirExists(h, d, name) =>
              \E k \in 1 .. Len(h[d].children) : h[h[d].children[k]].name = name
         /\ Sorted(h) /\ ~DirExists(h, d, name) =>
              \A k \in 1 .. Len(h[d].children) : h[h[d].children[k]].name # name
<1>1. PICK ch \in Seq(Nodes) : ch = h[d].children
  BY MemoryIs
<1>2. PICK len \in Nat : len = Len(ch)
  BY LenProperties
<1>3. \A j \in 1 .. len : ch[j] \in Nodes /\ h[ch[j]].name \in Nat
  BY <1>1, <1>2, MemoryIs
<1>4. PICK k \in 1 .. len + 1 : k = DirFind(h, d, name)
  BY <1>1, <1>2, FindIs
<1>5. \A j \in 1 .. k - 1 : h[ch[j]].name < name
  BY <1>1, <1>4, FindIs
<1>6. k =< len => ~(h[ch[k]].name < name)
  BY <1>1, <1>2, <1>4, FindIs
<1>7. DirExists(h, d, name) <=> k =< len /\ h[ch[k]].name = name
  BY <1>1, <1>2, <1>4 DEF DirExists
<1>8. ASSUME Sorted(h), ~DirExists(h, d, name), NEW j \in 1 .. len
      PROVE  h[ch[j]].name # name
  <2>1. CASE j < k
    <3>1. h[ch[j]].name < name
      BY <1>5, <2>1
    <3> QED  BY <1>3, <3>1
  <2>2. CASE j = k
    BY <1>7, <1>8, <2>2
  <2>3. CASE j > k
    <3>1. k \in 1 .. len /\ k =< len
      BY <2>3
    <3>2. h[ch[k]].name < h[ch[j]].name
      BY <1>1, <1>2, <1>8, <2>3, <3>1 DEF Sorted
    <3>3. PICK a, b \in Nat : a = h[ch[k]].name /\ b = h[ch[j]].name
      BY <1>3, <3>1
    <3> QED  BY <1>6, <3>1, <3>2, <3>3
  <2> QED  BY <2>1, <2>2, <2>3
<1> QED  BY <1>1, <1>2, <1>7, <1>8

NameFree(h, d, name) ==
  \A k \in 1 .. Len(h[d].children) : h[h[d].children[k]].name # name

LEMMA FreeIs ==
  ASSUME NEW h \in Memory, NEW d \in Nodes, NEW name \in Nat, Sorted(h)
  PROVE  ~DirExists(h, d, name) <=> NameFree(h, d, name)
BY ExistsIs DEF NameFree


\* A node comes back to its directory under a name which is not in use.

LEMMA BackGood ==
  ASSUME NEW h, NEW own, Good(h, own), NEW n \in Nodes \ {Root}, h[n].parent # NULL,
         NEW name \in Names, NEW d, d = h[n].parent, ~DirExists(h, d, name),
         NEW e, NEW o, Good(e, More(o, n)), o \in [Nodes -> Nat],
         e[n].name = name, e[n].parent = NULL, e[d].refcount > 0,
         \A m \in Nodes \ {n} : e[m].parent = h[m].parent /\ e[m].name = h[m].name
  PROVE  Good(Insert(e, d, n), o) /\ Below(e, Insert(e, d, n), d, n)
<1> USE RootIs
<1>1. h \in Memory /\ Linked(h) /\ Sorted(h) /\ Grounded(h)
  BY DEF Good
<1>2. e \in Memory /\ Linked(e) /\ Sorted(e)
  BY DEF Good
<1>3. d \in Nodes \ {n}
  BY <1>1, MemoryIs DEF Linked
<1>4. name \in Nat
  BY NodeAssumption
<1>a. NameFree(h, d, name)
  BY <1>1, <1>3, <1>4, FreeIs
<1>5. PICK B
 \in SUBSET Nodes : /\ n \in B /\ d \notin B
                                /\ \A x \in B : \A c \in Nodes : Holds(h, x, c) => c \in B
  BY <1>1, Descendants
<1>6. PICK A \in SUBSET Nodes : A = Nodes \ B
  OBVIOUS
<1>7. ASSUME NEW m \in A PROVE e[m].parent \in A \cup {NULL}
  <2>1. m \in Nodes \ {n} /\ m \notin B /\ e[m].parent = h[m].parent
    BY <1>5, <1>6, <1>7
  <2>2. h[m].parent \in Nodes \cup {NULL}
    BY <1>1, <2>1, MemoryIs
  <2>3. CASE m = Root
    BY <1>1, <1>6, <1>7, <2>1, <2>3 DEF Linked
  <2>4. CASE m # Root
    <3>1. h[m].parent # NULL => Holds(h, h[m].parent, m)
      BY <1>1, <2>1, <2>4 DEF Linked
    <3> QED  BY <1>5, <1>6, <2>1, <2>2, <3>1
  <2> QED  BY <2>3, <2>4
<1>8. ~DirExists(e, d, name)
  <2>1. ASSUME NEW k \in 1 .. Len(e[d].children)
        PROVE  e[e[d].children[k]].name # name
    <3>1. PICK c \in Nodes : c = e[d].children[k]
      BY <1>2, <1>3, MemoryIs
    <3>2. c # Root /\ e[c].parent = d
      BY <1>2, <1>3, <3>1 DEF Linked
    <3>3. c # n /\ h[c].parent = d /\ e[c].name = h[c].name
      BY <1>3, <3>2
    <3>4. Holds(h, d, c)
      BY <1>1, <1>3, <3>2, <3>3 DEF Linked
    <3>5. h[c].name # name
      BY <1>a, <3>4 DEF Holds, NameFree

    <3> QED  BY <3>1, <3>3, <3>5
  <2>2. NameFree(e, d, name)
    BY <2>1 DEF NameFree
  <2> QED  BY <1>2, <1>3, <1>4, <2>2, FreeIs


<1>9. PICK v \in Nat : v = o[n]
  OBVIOUS
<1>10. More(o, n)[n] > 0 /\ Less(More(o, n), n) = o
  <2>1. More(o, n)[n] = v + 1
    BY <1>9 DEF More
  <2> QED  BY <2>1, MoreLess
<1>11. d \in A /\ n \notin A
  BY <1>3, <1>5, <1>6
<1>12. Good(Insert(e, d, n), Less(More(o, n), n)) /\ Below(e, Insert(e, d, n), d, n)
  BY <1>3, <1>7, <1>8, <1>10, <1>11, InsertGood
<1> QED  BY <1>10, <1>12

\* With another name, but in the same place
LEMMA MovedBackSame ==
  ASSUME NEW h, NEW h1, NEW n \in Nodes, h[n].parent \in Nodes,
         \A m \in Nodes : h1[m].parent = h[m].parent /\ h1[m].children = h[m].children,
         NEW r, NEW r2, MovedBack(h1, n, r, r2)
  PROVE  MovedBack(h, n, r, r2)
<1>1. h1[n].parent = h[n].parent
  OBVIOUS
<1>2. r.dir = h[n].parent => h1[r.dir].children = h[r.dir].children
  OBVIOUS
<1> QED  BY <1>1, <1>2 DEF MovedBack

\* The node comes back under its new name.
NameSet(n, st, g, f2) ==
  /\ [st EXCEPT !.node = Insert(@, node[n].parent, n)] = [node |-> g, iter |-> f2]
  /\ Good(g, Own(held, f2)) /\ f2 \in [Iters -> IterRecs]
  /\ \A j \in Iters : Moved(node, iter[j], f2[j])
  /\ \A m \in Nodes : g[m].parent = node[m].parent
  /\ Keeps(node, g, {n}) /\ Behind(node, iter, f2, n)

LEMMA SetNameIs ==
  ASSUME IInv, NEW n \in Nodes \ {Root}, NEW name \in Names, node[n].parent # NULL,
         ~DirExists(node, node[n].parent, name),
         NEW st, st = Take([Now EXCEPT !.node[n].name = name], n)
  PROVE  \E g, f2 : NameSet(n, st, g, f2)
<1> USE RootIs
<1>1. PICK h, f : h = node /\ f = iter
  OBVIOUS
<1>2. PICK hd \in [Nodes -> Nat] : hd = held
  BY InvIs
<1>3. /\ Good(h, Own(hd, f)) /\ h \in Memory /\ Linked(h) /\ DeadAlone(h)
      /\ f \in [Iters -> IterRecs] /\ reg \in Seq(Iters)
  BY <1>1, <1>2, InvIs DEF IInv, Good
<1>4. PICK d \in Nodes : d = h[n].parent
  BY <1>1, <1>3, MemoryIs
<1>5. HasParent(h, n) /\ h[d].refcount > 0
  <2>1. d # n /\ Holds(h, d, n)
    BY <1>1, <1>3, <1>4 DEF Linked
  <2>2. h[d].children # <<>>
    <3>1. Len(<<>>) = 0
      BY EmptySeq
    <3> QED  BY <2>1, <3>1 DEF Holds
  <2> QED  BY <1>3, <1>4, <2>1, <2>2 DEF HasParent, DeadAlone
<1>6. PICK h1 : h1 = Renamed(h, n, name)
  OBVIOUS
<1>7. GoodBut(h1, Own(hd, f), n)
  BY <1>3, <1>6, RenameGood
<1>8. \A m \in Nodes :
        /\ h1[m].refcount = h[m].refcount /\ h1[m].name = IF m = n THEN name ELSE h[m].name
        /\ h1[m].parent = h[m].parent /\ h1[m].children = h[m].children
  BY <1>3, <1>6, RenameGood
<1>9. HasParent(h1, n)
  BY <1>5, <1>8 DEF HasParent
<1>10. [Now EXCEPT !.node[n].name = name] = [node |-> h1, iter |-> f]
  <2>1. PICK s : s = [node |-> h, iter |-> f]
    OBVIOUS
  <2>2. s.node = h /\ s.iter = f
    BY <2>1
  <2>3. [s EXCEPT !.node[n].name = name] = [s EXCEPT !.node = h1]
    BY <1>6, <2>2 DEF Renamed
  <2>4. [s EXCEPT !.node = h1] = [node |-> h1, iter |-> f]
    BY <2>1
  <2> QED  BY <1>1, <2>1, <2>3, <2>4 DEF Now
<1>11. Outcome(hd, h1, f, n, st)
  BY <1>3, <1>7, <1>9, <1>10, TakeGood
<1>12. PICK e, f2 : e = st.node /\ f2 = st.iter
  OBVIOUS
<1>13. /\ st = [node |-> e, iter |-> f2] /\ Good(e, More(Own(hd, f2), n))
       /\ f2 \in [Iters -> IterRecs] /\ \A j \in Iters : MovedBack(h1, n, f[j], f2[j])
  BY <1>11, <1>12 DEF Outcome
<1>14. /\ \A m \in Nodes : e[m].name = h1[m].name
       /\ \A m \in Nodes \ {n} : e[m].parent = h1[m].parent
       /\ e[n].parent = NULL
       /\ \A m \in Nodes : h1[m].refcount > 0 => e[m].refcount > 0
  <2>1. \A m \in Nodes : e[m].name = h1[m].name
    BY <1>11, <1>12 DEF Outcome
  <2>2. \A m \in Nodes : e[m].parent = IF m = n THEN NULL ELSE h1[m].parent
    BY <1>11, <1>12 DEF Outcome
  <2>3. \A m \in Nodes : h1[m].refcount > 0 => e[m].refcount > 0
    BY <1>11, <1>12 DEF Outcome
  <2> QED  BY <2>1, <2>2, <2>3
<1>15. ASSUME NEW j \in Iters PROVE Moved(h, f[j], f2[j])
  <2>1. \A m \in Nodes : h1[m].parent = h[m].parent /\ h1[m].children = h[m].children
    BY <1>8
  <2>2. MovedBack(h, n, f[j], f2[j])
    BY <1>4, <1>13, <2>1, MovedBackSame
  <2> QED  BY <1>3, <1>5, <2>2, MovedBackIs
<1>16. PICK o \in [Nodes -> Nat] : o = Own(hd, f2)
  BY OwnIs
<1>17. /\ e[n].name = name /\ e[n].parent = NULL /\ e[d].refcount > 0
       /\ \A m \in Nodes \ {n} : e[m].parent = h[m].parent /\ e[m].name = h[m].name
  <2>1. h1[d].refcount = h[d].refcount /\ h1[n].name = name
    BY <1>4, <1>8
  <2>2. \A m \in Nodes \ {n} : h1[m].parent = h[m].parent /\ h1[m].name = h[m].name
    BY <1>8
  <2> QED  BY <1>4, <1>5, <1>14, <2>1, <2>2
<1>18. PICK g : g = Insert(e, d, n)
  OBVIOUS
<1>19. Good(g, o) /\ Below(e, g, d, n)
  <2>1. h[n].parent # NULL /\ ~DirExists(h, d, name) /\ Good(e, More(o, n))
    BY <1>1, <1>4, <1>13, <1>16
  <2> QED  BY <1>3, <1>4, <1>16, <1>17, <1>18, <2>1, BackGood
<1>20. [st EXCEPT !.node = Insert(@, node[n].parent, n)] = [node |-> g, iter |-> f2]
  <2>1. st = [node |-> e, iter |-> f2]
    BY <1>13
  <2>2. [st EXCEPT !.node = g] = [node |-> g, iter |-> f2]
    BY <2>1
  <2> QED  BY <1>1, <1>4, <1>12, <1>18, <2>2
<1>21. ASSUME NEW m \in Nodes PROVE g[m].parent = h[m].parent /\ g[m].name = e[m].name
  BY <1>4, <1>17, <1>19 DEF Below
<1>22. Keeps(h, g, {n})
  BY <1>17, <1>21 DEF Keeps
<1>23. Behind(h, f, f2, n)
  <2>1. Behind(h1, f, f2, n)
    BY <1>11, <1>12 DEF Outcome
  <2>2. h1[n].parent = h[n].parent
    BY <1>8
  <2> QED  BY <2>1, <2>2 DEF Behind, At
<1>24. /\ Good(g, Own(held, f2)) /\ \A j \in Iters : Moved(node, iter[j], f2[j])
       /\ \A m \in Nodes : g[m].parent = node[m].parent
       /\ Keeps(node, g, {n}) /\ Behind(node, iter, f2, n)
  BY <1>1, <1>2, <1>15, <1>16, <1>19, <1>21, <1>22, <1>23
<1>25. NameSet(n, st, g, f2)
  BY <1>13, <1>20, <1>24 DEF NameSet
<1> QED  BY <1>25

LEMMA SetNameInv ==
  ASSUME IInv, NEW n \in Nodes \ {Root}, NEW name \in Names, node[n].parent # NULL,
         ~DirExists(node, node[n].parent, name),
         NEW st, st = Take([Now EXCEPT !.node[n].name = name], n),
         Commit([st EXCEPT !.node = Insert(@, node[n].parent, n)], {n}),
         held' = held, reg' = reg
  PROVE  IInv'
<1>1. PICK g, f2 : NameSet(n, st, g, f2)
  BY SetNameIs
<1>2. PICK st2 : st2 = [node |-> g, iter |-> f2]
  OBVIOUS
<1>3. Commit(st2, {n})
  BY <1>1, <1>2 DEF NameSet
<1>4. PICK hd \in [Nodes -> 0 .. MaxHeld] : hd = held
  BY DEF IInv
<1>5. /\ Good(g, Own(hd, f2)) /\ f2 \in [Iters -> IterRecs] /\ Keeps(node, g, {n})
      /\ \A j \in Iters : Moved(node, iter[j], f2[j])
  BY <1>1, <1>4 DEF NameSet
<1>6. held' = hd /\ reg' \in Seq(Iters)
  BY <1>4 DEF IInv
<1> QED  BY <1>2, <1>3, <1>5, <1>6, CommitInv

LEMMA NodeSetNameInv ==
  ASSUME IInv, NEW n \in Nodes, NEW name \in Names, NodeSetName(n, name)
  PROVE  IInv'
<1>1. n # Root /\ held' = held /\ reg' = reg
  BY DEF NodeSetName
<1>2. CASE node[n].parent = NULL
  <2>1. PICK h, own : h = node /\ own = Own(held, iter) /\ Good(h, own)
    BY InvIs
  <2>2. PICK g : g = Renamed(h, n, name)
    OBVIOUS
  <2>3. CommitNodes(g)
    BY <1>2, <2>1, <2>2 DEF NodeSetName, Renamed
  <2>4. GoodBut(g, own, n)
    BY <2>1, <2>2, RenameGood
  <2>5. \A m \in Nodes : /\ g[m].name = IF m = n THEN name ELSE h[m].name
                         /\ g[m].parent = h[m].parent
    BY <2>1, <2>2, RenameGood
  <2>6. g[n].parent = NULL
    BY <1>2, <2>1, <2>5
  <2>7. Good(g, own)
    BY <2>4, <2>6, Unlisted
  <2>8. Keeps(node, g, {})
    BY <1>2, <2>1, <2>5 DEF Keeps
  <2>9. PICK hd \in [Nodes -> 0 .. MaxHeld] : hd = held
    BY DEF IInv
  <2>10. Good(g, Own(hd, iter)) /\ held' = hd
    BY <1>1, <2>1, <2>7, <2>9
  <2> QED  BY <1>1, <2>3, <2>8, <2>10, CallInv
<1>3. CASE node[n].parent # NULL
  <2>1. PICK st : st = Take([Now EXCEPT !.node[n].name = name], n)
    OBVIOUS
  <2>2. /\ ~DirExists(node, node[n].parent, name)
        /\ Commit([st EXCEPT !.node = Insert(@, node[n].parent, n)], {n})
    BY <1>3, <2>1 DEF NodeSetName
  <2>3. n \in Nodes \ {Root}
    BY <1>1
  <2> QED  BY <1>1, <1>3, <2>1, <2>2, <2>3, SetNameInv
<1> QED  BY <1>2, <1>3

LEMMA IterSame ==
  ASSUME NEW r, NEW q, q.dir = r.dir, q.pos = r.pos, q.due = r.due /\ q.lost = r.lost
  PROVE  /\ Idle(r) => Idle(q)
         /\ \A h : Walk(h, r) => Walk(h, q)
BY DEF Idle, Walk

\* iso_dir_iter_next() at the end of the list, and the calls which fail
LEMMA FlagInv ==
  ASSUME IInv, NEW i \in Iters, iter' = [iter EXCEPT ![i].flag = FALSE],
         UNCHANGED <<node, held, reg>>
  PROVE  IInv'
<1>1. PICK e \in [Iters -> IterRecs] : e = iter
  BY DEF IInv
<1>2. PICK f \in [Iters -> IterRecs] : f = [iter EXCEPT ![i].flag = FALSE]
  BY FlagIs
<1>3. \A j \in Iters : f[j].dir = e[j].dir /\ f[j].pos = e[j].pos /\ f[j].due = e[j].due /\ f[j].lost = e[j].lost
  BY <1>1, <1>2, FlagIs
<1>4. Own(held, f) = Own(held, e)
  BY <1>3, OwnSame
<1>5. ASSUME NEW j \in Iters PROVE Idle(f[j]) /\ Walk(node, f[j])
  <2>1. Idle(e[j]) /\ Walk(node, e[j])
    BY <1>1 DEF IInv
  <2> QED  BY <1>3, <2>1, IterSame
<1>6. Good(node, Own(held, e)) /\ held \in [Nodes -> 0 .. MaxHeld] /\ reg \in Seq(Iters)
  BY <1>1 DEF IInv
<1> QED  BY <1>2, <1>4, <1>5, <1>6 DEF IInv

LEMMA IterTakeFailsInv ==
  ASSUME IInv, NEW i \in Iters, IterTakeFails(i)
  PROVE  IInv'
BY FlagInv DEF IterTakeFails

\* A new iterator has all children to return.
LEMMA GetChildrenInv ==
  ASSUME IInv, NEW i \in Iters, NEW d \in Nodes, GetChildren(i, d)
  PROVE  IInv'
<1> USE RootIs
<1>1. PICK h, f : h = node /\ f = iter
  OBVIOUS
<1>2. PICK hd \in [Nodes -> 0 .. MaxHeld] : hd = held
  BY DEF IInv
<1>3. /\ hd \in [Nodes -> Nat] /\ Good(h, Own(hd, f)) /\ h \in Memory /\ Linked(h)
      /\ f \in [Iters -> IterRecs] /\ \A j \in Iters : Idle(f[j]) /\ Walk(h, f[j])
  BY <1>1, <1>2, InvIs DEF IInv, Good
<1>4. f[i].dir = NULL /\ f[i].pos = NULL /\ h[d].refcount > 0
  <2>1. f[i].dir = NULL /\ h[d].refcount > 0
    BY <1>1, InvIs DEF GetChildren, Open
  <2> QED  BY <1>3, <2>1 DEF Idle
<1>5. PICK ch \in Seq(Nodes) : ch = h[d].children
  BY <1>3, MemoryIs
<1>6. PICK D : D = ToSet(ch)
  OBVIOUS
<1>7. D \subseteq Nodes \ {Root} /\ \A m \in D : h[m].parent = d
  <2>1. \A k \in 1 .. Len(ch) : ch[k] \in Nodes \ {Root} /\ h[ch[k]].parent = d
    BY <1>3, <1>5, MemoryIs DEF Linked
  <2>2. DOMAIN ch = 1 .. Len(ch)
    BY LenProperties
  <2> QED  BY <1>6, <2>1, <2>2 DEF ToSet
<1>8. PICK q1, q : q1 = [NoIter EXCEPT !.dir = d] /\ q = [q1 EXCEPT !.due = D]
  OBVIOUS
<1>9. q \in IterRecs /\ q.dir = d /\ q.pos = NULL /\ q.due = D
  <2>1. PICK q0 \in IterRecs : q0 = NoIter /\ q0.pos = NULL
    BY NoIterIs
  <2>2. q1 \in IterRecs /\ q1.dir = d /\ q1.pos = NULL
    BY <1>8, <2>1 DEF IterRecs
  <2> QED  BY <1>7, <1>8, <2>2 DEF IterRecs
<1>10. PICK f2 : f2 = [f EXCEPT ![i] = q]
  OBVIOUS
<1>11. f2 \in [Iters -> IterRecs] /\ \A j \in Iters : f2[j] = IF j = i THEN q ELSE f[j]
  BY <1>3, <1>9, <1>10
<1>12. PICK g : g = Ref(h, d)
  OBVIOUS
<1>13. node' = g /\ iter' = f2 /\ held' = hd /\ reg' = <<i>> \o reg
  BY <1>1, <1>2, <1>5, <1>6, <1>8, <1>10, <1>12 DEF GetChildren
<1>14. Good(g, More(Own(hd, f), d)) /\ SameTree(h, g)
  <2>1. GoodBut(h, Own(hd, f), d) /\ Sorted(h)
    BY <1>3, GoodIsGoodBut DEF Good
  <2> QED  BY <1>4, <1>12, <2>1, RefGood
<1>15. Own(hd, f2) = More(Own(hd, f), d)
  <2>1. DirGained(f, f2, i, d)
    BY <1>4, <1>9, <1>11 DEF DirSet, DirGained
  <2> QED  BY <1>3, <2>1, Gained

<1>16. ASSUME NEW j \in Iters PROVE Idle(f2[j]) /\ Walk(g, f2[j])
  <2>1. CASE j = i
    <3>1. f2[j] = q
      BY <1>11, <2>1
    <3>2. Idle(q)
      BY <1>9 DEF Idle
    <3>3. \A m \in D : g[m].parent = d
      BY <1>7, <1>14 DEF SameTree
    <3>4. Walk(g, q)
      BY <1>9, <3>3 DEF Walk
    <3> QED  BY <3>1, <3>2, <3>4
  <2>2. CASE j # i
    <3>1. f2[j] = f[j] /\ Idle(f[j]) /\ Walk(h, f[j]) /\ f[j] \in IterRecs
      BY <1>3, <1>11, <2>2
    <3>2. Steady(h, g)
      BY <1>14 DEF SameTree, Steady
    <3> QED  BY <3>1, <3>2, WalkSame
  <2> QED  BY <2>1, <2>2
<1>17. reg' \in Seq(Iters)
  <2>1. reg \in Seq(Iters) /\ <<i>> \in Seq(Iters)
    BY DEF IInv
  <2> QED  BY <1>13, <2>1
<1> QED  BY <1>11, <1>13, <1>14, <1>15, <1>16, <1>17 DEF IInv

\* The rest of a list has the bigger names.
LEMMA RestIs ==
  ASSUME NEW h \in Memory, Linked(h), Sorted(h), NEW d \in Nodes,
         NEW r \in IterRecs, r.dir = d, Walk(h, r),
         NEW ch, ch = h[d].children, NEW k, k = Place(ch, r.pos), k < Len(ch),
         r.pos = NULL \/ h[r.pos].parent = d
  PROVE  /\ ch[k + 1] \in Nodes \ {Root} /\ h[ch[k + 1]].parent = d
         /\ ~r.lost => \A m \in r.due \ {ch[k + 1]} : h[m].parent = d /\ h[ch[k + 1]].name < h[m].name
<1> USE RootIs
<1>1. ch \in Seq(Nodes)
  BY MemoryIs
<1>2. PICK len \in Nat : len = Len(ch)
  BY <1>1, LenProperties
<1>3. /\ k \in 0 .. len /\ (k = 0 => \A j \in 1 .. len : ch[j] # r.pos)
      /\ (k # 0 => ch[k] = r.pos)
  BY <1>1, <1>2, PlaceIs
<1>4. PICK l : l = k + 1
  OBVIOUS
<1>5. l \in 1 .. len
  BY <1>2, <1>3, <1>4
<1>6. \A j \in 1 .. len : ch[j] \in Nodes \ {Root} /\ h[ch[j]].parent = d
  BY <1>2, MemoryIs DEF Linked
<1>7. \A j \in 1 .. len : h[ch[j]].name \in Nat
  BY <1>6, MemoryIs
<1>8. \A j1, j2 \in 1 .. len : j1 < j2 => h[ch[j1]].name < h[ch[j2]].name
  BY <1>2 DEF Sorted
<1>9. ASSUME ~r.lost, NEW m \in r.due \ {ch[l]}
      PROVE  h[m].parent = d /\ h[ch[l]].name < h[m].name
  <2>1. h[m].parent = d /\ (r.pos # NULL => h[r.pos].name < h[m].name)
    BY <1>9 DEF Walk
  <2>2. m \in Nodes \ {Root}
    BY <1>9 DEF IterRecs
  <2>3. PICK j \in 1 .. len : ch[j] = m
    BY <1>2, <2>1, <2>2 DEF Linked, Holds
  <2>4. j # l
    BY <1>9, <2>3
  <2>5. j > k
    <3>1. CASE k = 0
      BY <2>3, <3>1
    <3>2. CASE k # 0
      <4>1. k \in 1 .. len /\ ch[k] = r.pos
        BY <1>3, <3>2
      <4>2. r.pos # NULL
        BY <1>6, <4>1
      <4>3. h[ch[k]].name < h[ch[j]].name
        BY <2>1, <2>3, <4>1, <4>2
      <4>4. PICK a, b \in Nat : a = h[ch[k]].name /\ b = h[ch[j]].name
        BY <1>7, <4>1
      <4>a. a < b
        BY <4>3, <4>4
      <4>b. j < k => b < a
        BY <1>8, <4>1, <4>4
      <4>c. j = k => a = b
        BY <4>4
      <4>5. ~(j < k) /\ j # k
        BY <4>4, <4>a, <4>b, <4>c
      <4> QED  BY <4>1, <4>5
    <3> QED  BY <3>1, <3>2
  <2>6. l < j
    BY <1>3, <1>4, <1>5, <2>4, <2>5
  <2>7. h[ch[l]].name < h[ch[j]].name
    BY <1>5, <1>8, <2>6
  <2> QED  BY <2>1, <2>3, <2>7
<1> QED  BY <1>4, <1>5, <1>6, <1>9

LEMMA IterTakes ==
  ASSUME NEW hd \in [Nodes -> Nat], NEW f \in [Iters -> IterRecs], NEW i \in Iters, NEW h,
         Good(h, Own(hd, f)), NEW r, r = f[i], NEW next \in Nodes \ {Root}, h[next].parent # NULL,
         r.pos = NULL \/ h[r.pos].parent # NULL,
         NEW f2, PosSet(f, f2, i, next), NEW h1,
         h1 = IF r.pos = NULL THEN h ELSE Unref(h, r.pos)
  PROVE  Good(Ref(h1, next), Own(hd, f2)) /\ SameTree(h, Ref(h1, next))
<1> USE RootIs
<1>1. h \in Memory /\ Linked(h) /\ Owned(h, Own(hd, f)) /\ Sorted(h)
  BY DEF Good
<1>2. ASSUME NEW m \in Nodes \ {Root}, h[m].parent # NULL PROVE HasParent(h, m)
  BY <1>1, <1>2 DEF Linked, HasParent
<1>3. PICK own \in [Nodes -> Nat] : own = Own(hd, f)
  BY OwnIs
<1>4. PICK f1 \in [Iters -> IterRecs] : PosSet(f, f1, i, NULL)
  <2>1. [f EXCEPT ![i].pos = NULL] \in [Iters -> IterRecs]
    BY PosIs
  <2>2. PosSet(f, [f EXCEPT ![i].pos = NULL], i, NULL)
    BY PosIs DEF PosSet
  <2> QED  BY <2>1, <2>2
<1>5. PosGained(f1, f2, i, next)
  BY <1>4 DEF PosSet, PosGained
<1>6. Own(hd, f2) = More(Own(hd, f1), next)
  BY <1>5, Gained

<1>7. h[next].refcount > 0
  <2>1. PICK w \in Nat : w = own[next]
    BY <1>3
  <2>2. h[next].refcount = w + Count(HasParent(h, next))
    BY <1>1, <1>3, <2>1 DEF Owned
  <2>3. Count(HasParent(h, next)) = 1
    BY <1>2 DEF Count
  <2> QED  BY <2>1, <2>2, <2>3
<1>8. Good(h1, Own(hd, f1)) /\ SameTree(h, h1) /\ h1[next].refcount > 0
  <2>1. CASE r.pos = NULL
    <3>1. Own(hd, f1) = Own(hd, f)
      BY <1>4, <2>1, OwnSame DEF PosSet
    <3> QED  BY <1>7, <2>1, <3>1 DEF SameTree
  <2>2. CASE r.pos # NULL
    <3>1. PICK p \in Nodes \ {Root} : p = r.pos
      BY <2>2 DEF IterRecs
    <3>2. Own(hd, f1) = Less(own, p) /\ own[p] > 0
      BY <1>3, <1>4, <3>1, PosLeft
    <3>3. HasParent(h, p)
      BY <1>2, <2>2, <3>1
    <3>4. h[p].refcount > 1
      <4>1. PICK w \in Nat : w = own[p]
        BY <1>3
      <4>2. h[p].refcount = w + Count(HasParent(h, p))
        BY <1>1, <1>3, <4>1 DEF Owned
      <4>3. Count(HasParent(h, p)) = 1
        BY <3>3 DEF Count
      <4> QED  BY <3>2, <4>1, <4>2, <4>3
    <3>5. GoodBut(h, own, p)
      BY <1>3, GoodIsGoodBut
    <3>6. Good(Unref(h, p), Less(own, p)) /\ SameTree(h, Unref(h, p))
      BY <1>1, <3>2, <3>4, <3>5, UnrefCounts
    <3>7. \A m \in Nodes : h[m].refcount > 0 => Unref(h, p)[m].refcount > 0
      BY <3>2, <3>4, <3>5, UnrefCounts
    <3> QED  BY <1>7, <2>2, <3>1, <3>2, <3>6, <3>7
  <2> QED  BY <2>1, <2>2
<1>9. GoodBut(h1, Own(hd, f1), next) /\ Sorted(h1)
  BY <1>8, GoodIsGoodBut DEF Good
<1>10. Good(Ref(h1, next), More(Own(hd, f1), next)) /\ SameTree(h1, Ref(h1, next))
  BY <1>8, <1>9, RefGood
<1> QED  BY <1>6, <1>8, <1>10 DEF SameTree

LEMMA IterNextInv ==
  ASSUME IInv, NEW i \in Iters, IterNext(i)
  PROVE  IInv'
<1> USE RootIs
<1>1. PICK next : next = IF Stranded(Now, i) THEN NULL ELSE Successor(i)
  OBVIOUS
<1>2. CASE next = NULL
  <2>1. iter' = [iter EXCEPT ![i].flag = FALSE] /\ UNCHANGED <<node, held, reg>>
    BY <1>1, <1>2 DEF IterNext
  <2> QED  BY <2>1, FlagInv
<1>3. CASE next # NULL
  <2>1. PICK h, f : h = node /\ f = iter
    OBVIOUS
  <2>2. PICK hd \in [Nodes -> 0 .. MaxHeld] : hd = held
    BY DEF IInv
  <2>3. /\ hd \in [Nodes -> Nat] /\ Good(h, Own(hd, f)) /\ h \in Memory /\ Linked(h) /\ Sorted(h)
        /\ f \in [Iters -> IterRecs] /\ \A j \in Iters : Idle(f[j]) /\ Walk(h, f[j])
    BY <2>1, <2>2, InvIs DEF IInv, Good
  <2>4. PICK r \in IterRecs : r = f[i]
    BY <2>3
  <2>5. PICK d \in Nodes : d = r.dir
    BY <2>1, <2>4 DEF IterNext, Open, IterRecs
  <2>6. PICK ch, k : ch = h[d].children /\ k = Place(ch, r.pos)
    OBVIOUS
  <2>7. next = Successor(i) /\ (r.pos = NULL \/ h[r.pos].parent = d)
    BY <1>1, <1>3, <2>1, <2>4, <2>5 DEF Stranded, Now
  <2>8. k < Len(ch) /\ next = ch[k + 1]
    <3>1. Successor(i) = IF k < Len(ch) THEN ch[k + 1] ELSE NULL
      BY <2>1, <2>4, <2>5, <2>6 DEF Successor, Place
    <3> QED  BY <1>3, <2>7, <3>1
  <2>9. /\ next \in Nodes \ {Root} /\ h[next].parent = d
        /\ ~r.lost => \A m \in r.due \ {next} : h[m].parent = d /\ h[next].name < h[m].name
    <3>1. /\ h \in Memory /\ Linked(h) /\ Sorted(h) /\ d \in Nodes /\ r \in IterRecs
          /\ r.dir = d /\ Walk(h, r) /\ ch = h[d].children /\ k = Place(ch, r.pos)
          /\ k < Len(ch) /\ (r.pos = NULL \/ h[r.pos].parent = d)
      BY <2>3, <2>4, <2>5, <2>6, <2>7, <2>8
    <3>2. ch[k + 1] \in Nodes \ {Root} /\ h[ch[k + 1]].parent = d
      BY <3>1, RestIs
    <3>3. ~r.lost => \A m \in r.due \ {ch[k + 1]} : h[m].parent = d /\ h[ch[k + 1]].name < h[m].name
      BY <3>1, RestIs
    <3> QED  BY <2>8, <3>2, <3>3
  <2>10. PICK q1, q2, q : /\ q1 = [r EXCEPT !.flag = TRUE] /\ q2 = [q1 EXCEPT !.pos = next]
                          /\ q = [q2 EXCEPT !.due = r.due \ {next}]
    OBVIOUS
  <2>11. q \in IterRecs /\ q.dir = d /\ q.pos = next /\ q.due = r.due \ {next} /\ q.lost = r.lost
    <3>1. q1 \in IterRecs /\ q1.dir = d /\ q1.due = r.due /\ q1.lost = r.lost
      BY <2>5, <2>10 DEF IterRecs
    <3>2. q2 \in IterRecs /\ q2.dir = d /\ q2.due = r.due /\ q2.lost = r.lost /\ q2.pos = next
      BY <2>9, <2>10, <3>1 DEF IterRecs
    <3> QED  BY <2>10, <3>2 DEF IterRecs
  <2>12. PICK f2 : f2 = [f EXCEPT ![i] = q]
    OBVIOUS
  <2>13. f2 \in [Iters -> IterRecs] /\ \A j \in Iters : f2[j] = IF j = i THEN q ELSE f[j]
    BY <2>3, <2>11, <2>12
  <2>14. PICK h1 : h1 = IF r.pos = NULL THEN h ELSE Unref(h, r.pos)
    OBVIOUS
  <2>15. PICK g : g = Ref(h1, next)
    OBVIOUS
  <2>16. node' = g /\ held' = hd /\ reg' = reg
    BY <1>1, <1>3, <2>1, <2>2, <2>4, <2>14, <2>15 DEF IterNext
  <2>17. iter' = f2
    <3>1. iter' = [iter EXCEPT ![i].flag = TRUE, ![i].pos = next, ![i].due = @ \ {next}]
      BY <1>1, <1>3 DEF IterNext
    <3>2. q1.due = r.due /\ q1.lost = r.lost /\ q2.due = r.due /\ q2.lost = r.lost
      BY <2>10 DEF IterRecs
    <3> QED  BY <2>1, <2>4, <2>10, <2>12, <3>1, <3>2
  <2>18. Good(g, Own(hd, f2)) /\ SameTree(h, g)
    <3>1. PosSet(f, f2, i, next)
      BY <2>4, <2>5, <2>11, <2>13 DEF PosSet
    <3>2. h[next].parent # NULL /\ (r.pos = NULL \/ h[r.pos].parent # NULL)
      BY <2>7, <2>9
    <3> QED  BY <2>3, <2>4, <2>9, <2>14, <2>15, <3>1, <3>2, IterTakes
  <2>19. ASSUME NEW j \in Iters PROVE Idle(f2[j]) /\ Walk(g, f2[j])
    <3>1. CASE j = i
      <4>1. f2[j] = q
        BY <2>13, <3>1
      <4>2. Idle(q)
        BY <2>11 DEF Idle
      <4>3. r.due \subseteq Nodes
        BY DEF IterRecs
      <4>4. ~r.lost => \A m \in r.due \ {next} : g[m].parent = d /\ g[next].name < g[m].name
        BY <2>9, <2>18, <4>3 DEF SameTree
      <4>5. g[next].parent = d
        BY <2>9, <2>18 DEF SameTree
      <4>6. Walk(g, q)
        BY <2>11, <4>4, <4>5 DEF Walk
      <4> QED  BY <4>1, <4>2, <4>6
    <3>2. CASE j # i
      <4>1. f2[j] = f[j] /\ Idle(f[j]) /\ Walk(h, f[j]) /\ f[j] \in IterRecs
        BY <2>3, <2>13, <3>2
      <4>2. Steady(h, g)
        BY <2>18 DEF SameTree, Steady
      <4> QED  BY <4>1, <4>2, WalkSame
    <3> QED  BY <3>1, <3>2
  <2>20. reg \in Seq(Iters)
    BY DEF IInv
  <2> QED  BY <2>13, <2>16, <2>17, <2>18, <2>19, <2>20 DEF IInv
<1> QED  BY <1>2, <1>3

\* The registry without an iterator.
LEMMA Unregistered ==
  ASSUME NEW s \in Seq(Iters), NEW i
  PROVE  RemoveFirst(s, i) \in Seq(Iters)
<1>1. PICK n \in Nat : n = Len(s)
  BY LenProperties
<1>2. CASE \E k \in 1 .. n : s[k] = i
  <2> DEFINE T == {k \in 1 .. n : s[k] = i}
  <2>1. T \subseteq Nat /\ T # {}
    BY <1>1, <1>2
  <2>2. PICK p : p = Min(T)
    OBVIOUS
  <2>3. p \in 1 .. n
    BY <2>1, <2>2, MinIs
  <2>4. RemoveFirst(s, i) = RemoveAt(s, Place(s, i))
    BY <1>1, <1>2 DEF RemoveFirst, Place
  <2>5. Place(s, i) = p
    BY <1>1, <2>1, <2>2 DEF Place, SelectInSeq
  <2>6. PICK a, b : a = SubSeq(s, 1, p - 1) /\ b = SubSeq(s, p + 1, n)
    OBVIOUS
  <2>7. \A k \in 1 .. n : s[k] \in Iters
    BY <1>1
  <2>8. a \in Seq(Iters)
    BY <1>1, <2>3, <2>6, <2>7, SubSeqProperties
  <2>9. b \in Seq(Iters)
    BY <1>1, <2>3, <2>6, <2>7, SubSeqProperties
  <2>10. RemoveAt(s, p) = a \o b
    BY <1>1, <2>6 DEF RemoveAt
  <2> QED  BY <2>4, <2>5, <2>8, <2>9, <2>10, ConcatProperties
<1>3. CASE ~\E k \in 1 .. n : s[k] = i
  BY <1>1, <1>3 DEF RemoveFirst
<1> QED  BY <1>2, <1>3

\* What is left of the tree when an iterator is gone; the others keep their
\* directories, and these their children.
Freed(i, g, f2) ==
  /\ f2 \in [Iters -> IterRecs] /\ \A j \in Iters : f2[j] = IF j = i THEN NoIter ELSE iter[j]
  /\ Commit([node |-> g, iter |-> f2], {}) /\ held' = held /\ reg' = RemoveFirst(reg, i)
  /\ Good(g, Own(held, f2)) /\ Keeps(node, g, {})
  /\ \A j \in Iters \ {i}, p \in Nodes \ {Root} :
       iter[j].dir \in Nodes /\ node[p].parent = iter[j].dir => g[p].parent = iter[j].dir

LEMMA IterFreeIs ==
  ASSUME IInv, NEW i \in Iters, IterFree(i)
  PROVE  \E g, f2 : Freed(i, g, f2)
<1> USE RootIs
<1>1. PICK h, f : h = node /\ f = iter
  OBVIOUS
<1>2. PICK hd \in [Nodes -> 0 .. MaxHeld] : hd = held
  BY DEF IInv
<1>3. /\ hd \in [Nodes -> Nat] /\ Good(h, Own(hd, f)) /\ h \in Memory
      /\ f \in [Iters -> IterRecs] /\ reg \in Seq(Iters)
  BY <1>1, <1>2, InvIs DEF IInv
<1>4. PICK r \in IterRecs : r = f[i]
  BY <1>3
<1>5. PICK d \in Nodes : d = r.dir
  BY <1>1, <1>4 DEF IterFree, Open, IterRecs
<1>6. PICK f1 \in [Iters -> IterRecs] : PosSet(f, f1, i, NULL)
  <2>1. [f EXCEPT ![i].pos = NULL] \in [Iters -> IterRecs]
    BY <1>3, PosIs
  <2>2. PosSet(f, [f EXCEPT ![i].pos = NULL], i, NULL)
    BY <1>3, PosIs DEF PosSet
  <2> QED  BY <2>1, <2>2
<1>7. PICK h1 : h1 = IF r.pos = NULL THEN h ELSE Unref(h, r.pos)
  OBVIOUS
<1>8. Good(h1, Own(hd, f1)) /\ Keeps(h, h1, {}) /\ \A m \in Nodes : h1[m].parent \in {NULL, h[m].parent}
  <2>1. CASE r.pos = NULL
    <3>1. Own(hd, f1) = Own(hd, f)
      BY <1>4, <1>6, <2>1, OwnSame DEF PosSet
    <3> QED  BY <1>3, <1>7, <2>1, <3>1 DEF Keeps
  <2>2. CASE r.pos # NULL
    <3>1. PICK p \in Nodes : p = r.pos
      BY <2>2 DEF IterRecs
    <3>2. Own(hd, f1) = Less(Own(hd, f), p) /\ Own(hd, f)[p] > 0
      BY <1>3, <1>4, <1>6, <3>1, PosLeft
    <3>3. Good(Unref(h, p), Less(Own(hd, f), p)) /\ Pruned(h, Unref(h, p))
      BY <1>3, <3>2, UnrefGood
    <3> QED  BY <1>7, <2>2, <3>1, <3>2, <3>3 DEF Pruned, Keeps
  <2> QED  BY <2>1, <2>2
<1>9. PICK f2 : f2 = [f EXCEPT ![i] = NoIter]
  OBVIOUS
<1>10. f2 \in [Iters -> IterRecs] /\ \A j \in Iters : f2[j] = IF j = i THEN NoIter ELSE f[j]
  BY <1>3, <1>9, NoIterIs
<1>11. DirSet(f1, f2, i, NULL) /\ f1[i].dir = d
  BY <1>4, <1>5, <1>6, <1>10, NoIterIs DEF DirSet, PosSet
<1>12. Own(hd, f2) = Less(Own(hd, f1), d) /\ Own(hd, f1)[d] > 0
  BY <1>3, <1>11, DirLeft
<1>13. PICK g : g = Unref(h1, d)
  OBVIOUS
<1>14. Good(g, Own(hd, f2)) /\ Pruned(h1, g)
  BY <1>8, <1>12, <1>13, UnrefGood
<1>15. Keeps(h, g, {})
  <2> SUFFICES ASSUME NEW m \in Nodes, h[m].parent # NULL, g[m].parent # NULL
               PROVE  g[m].name = h[m].name
    BY DEF Keeps
  <2>1. g[m].parent = h1[m].parent /\ g[m].name = h1[m].name
    BY <1>14 DEF Pruned
  <2> QED  BY <1>8, <2>1 DEF Keeps
<1>16. ASSUME NEW j \in Iters \ {i}, NEW p \in Nodes \ {Root}, NEW x \in Nodes,
              f[j].dir = x, h[p].parent = x
       PROVE  g[p].parent = x
  <2>1. f1[j].dir = x /\ f2[j].dir = x
    BY <1>6, <1>10, <1>16 DEF PosSet
  <2>2. h1[x].refcount > 0
    BY <1>3, <1>8, <2>1, DirOwned
  <2>3. g[x].refcount > 0
    BY <1>3, <1>14, <2>1, DirOwned
  <2>4. h1[p].parent = x
    <3>1. CASE r.pos = NULL
      BY <1>7, <1>16, <3>1
    <3>2. CASE r.pos # NULL
      <4>1. PICK q \in Nodes : q = r.pos
        BY <3>2 DEF IterRecs
      <4>2. Own(hd, f)[q] > 0
        BY <1>3, <1>4, <1>6, <4>1, PosLeft
      <4>3. h1 = Unref(h, q)
        BY <1>7, <3>2, <4>1
      <4> QED  BY <1>3, <1>16, <2>2, <4>2, <4>3, ChildrenStay
    <3> QED  BY <3>1, <3>2
  <2> QED  BY <1>8, <1>12, <1>13, <2>3, <2>4, ChildrenStay
<1>17. PICK st : st = [node |-> g, iter |-> f2]
  OBVIOUS
<1>18. Commit(st, {}) /\ held' = hd /\ reg' = RemoveFirst(reg, i)
  BY <1>1, <1>2, <1>4, <1>5, <1>7, <1>9, <1>13, <1>17 DEF IterFree
<1>19. Freed(i, g, f2)
  <2>1. Commit([node |-> g, iter |-> f2], {}) /\ held' = held
    BY <1>2, <1>17, <1>18
  <2>2. Good(g, Own(held, f2)) /\ Keeps(node, g, {})
    BY <1>1, <1>2, <1>14, <1>15
  <2>3. \A j \in Iters \ {i}, p \in Nodes \ {Root} :
          iter[j].dir \in Nodes /\ node[p].parent = iter[j].dir => g[p].parent = iter[j].dir
    BY <1>1, <1>16
  <2> QED  BY <1>1, <1>10, <1>18, <2>1, <2>2, <2>3 DEF Freed
<1> QED  BY <1>19

LEMMA IterFreeInv ==
  ASSUME IInv, NEW i \in Iters, IterFree(i)
  PROVE  IInv'
<1>1. PICK g, f2 : Freed(i, g, f2)
  BY IterFreeIs
<1>2. PICK st : st = [node |-> g, iter |-> f2]
  OBVIOUS
<1>3. PICK hd \in [Nodes -> 0 .. MaxHeld] : hd = held
  BY DEF IInv
<1>4. /\ f2 \in [Iters -> IterRecs] /\ Commit(st, {}) /\ held' = hd
      /\ Good(g, Own(hd, f2)) /\ Keeps(node, g, {})
  BY <1>1, <1>2, <1>3 DEF Freed
<1>5. reg' \in Seq(Iters)
  <2>1. reg \in Seq(Iters) /\ reg' = RemoveFirst(reg, i)
    BY <1>1 DEF Freed, IInv
  <2> QED  BY <2>1, Unregistered
<1>6. \A j \in Iters : Moved(node, iter[j], f2[j])
  BY <1>1 DEF Freed, Moved
<1> QED  BY <1>2, <1>4, <1>5, <1>6, CommitInv

LEMMA StutterInv ==
  ASSUME IInv, UNCHANGED vars
  PROVE  IInv'
BY DEF IInv, vars

\* Every call of the program leaves a good tree, with the references that its
\* owners hold, and the iterators before what they have to return.
LEMMA StepInv ==
  ASSUME IInv, [Next]_vars
  PROVE  IInv'
<1>1. ASSUME NEW n \in Nodes, NodeRef(n) PROVE IInv'
  BY <1>1, NodeRefInv
<1>2. ASSUME NEW n \in Nodes, NodeUnref(n) PROVE IInv'
  BY <1>2, NodeUnrefInv
<1>3. ASSUME NEW n \in Nodes, NodeTake(n) PROVE IInv'
  BY <1>3, NodeTakeInv
<1>4. ASSUME NEW n \in Nodes, NodeRemove(n) PROVE IInv'
  BY <1>4, NodeRemoveInv
<1>5. ASSUME NEW n \in Nodes, NEW name \in Names, NewNode(n, name) PROVE IInv'
  BY <1>5, NewNodeInv
<1>6. ASSUME NEW n \in Nodes, NEW name \in Names, NodeSetName(n, name) PROVE IInv'
  BY <1>6, NodeSetNameInv
<1>7. Dirs \subseteq Nodes
  BY NodeAssumption
<1>8. ASSUME NEW n \in Nodes, NEW d \in Dirs, DirAdd(d, n) PROVE IInv'
  BY <1>7, <1>8, DirAddInv
<1>9. ASSUME NEW n \in Nodes, NEW d \in Dirs, NEW mode \in ReplaceModes, DirReplace(d, n, mode)
      PROVE IInv'
  BY <1>7, <1>9, DirReplaceInv
<1>10. ASSUME NEW i \in Iters, IterNext(i) PROVE IInv'
  BY <1>10, IterNextInv
<1>11. ASSUME NEW i \in Iters, IterTakeFails(i) PROVE IInv'
  BY <1>11, IterTakeFailsInv
<1>12. ASSUME NEW i \in Iters, IterTake(i) PROVE IInv'
  BY <1>12, IterTakeInv
<1>13. ASSUME NEW i \in Iters, IterRemove(i) PROVE IInv'
  BY <1>13, IterRemoveInv
<1>14. ASSUME NEW i \in Iters, IterFree(i) PROVE IInv'
  BY <1>14, IterFreeInv
<1>15. ASSUME NEW i \in Iters, NEW d \in Dirs, GetChildren(i, d) PROVE IInv'
  BY <1>7, <1>15, GetChildrenInv
<1>16. CASE Next
  BY <1>1, <1>2, <1>3, <1>4, <1>5, <1>6, <1>8, <1>9, <1>10, <1>11, <1>12, <1>13, <1>14,
     <1>15, <1>16 DEF Next
<1>17. CASE UNCHANGED vars
  BY <1>17, StutterInv
<1> QED  BY <1>16, <1>17

\* Whatever the program calls, the tree, the references and the iterators fit
\* together: the inductive invariant.
THEOREM TreeInvariant == Spec => []IInv
<1>1. Init => IInv
  BY InitInv
<1>2. IInv /\ [Next]_vars => IInv'
  BY StepInv
<1> QED  BY <1>1, <1>2, PTL DEF Spec

\* The nodes, the references of the program, the iterators and their registry
\* keep their types; no count falls below zero.
THEOREM TypeCorrect == Spec => []TypeOK
<1>1. IInv => TypeOK
  <2> SUFFICES ASSUME IInv PROVE TypeOK
    OBVIOUS
  <2>1. node \in Memory
    BY InvIs
  <2>2. IterRecs \subseteq [dir : Nodes \cup {NULL}, pos : Nodes \cup {NULL},
                            flag : BOOLEAN, due : SUBSET Nodes, lost : BOOLEAN]
    BY DEF IterRecs
  <2>3. iter \in [Iters -> IterRecs]
    BY DEF IInv
  <2>4. iter \in [Iters -> [dir : Nodes \cup {NULL}, pos : Nodes \cup {NULL},
                            flag : BOOLEAN, due : SUBSET Nodes, lost : BOOLEAN]]
    BY <2>2, <2>3
  <2> QED  BY <2>1, <2>4 DEF TypeOK, IInv, Memory, NodeRecs
<1> QED  BY <1>1, TreeInvariant, PTL

\* iso_node_ref(), iso_node_unref() and all which call them: each reference
\* has an owner, so that no node is freed while it is in use, and none stays.
THEOREM CountsExact == Spec => []RefcountExact
<1>1. IInv => RefcountExact
  <2> SUFFICES ASSUME IInv, NEW n \in Nodes
               PROVE  node[n].refcount = held[n] + Count(InTree(n))
                        + Cardinality({i \in Iters : iter[i].pos = n})
                        + Cardinality({i \in Iters : iter[i].dir = n})
    BY DEF RefcountExact
  <2>1. PICK a, b, w \in Nat : /\ a = Cardinality({i \in Iters : iter[i].pos = n})
                               /\ b = Cardinality({i \in Iters : iter[i].dir = n}) /\ w = held[n]
    BY InvIs, ItersFinite
  <2>2. Own(held, iter)[n] = w + a + b
    BY <2>1 DEF Own
  <2>3. Owned(node, Own(held, iter))
    BY InvIs DEF Good
  <2>4. node[n].refcount = (w + a + b) + Count(HasParent(node, n))
    BY <2>2, <2>3 DEF Owned
  <2>5. PICK c \in Nat : c = Count(HasParent(node, n))
    BY DEF Count
  <2>6. c = Count(InTree(n))
    <3>1. InTree(n) <=> HasParent(node, n)
      BY InvIs
    <3> QED  BY <2>5, <3>1 DEF Count
  <2> QED  BY <2>1, <2>4, <2>5, <2>6
<1> QED  BY <1>1, TreeInvariant, PTL

\* iso_dir_insert(), iso_node_take() and all which call them: parents and
\* lists of children agree, the lists are strictly sorted and counted.
THEOREM TreeAgrees == Spec => []TreeConsistent
<1>1. IInv => TreeConsistent
  <2> SUFFICES ASSUME IInv PROVE TreeConsistent
    OBVIOUS
  <2> USE RootIs
  <2>1. node \in Memory /\ Linked(node) /\ Sorted(node) /\ DeadAlone(node)
    BY InvIs DEF Good
  <2>2. ASSUME NEW d \in Nodes
        PROVE  /\ node[d].nchildren = Len(node[d].children)
               /\ \A j, k \in 1 .. Len(node[d].children) : j < k =>
                    node[node[d].children[j]].name < node[node[d].children[k]].name
               /\ node[d].children # <<>> => Live(d)
    BY <2>1 DEF Linked, Sorted, DeadAlone, Live
  <2>3. ASSUME NEW d \in Nodes, NEW n \in Nodes \ {Root}
        PROVE  Contains(node[d].children, n) <=> node[n].parent = d
    <3>1. Contains(node[d].children, n) <=> Holds(node, d, n)
      BY DEF Contains, Holds
    <3>2. Holds(node, d, n) => node[n].parent = d
      BY <2>1 DEF Holds, Linked
    <3>3. node[n].parent = d => Holds(node, d, n)
      BY <2>1 DEF Linked
    <3> QED  BY <3>1, <3>2, <3>3
  <2> QED  BY <2>2, <2>3 DEF TreeConsistent
<1> QED  BY <1>1, TreeInvariant, PTL

LEMMA AheadIs ==
  ASSUME NEW i \in Iters
  PROVE  Ahead(i) = {node[iter[i].dir].children[j] :
                       j \in Place(node[iter[i].dir].children, iter[i].pos) + 1 ..
                             Len(node[iter[i].dir].children)}
BY DEF Ahead, Place

\* What an iterator has still to return comes after its position.
LEMMA DueAhead ==
  ASSUME IInv, NEW i \in Iters, Open(i), ~iter[i].lost
  PROVE  iter[i].due \subseteq Ahead(i)
<1> USE RootIs
<1>1. PICK h, f : h = node /\ f = iter
  OBVIOUS
<1>2. h \in Memory /\ Linked(h) /\ Sorted(h)
  BY <1>1, InvIs DEF Good
<1>3. PICK r \in IterRecs : r = f[i] /\ Walk(h, r)
  BY <1>1 DEF IInv
<1>4. PICK d \in Nodes : d = r.dir /\ ~r.lost
  BY <1>1, <1>3 DEF Open, IterRecs
<1>5. PICK ch \in Seq(Nodes) : ch = h[d].children
  BY <1>2, MemoryIs
<1>6. PICK len \in Nat : len = Len(ch)
  BY LenProperties
<1>7. PICK k : k = Place(ch, r.pos)
  OBVIOUS
<1>8. k \in 0 .. len /\ (k # 0 => ch[k] = r.pos)
  BY <1>6, <1>7, PlaceIs
<1>9. ASSUME NEW m \in r.due PROVE \E j \in k + 1 .. len : ch[j] = m
  <2>1. h[m].parent = d /\ (r.pos # NULL => h[r.pos].name < h[m].name)
    BY <1>3, <1>4 DEF Walk
  <2>2. m \in Nodes \ {Root}
    BY DEF IterRecs
  <2>3. PICK j \in 1 .. len : ch[j] = m
    BY <1>2, <1>5, <1>6, <2>1, <2>2 DEF Linked, Holds
  <2>4. j > k
    <3>1. CASE k = 0
      BY <2>3, <3>1
    <3>2. CASE k # 0
      <4>1. k \in 1 .. len /\ ch[k] = r.pos /\ ch[k] \in Nodes
        BY <1>2, <1>5, <1>6, <1>8, <3>2, MemoryIs
      <4>2. h[ch[k]].name < h[ch[j]].name
        BY <2>1, <2>3, <4>1
      <4>3. PICK a, b \in Nat : a = h[ch[k]].name /\ b = h[ch[j]].name
        BY <1>2, <2>2, <2>3, <4>1, MemoryIs
      <4>4. a < b
        BY <4>2, <4>3
      <4>5. j < k => b < a
        BY <1>2, <1>5, <1>6, <4>1, <4>3 DEF Sorted
      <4>6. j = k => a = b
        BY <4>3
      <4> QED  BY <4>1, <4>3, <4>4, <4>5, <4>6
    <3> QED  BY <3>1, <3>2
  <2> QED  BY <1>6, <1>8, <2>3, <2>4
<1>10. r.due \subseteq {ch[j] : j \in k + 1 .. Len(ch)}
  BY <1>6, <1>9
<1>11. /\ iter[i].dir = d /\ iter[i].pos = r.pos /\ iter[i].due = r.due
       /\ node[iter[i].dir].children = ch
  BY <1>1, <1>3, <1>4, <1>5
<1>12. Ahead(i) = {ch[j] : j \in Place(ch, r.pos) + 1 .. Len(ch)}
  BY <1>11, AheadIs
<1> QED  BY <1>7, <1>10, <1>11, <1>12

-----------------------------------------------------------------------------
(* Iterators which stay at a node that leaves.                             *)

\* Every iterator in use is notified.
Registered == \A i \in Iters : Open(i) => \E b \in 1 .. Len(reg) : reg[b] = i

\* A newer iterator stands at the same node.
Shared(i) == \E j \in Iters : /\ NewerIter(j, i) /\ iter[j].dir = iter[i].dir
                              /\ iter[j].pos = iter[i].pos

\* A namesake has got the place of the node.
Superseded(i) ==
  \E m \in Nodes : /\ node[m].parent # iter[i].dir /\ node'[m].parent = iter[i].dir
                    /\ node'[m].name = node[iter[i].pos].name

LostFairly(i) == Open(i) /\ ~iter[i].lost /\ iter'[i].lost => Shared(i) \/ Superseded(i)

\* Iterator i stays at node p, which is no child of d any more, or left it.
Strays(i, d, p, f, g, left) ==
  /\ iter[i].dir = d /\ f[i].dir = d /\ f[i].pos = p /\ node[p].parent = d
  /\ g[p].parent # d \/ p \in left

LEMMA CommitLoses ==
  ASSUME IInv, NEW g, NEW f \in [Iters -> IterRecs], NEW left \in SUBSET Nodes, NEW st,
         st = [node |-> g, iter |-> f], Commit(st, left), NEW i \in Iters,
         Moved(node, iter[i], f[i])
  PROVE  /\ node' = g /\ iter'[i].dir \in {iter[i].dir, NULL}
         /\ Open(i) /\ ~iter[i].lost /\ iter'[i].lost =>
              \E d \in Nodes, p \in Nodes \ {Root} : Strays(i, d, p, f, g, left)
<1> USE RootIs
<1>1. node' = g /\ iter' = Committed(g, f, left)
  BY CommitIs
<1>2. iter'[i].dir = f[i].dir /\ iter'[i].lost = (f[i].lost \/ Lost(g, f[i], left))
  BY <1>1, CommittedAt
<1>3. PICK r, r2 \in IterRecs : r = iter[i] /\ r2 = f[i]
  BY DEF IInv
<1>4. r2.dir \in {r.dir, NULL}
  BY <1>3, NoIterIs DEF Moved
<1>5. ASSUME Open(i), ~r.lost, r2.lost \/ Lost(g, r2, left)
      PROVE  \E d \in Nodes, p \in Nodes \ {Root} : Strays(i, d, p, f, g, left)
  <2>1. r2 # NoIter
    BY <1>5, NoIterIs DEF Lost
  <2>2. /\ r2.dir = r.dir /\ r2.lost = r.lost
        /\ \/ r2.pos \in {r.pos, NULL}
           \/ /\ r.pos # NULL /\ node[r2.pos].parent = r.dir
              /\ node[r2.pos].name < node[r.pos].name
    BY <1>3, <2>1 DEF Moved
  <2>3. PICK d \in Nodes : d = r.dir
    BY <1>3, <1>5 DEF Open, IterRecs
  <2>4. r2.pos # NULL /\ (g[r2.pos].parent # d \/ r2.pos \in left)
    BY <1>5, <2>2, <2>3 DEF Lost
  <2>5. PICK p \in Nodes \ {Root} : p = r2.pos
    BY <2>4 DEF IterRecs
  <2>6. r.pos # NULL => node[r.pos].parent = d
    BY <1>3, <1>5, <2>3 DEF IInv, Walk
  <2>7. node[p].parent = d
    BY <2>2, <2>3, <2>4, <2>5, <2>6
  <2> QED  BY <1>3, <2>2, <2>3, <2>4, <2>5, <2>7 DEF Strays
<1> QED  BY <1>1, <1>2, <1>3, <1>4, <1>5

\* An iterator left behind shared its position.
LEMMA BehindShared ==
  ASSUME IInv, Registered, NEW i \in Iters, NEW n, NEW f, Behind(node, iter, f, n),
         Open(i), f[i].pos = n, iter[i].dir = node[n].parent
  PROVE  Shared(i)
<1>1. PICK len \in Nat : len = Len(reg) /\ DOMAIN reg = 1 .. len /\ \A b \in 1 .. len : reg[b] \in Iters
  BY LenProperties DEF IInv
<1>2. PICK b \in 1 .. len : reg[b] = i
  BY <1>1 DEF Registered
<1>3. iter[i].pos = n /\ \E a \in 1 .. b - 1 : At(node, iter, reg[a], n)
  BY <1>1, <1>2 DEF Behind
<1>4. PICK a \in 1 .. b - 1 : At(node, iter, reg[a], n)
  BY <1>3
<1>5. a \in 1 .. len /\ a < b
  BY <1>1
<1>6. NewerIter(reg[a], i) /\ reg[a] \in Iters
  BY <1>1, <1>2, <1>5 DEF NewerIter
<1> QED  BY <1>3, <1>4, <1>6 DEF Shared, At

\* Calls which do not notify
LEMMA CallLoses ==
  ASSUME IInv, NEW g, CommitNodes(g), NEW i \in Iters
  PROVE  /\ node' = g /\ iter'[i].dir \in {iter[i].dir, NULL}
         /\ Open(i) /\ ~iter[i].lost /\ iter'[i].lost =>
              \E d \in Nodes, p \in Nodes \ {Root} : Strays(i, d, p, iter, g, {})
<1>1. PICK st : st = [node |-> g, iter |-> iter]
  OBVIOUS
<1>2. Commit(st, {})
  BY <1>1 DEF CommitNodes
<1>3. iter \in [Iters -> IterRecs] /\ Moved(node, iter[i], iter[i])
  BY DEF IInv, Moved
<1> QED  BY <1>1, <1>2, <1>3, CommitLoses

LEMMA NodeUnrefLost ==
  ASSUME IInv, NEW n \in Nodes, NodeUnref(n), NEW i \in Iters
  PROVE  iter'[i].dir \in {iter[i].dir, NULL} /\ LostFairly(i)
<1>1. held[n] > 0 /\ CommitNodes(Unref(node, n))
  BY DEF NodeUnref
<1>2. PICK hd \in [Nodes -> 0 .. MaxHeld] : hd = [held EXCEPT ![n] = @ - 1]
  BY <1>1, GivenUp
<1>3. Own(hd, iter) = Less(Own(held, iter), n) /\ Own(held, iter)[n] > 0
  BY <1>1, <1>2, GivenUp
<1>4. PICK h, own : h = node /\ own = Own(held, iter) /\ Good(h, own)
  BY InvIs
<1>5. PICK g : g = Unref(h, n)
  OBVIOUS
<1>6. Good(g, Own(hd, iter))
  BY <1>3, <1>4, <1>5, UnrefGood
<1>7. ASSUME NEW d \in Nodes, NEW p \in Nodes \ {Root}, Strays(i, d, p, iter, g, {})
      PROVE  FALSE
  <2>1. iter[i].dir = d /\ h[p].parent = d /\ g[p].parent # d
    BY <1>4, <1>7 DEF Strays
  <2>2. hd \in [Nodes -> Nat]
    BY NodeAssumption
  <2>3. g[d].refcount > 0
    BY <1>6, <2>1, <2>2, DirOwned
  <2> QED  BY <1>3, <1>4, <1>5, <2>1, <2>3, ChildrenStay
<1> QED  BY <1>1, <1>4, <1>5, <1>7, CallLoses DEF LostFairly

LEMMA DirAddLost ==
  ASSUME IInv, NEW d \in Nodes, NEW n \in Nodes, DirAdd(d, n), NEW i \in Iters
  PROVE  iter'[i].dir \in {iter[i].dir, NULL} /\ LostFairly(i)
<1>1. /\ MayAdd(d, n) /\ ~DirExists(node, d, node[n].name) /\ CommitNodes(Insert(node, d, n))
  BY DEF DirAdd
<1>2. PICK A : A = Above(d)
  OBVIOUS
<1>3. /\ n \in Nodes \ {d} /\ held[n] > 0 /\ node[n].parent = NULL /\ node[d].refcount > 0
      /\ A \in SUBSET Nodes /\ d \in A /\ n \notin A
      /\ \A m \in A : node[m].parent \in A \cup {NULL}
  BY <1>1, <1>2, MayAddIs
<1>4. Own(held, iter)[n] > 0
  BY <1>3, GivenUp
<1>5. PICK h, own : h = node /\ own = Own(held, iter) /\ Good(h, own)
  BY InvIs
<1>6. PICK g : g = Insert(h, d, n)
  OBVIOUS
<1>7. Below(h, g, d, n)
  BY <1>1, <1>3, <1>4, <1>5, <1>6, InsertGood
<1>8. ASSUME NEW x \in Nodes, NEW p \in Nodes \ {Root}, Strays(i, x, p, iter, g, {})
      PROVE  FALSE
  <2>1. h[p].parent = x /\ g[p].parent # x
    BY <1>5, <1>8 DEF Strays
  <2>2. p # n
    BY <1>3, <1>5, <2>1, RootIs
  <2> QED  BY <1>7, <2>1, <2>2 DEF Below
<1> QED  BY <1>1, <1>5, <1>6, <1>8, CallLoses DEF LostFairly

LEMMA DirReplaceLost ==
  ASSUME IInv, NEW d \in Nodes, NEW n \in Nodes, NEW mode, DirReplace(d, n, mode), NEW i \in Iters
  PROVE  iter'[i].dir \in {iter[i].dir, NULL} /\ LostFairly(i)
<1>1. /\ MayAdd(d, n) /\ DirExists(node, d, node[n].name) /\ CommitNodes(Replace(node, d, n))
  BY DEF DirReplace
<1>2. PICK A : A = Above(d)
  OBVIOUS
<1>3. /\ n \in Nodes \ {d} /\ held[n] > 0 /\ node[n].parent = NULL /\ node[d].refcount > 0
      /\ A \in SUBSET Nodes /\ d \in A /\ n \notin A
      /\ \A m \in A : node[m].parent \in A \cup {NULL}
  BY <1>1, <1>2, MayAddIs
<1>4. PICK hd \in [Nodes -> 0 .. MaxHeld] : hd = [held EXCEPT ![n] = @ - 1]
  BY <1>3, GivenUp
<1>5. Own(hd, iter) = Less(Own(held, iter), n) /\ Own(held, iter)[n] > 0
  BY <1>3, <1>4, GivenUp
<1>6. PICK h, own : h = node /\ own = Own(held, iter) /\ Good(h, own)
  BY InvIs
<1>7. PICK g : g = Replace(h, d, n)
  OBVIOUS
<1>8. Good(g, Own(hd, iter))
  BY <1>1, <1>3, <1>5, <1>6, <1>7, ReplaceGood
<1>9. Replaced(h, g, d, n)
  BY <1>1, <1>3, <1>5, <1>6, <1>7, ReplaceGood
<1>10. ASSUME NEW x \in Nodes, NEW p \in Nodes \ {Root}, Strays(i, x, p, iter, g, {})
       PROVE  x = d /\ g[n].parent = d /\ g[n].name = h[p].name /\ iter[i].dir = d /\ iter[i].pos = p
  <2>1. iter[i].dir = x /\ iter[i].pos = p /\ h[p].parent = x /\ g[p].parent # x
    BY <1>6, <1>10 DEF Strays
  <2>2. p # n
    BY <1>3, <1>6, <2>1, RootIs
  <2>3. hd \in [Nodes -> Nat]
    BY NodeAssumption
  <2>4. g[x].refcount > 0
    BY <1>8, <2>1, <2>3, DirOwned
  <2>5. h[p].parent = d /\ g[n].parent = d /\ g[n].name = h[p].name
    BY <1>9, <2>1, <2>2, <2>4 DEF Replaced
  <2> QED  BY <2>1, <2>5
<1>11. node[n].parent # d
  BY <1>3, RootIs
<1>12. node' = g /\ iter'[i].dir \in {iter[i].dir, NULL}
  BY <1>1, <1>6, <1>7, CallLoses
<1>13. ASSUME Open(i), ~iter[i].lost, iter'[i].lost PROVE Superseded(i)
  <2>1. PICK x \in Nodes, p \in Nodes \ {Root} : Strays(i, x, p, iter, g, {})
    BY <1>1, <1>6, <1>7, <1>13, CallLoses
  <2>2. g[n].parent = d /\ g[n].name = h[p].name /\ iter[i].dir = d /\ iter[i].pos = p
    BY <1>10, <2>1
  <2> QED  BY <1>6, <1>11, <1>12, <2>2 DEF Superseded
<1> QED  BY <1>12, <1>13 DEF LostFairly

LEMMA TakeLost ==
  ASSUME IInv, Registered, NEW n \in Nodes, InTree(n), NEW f \in [Iters -> IterRecs],
         \A j \in Iters : /\ f[j].dir = iter[j].dir /\ f[j].pos = iter[j].pos
                          /\ f[j].due = iter[j].due /\ f[j].lost = iter[j].lost,
         Commit(Take([node |-> node, iter |-> f], n), {}), NEW i \in Iters
  PROVE  iter'[i].dir \in {iter[i].dir, NULL} /\ LostFairly(i)
<1>1. PICK e, f2 : Taken(n, f, e, f2)
  BY TakeTakes
<1>2. PICK st : st = [node |-> e, iter |-> f2]
  OBVIOUS
<1>3. Commit(st, {}) /\ f2 \in [Iters -> IterRecs] /\ Moved(node, iter[i], f2[i])
  BY <1>1, <1>2 DEF Taken
<1>4. ASSUME Open(i), NEW d \in Nodes, NEW p \in Nodes \ {Root}, Strays(i, d, p, f2, e, {})
      PROVE  Shared(i)
  <2>1. iter[i].dir = d /\ f2[i].pos = p /\ node[p].parent = d /\ e[p].parent # d
    BY <1>4 DEF Strays
  <2>2. p = n
    BY <1>1, <2>1 DEF Taken
  <2>3. Behind(node, iter, f2, n)
    BY <1>1 DEF Taken
  <2> QED  BY <1>4, <2>1, <2>2, <2>3, BehindShared
<1> QED  BY <1>2, <1>3, <1>4, CommitLoses DEF LostFairly

LEMMA RemoveLost ==
  ASSUME IInv, Registered, NEW n \in Nodes, InTree(n), NEW f \in [Iters -> IterRecs],
         \A j \in Iters : /\ f[j].dir = iter[j].dir /\ f[j].pos = iter[j].pos
                          /\ f[j].due = iter[j].due /\ f[j].lost = iter[j].lost,
         NEW st, st = Take([node |-> node, iter |-> f], n),
         Commit([st EXCEPT !.node = Unref(@, n)], {}), NEW i \in Iters
  PROVE  iter'[i].dir \in {iter[i].dir, NULL} /\ LostFairly(i)
<1>1. PICK e, f2 : Taken(n, f, e, f2)
  BY TakeTakes
<1>2. PICK g, st2 : g = Unref(e, n) /\ st2 = [node |-> g, iter |-> f2]
  OBVIOUS
<1>3. Commit(st2, {})
  <2>1. st = [node |-> e, iter |-> f2]
    BY <1>1 DEF Taken
  <2>2. [st EXCEPT !.node = Unref(@, n)] = st2
    BY <1>2, <2>1
  <2> QED  BY <2>2
<1>4. /\ Good(e, More(Own(held, f2), n)) /\ f2 \in [Iters -> IterRecs]
      /\ Moved(node, iter[i], f2[i])
  BY <1>1 DEF Taken
<1>5. PICK hd \in [Nodes -> Nat] : hd = held
  BY InvIs
<1>6. PICK own \in [Nodes -> Nat] : own = Own(hd, f2)
  BY OwnIs
<1>7. Less(More(own, n), n) = own /\ More(own, n)[n] > 0
  <2>1. Less(More(own, n), n) = own
    BY MoreLess
  <2>2. own[n] \in Nat /\ More(own, n)[n] = own[n] + 1
    BY DEF More
  <2> QED  BY <2>1, <2>2
<1>8. Good(e, More(own, n)) /\ Good(g, own)
  <2>1. Good(e, More(own, n))
    BY <1>4, <1>5, <1>6
  <2> QED  BY <1>2, <1>7, <2>1, UnrefGood
<1>9. ASSUME Open(i), NEW d \in Nodes, NEW p \in Nodes \ {Root}, Strays(i, d, p, f2, g, {})
      PROVE  Shared(i)
  <2>1. iter[i].dir = d /\ f2[i].dir = d /\ f2[i].pos = p /\ node[p].parent = d /\ g[p].parent # d
    BY <1>9 DEF Strays
  <2>2. g[d].refcount > 0
    BY <1>6, <1>8, <2>1, DirOwned
  <2>3. e[p].parent # d
    BY <1>2, <1>7, <1>8, <2>1, <2>2, ChildrenStay
  <2>4. p = n
    BY <1>1, <2>1, <2>3 DEF Taken
  <2>5. Behind(node, iter, f2, n)
    BY <1>1 DEF Taken
  <2> QED  BY <1>9, <2>1, <2>4, <2>5, BehindShared
<1> QED  BY <1>2, <1>3, <1>4, <1>9, CommitLoses DEF LostFairly

LEMMA SetNameLost ==
  ASSUME IInv, Registered, NEW n \in Nodes, NEW name \in Names, NodeSetName(n, name), NEW i \in Iters
  PROVE  iter'[i].dir \in {iter[i].dir, NULL} /\ LostFairly(i)
<1>1. n # Root
  BY DEF NodeSetName
<1>2. CASE node[n].parent = NULL
  <2>1. PICK h, own : h = node /\ own = Own(held, iter) /\ Good(h, own)
    BY InvIs
  <2>2. PICK g : g = Renamed(h, n, name)
    OBVIOUS
  <2>3. CommitNodes(g)
    BY <1>2, <2>1, <2>2 DEF NodeSetName, Renamed
  <2>4. \A m \in Nodes : g[m].parent = h[m].parent
    BY <2>1, <2>2, RenameGood
  <2>5. \A d \in Nodes, p \in Nodes \ {Root} : ~Strays(i, d, p, iter, g, {})
    BY <2>1, <2>4 DEF Strays
  <2> QED  BY <2>3, <2>5, CallLoses DEF LostFairly
<1>3. CASE node[n].parent # NULL
  <2>1. PICK st : st = Take([Now EXCEPT !.node[n].name = name], n)
    OBVIOUS
  <2>2. /\ ~DirExists(node, node[n].parent, name)
        /\ Commit([st EXCEPT !.node = Insert(@, node[n].parent, n)], {n})
    BY <1>3, <2>1 DEF NodeSetName
  <2>3. PICK g, f2 : NameSet(n, st, g, f2)
    BY <1>1, <1>3, <2>1, <2>2, SetNameIs
  <2>4. PICK st2 : st2 = [node |-> g, iter |-> f2]
    OBVIOUS
  <2>5. Commit(st2, {n}) /\ f2 \in [Iters -> IterRecs] /\ Moved(node, iter[i], f2[i])
    BY <2>2, <2>3, <2>4 DEF NameSet
  <2>6. ASSUME Open(i), NEW d \in Nodes, NEW p \in Nodes \ {Root}, Strays(i, d, p, f2, g, {n})
        PROVE  Shared(i)
    <3>1. iter[i].dir = d /\ f2[i].pos = p /\ node[p].parent = d
      BY <2>6 DEF Strays
    <3>2. p = n
      BY <2>3, <2>6 DEF Strays, NameSet
    <3>3. Behind(node, iter, f2, n)
      BY <2>3 DEF NameSet
    <3> QED  BY <2>6, <3>1, <3>2, <3>3, BehindShared
  <2> QED  BY <2>4, <2>5, <2>6, CommitLoses DEF LostFairly
<1> QED  BY <1>2, <1>3

LEMMA IterFreeLost ==
  ASSUME IInv, NEW j \in Iters, IterFree(j), NEW i \in Iters
  PROVE  iter'[i].dir \in {iter[i].dir, NULL} /\ (i = j => ~Open(i)') /\ LostFairly(i)
<1>1. PICK g, f2 : Freed(j, g, f2)
  BY IterFreeIs
<1>2. PICK st : st = [node |-> g, iter |-> f2]
  OBVIOUS
<1>3. f2 \in [Iters -> IterRecs] /\ Commit(st, {}) /\ Moved(node, iter[i], f2[i])
  BY <1>1, <1>2 DEF Freed, Moved
<1>4. iter' = Committed(g, f2, {})
  BY <1>2, <1>3, CommitIs
<1>5. i = j => iter'[i].dir = NULL
  BY <1>1, <1>3, <1>4, CommittedAt, NoIterIs DEF Freed
<1>6. ASSUME NEW d \in Nodes, NEW p \in Nodes \ {Root}, Strays(i, d, p, f2, g, {})
      PROVE  FALSE
  <2>1. iter[i].dir = d /\ f2[i].dir = d /\ node[p].parent = d /\ g[p].parent # d
    BY <1>6 DEF Strays
  <2>2. i # j
    BY <1>1, <2>1, NoIterIs, RootIs DEF Freed
  <2> QED  BY <1>1, <2>1, <2>2 DEF Freed
<1> QED  BY <1>2, <1>3, <1>5, <1>6, CommitLoses DEF LostFairly, Open

\* The other iterators stay in the registry.
LEMMA StaysListed ==
  ASSUME NEW s \in Seq(Iters), NEW i, NEW k \in 1 .. Len(s), s[k] # i
  PROVE  \E c \in 1 .. Len(RemoveFirst(s, i)) : RemoveFirst(s, i)[c] = s[k]
<1>1. PICK n \in Nat : n = Len(s) /\ \A j \in 1 .. n : s[j] \in Iters
  BY LenProperties
<1>2. CASE \E j \in 1 .. n : s[j] = i
  <2> DEFINE T == {j \in 1 .. n : s[j] = i}
  <2>1. T \subseteq Nat /\ T # {}
    BY <1>1, <1>2
  <2>2. PICK p \in T : p = Min(T)
    BY <2>1, MinIs
  <2>3. p \in 1 .. n /\ s[p] = i
    OBVIOUS
  <2>4. RemoveFirst(s, i) = RemoveAt(s, Place(s, i))
    BY <1>1, <1>2 DEF RemoveFirst, Place
  <2>5. Place(s, i) = p
    BY <1>1, <2>1, <2>2 DEF Place, SelectInSeq
  <2>6. PICK a, b : a = SubSeq(s, 1, p - 1) /\ b = SubSeq(s, p + 1, n)
    OBVIOUS
  <2>7. a \in Seq(Iters) /\ Len(a) = p - 1 /\ \A j \in 1 .. p - 1 : a[j] = s[j]
    BY <1>1, <2>3, <2>6, SubSeqProperties
  <2>8. b \in Seq(Iters) /\ Len(b) = n - p /\ \A j \in 1 .. n - p : b[j] = s[j + p]
    BY <1>1, <2>3, <2>6, SubSeqProperties
  <2>9. RemoveAt(s, p) = a \o b
    BY <1>1, <2>6 DEF RemoveAt
  <2>10. /\ Len(a \o b) = n - 1
         /\ \A j \in 1 .. n - 1 : (a \o b)[j] = IF j <= p - 1 THEN a[j] ELSE b[j - (p - 1)]
    BY <1>1, <2>3, <2>7, <2>8, ConcatProperties
  <2>11. CASE k < p
    <3>1. k \in 1 .. n - 1 /\ (a \o b)[k] = s[k]
      BY <1>1, <2>3, <2>7, <2>10, <2>11
    <3> QED  BY <2>4, <2>5, <2>9, <2>10, <3>1
  <2>12. CASE k > p
    <3>1. PICK c \in 1 .. n - 1 : c = k - 1 /\ ~(c <= p - 1)
      BY <1>1, <2>3, <2>12
    <3>2. c - (p - 1) \in 1 .. n - p /\ (c - (p - 1)) + p = k
      BY <1>1, <2>3, <2>12, <3>1
    <3>3. (a \o b)[c] = s[k]
      BY <2>8, <2>10, <3>1, <3>2
    <3> QED  BY <2>4, <2>5, <2>9, <2>10, <3>1, <3>3
  <2>13. k # p
    BY <2>3
  <2> QED  BY <1>1, <2>3, <2>11, <2>12, <2>13
<1>3. CASE ~\E j \in 1 .. n : s[j] = i
  BY <1>1, <1>3 DEF RemoveFirst
<1> QED  BY <1>2, <1>3

\* What all calls but those which make and free iterators do to them
Fair == reg' = reg /\ \A i \in Iters : iter'[i].dir \in {iter[i].dir, NULL} /\ LostFairly(i)

LEMMA FairRegistered ==
  ASSUME IInv, Registered, Fair
  PROVE  Registered'
BY DEF Registered, Fair, Open

LEMMA IterNextLost ==
  ASSUME IInv, NEW j \in Iters, IterNext(j) \/ IterTakeFails(j)
  PROVE  Fair
<1>1. PICK f \in [Iters -> IterRecs] : f = iter
  BY DEF IInv
<1>2. PICK r \in IterRecs : r = f[j]
  OBVIOUS
<1>3. reg' = reg /\ \E q : /\ iter' = [f EXCEPT ![j] = q]
                          /\ q.dir = r.dir /\ q.lost = r.lost
  <2>1. CASE iter' = [iter EXCEPT ![j].flag = FALSE] /\ reg' = reg
    <3>1. PICK q : q = [r EXCEPT !.flag = FALSE]
      OBVIOUS
    <3>2. iter' = [f EXCEPT ![j] = q]
      BY <1>1, <1>2, <2>1, <3>1
    <3>3. q.dir = r.dir /\ q.lost = r.lost
      BY <3>1 DEF IterRecs
    <3> QED  BY <2>1, <3>2, <3>3
  <2>2. CASE /\ reg' = reg
             /\ \E y : iter' = [iter EXCEPT ![j].flag = TRUE, ![j].pos = y, ![j].due = @ \ {y}]
    <3>1. PICK y : iter' = [f EXCEPT ![j].flag = TRUE, ![j].pos = y, ![j].due = @ \ {y}]
      BY <1>1, <2>2
    <3>2. PICK q1, q2, q : /\ q1 = [r EXCEPT !.flag = TRUE] /\ q2 = [q1 EXCEPT !.pos = y]
                           /\ q = [q2 EXCEPT !.due = r.due \ {y}]
      OBVIOUS
    <3>3. q2.due = r.due /\ q.dir = r.dir /\ q.lost = r.lost
      BY <3>2 DEF IterRecs
    <3>4. iter' = [f EXCEPT ![j] = q]
      BY <1>2, <3>1, <3>2, <3>3
    <3> QED  BY <2>2, <3>3, <3>4
  <2> QED  BY <2>1, <2>2 DEF IterNext, IterTakeFails
<1>4. PICK q : iter' = [f EXCEPT ![j] = q] /\ q.dir = r.dir /\ q.lost = r.lost
  BY <1>3
<1>7. \A i \in Iters : iter'[i] = IF i = j THEN q ELSE f[i]
  BY <1>4
<1>8. \A i \in Iters : iter'[i].dir = iter[i].dir /\ iter'[i].lost = iter[i].lost
  BY <1>1, <1>2, <1>4, <1>7
<1> QED  BY <1>3, <1>8 DEF Fair, LostFairly

LEMMA GetChildrenLost ==
  ASSUME IInv, Registered, NEW j \in Iters, NEW d \in Nodes, GetChildren(j, d)
  PROVE  Registered' /\ \A i \in Iters : LostFairly(i)
<1>1. PICK len \in Nat : len = Len(reg) /\ reg \in Seq(Iters)
  BY LenProperties DEF IInv
<1>2. PICK o : o = <<j>>
  OBVIOUS
<1>3. o \in Seq(Iters) /\ Len(o) = 1 /\ o[1] = j
  BY <1>2
<1>4. PICK l : l = o \o reg
  OBVIOUS
<1>5. Len(l) = len + 1 /\ \A b \in 1 .. len + 1 : l[b] = IF b <= 1 THEN o[b] ELSE reg[b - 1]
  <2>1. /\ Len(o \o reg) = Len(o) + Len(reg)
        /\ \A b \in 1 .. Len(o) + Len(reg) :
             (o \o reg)[b] = IF b <= Len(o) THEN o[b] ELSE reg[b - Len(o)]
    BY <1>1, <1>3, ConcatProperties
  <2>2. Len(o) + Len(reg) = len + 1
    BY <1>1, <1>3
  <2> QED  BY <1>3, <1>4, <2>1, <2>2
<1>6. reg' = l /\ ~Open(j)
  BY <1>2, <1>4 DEF GetChildren
<1>7. \A i \in Iters \ {j} : iter'[i] = iter[i]
  BY DEF GetChildren, IInv
<1>8. ASSUME NEW i \in Iters, Open(i)' PROVE \E b \in 1 .. Len(reg') : reg'[b] = i
  <2>1. CASE i = j
    <3>1. 1 \in 1 .. len + 1 /\ l[1] = j
      BY <1>3, <1>5
    <3> QED  BY <1>5, <1>6, <2>1, <3>1
  <2>2. CASE i # j
    <3>1. PICK b \in 1 .. len : reg[b] = i
      BY <1>1, <1>7, <1>8, <2>2 DEF Registered, Open
    <3>2. PICK c \in 1 .. len + 1 : c = b + 1
      OBVIOUS
    <3>3. l[c] = i
      BY <1>5, <3>1, <3>2
    <3> QED  BY <1>5, <1>6, <3>3
  <2> QED  BY <2>1, <2>2
<1> QED  BY <1>6, <1>7, <1>8 DEF Registered, LostFairly

LEMMA FreeRegistered ==
  ASSUME IInv, Registered, NEW j \in Iters, IterFree(j)
  PROVE  Registered' /\ \A i \in Iters : LostFairly(i)
<1>1. reg' = RemoveFirst(reg, j) /\ reg \in Seq(Iters)
  BY DEF IterFree, IInv
<1>2. ASSUME NEW i \in Iters
      PROVE  iter'[i].dir \in {iter[i].dir, NULL} /\ (i = j => ~Open(i)') /\ LostFairly(i)
  BY IterFreeLost
<1>3. ASSUME NEW i \in Iters, Open(i)' PROVE \E b \in 1 .. Len(reg') : reg'[b] = i
  <2>1. i # j /\ Open(i)
    BY <1>2, <1>3 DEF Open
  <2>2. PICK b \in 1 .. Len(reg) : reg[b] = i
    BY <2>1 DEF Registered
  <2> QED  BY <1>1, <2>1, <2>2, StaysListed
<1> QED  BY <1>2, <1>3 DEF Registered

\* Each call keeps the registry, and loses only iterators which share their
\* position or see it superseded.
LEMMA StepLost ==
  ASSUME IInv, Registered, [Next]_vars
  PROVE  Registered' /\ \A i \in Iters : LostFairly(i)
<1>1. ASSUME Fair PROVE Registered' /\ \A i \in Iters : LostFairly(i)
  BY <1>1, FairRegistered DEF Fair
<1>2. Dirs \subseteq Nodes
  BY NodeAssumption
<1>3. ASSUME NEW n \in Nodes, NodeUnref(n) PROVE Fair
  BY <1>3, NodeUnrefLost DEF Fair, NodeUnref
<1>4. ASSUME NEW n \in Nodes, NEW d \in Nodes, DirAdd(d, n) PROVE Fair
  BY <1>4, DirAddLost DEF Fair, DirAdd
<1>5. ASSUME NEW n \in Nodes, NEW d \in Nodes, NEW mode, DirReplace(d, n, mode) PROVE Fair
  BY <1>5, DirReplaceLost DEF Fair, DirReplace
<1>6. ASSUME NEW n \in Nodes, NEW name \in Names, NodeSetName(n, name) PROVE Fair
  BY <1>6, SetNameLost DEF Fair, NodeSetName
<1>7. ASSUME NEW n \in Nodes, NodeTake(n) PROVE Fair
  <2>1. /\ InTree(n) /\ Commit(Take([node |-> node, iter |-> iter], n), {}) /\ reg' = reg
    BY <1>7 DEF NodeTake, Now
  <2>2. iter \in [Iters -> IterRecs]
    BY DEF IInv
  <2> QED  BY <2>1, <2>2, TakeLost DEF Fair
<1>8. ASSUME NEW n \in Nodes, NodeRemove(n) PROVE Fair
  <2>1. PICK st : st = Take([node |-> node, iter |-> iter], n)
    OBVIOUS
  <2>2. InTree(n) /\ Commit([st EXCEPT !.node = Unref(@, n)], {}) /\ reg' = reg
    BY <1>8, <2>1 DEF NodeRemove, Now
  <2>3. iter \in [Iters -> IterRecs]
    BY DEF IInv
  <2> QED  BY <2>1, <2>2, <2>3, RemoveLost DEF Fair
<1>9. ASSUME NEW j \in Iters, IterTake(j) \/ IterRemove(j) PROVE Fair
  <2>1. PICK f \in [Iters -> IterRecs] : f = [iter EXCEPT ![j].flag = FALSE]
    BY FlagIs
  <2>2. /\ \A i \in Iters : /\ f[i].dir = iter[i].dir /\ f[i].pos = iter[i].pos
                            /\ f[i].due = iter[i].due /\ f[i].lost = iter[i].lost
        /\ Unflagged(j) = [node |-> node, iter |-> f]
    BY <2>1, FlagIs
  <2>3. PICK n \in Nodes : n = iter[j].pos
    <3>1. iter[j].pos # NULL /\ iter[j] \in IterRecs
      BY <1>9 DEF IterTake, IterRemove, IterMayTake, IInv
    <3> QED  BY <3>1 DEF IterRecs
  <2>4. CASE IterTake(j)
    <3>1. InTree(n) /\ Commit(Take([node |-> node, iter |-> f], n), {}) /\ reg' = reg
      BY <2>2, <2>3, <2>4 DEF IterTake
    <3> QED  BY <2>2, <3>1, TakeLost DEF Fair
  <2>5. CASE IterRemove(j)
    <3>1. PICK st : st = Take([node |-> node, iter |-> f], n)
      OBVIOUS
    <3>2. InTree(n) /\ Commit([st EXCEPT !.node = Unref(@, n)], {}) /\ reg' = reg
      BY <2>2, <2>3, <2>5, <3>1 DEF IterRemove
    <3> QED  BY <2>2, <3>1, <3>2, RemoveLost DEF Fair
  <2> QED  BY <1>9, <2>4, <2>5
<1>10. ASSUME UNCHANGED <<iter, reg>> PROVE Fair
  BY <1>10 DEF Fair, LostFairly
<1>11. ASSUME NEW n \in Nodes, NodeRef(n) \/ \E name \in Names : NewNode(n, name) PROVE Fair
  BY <1>10, <1>11 DEF NodeRef, NewNode
<1>12. ASSUME UNCHANGED vars PROVE Fair
  BY <1>10, <1>12 DEF vars
<1>13. ASSUME NEW j \in Iters, IterNext(j) \/ IterTakeFails(j) PROVE Fair
  BY <1>13, IterNextLost
<1>14. ASSUME NEW j \in Iters, NEW d \in Nodes, GetChildren(j, d)
       PROVE  Registered' /\ \A i \in Iters : LostFairly(i)
  BY <1>14, GetChildrenLost
<1>15. ASSUME NEW j \in Iters, IterFree(j)
       PROVE  Registered' /\ \A i \in Iters : LostFairly(i)
  BY <1>15, FreeRegistered
<1>16. CASE \E n \in Nodes :
              \/ NodeRef(n) \/ NodeUnref(n) \/ NodeTake(n) \/ NodeRemove(n)
              \/ \E name \in Names : NewNode(n, name) \/ NodeSetName(n, name)
              \/ \E d \in Dirs :
                   DirAdd(d, n) \/ \E mode \in ReplaceModes : DirReplace(d, n, mode)
  BY <1>1, <1>2, <1>3, <1>4, <1>5, <1>6, <1>7, <1>8, <1>11, <1>16
<1>17. CASE \E i \in Iters :
              \/ IterNext(i) \/ IterTakeFails(i) \/ IterTake(i) \/ IterRemove(i)
              \/ IterFree(i) \/ \E d \in Dirs : GetChildren(i, d)
  BY <1>1, <1>2, <1>9, <1>13, <1>14, <1>15, <1>17
<1>18. Next \/ UNCHANGED vars
  OBVIOUS
<1> QED  BY <1>1, <1>12, <1>16, <1>17, <1>18 DEF Next

\* iso_dir_iter_next() with all calls which change the list meanwhile: no
\* child is left out by an iterator which never stayed at a node that left,
\* and only those can stay there which share their position with a newer
\* iterator or see it superseded by a namesake (iter_notify_child_taken()).
THEOREM IterationMissesNone == Spec => IterationSound
<1> DEFINE LostStep == \A i \in Iters : LostFairly(i)
<1>1. IInv => IterationComplete
  BY DueAhead DEF IterationComplete
<1>2. Init => Registered
  BY NoIterIs DEF Init, Registered, Open
<1>3. IInv /\ Registered /\ [Next]_vars => Registered'
  BY StepLost
<1>4. IInv /\ Registered /\ [Next]_vars => [LostStep]_vars
  BY StepLost
<1>5. LostOnlyIfShared <=> [][LostStep]_vars
  <2>1. LostStep <=>
          \A i \in Iters : Open(i) /\ ~iter[i].lost /\ iter'[i].lost =>
            LET d == iter[i].dir
                p == iter[i].pos
            IN  \/ \E j \in Iters : NewerIter(j, i) /\ iter[j].dir = d /\ iter[j].pos = p
                \/ \E m \in Nodes : node[m].parent # d /\ node'[m].parent = d
                                    /\ node'[m].name = node[p].name
    BY DEF LostFairly, Shared, Superseded
  <2> QED  BY <2>1, PTL DEF LostOnlyIfShared
<1> QED  BY <1>1, <1>2, <1>3, <1>4, <1>5, TreeInvariant, PTL DEF Spec, IterationSound

=============================================================================
