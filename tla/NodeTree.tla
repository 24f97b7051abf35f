------------------------------- MODULE NodeTree -------------------------------
(***************************************************************************)
(* libisofs/node.c: the tree of IsoNode objects, their reference counts    *)
(* and the directory iterators.                                            *)
(*                                                                         *)
(* A new node is owned by the program.  Adding it to a directory hands     *)
(* that reference over to the directory, taking it out hands it back.  An  *)
(* iterator owns references to its directory and to its position.          *)
(*                                                                         *)
(* The list of children (children, next) is a sequence.  Names are         *)
(* numbers, in the order of strcmp().                                      *)
(***************************************************************************)
EXTENDS Integers, Sequences, FiniteSets, SequencesExt

CONSTANTS
  Nodes,      \* the memory objects which can hold an IsoNode
  Root,       \* the root directory
  Dirs,       \* those which are of type LIBISO_DIR
  MTime,      \* [Nodes -> modification time]
  Names,      \* node names
  Iters,      \* the memory objects which can hold an IsoDirIter
  NULL,
  MaxHeld     \* bound: references which the program owns to one node

ASSUME NodeAssumption ==
  /\ IsFiniteSet(Nodes) /\ IsFiniteSet(Iters) /\ Dirs \subseteq Nodes /\ Root \in Dirs
  /\ NULL \notin Nodes
  /\ MTime \in [Nodes -> Nat] /\ Names \subseteq Nat \ {0}
  /\ MaxHeld \in Nat \ {0}

VARIABLES
  node,   \* [Nodes -> struct Iso_Node or Iso_Dir]
  held,   \* [Nodes -> number of references which the program owns]
  iter,   \* [Iters -> IsoDirIter with its dir_iter_data], dir = NULL: unused
  reg     \* iter_reg: the registered iterators, newest first

vars == <<node, held, iter, reg>>

NoNode == [refcount |-> 0, name |-> 0, parent |-> NULL, children |-> <<>>,
           nchildren |-> 0]

\* due and lost are no part of the code.  due: the children which were there
\* when the iterator was made, have not left since, and were not yet returned.
\* lost: once since then, the iterator stayed at a node which left the directory.
NoIter == [dir |-> NULL, pos |-> NULL, flag |-> FALSE, due |-> {}, lost |-> FALSE]

\* iso_node_new_root(): the root is its own parent.
Init ==
  /\ node = [n \in Nodes |-> IF n = Root
                  THEN [NoNode EXCEPT !.refcount = 1, !.parent = Root]
                  ELSE NoNode]
  /\ held = [n \in Nodes |-> IF n = Root THEN 1 ELSE 0]
  /\ iter = [i \in Iters |-> NoIter]
  /\ reg = <<>>

Live(n) == node[n].refcount > 0
Open(i) == iter[i].dir # NULL
InTree(n) == node[n].parent \notin {NULL, n}

\* The program can pass n to the library.
Known(n) == held[n] > 0 \/ InTree(n)

-----------------------------------------------------------------------------
(* Functions of node.c, as operators on the memory h of the nodes, or on   *)
(* the record st of the memory of nodes and iterators.                     *)

Ref(h, n) == [h EXCEPT ![n].refcount = @ + 1]

\* The nodes freed with n: the least set which holds n and with each directory
\* those of its children which have no other owner.
FreedWith(h, n) ==
  {m \in Nodes : \A S \in SUBSET Nodes :
     (/\ n \in S
      /\ \A d \in S : \A c \in ToSet(h[d].children) : h[c].refcount = 1 => c \in S)
     => m \in S}

\* Mutant: freeing a directory forgets the children which live on.
UnrefNoOrphans(h, n) ==
  IF h[n].refcount > 1 THEN [h EXCEPT ![n].refcount = @ - 1]
  ELSE [m \in Nodes |-> IF m \in FreedWith(h, n) THEN NoNode ELSE h[m]]

\* iso_node_unref(): the last reference frees the node; a directory gives up
\* its children.
Unref(h, n) ==
  IF h[n].refcount > 1 THEN [h EXCEPT ![n].refcount = @ - 1]
  ELSE LET freed == FreedWith(h, n)
       IN  [m \in Nodes |->
              IF m \in freed THEN NoNode
              ELSE IF \E d \in freed : Contains(h[d].children, m)
              THEN [h[m] EXCEPT !.refcount = @ - 1, !.parent = NULL]
              ELSE h[m]]

\* Mutant: the position moves on to the node which gets the place.
NotifyToNext(st, i, n) ==
  LET d  == st.iter[i].dir
      ch == st.node[d].children
      k  == SelectInSeq(ch, LAMBDA m : m = n)
      h  == [Unref(st.node, n) EXCEPT ![d].children = RemoveFirst(ch, n)]
  IN  IF d = NULL \/ d # st.node[n].parent \/ st.iter[i].pos # n \/ k = 0
      THEN st
      ELSE IF k = Len(ch)
      THEN [node |-> h, iter |-> [st.iter EXCEPT ![i].pos = NULL]]
      ELSE [node |-> Ref(h, ch[k + 1]),
            iter |-> [st.iter EXCEPT ![i].pos = ch[k + 1]]]

\* iter_notify_child_taken(): an iterator at n steps back to the predecessor
\* and unlinks n.  It gives up, if another iterator has unlinked n already.
NotifyChildTaken(st, i, n) ==
  LET d  == st.iter[i].dir
      ch == st.node[d].children
      k  == SelectInSeq(ch, LAMBDA m : m = n)
      h  == [Unref(st.node, n) EXCEPT ![d].children = RemoveFirst(ch, n)]
  IN  IF d # st.node[n].parent \/ st.iter[i].pos # n \/ k = 0
      THEN st
      ELSE IF k = 1
      THEN [node |-> h, iter |-> [st.iter EXCEPT ![i].pos = NULL]]
      ELSE [node |-> Ref(h, ch[k - 1]),
            iter |-> [st.iter EXCEPT ![i].pos = ch[k - 1]]]

\* Mutant: only the newest iterator is notified.
TakeNotifyNewest(st, n) ==
  LET d  == st.node[n].parent
      s1 == IF reg = <<>> THEN st ELSE NotifyChildTaken(st, Head(reg), n)
  IN  [node |-> [s1.node EXCEPT ![d].children = RemoveFirst(@, n),
                                ![d].nchildren = @ - 1,
                                ![n].parent = NULL],
       iter |-> s1.iter]

\* iso_node_take() of a node with a parent: first all iterators of the
\* directory are notified, the newest first.
Take(st, n) ==
  LET d  == st.node[n].parent
      s1 == FoldLeft(LAMBDA s, i : NotifyChildTaken(s, i, n), st, reg)
  IN  [node |-> [s1.node EXCEPT ![d].children = RemoveFirst(@, n),
                                ![d].nchildren = @ - 1,
                                ![n].parent = NULL],
       iter |-> s1.iter]

\* iso_dir_find(): index of the first child which is not less than name.
DirFind(h, d, name) ==
  LET k == SelectInSeq(h[d].children, LAMBDA m : ~(h[m].name < name))
  IN  IF k = 0 THEN Len(h[d].children) + 1 ELSE k

\* iso_dir_exists(): the children by that name, at most one.
DirExists(h, d, name) ==
  LET k == DirFind(h, d, name)
  IN  k =< Len(h[d].children) /\ h[h[d].children[k]].name = name

Newer(n, old) == MTime[n] > MTime[old]
SameType(n, old) == n \in Dirs <=> old \in Dirs

\* enum iso_replace_mode: may n replace its namesake old ?
MayReplace(mode, n, old) ==
  CASE mode = "never"               -> FALSE
    [] mode = "ifNewer"             -> Newer(n, old)
    [] mode = "ifSameTypeAndNewer"  -> Newer(n, old) /\ SameType(n, old)
    [] mode = "ifSameType"          -> SameType(n, old)
    [] mode = "always"              -> TRUE

ReplaceModes == {"never", "ifNewer", "ifSameTypeAndNewer", "ifSameType",
                 "always"}

\* Mutant: the counter of children stays behind.
InsertUncounted(h, d, n) ==
  [h EXCEPT ![d].children = InsertAt(@, DirFind(h, d, h[n].name), n),
            ![n].parent = d]

\* iso_dir_insert() where no child has the name of n.
Insert(h, d, n) ==
  [h EXCEPT ![d].children = InsertAt(@, DirFind(h, d, h[n].name), n),
            ![d].nchildren = @ + 1,
            ![n].parent = d]

\* Mutant: the replaced node still believes to be a child.
ReplaceKeepParent(h, d, n) ==
  LET k   == DirFind(h, d, h[n].name)
      old == h[d].children[k]
  IN  [Unref(h, old) EXCEPT ![d].children = ReplaceAt(@, k, n), ![n].parent = d]

\* iso_dir_insert() where n takes the place of its namesake, which loses its
\* parent and the reference of the directory.
Replace(h, d, n) ==
  LET k   == DirFind(h, d, h[n].name)
      old == h[d].children[k]
      h1  == [h EXCEPT ![old].parent = NULL]
  IN  [Unref(h1, old) EXCEPT ![d].children = ReplaceAt(@, k, n),
                             ![n].parent = d]

-----------------------------------------------------------------------------
(* The calls of the program.                                               *)

Now == [node |-> node, iter |-> iter]

\* The position of the iterator is no child any more: the next call of
\* iso_dir_iter_next() will report ISO_ERROR.
Stranded(st, i) ==
  LET p == st.iter[i].pos IN p # NULL /\ st.node[p].parent # st.iter[i].dir

\* Store the outcome of a call.  The nodes of set left left their directory
\* for a moment, even if they are back now.  An iterator which still stands
\* at such a node will go on from the new place of that node.
Commit(st, left) ==
  /\ node' = st.node
  /\ iter' = [i \in Iters |->
       [st.iter[i] EXCEPT
          !.due = {n \in @ \ left : st.node[n].parent = st.iter[i].dir},
          !.lost = @ \/ Stranded(st, i) \/ st.iter[i].pos \in left]]

CommitNodes(h) == Commit([node |-> h, iter |-> iter], {})

\* The directories which contain n, and n itself: the least set which holds n
\* and the parents of its members.
Above(n) ==
  {m \in Nodes : \A S \in SUBSET Nodes :
     (n \in S /\ \A k \in S : node[k].parent \in S \cup {NULL}) => m \in S}

\* iso_node_new_dir(), iso_node_new_file(), ...
NewNode(n, name) ==
  /\ ~Live(n) /\ n # Root
  /\ node' = [node EXCEPT ![n] = [NoNode EXCEPT !.refcount = 1, !.name = name]]
  /\ held' = [held EXCEPT ![n] = 1]
  /\ UNCHANGED <<iter, reg>>

NodeRef(n) ==
  /\ Known(n) /\ held[n] < MaxHeld
  /\ node' = Ref(node, n)
  /\ held' = [held EXCEPT ![n] = @ + 1]
  /\ UNCHANGED <<iter, reg>>

\* With n = Root: the end of the image.
NodeUnref(n) ==
  /\ held[n] > 0
  /\ CommitNodes(Unref(node, n))
  /\ held' = [held EXCEPT ![n] = @ - 1]
  /\ UNCHANGED reg

\* iso_dir_add_node() gets a node of the program without parent.  A directory
\* never gets added below itself.
MayAdd(d, n) == /\ held[n] > 0 /\ node[n].parent = NULL
                /\ Known(d) /\ n \notin Above(d)

DirAdd(d, n) ==
  /\ MayAdd(d, n)
  /\ ~DirExists(node, d, node[n].name)
  /\ CommitNodes(Insert(node, d, n))
  /\ held' = [held EXCEPT ![n] = @ - 1]
  /\ UNCHANGED reg

DirReplace(d, n, mode) ==
  /\ MayAdd(d, n)
  /\ DirExists(node, d, node[n].name)
  /\ MayReplace(mode, n, node[d].children[DirFind(node, d, node[n].name)])
  /\ CommitNodes(Replace(node, d, n))
  /\ held' = [held EXCEPT ![n] = @ - 1]
  /\ UNCHANGED reg

\* iso_node_take()
NodeTake(n) ==
  /\ InTree(n) /\ held[n] < MaxHeld
  /\ Commit(Take(Now, n), {})
  /\ held' = [held EXCEPT ![n] = @ + 1]
  /\ UNCHANGED reg

\* iso_node_remove()
NodeRemove(n) ==
  /\ InTree(n)
  /\ LET st == Take(Now, n)
     IN  Commit([st EXCEPT !.node = Unref(@, n)], {})
  /\ UNCHANGED <<held, reg>>

\* iso_node_set_name(): take and add again to keep the children sorted.
NodeSetName(n, name) ==
  /\ Known(n) /\ n # Root
  /\ IF node[n].parent = NULL
     THEN CommitNodes([node EXCEPT ![n].name = name])
     ELSE /\ ~DirExists(node, node[n].parent, name)
          /\ LET st == Take([Now EXCEPT !.node[n].name = name], n)
             IN  Commit([st EXCEPT !.node = Insert(@, node[n].parent, n)], {n})
  /\ UNCHANGED <<held, reg>>

-----------------------------------------------------------------------------
(* Directory iterators.                                                    *)

\* iso_dir_get_children()
GetChildren(i, d) ==
  /\ ~Open(i) /\ d \in Dirs /\ Known(d)
  /\ iter' = [iter EXCEPT ![i] = [NoIter EXCEPT !.dir = d,
                                  !.due = ToSet(node[d].children)]]
  /\ reg' = <<i>> \o reg
  /\ node' = Ref(node, d)
  /\ UNCHANGED held

\* The child after the position: NULL at the end of the list.
Successor(i) ==
  LET ch == node[iter[i].dir].children
      k  == SelectInSeq(ch, LAMBDA m : m = iter[i].pos)
  IN  IF k < Len(ch) THEN ch[k + 1] ELSE NULL

\* Mutant: the new position does not get a reference.
IterNextNoRef(i) ==
  /\ Open(i)
  /\ LET next == IF Stranded(Now, i) THEN NULL ELSE Successor(i)
     IN  IF next = NULL
         THEN /\ iter' = [iter EXCEPT ![i].flag = FALSE]
              /\ UNCHANGED node
         ELSE /\ iter' = [iter EXCEPT ![i].flag = TRUE, ![i].pos = next,
                                      ![i].due = @ \ {next}]
              /\ node' = IF iter[i].pos = NULL THEN node
                                               ELSE Unref(node, iter[i].pos)
  /\ UNCHANGED <<held, reg>>

\* iso_dir_iter_next(): ISO_ERROR if the position was lost, 0 at the end of
\* the list, else the reference moves from the old to the new position.
IterNext(i) ==
  /\ Open(i)
  /\ LET next == IF Stranded(Now, i) THEN NULL ELSE Successor(i)
     IN  IF next = NULL
         THEN /\ iter' = [iter EXCEPT ![i].flag = FALSE]
              /\ UNCHANGED node
         ELSE /\ iter' = [iter EXCEPT ![i].flag = TRUE, ![i].pos = next,
                                      ![i].due = @ \ {next}]
              /\ node' = Ref(IF iter[i].pos = NULL THEN node
                             ELSE Unref(node, iter[i].pos), next)
  /\ UNCHANGED <<held, reg>>

\* The flag permits one take or remove per next.  Without position the call
\* returns ISO_ASSERT_FAILURE.
IterMayTake(i) == Open(i) /\ iter[i].flag /\ iter[i].pos # NULL

Unflagged(i) == [Now EXCEPT !.iter[i].flag = FALSE]

\* iso_dir_iter_take() and iso_dir_iter_remove() with a position which has no
\* parent any more.
IterTakeFails(i) ==
  /\ IterMayTake(i) /\ node[iter[i].pos].parent = NULL
  /\ iter' = [iter EXCEPT ![i].flag = FALSE]
  /\ UNCHANGED <<node, held, reg>>

IterTake(i) ==
  LET n == iter[i].pos
  IN  /\ IterMayTake(i) /\ InTree(n) /\ held[n] < MaxHeld
      /\ Commit(Take(Unflagged(i), n), {})
      /\ held' = [held EXCEPT ![n] = @ + 1]
      /\ UNCHANGED reg

IterRemove(i) ==
  LET n == iter[i].pos
  IN  /\ IterMayTake(i) /\ InTree(n)
      /\ LET st == Take(Unflagged(i), n)
         IN  Commit([st EXCEPT !.node = Unref(@, n)], {})
      /\ UNCHANGED <<held, reg>>

\* iso_dir_iter_free(): the references to position and directory, in this
\* order.
IterFree(i) ==
  /\ Open(i)
  /\ LET h == IF iter[i].pos = NULL THEN node ELSE Unref(node, iter[i].pos)
     IN  Commit([node |-> Unref(h, iter[i].dir),
                 iter |-> [iter EXCEPT ![i] = NoIter]], {})
  /\ reg' = RemoveFirst(reg, i)
  /\ UNCHANGED held

-----------------------------------------------------------------------------
Next ==
  \/ \E n \in Nodes :
       \/ NodeRef(n) \/ NodeUnref(n) \/ NodeTake(n) \/ NodeRemove(n)
       \/ \E name \in Names : NewNode(n, name) \/ NodeSetName(n, name)
       \/ \E d \in Dirs :
            DirAdd(d, n) \/ \E mode \in ReplaceModes : DirReplace(d, n, mode)
  \/ \E i \in Iters :
       \/ IterNext(i) \/ IterTakeFails(i) \/ IterTake(i) \/ IterRemove(i)
       \/ IterFree(i) \/ \E d \in Dirs : GetChildren(i, d)

Spec == Init /\ [][Next]_vars

-----------------------------------------------------------------------------
(* Properties.                                                             *)

\* Nodes, references of the program, iterators and their registry keep their
\* types; no reference count falls below zero.
TypeOK ==
  /\ node \in [Nodes -> [refcount : Nat, name : Names \cup {0},
                         parent : Nodes \cup {NULL}, children : Seq(Nodes),
                         nchildren : Nat]]
  /\ held \in [Nodes -> 0 .. MaxHeld]
  /\ iter \in [Iters -> [dir : Nodes \cup {NULL}, pos : Nodes \cup {NULL},
                         flag : BOOLEAN, due : SUBSET Nodes, lost : BOOLEAN]]
  /\ reg \in Seq(Iters)

Count(b) == IF b THEN 1 ELSE 0

\* Every reference has an owner: the program, the directory, the iterators
\* which stand at the node or walk through it.  No node is freed while
\* somebody owns it and none is left over without an owner.
RefcountExact ==
  \A n \in Nodes :
    node[n].refcount = held[n] + Count(InTree(n))
      + Cardinality({i \in Iters : iter[i].pos = n})
      + Cardinality({i \in Iters : iter[i].dir = n})

\* The two directions of the tree agree, the counter is right, and the list
\* is strictly sorted, so that no directory holds a name twice.
TreeConsistent ==
  \A d \in Nodes :
    LET ch == node[d].children
    IN  /\ node[d].nchildren = Len(ch)
        /\ \A n \in Nodes : n # Root => (Contains(ch, n) <=> node[n].parent = d)
        /\ \A j, k \in 1 .. Len(ch) : j < k => node[ch[j]].name < node[ch[k]].name
        /\ ch # <<>> => Live(d)

\* The children which the iterator will still return if nothing changes.
Ahead(i) ==
  LET ch == node[iter[i].dir].children
      k  == SelectInSeq(ch, LAMBDA m : m = iter[i].pos)
  IN  {ch[j] : j \in k + 1 .. Len(ch)}

\* An iteration leaves out no child which stays in the directory all the
\* time, whatever gets added, taken, replaced or renamed meanwhile by the
\* program or by other iterators, if the iterator never stayed at a node which
\* left the directory (iter_next(), iter_notify_child_taken()).
IterationComplete ==
  \A i \in Iters : Open(i) /\ ~iter[i].lost => iter[i].due \subseteq Ahead(i)

\* j was registered after i and is notified before i.
NewerIter(j, i) == \E a, b \in DOMAIN reg : a < b /\ reg[a] = j /\ reg[b] = i

\* iter_notify_child_taken() moves an iterator off a node which gets taken,
\* removed or renamed, unless a newer iterator stands there, too.  So an
\* iterator which is the only one at its position stays at a node which leaves
\* the directory only if iso_dir_insert() puts a namesake in its place.
LostOnlyIfShared ==
  [][\A i \in Iters : Open(i) /\ ~iter[i].lost /\ iter'[i].lost =>
       LET d == iter[i].dir
           p == iter[i].pos
       IN  \/ \E j \in Iters : NewerIter(j, i) /\ iter[j].dir = d /\ iter[j].pos = p
           \/ \E m \in Nodes : node[m].parent # d /\ node'[m].parent = d
                                /\ node'[m].name = node[p].name]_vars

\* The caller of iso_dir_iter_next() gets all that stays, and which callers
\* cannot rely on that is told: only those who share a position, or who see it
\* replaced (iter_next(), iso_notify_dir_iters(), iter_notify_child_taken()).
IterationSound == []IterationComplete /\ LostOnlyIfShared

\* "0 if dir has no more elements, < 0 error: ISO_ERROR, on wrong iter usage,
\* usual caused by modiying the dir during iteration": an iterator which will
\* not report ISO_ERROR leaves out no child which stays.  Two iterators at one
\* node which gets renamed refute that: the older one stays at the node, goes
\* on from its new place, and skips the children between (iter_next()).
SkipsAreReported ==
  \A i \in Iters : Open(i) /\ ~Stranded(Now, i) => iter[i].due \subseteq Ahead(i)
=============================================================================
