------------------------------- MODULE HfsTree -------------------------------
(***************************************************************************)
(* The HFS+ catalog (hfsplus.c).  Each node of the image yields two leafs: *)
(* its record, keyed by the id of the parent directory and the case folded *)
(* name, and its thread record, keyed by its own id and no name.  Equal    *)
(* keys are resolved by renaming, the symbolic links follow the new names, *)
(* and the sorted leafs are packed into the nodes of a B-tree.             *)
(*                                                                         *)
(* The image hfIn has the form of LowTree's images, with link targets      *)
(* dest[x] = [abs, comps].  Names use the characters of Mangle; Star       *)
(* stands for the characters that HFS+ ignores in comparisons.             *)
(***************************************************************************)
EXTENDS Mangle, SequencesExt

CONSTANTS HfsNameMax,   \* LIBISO_HFSPLUS_NAME_MAX (255)
          CommonSize,   \* key and thread or directory record without the name
          ForkSize,     \* what a file record has in addition
          NodeRoom,     \* bytes for records in a node, including their offsets
          BlockFac,     \* HFS+ blocks per ISO block
          MaxLink,      \* LIBISO_MAX_LINK_DEPTH
          HfInputs      \* images

VARIABLES hfPc, hfIn,
          hfLeafs,   \* hfsp_leafs
          hfLevels,  \* hfsp_levels, the leaf level first
          hfPos      \* prev and i of mangle_leafs(); later positions of the parts

hfVars == <<hfPc, hfIn, hfLeafs, hfLevels, hfPos>>

HfInit == /\ hfPc = "start" /\ hfIn = [n |-> 0] /\ hfLeafs = <<>>
          /\ hfLevels = <<>> /\ hfPos = <<>>

-----------------------------------------------------------------------------
(* Leafs.                                                                  *)

\* The name for comparisons: case folded, without ignored characters
iso_hfsplus_cichar(c) == IF c = Upper THEN Lower ELSE c

iso_get_hfsplus_name(s) ==
  [name |-> s,
   key |-> SelectSeq([i \in DOMAIN s |-> iso_hfsplus_cichar(s[i])], LAMBDA c : c # Star)]

RECURSIVE OnHfs(_, _)
OnHfs(t, x) == /\ "hfsplus" \notin t.hide[x]
               /\ t.type[x] # "boot"
               /\ x # 1 => OnHfs(t, t.par[x])

hfsplus_count_tree(t) == Cardinality({x \in 1..t.n : OnHfs(t, x)})

UsedSize(name, file) == 2 * Len(name) + CommonSize + (IF file THEN ForkSize ELSE 0)

\* The record of node x and its thread record
LeafPair(t, x, cat, parent) ==
  LET file == t.type[x] # "dir"
      nm   == iso_get_hfsplus_name(t.name[x])
  IN  << [node |-> x, thread |-> FALSE, parent |-> parent, cat |-> cat,
          name |-> nm.name, key |-> nm.key, used |-> UsedSize(t.name[x], file),
          nch |-> Cardinality({y \in 2..t.n : t.par[y] = x /\ OnHfs(t, y)}),
          dest |-> IF t.type[x] = "symlink" THEN t.dest[x].comps ELSE <<>>],
         [node |-> x, thread |-> TRUE, parent |-> cat, cat |-> parent,
          name |-> nm.name, key |-> <<>>, used |-> UsedSize(t.name[x], FALSE),
          nch |-> 0, dest |-> <<>>] >>

\* Catalog ids: 2 for the root, the others from 16 on in the order of traversal
CatId(t, x) == IF x = 1 THEN 2
               ELSE 16 + Cardinality({y \in 2..(x - 1) : OnHfs(t, y)})

create_tree(t) ==
  FoldLeft(LAMBDA acc, x :
             IF OnHfs(t, x)
             THEN acc \o LeafPair(t, x, CatId(t, x), IF x = 1 THEN 1 ELSE CatId(t, t.par[x]))
             ELSE acc,
           <<>>, [i \in 1..t.n |-> i])

\* cmp_node() < 0
cmp_node(f, g) ==
  \/ f.parent < g.parent
  \/ f.parent = g.parent /\ Before(f.key, g.key)

SameKey(f, g) == ~cmp_node(f, g) /\ ~cmp_node(g, f)

-----------------------------------------------------------------------------
(* Following of symbolic links in the image: t with names nm and targets   *)
(* dst, where the root directory is its own parent.  The result is         *)
(* [node, depth], node 0 if the link is dead or deep.                      *)

Child(t, nm, dir, comp) == {y \in 2..t.n : t.par[y] = dir /\ nm[y] = comp}

RECURSIVE ResolveFrom(_, _, _, _, _, _, _)

ResolveFrom(t, nm, dst, dir, comps, k, depth) ==
  IF k > Len(comps) THEN [node |-> dir, depth |-> depth]
  ELSE IF comps[k] = <<Dot>> THEN ResolveFrom(t, nm, dst, dir, comps, k + 1, depth)
  ELSE IF comps[k] = <<Dot, Dot>>
  THEN ResolveFrom(t, nm, dst, t.par[dir], comps, k + 1, depth)
  ELSE LET c == Child(t, nm, dir, comps[k])
           y == CHOOSE z \in c : TRUE
           l == ResolveFrom(t, nm, dst, IF dst[y].abs THEN 1 ELSE t.par[y],
                            dst[y].comps, 1, depth + 1)
           r == IF t.type[y] # "symlink" THEN [node |-> y, depth |-> depth]
                ELSE IF depth >= MaxLink THEN [node |-> 0, depth |-> depth] ELSE l
       IN  IF c = {} THEN [node |-> 0, depth |-> depth]
           ELSE IF r.node = 0 THEN r
           ELSE IF t.type[r.node] = "dir"
                THEN ResolveFrom(t, nm, dst, r.node, comps, k + 1, r.depth)
           ELSE [r EXCEPT !.node = IF k < Len(comps) THEN 0 ELSE r.node]

iso_tree_resolve_symlink(t, nm, dst, x, depth) ==
  ResolveFrom(t, nm, dst, IF dst[x].abs THEN 1 ELSE t.par[x], dst[x].comps, 1, depth)

RECURSIVE UpdateFrom(_, _, _, _, _, _, _)

\* The target path is followed by the names of the image; where it passes the
\* renamed node, the component of the HFS+ path gets replaced
UpdateFrom(t, x, new, dest, dir, k, depth) ==
  LET comps == t.dest[x].comps IN
  IF k > Len(comps) THEN dest
  ELSE IF comps[k] = <<Dot>> THEN UpdateFrom(t, x, new, dest, dir, k + 1, depth)
  ELSE IF comps[k] = <<Dot, Dot>>
  THEN UpdateFrom(t, x, new, dest, t.par[dir], k + 1, depth)
  ELSE LET c == Child(t, t.name, dir, comps[k])
           y == CHOOSE z \in c : TRUE
           d == IF y = new.node THEN [dest EXCEPT ![k] = new.name] ELSE dest
           r == iso_tree_resolve_symlink(t, t.name, t.dest, y, depth + 1)
       IN  IF c = {} THEN dest
           ELSE IF t.type[y] = "dir" THEN UpdateFrom(t, x, new, d, y, k + 1, depth)
           ELSE IF t.type[y] # "symlink" \/ depth >= MaxLink THEN d
           ELSE IF r.node = 0 THEN d
           ELSE IF t.type[r.node] # "dir" THEN d
           ELSE UpdateFrom(t, x, new, d, r.node, k + 1, r.depth)

update_symlink(t, x, new, dest) ==
  UpdateFrom(t, x, new, dest, IF t.dest[x].abs THEN 1 ELSE t.par[x], 1, 0)

-----------------------------------------------------------------------------
(* Renaming of leafs with equal keys.                                      *)

Mangleable(f) == ~f.thread /\ f.node # 1

\* The place which leaf idx has to take between start and end, 0 if one of these
\* has the same key
search_mangled_pos(L, idx, start, end) ==
  LET hit == {j \in start..end : ~L[j].thread /\ j # idx /\ ~cmp_node(L[j], L[idx])}
      j   == CHOOSE k \in hit : \A m \in hit : k <= m
  IN  IF hit = {} THEN end
      ELSE IF SameKey(L[j], L[idx]) THEN 0
      ELSE IF j <= idx THEN j ELSE j - 1

rotate_hfs_list(L, old, new) == InsertAt(RemoveAt(L, old), new, L[old])

\* Mutant for update_name_followers: the symbolic links are forgotten
ThreadsOnly(t, L, new, old) ==
  [i \in DOMAIN L |->
     IF L[i].node = new.node
     THEN [L[i] EXCEPT !.name = new.name, !.used = @ + 2 * (Len(new.name) - old)]
     ELSE L[i]]

\* The thread record shares the name, the symbolic links lead to it
update_name_followers(t, L, new, old) ==
  [i \in DOMAIN L |->
     IF L[i].node = new.node
     THEN [L[i] EXCEPT !.name = new.name, !.used = @ + 2 * (Len(new.name) - old),
                       !.dest = IF t.type[new.node] = "symlink" /\ ~L[i].thread
                                THEN update_symlink(t, new.node, new, L[i].dest) ELSE @]
     ELSE IF t.type[L[i].node] = "symlink" /\ ~L[i].thread
     THEN [L[i] EXCEPT !.dest = update_symlink(t, L[i].node, new, @)]
     ELSE L[i]]

RECURSIVE Hex(_)
Hex(n) == IF n < Base THEN <<Digit(n)>> ELSE Hex(n \div Base) \o <<Digit(n % Base)>>

RECURSIVE TryFrom(_, _, _, _, _, _, _)

\* Names prefix_, prefix_0, prefix_1, ... until one is free: [L, pos], pos = 0 if
\* the name becomes too long
TryFrom(t, L, idx, start, end, prefix, n) ==
  LET name == prefix \o <<Under>> \o (IF n < 0 THEN <<>> ELSE Hex(n))
      nm   == iso_get_hfsplus_name(name)
      L2   == [L EXCEPT ![idx].key = nm.key]
      pos  == search_mangled_pos(L2, idx, start, end)
  IN  IF Len(name) > HfsNameMax THEN [L |-> L, pos |-> 0]
      ELSE IF pos = 0 THEN TryFrom(t, L, idx, start, end, prefix, n + 1)
      ELSE [L |-> update_name_followers(t, rotate_hfs_list(L2, idx, pos),
                    [node |-> L[idx].node, name |-> name], Len(L[idx].name)),
            pos |-> pos]

try_mangle(t, L, idx, start, end, prefix) == TryFrom(t, L, idx, start, end, prefix, -1)

MangledPrefix == <<Upper>>   \* "MANGLED"

RECURSIVE NextCollision(_, _, _)

\* The next leaf from i on that has the key of the previous one: <<prev, i>>.  Thread
\* records and the root directory do not count.
NextCollision(L, prev, i) ==
  IF i > Len(L) THEN <<prev, i>>
  ELSE IF ~Mangleable(L[i]) THEN NextCollision(L, prev, i + 1)
  ELSE IF prev = 0 THEN NextCollision(L, i, i + 1)
  ELSE IF ~SameKey(L[prev], L[i]) THEN NextCollision(L, i, i + 1)
  ELSE <<prev, i>>

\* The name of the node is tried first, then a neutral one
Renamed(t, L, i, first) ==
  IF first.pos # 0 THEN first ELSE try_mangle(t, L, i, 1, Len(L), MangledPrefix)

SortLeafs(L) == SortSeq(L, cmp_node)

HfCreate ==
  /\ hfPc = "start"
  /\ \E t \in HfInputs :
       /\ hfIn' = t
       /\ hfLeafs' = SortLeafs(create_tree(t))
  /\ hfPos' = <<0, 1>>
  /\ hfPc' = "created"
  /\ UNCHANGED hfLevels

\* mangle_leafs() resolves one collision.  A leaf that moved behind i makes room for
\* one that is not yet examined.
MangleLeaf ==
  /\ hfPc = "created"
  /\ \E c \in {NextCollision(hfLeafs, hfPos[1], hfPos[2])} :
       /\ c[2] <= Len(hfLeafs)
       /\ \E r \in {Renamed(hfIn, hfLeafs, c[2],
                            try_mangle(hfIn, hfLeafs, c[2], c[2] + 1, Len(hfLeafs),
                                       hfIn.name[hfLeafs[c[2]].node]))} :
            /\ hfLeafs' = r.L
            /\ hfPos' = IF r.pos > c[2] THEN c ELSE <<c[2], c[2] + 1>>
  /\ UNCHANGED <<hfPc, hfIn, hfLevels>>

\* mangle_leafs() ends, with sorted leafs
MangleDone ==
  /\ hfPc = "created"
  /\ NextCollision(hfLeafs, hfPos[1], hfPos[2])[2] > Len(hfLeafs)
  /\ hfLeafs' = SortLeafs(hfLeafs)
  /\ hfPc' = "mangled"
  /\ UNCHANGED <<hfIn, hfLevels, hfPos>>

-----------------------------------------------------------------------------
(* The B-tree: a node is [start, cnt, key, parent], where key and parent   *)
(* are those of its first entry.                                           *)

\* Mutant for Pack: a node is full only when the next record is too large
PackLoose(sizes) ==
  FoldLeft(LAMBDA s, i :
             IF s.rem < 0
             THEN [rem |-> NodeRoom - sizes[i], starts |-> Append(s.starts, i)]
             ELSE [s EXCEPT !.rem = @ - sizes[i]],
           [rem |-> NodeRoom, starts |-> <<1>>], [i \in DOMAIN sizes |-> i]).starts

\* Where the nodes start when records of these sizes are put into them
Pack(sizes) ==
  FoldLeft(LAMBDA s, i :
             IF s.rem < sizes[i]
             THEN [rem |-> NodeRoom - sizes[i], starts |-> Append(s.starts, i)]
             ELSE [s EXCEPT !.rem = @ - sizes[i]],
           [rem |-> NodeRoom, starts |-> <<1>>], [i \in DOMAIN sizes |-> i]).starts

BtNodes(starts, entries) ==
  [j \in DOMAIN starts |->
     [start |-> starts[j],
      cnt |-> (IF j < Len(starts) THEN starts[j + 1] ELSE Len(entries) + 1) - starts[j],
      key |-> entries[starts[j]].key, parent |-> entries[starts[j]].parent,
      klen |-> entries[starts[j]].klen]]

LeafEntries(L) ==
  [i \in DOMAIN L |-> [key |-> L[i].key, parent |-> L[i].parent,
                       klen |-> IF L[i].thread THEN 0 ELSE Len(L[i].name)]]

LeafLevel(L) == BtNodes(Pack([i \in DOMAIN L |-> L[i].used]), LeafEntries(L))

\* A key, its length, the number of the node and the offset
IndexSizes(nodes) == [i \in DOMAIN nodes |-> 2 * nodes[i].klen + 14]

RECURSIVE IndexLevels(_)
IndexLevels(nodes) ==
  IF Len(nodes) <= 1 THEN <<nodes>>
  ELSE <<nodes>> \o IndexLevels(BtNodes(Pack(IndexSizes(nodes)), nodes))

\* Last part of hfsplus_writer_create()
hfsplus_writer_create ==
  /\ hfPc = "mangled"
  /\ hfLevels' = IndexLevels(LeafLevel(hfLeafs))
  /\ hfPc' = "packed"
  /\ UNCHANGED <<hfIn, hfLeafs, hfPos>>

NodeCount(levels) == 1 + FoldLeft(LAMBDA s, l : s + Len(l), 0, levels)

\* in HFS+ blocks: a path component is one, which is the smallest size of a link
LinkBlocks(L) == FoldLeft(LAMBDA s, f : s + Len(f.dest), 0, L)

RoundUp(n) == ((n + BlockFac - 1) \div BlockFac) * BlockFac

hfsplus_writer_compute_data_blocks ==
  /\ hfPc = "packed"
  /\ \E start \in {BlockFac * 3} :
       LET cat == start + BlockFac
           ext == cat + 2 * NodeCount(hfLevels)
           lnk == ext + 1
       IN  hfPos' = [start |-> start, cat |-> cat, ext |-> ext, link |-> lnk,
                     end |-> RoundUp(lnk + LinkBlocks(hfLeafs))]
  /\ hfPc' = "computed"
  /\ UNCHANGED <<hfIn, hfLeafs, hfLevels>>

\* Number of the first node of a level in the file: the header node is 0, the root
\* of the tree 1, the levels follow from the top to the leafs
RECURSIVE FirstNode(_, _)
FirstNode(levels, l) ==
  IF l = Len(levels) THEN 1 ELSE FirstNode(levels, l + 1) + Len(levels[l + 1])

\* Bytes written for a leaf: the key, then the thread record, or the common part and
\* the two forks of a file.  The key of a thread record has no name, its data have.
Written(t, f) ==
  CASE f.thread -> CommonSize + 2 * Len(f.name)
    [] ~f.thread /\ t.type[f.node] = "dir" -> 2 * Len(f.name) + CommonSize
    [] OTHER -> 2 * Len(f.name) + CommonSize + ForkSize

\* What is written: superblock, header node, the levels from the top, extents
\* file, links, padding.  The position of each part as the bytes come.
hfsplus_writer_write_data ==
  /\ hfPc = "computed"
  /\ hfPos' = [start |-> hfPos.start, cat |-> hfPos.start + BlockFac,
               ext |-> hfPos.start + BlockFac
                       + 2 * (FirstNode(hfLevels, 1) + Len(hfLevels[1])),
               link |-> hfPos.start + BlockFac
                        + 2 * (FirstNode(hfLevels, 1) + Len(hfLevels[1])) + 1,
               end |-> RoundUp(hfPos.start + BlockFac + 1 + LinkBlocks(hfLeafs)
                               + 2 * (FirstNode(hfLevels, 1) + Len(hfLevels[1])))]
  /\ hfPc' = IF hfPos' = hfPos THEN "done" ELSE "displaced"
  /\ UNCHANGED <<hfIn, hfLeafs, hfLevels>>

HfNext == HfCreate \/ MangleLeaf \/ MangleDone \/ hfsplus_writer_create
          \/ hfsplus_writer_compute_data_blocks \/ hfsplus_writer_write_data

-----------------------------------------------------------------------------
(* Properties.                                                             *)

RECURSIVE Search(_, _, _)

\* The leaf node where a reader of the B-tree looks for a key: in each node the
\* last entry that is not after the key; pointers are next_lev + curnode
Search(l, j, f) ==
  IF l = 1 THEN j
  ELSE LET nd == hfLevels[l][j]
           ok == {i \in nd.start..(nd.start + nd.cnt - 1) :
                    ~cmp_node(f, hfLevels[l - 1][i])}
           i  == IF ok = {} THEN nd.start ELSE CHOOSE x \in ok : \A y \in ok : y <= x
       IN  Search(l - 1, i, f)

\* After mangling, each record of the HFS+ catalog has a key of its own, the keys
\* are sorted, and a search from the root of the B-tree leads to the node which
\* holds the record.  No node holds more than fits, the recorded sizes are those
\* of the final names, which are not too long, and the parts are at the
\* computed positions.  (create_tree(), mangle_leafs(), try_mangle(),
\* hfsplus_writer_create())
HfsCatalogSound ==
  /\ hfPc = "packed" =>
      /\ Len(hfLeafs) = 2 * hfsplus_count_tree(hfIn)
      /\ \A i \in 1..(Len(hfLeafs) - 1) : cmp_node(hfLeafs[i], hfLeafs[i + 1])
      /\ \A i \in DOMAIN hfLeafs :
           /\ Len(hfLeafs[i].name) <= HfsNameMax
           /\ hfLeafs[i].used = Written(hfIn, hfLeafs[i])
           /\ LET nd == hfLevels[1][Search(Len(hfLevels), 1, hfLeafs[i])] IN
              i \in nd.start..(nd.start + nd.cnt - 1)
      /\ \A j \in DOMAIN hfLevels[1] :
           LET nd == hfLevels[1][j] IN
           FoldLeft(LAMBDA s, i : s + Written(hfIn, hfLeafs[i]), 0,
                    [k \in 1..nd.cnt |-> nd.start + k - 1]) <= NodeRoom
  /\ hfPc # "displaced"

HfsName(x) ==
  LET i == {k \in DOMAIN hfLeafs : hfLeafs[k].node = x /\ ~hfLeafs[k].thread} IN
  IF i = {} THEN NoName ELSE hfLeafs[CHOOSE k \in i : TRUE].key

Folded(comps) == [i \in DOMAIN comps |->
                    IF comps[i] \in {<<Dot>>, <<Dot, Dot>>} THEN comps[i]
                    ELSE iso_get_hfsplus_name(comps[i]).key]

HfsDest(x) ==
  LET i == {k \in DOMAIN hfLeafs : hfLeafs[k].node = x /\ ~hfLeafs[k].thread} IN
  [abs |-> hfIn.dest[x].abs,
   comps |-> IF i = {} THEN <<>> ELSE Folded(hfLeafs[CHOOSE k \in i : TRUE].dest)]

\* A symbolic link that leads to a node by the names of the image leads to the
\* same node by the names of the HFS+ tree, however many of the directories and
\* links on its way got renamed, as far as the HFS+ tree has them.
\* (update_symlink(), update_name_followers())
HfsLinksFollow ==
  hfPc = "mangled" =>
    LET orig == [x \in 1..hfIn.n |-> IF OnHfs(hfIn, x) THEN hfIn.name[x] ELSE NoName]
        nm   == [x \in 1..hfIn.n |-> HfsName(x)]
        dst  == [x \in 1..hfIn.n |-> HfsDest(x)]
    IN  \A x \in 2..hfIn.n :
          hfIn.type[x] = "symlink" /\ OnHfs(hfIn, x) =>
            LET r == iso_tree_resolve_symlink(hfIn, orig, hfIn.dest, x, 0) IN
            r.node # 0 =>
              iso_tree_resolve_symlink(hfIn, nm, dst, x, 0).node = r.node

\* The HFS+ catalog is a sorted B-tree without equal keys, and the symbolic
\* links in it still lead to the renamed files (mangle_leafs(),
\* update_symlink(), create_tree()).
HfsTreeSound == HfsCatalogSound /\ HfsLinksFollow
=============================================================================
