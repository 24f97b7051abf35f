------------------------------- MODULE LowTree -------------------------------
(***************************************************************************)
(* The low level trees made from the node tree of an image when it gets    *)
(* written: the ECMA-119 tree (ecma119_tree.c) with inode numbers,         *)
(* hardlink families and relocation of deep directories, the Joliet tree   *)
(* (joliet.c) and the ISO 9660:1999 tree (iso1999.c).                      *)
(*                                                                         *)
(* The image is ltIn.t.  Its nodes are 1..n in the order of traversal, 1   *)
(* is the root.  A node has a name, a type, the trees in which it is       *)
(* hidden, its source (key: same disk file, 0: none), an inode number that *)
(* came with a loaded image (-1: none) and attributes.  The options are    *)
(* ltIn.o.  The tree under construction is ltTree: the children of each    *)
(* directory, the names, and the directory where a relocated directory     *)
(* came from.  Placeholder of directory d is n + d.                        *)
(***************************************************************************)
EXTENDS Mangle, SequencesExt

CONSTANTS MaxDepth,    \* directory levels of ECMA-119 (8)
          MaxPath,     \* path length of ECMA-119 (255)
          MaxPathJ,    \* path length of Joliet in bytes (240)
          InoLimit,    \* largest inode number (2^32 - 1)
          InoRange,    \* inode numbers covered by used_inodes (2^18)
          LtInputs     \* [ts, os]: images, and options to write them with

VARIABLES ltPc,    \* what has been done
          ltIn,    \* [t, o]
          ltTree,  \* [ch, name, from]
          ltIno,   \* [ino, nlink] of the ECMA-119 nodes
          ltNum    \* [counter, used, start]: inode_counter, used_inodes, used_inodes_start

ltVars == <<ltPc, ltIn, ltTree, ltIno, ltNum>>

Nodes(t) == 1..t.n
Subnodes(t, x) == SelectSeq([i \in 1..t.n |-> i], LAMBDA y : y > 1 /\ t.par[y] = x)

\* values while nothing is there
NoInput == [t |-> [n |-> 0], o |-> <<>>]
NoTree  == [ch |-> <<>>, name |-> <<>>, from |-> <<>>]
NoInos  == [ino |-> <<>>, nlink |-> <<>>]
NoNum   == [counter |-> 0, used |-> <<>>, start |-> 0]

LtInit ==
  /\ ltPc = "start" /\ ltIn = NoInput
  /\ ltTree = NoTree /\ ltIno = NoInos /\ ltNum = NoNum

-----------------------------------------------------------------------------
(* Inode numbers of the image (image.c, node.c).  used_inodes = <<>> means *)
(* that it is NULL; else it is the sequence of the one set in use.         *)

img_collect_inos(t, start) ==
  {t.ino[x] : x \in Nodes(t)} \cap (start..(start + InoRange - 1))

RECURSIVE FreeIno(_, _, _)

FreeIno(t, num, new) ==
  IF new > InoLimit \/ new >= num.start + InoRange
  THEN LET s == IF num.start + InoRange > InoLimit THEN 0 ELSE num.start + InoRange
       IN  FreeIno(t, [num EXCEPT !.start = s, !.used = <<img_collect_inos(t, s)>>],
                   IF s = 0 THEN 1 ELSE s)
  ELSE IF new \in num.used[1] THEN FreeIno(t, num, new + 1)
  ELSE [num EXCEPT !.used = <<num.used[1] \cup {new}>>, !.counter = new]

\* Mutant for img_give_ino_number: the counter starts again without looking
WrapAround(t, num) ==
  [num EXCEPT !.counter = IF num.counter = InoLimit THEN 1 ELSE num.counter + 1]

\* The counter simply grows until its first rollover
img_give_ino_number(t, num) ==
  IF num.used = <<>> /\ num.counter + 1 <= InoLimit
  THEN [num EXCEPT !.counter = num.counter + 1]
  ELSE FreeIno(t, num, num.counter + 1)

\* iso_node_get_id() with flag bit0, which refuses numbers from other filesystems
iso_node_get_id(t, x) == IF t.ino[x] >= 0 THEN t.ino[x] ELSE 0

iso_node_set_ino(t, x, i) == [t EXCEPT !.ino[x] = i]

iso_node_set_unique_id(s, x) ==
  LET num == img_give_ino_number(s.t, s.num) IN
  [t |-> iso_node_set_ino(s.t, x, num.counter), num |-> num]

\* flag: "files" is bit0 (all data files), "missing" bits 1 to 3 (all that have none)
img_update_ino(s, x, flag) ==
  IF \/ flag = "files" /\ s.t.type[x] = "file"
     \/ flag = "missing" /\ iso_node_get_id(s.t, x) = 0
  THEN iso_node_set_unique_id(s, x) ELSE s

img_make_inos(s, flag) ==
  FoldLeft(LAMBDA acc, x : img_update_ino(acc, x, flag), s, [i \in Nodes(s.t) |-> i])

\* An image is there: new or loaded, after the inode numbers were completed
LtBegin ==
  /\ ltPc = "start"
  /\ \E in \in LtInputs : \E t \in in.ts, o \in in.os :
       \E s \in {img_make_inos([t |-> t, num |-> [NoNum EXCEPT !.counter = o.counter]],
                               o.newino)} :
         /\ ltIn' = [t |-> s.t, o |-> o]
         /\ ltNum' = s.num
  /\ ltPc' = "image"
  /\ UNCHANGED <<ltTree, ltIno>>

-----------------------------------------------------------------------------
(* create_tree(): which nodes get into the tree, and when it fails.        *)

\* iso_msg_submit() tells to abort, or the file is left out
Message(o) == IF o.abort THEN "fail" ELSE "skip"

NameIn(o, t, x) ==
  IF x = 1 THEN <<>>
  ELSE CASE o.kind = "ecma119" -> iso_get_ecma119_name(o, t.name[x], t.type[x] = "dir")
         [] o.kind = "joliet"  -> iso_get_joliet_name(o, t.name[x], t.type[x] = "dir")
         [] o.kind = "iso1999" -> get_iso1999_name(t.name[x])

RECURSIVE Depth(_, _)
Depth(t, x) == IF x = 1 THEN 1 ELSE 1 + Depth(t, t.par[x])

RECURSIVE HiddenRR(_, _)
HiddenRR(t, x) == "rr" \in t.hide[x] \/ (x # 1 /\ HiddenRR(t, t.par[x]))

RECURSIVE PathLen(_, _, _)
\* max_path: Joliet counts two bytes per character, hidden ECMA-119 nodes nothing
PathLen(o, t, x) ==
  (IF x = 1 THEN 0 ELSE PathLen(o, t, t.par[x]))
  + (IF o.kind = "ecma119" /\ HiddenRR(t, x) THEN 0
     ELSE 1 + Len(NameIn(o, t, x)) * (IF o.kind = "joliet" THEN 2 ELSE 1))

\* create_file_src(), create_boot_cat(), create_node(): files of 4 GiB need level 3
SourceVerdict(o, t, x) ==
  CASE t.type[x] = "file" ->
         IF t.big[x] /\ o.level # 3
         THEN IF o.kind = "ecma119" THEN "fail" ELSE Message(o) ELSE "keep"
    [] t.type[x] = "boot" -> IF o.eltorito THEN "keep" ELSE Message(o)
    [] t.type[x] = "dir"  -> "keep"
    [] OTHER -> IF o.kind = "ecma119" /\ o.rr THEN "keep" ELSE Message(o)

\* Hidden files which shall be written get a data source but no node
create_tree_ecma119(o, t, x) ==
  IF HiddenRR(t, x)
  THEN IF "rr" \in t.hide[x] /\ "write" \notin t.hide[x] /\ t.type[x] # "boot"
       THEN "skip"
       ELSE CASE t.type[x] = "dir" -> "enter"
              [] t.type[x] = "file" ->
                   IF t.big[x] /\ o.level # 3 THEN "fail" ELSE "skip"
              [] t.type[x] = "boot" -> IF o.eltorito THEN "skip" ELSE Message(o)
              [] OTHER -> "skip"
  ELSE IF NameIn(o, t, x) = NoName THEN "fail"
  ELSE IF /\ ~o.rr
          /\ \/ t.type[x] = "dir" /\ Depth(t, x) > MaxDepth /\ ~o.deep
             \/ PathLen(o, t, x) > MaxPath /\ ~o.longer
       THEN Message(o)
       ELSE SourceVerdict(o, t, x)

create_tree_joliet(o, t, x) ==
  IF "joliet" \in t.hide[x] THEN "skip"
  ELSE IF ~o.longer /\ PathLen(o, t, x) > MaxPathJ THEN Message(o)
  ELSE SourceVerdict(o, t, x)

create_tree_iso1999(o, t, x) ==
  IF "1999" \in t.hide[x] THEN "skip"
  ELSE IF ~o.longer /\ PathLen(o, t, x) > MaxPath THEN Message(o)
  ELSE SourceVerdict(o, t, x)

Verdict(o, t, x) ==
  CASE o.kind = "ecma119" -> create_tree_ecma119(o, t, x)
    [] o.kind = "joliet"  -> create_tree_joliet(o, t, x)
    [] o.kind = "iso1999" -> create_tree_iso1999(o, t, x)

\* The verdict on each node that is reached.  What is below a node that was left
\* out is not reached.
Verdicts(o, t) ==
  FoldLeft(LAMBDA v, x :
             Append(v, IF x > 1 /\ v[t.par[x]] \in {"skip", "unseen", "fail"}
                       THEN "unseen" ELSE Verdict(o, t, x)),
           <<>>, [i \in Nodes(t) |-> i])

\* The tree, or NoTree if some node makes it fail or the root is not in it
TreeOf(o, t, v) ==
  IF (\E x \in Nodes(t) : v[x] = "fail") \/ v[1] # "keep" THEN NoTree
  ELSE [ch   |-> [x \in Nodes(t) |-> SelectSeq(Subnodes(t, x), LAMBDA y : v[y] = "keep")],
        name |-> [x \in 1..(2 * t.n) |-> IF x <= t.n THEN NameIn(o, t, x) ELSE <<>>],
        from |-> [x \in Nodes(t) |-> 0]]

CreateTree ==
  /\ ltPc = "image"
  /\ \E tree \in {TreeOf(ltIn.o, ltIn.t, Verdicts(ltIn.o, ltIn.t))} :
       /\ ltTree' = tree
       /\ ltPc' = IF tree = NoTree THEN "failed" ELSE "created"
  /\ UNCHANGED <<ltIn, ltIno, ltNum>>

-----------------------------------------------------------------------------
(* Hardlinks of the ECMA-119 tree.                                         *)

TypeOrder == [dir |-> 0, file |-> 1, symlink |-> 2, special |-> 3, boot |-> 4]

FirstDifference(ds) ==
  LET nz == {i \in DOMAIN ds : ds[i] # 0} IN
  IF nz = {} THEN 0 ELSE ds[CHOOSE i \in nz : \A j \in nz : i <= j]

\* Negative, 0 or positive.  byname (flag bit1): equal sources do not count.
iso_node_cmp_flag(t, x, y, byname) ==
  LET hasx == IF t.ino[x] >= 0 THEN 1 ELSE 0
      hasy == IF t.ino[y] >= 0 THEN 1 ELSE 0
      id   == IF hasx = 1
              THEN <<t.ino[x] - t.ino[y], IF t.ino[x] = 0 THEN x - y ELSE 0>>
              ELSE IF t.type[x] \in {"dir", "boot"} THEN <<x - y>>
              ELSE <<t.key[x] - t.key[y], IF t.key[x] = 0 \/ byname THEN x - y ELSE 0>>
  IN  IF x = y THEN 0
      ELSE IF t.type[x] # t.type[y] THEN TypeOrder[t.type[x]] - TypeOrder[t.type[y]]
      ELSE IF hasx # hasy THEN hasx - hasy
      ELSE FirstDifference(id \o <<t.attr[x] - t.attr[y]>>)

RECURSIVE make_node_array(_, _)
make_node_array(ch, x) ==
  <<x>> \o FlattenSeq([i \in DOMAIN ch[x] |-> make_node_array(ch, ch[x][i])])

\* A family keeps a valid number which the previous family does not have
family_set_ino(t, s, family, prev) ==
  LET keep == s.img \notin {0, prev} /\ s.img <= InoLimit
      num  == IF keep THEN s.num ELSE img_give_ino_number(t, s.num)
      ino  == IF keep THEN s.img ELSE num.counter
  IN  [s EXCEPT !.num = num,
         !.ino = [x \in DOMAIN s.ino |-> IF x \in family THEN ino ELSE s.ino[x]],
         !.nlink = [x \in DOMAIN s.ino |->
                      IF x \in family THEN Cardinality(family) ELSE s.nlink[x]]]

RECURSIVE MatchFrom(_, _, _, _, _, _)

\* s = [ino, nlink, num, img]; family started at index f.  A family without
\* number asks for the number of the very first node.
MatchFrom(t, nodes, s, f, i, prev) ==
  IF i <= Len(nodes) /\ t.type[nodes[i]] # "dir"
     /\ iso_node_cmp_flag(t, nodes[i - 1], nodes[i], FALSE) = 0
  THEN MatchFrom(t, nodes,
                 IF s.img = 0 THEN [s EXCEPT !.img = iso_node_get_id(t, nodes[1])] ELSE s,
                 f, i + 1, prev)
  ELSE LET r == family_set_ino(t, s, {nodes[k] : k \in f..(i - 1)}, prev) IN
       IF i > Len(nodes) THEN r
       ELSE MatchFrom(t, nodes, [r EXCEPT !.img = iso_node_get_id(t, nodes[i])],
                      i, i + 1, s.img)

match_hardlinks(o, t, ch, num) ==
  LET nodes == SortSeq(make_node_array(ch, 1),
                 LAMBDA a, b : iso_node_cmp_flag(t, a, b, ~o.hardlinks) < 0)
  IN  MatchFrom(t, nodes,
                [ino |-> [x \in Nodes(t) |-> 0], nlink |-> [x \in Nodes(t) |-> 0],
                 num |-> num, img |-> iso_node_get_id(t, nodes[1])], 1, 2, 0)

MatchHardlinks ==
  /\ ltPc = "created" /\ ltIn.o.kind = "ecma119"
  /\ \E r \in {match_hardlinks(ltIn.o, ltIn.t, ltTree.ch, ltNum)} :
       /\ ltIno' = [ino |-> r.ino, nlink |-> r.nlink]
       /\ ltNum' = r.num
  /\ ltPc' = "matched"
  /\ UNCHANGED <<ltIn, ltTree>>

-----------------------------------------------------------------------------
(* Sorting and mangling.                                                   *)

Items(t, tree, x) ==
  [i \in DOMAIN tree.ch[x] |->
     [id |-> tree.ch[x][i], name |-> tree.name[tree.ch[x][i]],
      dir |-> tree.ch[x][i] <= t.n /\ t.type[tree.ch[x][i]] = "dir"]]

sort_tree(t, tree) ==
  [tree EXCEPT !.ch = [x \in DOMAIN tree.ch |->
     LET s == SortByName(Items(t, tree, x)) IN [i \in DOMAIN s |-> s[i].id]]]

\* NoTree is an error return
MangleDir(o, t, tree, x) ==
  LET r == mangle_single_dir(o.kind, o, Items(t, tree, x)) IN
  IF tree = NoTree \/ tree.ch[x] = <<>> THEN tree
  ELSE IF r = <<>> THEN NoTree
  ELSE [tree EXCEPT !.ch[x] = [i \in DOMAIN r |-> r[i].id],
          !.name = [y \in DOMAIN tree.name |->
             IF \E i \in DOMAIN r : r[i].id = y
             THEN r[CHOOSE i \in DOMAIN r : r[i].id = y].name ELSE tree.name[y]]]

\* The order of the directories does not matter, they are mangled independently
mangle_tree(o, t, tree, dirs) ==
  FoldLeft(LAMBDA acc, x : MangleDir(o, t, acc, x), tree, dirs)

\* In ecma119_tree_create(), joliet_tree_create() and iso1999_tree_create()
SortTree ==
  /\ ltPc \in {"created", "matched"}
  /\ ltPc = IF ltIn.o.kind = "ecma119" THEN "matched" ELSE "created"
  /\ ltTree' = sort_tree(ltIn.t, ltTree)
  /\ ltPc' = "sorted"
  /\ UNCHANGED <<ltIn, ltIno, ltNum>>

-----------------------------------------------------------------------------
(* Relocation of directories that are too deep for ECMA-119.               *)

\* rr_reloc_node: the directory of that name in the root directory, or the root
RelocNode(o, t, tree) ==
  LET c == {x \in ToSet(tree.ch[1]) : x <= t.n /\ t.type[x] = "dir" /\ t.name[x] = o.reloc} IN
  IF c = {} THEN 1 ELSE CHOOSE x \in c : TRUE

ParentIn(tree, x) == CHOOSE p \in DOMAIN tree.ch : x \in ToSet(tree.ch[p])

\* Mutant for reparent: no placeholder is left behind
NoPlaceholder(t, tree, x, reloc) ==
  LET p == ParentIn(tree, x) IN
  [tree EXCEPT !.ch = [tree.ch EXCEPT ![p] = SelectSeq(tree.ch[p], LAMBDA y : y # x),
                                      ![reloc] = Append(@, x)],
               !.from[x] = p]

\* create_placeholder() with the name which the directory has now
create_placeholder(t, tree, x, p) ==
  [tree EXCEPT !.ch[p] = [i \in DOMAIN tree.ch[p] |->
                            IF tree.ch[p][i] = x THEN t.n + x ELSE tree.ch[p][i]],
               !.name[t.n + x] = tree.name[x]]

reparent(t, tree, x, reloc) ==
  LET p == ParentIn(tree, x)
      r == create_placeholder(t, tree, x, p)
  IN  [r EXCEPT !.ch[reloc] = Append(r.ch[reloc], x), !.from[x] = p]

max_child_name_len(tree, x) ==
  LET lens == {0} \cup {Len(tree.name[y]) : y \in ToSet(tree.ch[x])} IN
  CHOOSE m \in lens : \A l \in lens : l <= m

RECURSIVE reorder_tree(_, _, _, _, _, _, _)
RECURSIVE ReorderFrom(_, _, _, _, _, _, _, _)

TooDeep(tree, x, level, pathlen) ==
  level > MaxDepth \/ pathlen + 1 + max_child_name_len(tree, x) > MaxPath

\* A directory in the root directory is visited there, others are entered at once
\* with the length and the level which they have got
reorder_tree(o, t, tree, reloc, x, level, pathlen) ==
  IF ~TooDeep(tree, x, level, pathlen)
  THEN IF x = reloc /\ x # 1 /\ o.dedicated THEN tree
       ELSE ReorderFrom(o, t, tree, reloc, x, 1, level, pathlen)
  ELSE IF reloc = 1 \/ (x = reloc /\ o.dedicated) THEN reparent(t, tree, x, reloc)
  ELSE ReorderFrom(o, t, reparent(t, tree, x, reloc), reloc, x, 1,
                   IF o.reloc # <<>> THEN 3 ELSE 2,
                   Len37 + 1 + (IF o.reloc # <<>> THEN Len(tree.name[reloc]) + 1 ELSE 0))

\* The loop over the children, which may become more while it runs
ReorderFrom(o, t, tree, reloc, x, i, level, pathlen) ==
  IF i > Len(tree.ch[x]) THEN tree
  ELSE LET c == tree.ch[x][i] IN
       ReorderFrom(o, t,
                   IF c <= t.n /\ t.type[c] = "dir"
                   THEN reorder_tree(o, t, tree, reloc, c, level + 1,
                                     pathlen + 1 + Len(tree.name[c]))
                   ELSE tree, reloc, x, i + 1, level, pathlen)

ReorderTree ==
  /\ ltPc = "mangled"
  /\ ltTree' = reorder_tree(ltIn.o, ltIn.t, ltTree, RelocNode(ltIn.o, ltIn.t, ltTree), 1, 1, 0)
  /\ ltPc' = "reordered"
  /\ UNCHANGED <<ltIn, ltIno, ltNum>>

\* All directories get mangled, and after relocation again the one where it went
\* to.  It is not sorted before that.
MangleTree ==
  /\ ltPc \in {"sorted", "reordered"}
  /\ \E dirs \in {IF ltPc = "sorted" THEN [i \in Nodes(ltIn.t) |-> i]
                   ELSE <<RelocNode(ltIn.o, ltIn.t, ltTree)>>} :
       \E tree \in {mangle_tree(ltIn.o, ltIn.t, ltTree, dirs)} :
         /\ ltTree' = tree
         /\ ltPc' = IF tree = NoTree THEN "failed"
                    ELSE IF ltPc = "sorted" /\ ltIn.o.kind = "ecma119" /\ ltIn.o.rr /\ ~ltIn.o.deep
                    THEN "mangled" ELSE "done"
  /\ UNCHANGED <<ltIn, ltIno, ltNum>>

LtNext == \/ LtBegin \/ CreateTree \/ MatchHardlinks \/ SortTree
          \/ MangleTree \/ ReorderTree

-----------------------------------------------------------------------------
(* Properties.                                                             *)

InTree == {y \in Nodes(ltIn.t) : y = 1 \/ \E x \in DOMAIN ltTree.ch : y \in ToSet(ltTree.ch[x])}
Relocated == {x \in DOMAIN ltTree.from : ltTree.from[x] # 0}

MaxName(o, isdir) ==
  CASE o.kind = "ecma119" -> IF isdir /\ ~o.dirext /\ ~o.nodots THEN MaxDir119(o) ELSE MaxFile119(o)
    [] o.kind = "joliet"  -> JolietMax(o) + 1
    [] o.kind = "iso1999" -> Len1999

\* When a tree is finished, no two files of a directory have the same name, the
\* names are sorted as the records have to be, and none is longer than its tree
\* allows.  (mangle_single_dir() of the three trees.  A directory that took up
\* relocated ones is not sorted by the code before it is mangled again.  Without
\* forced dots, a directory may collide with a file and gets room for a file name.)
NamesWellFormed ==
  ltPc = "done" =>
    \A x \in DOMAIN ltTree.ch :
      Relocated = {} \/ x # RelocNode(ltIn.o, ltIn.t, ltTree) =>
        LET c == ltTree.ch[x] IN
        /\ \A i \in 1..(Len(c) - 1) : Before(ltTree.name[c[i]], ltTree.name[c[i + 1]])
        /\ \A i \in DOMAIN c :
             Len(ltTree.name[c[i]]) \in
               1..MaxName(ltIn.o, c[i] > ltIn.t.n \/ ltIn.t.type[c[i]] = "dir")

\* Two files are of the same family: same type, same source or same loaded inode
\* number, and same attributes
SameFamily(t, x, y) ==
  \/ x = y
  \/ /\ t.type[x] = t.type[y] /\ t.type[x] # "dir" /\ t.attr[x] = t.attr[y]
     /\ IF t.ino[x] >= 0 \/ t.ino[y] >= 0
        THEN t.ino[x] = t.ino[y] /\ t.ino[x] # 0
        ELSE t.type[x] # "boot" /\ t.key[x] = t.key[y] /\ t.key[x] # 0

\* With hardlinks enabled, exactly the files of a family share an inode number,
\* also if numbers get reused after the counter wrapped around, and each one
\* tells the size of the family as link count.  (match_hardlinks(),
\* img_give_ino_number().  Where the first node has a number of its own,
\* ecma119_tree.c:1219 hands it to families that have none.)
InodeFamilies ==
  ltPc = "matched" /\ ltIn.o.hardlinks /\ ltIn.t.ino[1] <= 0 =>
    \A x \in InTree :
      /\ ltIno.ino[x] # 0
      /\ \A y \in InTree :
           ltIno.ino[x] = ltIno.ino[y] <=> SameFamily(ltIn.t, x, y)
      /\ ltIno.nlink[x] = Cardinality({y \in InTree : SameFamily(ltIn.t, x, y)})

RECURSIVE Level(_, _)
Level(tree, x) == IF x = 1 THEN 1 ELSE 1 + Level(tree, ParentIn(tree, x))

\* Relocation leaves no directory deeper than ECMA-119 allows, loses no file and
\* duplicates none, and leaves exactly one placeholder for each directory that
\* was moved, in the directory where it was, under which CL and PL can be
\* written.  (reorder_tree(), reparent())
RelocationSound ==
  ltPc = "done" /\ ltIn.o.kind = "ecma119" =>
    LET t == ltIn.t
        places(y) == {<<x, i>> \in (Nodes(t) \X (1..t.n)) :
                        i <= Len(ltTree.ch[x]) /\ ltTree.ch[x][i] = y}
        v == Verdicts(ltIn.o, t)
    IN  /\ \A x \in 2..t.n :
             Cardinality(places(x)) = IF v[x] = "keep" THEN 1 ELSE 0
        /\ \A x \in Nodes(t) :
             IF x \in Relocated
             THEN /\ \E p \in places(t.n + x) : places(t.n + x) = {p} /\ p[1] = t.par[x]
                  /\ ltTree.from[x] = t.par[x]
             ELSE places(t.n + x) = {}
        /\ ltIn.o.rr /\ ~ltIn.o.deep =>
             \A x \in InTree : t.type[x] = "dir" => Level(ltTree, x) <= MaxDepth
=============================================================================
