-------------------------- MODULE ImageImportProofs --------------------------
(***************************************************************************)
(* Proofs about iso_image_import(), for any set of ISO images and read     *)
(* options, any failures, and any number of imports into one IsoImage.     *)
(***************************************************************************)
EXTENDS ImageImport, FiniteSetTheorems, WellFoundedInduction, TLAPS

ImSafety == ImInit /\ [][ImNext]_imVars

-----------------------------------------------------------------------------
(* The shape of the objects, without the types of what they hold.           *)

IsImage(x) ==
  x = [root |-> x.root, bootcat |-> x.bootcat, arr |-> x.arr, cnt |-> x.cnt,
       builder |-> x.builder, fs |-> x.fs]
IsNodes(ns) ==
  /\ ns = [refs |-> ns.refs, tree |-> ns.tree, plain |-> ns.plain, root |-> ns.root]
  /\ ns.root \in BOOLEAN
IsCat(c) ==
  /\ c = [alloc |-> c.alloc, imgs |-> c.imgs, node |-> c.node]
  /\ c.alloc \in BOOLEAN

Shapes ==
  /\ IsImage(im) /\ IsImage(saved)
  /\ nodes = [k \in Gens |-> nodes[k]] /\ \A k \in Gens : IsNodes(nodes[k])
  /\ cats = [k \in Gens |-> cats[k]] /\ \A k \in Gens : IsCat(cats[k])
  /\ cur = [g |-> cur.g, i |-> cur.i, o |-> cur.o, at |-> cur.at, ret |-> cur.ret, was |-> cur.was, d |-> cur.d]
  /\ cur.g \in 0..MaxImports

\* What an IsoImage, or what was put aside of it, may point to: the array and
\* the catalog are NULL or belong to the tree.
OneImport(x) == x.arr \in {0, x.root} /\ x.bootcat \in {0, x.root}

\* Where the pointers of the IsoImage are its own: before they are put aside.
Own == ipc \in {"idle", "sysarea", "getroot"}
\* Where they are replaced: old and new tree exist side by side.
Both == ipc \in {"attrs", "tree", "hidden", "finish", "table", "revert", "cleanup"}

Exists(r, c) ==
  \A k \in Gens : /\ nodes[k].root <=> k \in r
                  /\ cats[k].alloc <=> k \in c

AllOrNothingInv ==
  early = {} =>
    /\ Shapes
    /\ Own \/ Both \/ ipc = "builder"
    /\ ipc # "idle" => g \in Gens
    /\ Own => /\ OneImport(im) /\ im.fs = 0 /\ im.builder = 0
              /\ im.root \in 0 .. (IF ipc = "idle" THEN g ELSE g - 1)
              /\ Exists({im.root}, {im.bootcat})
    /\ ~Own => /\ OneImport(im) /\ OneImport(saved)
               /\ saved.fs = 0 /\ saved.builder = 0
               /\ saved.root \in 0 .. g - 1
    /\ ipc = "builder" => /\ im.root = saved.root /\ im.bootcat = 0 /\ im.arr = 0
                          /\ Exists({saved.root}, {saved.bootcat})
    /\ Both => /\ Exists({im.root, saved.root}, {im.bootcat, saved.bootcat})
               /\ im.root \in 0 .. g
               /\ ipc # "cleanup" => im.root = g
               /\ im.root # saved.root \/ saved.root = 0

-----------------------------------------------------------------------------
(* The operators on nodes and catalogs keep root and alloc.                 *)

LEMMA DropShape ==
  ASSUME NEW ns, IsNodes(ns)
  PROVE  /\ \A set : IsNodes(Unref(ns, set)) /\ Unref(ns, set).root = ns.root
         /\ IsNodes(DropTree(ns)) /\ DropTree(ns).root = FALSE
         /\ \A c : IsNodes(DropCat(DropTree(ns), c)) /\ DropCat(DropTree(ns), c).root = FALSE
<1>1. ASSUME NEW ms, NEW set, IsNodes(ms)
      PROVE  IsNodes(Unref(ms, set)) /\ Unref(ms, set).root = ms.root
  BY <1>1 DEF Unref, IsNodes
<1>2. IsNodes(DropTree(ns)) /\ DropTree(ns).root = FALSE
  <2>1. PICK m : m = Unref(ns, ns.tree)
    OBVIOUS
  <2>2. IsNodes(m)
    BY <1>1, <2>1
  <2>3. DropTree(ns) = [m EXCEPT !.tree = {}, !.root = FALSE]
    BY <2>1 DEF DropTree
  <2> QED  BY <2>2, <2>3 DEF IsNodes
<1>3. ASSUME NEW c
      PROVE  IsNodes(DropCat(DropTree(ns), c)) /\ DropCat(DropTree(ns), c).root = FALSE
  <2>1. PICK m : m = DropTree(ns)
    OBVIOUS
  <2>2. DropCat(DropTree(ns), c) = [m EXCEPT !.refs = [n \in NodeIds |-> m.refs[n] - Held(c, n)]]
    BY <1>2, <2>1 DEF DropCat, IsNodes
  <2> QED  BY <1>2, <2>1, <2>2 DEF IsNodes
<1> QED  BY <1>1, <1>2, <1>3

LEMMA CreateShape ==
  ASSUME NEW ns, NEW c, NEW f, NEW n, NEW boots, NEW catblock,
         IsNodes(ns), IsCat(c),
         NEW r, r = image_builder_create_node(ns, c, f, n, boots, catblock)
  PROVE  /\ IsNodes(r.ns) /\ r.ns.root = ns.root
         /\ IsCat(r.c) /\ r.c.alloc = c.alloc
<1> DEFINE isCat == c.alloc /\ ~f.dir /\ f.block = catblock
           ks    == IF c.alloc /\ ~f.dir /\ ~f.empty /\ ~isCat
                    THEN {k \in DOMAIN boots : boots[k] = f.block /\ c.imgs[k] = 0} ELSE {}
           old   == IF isCat /\ c.node # 0 THEN Unref(ns, {c.node}) ELSE ns
           two   == IF isCat \/ ks # {} THEN 2 ELSE 1
           newNs == [old EXCEPT !.refs[n] = two, !.plain = IF isCat \/ f.dir THEN @ \union {n} ELSE @]
           least == CHOOSE k \in ks : \A j \in ks : k <= j
           newC  == CASE isCat   -> [c EXCEPT !.node = n]
                      [] ks # {} -> [c EXCEPT !.imgs[least] = n]
                      [] OTHER   -> c
<1>1. r = [ns |-> newNs, c |-> newC]
  BY DEF image_builder_create_node
<1>2. IsNodes(old) /\ old.root = ns.root
  BY DropShape
<1>3. IsNodes(newNs) /\ newNs.root = ns.root
  <2> DEFINE pl == IF isCat \/ f.dir THEN old.plain \union {n} ELSE old.plain
             rf == [old.refs EXCEPT ![n] = two]
  <2>1. newNs = [old EXCEPT !.refs = rf, !.plain = pl]
    BY <1>2 DEF IsNodes
  <2> HIDE DEF old, newNs, pl, rf
  <2> QED  BY <1>2, <2>1 DEF IsNodes
<1>4. IsCat(newC) /\ newC.alloc = c.alloc
  <2> HIDE DEF ks, least, isCat
  <2>1. CASE isCat
    BY <2>1 DEF IsCat
  <2>2. CASE ~isCat /\ ks # {}
    BY <2>2 DEF IsCat
  <2>3. CASE ~isCat /\ ks = {}
    BY <2>3
  <2> QED  BY <2>1, <2>2, <2>3
<1> HIDE DEF newNs, newC
<1> QED  BY <1>1, <1>3, <1>4

-----------------------------------------------------------------------------
LEMMA AllOrNothingInit == ImInit => AllOrNothingInv
<1> SUFFICES ASSUME ImInit PROVE AllOrNothingInv
  OBVIOUS
<1> USE ImportAssumption
<1>1. IsImage(im) /\ IsImage(saved)
  BY DEF ImInit, IsImage, NewImage
<1>2. nodes = [k \in Gens |-> nodes[k]] /\ cats = [k \in Gens |-> cats[k]]
  BY DEF ImInit
<1>3. \A k \in Gens : IsNodes(nodes[k]) /\ ~nodes[k].root
  BY DEF ImInit, IsNodes
<1>4. \A k \in Gens : IsCat(cats[k]) /\ ~cats[k].alloc
  BY DEF ImInit, IsCat, NoCat
<1>5. /\ cur = [g |-> cur.g, i |-> cur.i, o |-> cur.o, at |-> cur.at, ret |-> cur.ret, was |-> cur.was, d |-> cur.d]
      /\ cur.g = 0
  BY DEF ImInit, NoImport
<1>6. /\ ipc = "idle" /\ im.root = 0 /\ im.arr = 0 /\ im.bootcat = 0 /\ im.fs = 0 /\ im.builder = 0
  BY DEF ImInit, NewImage
<1>7. Exists({im.root}, {im.bootcat})
  BY <1>3, <1>4, <1>6 DEF Exists, Gens
<1> QED
  BY <1>1, <1>2, <1>3, <1>4, <1>5, <1>6, <1>7 DEF AllOrNothingInv, Shapes, OneImport, Own, Both, g

\* A step which changes no object and at most the references of nodes and the
\* nodes of a catalog.
LEMMA AllOrNothingKept ==
  ASSUME AllOrNothingInv, early = {}, early' = {},
         \/ Own /\ Own' /\ ipc # "idle" /\ (ipc' = "idle" => cur.ret' = "failed")
         \/ Both /\ Both' /\ ipc # "cleanup" /\ ipc' # "cleanup",
         im' = im, saved' = saved, cur'.g = cur.g,
         cur' = [g |-> cur'.g, i |-> cur'.i, o |-> cur'.o, at |-> cur'.at, ret |-> cur'.ret, was |-> cur'.was, d |-> cur'.d],
         nodes' = [k \in Gens |-> nodes'[k]], cats' = [k \in Gens |-> cats'[k]],
         \A k \in Gens : IsNodes(nodes'[k]) /\ nodes'[k].root = nodes[k].root,
         \A k \in Gens : IsCat(cats'[k]) /\ cats'[k].alloc = cats[k].alloc
  PROVE  AllOrNothingInv'
<1> USE ImportAssumption
<1>1. Shapes'
  BY DEF AllOrNothingInv, Shapes
<1>2. /\ Exists({im.root}, {im.bootcat}) => Exists({im.root}, {im.bootcat})'
      /\ Exists({im.root, saved.root}, {im.bootcat, saved.bootcat})
           => Exists({im.root, saved.root}, {im.bootcat, saved.bootcat})'
  BY DEF Exists, Gens
<1>3. g' = g /\ g \in Gens
  BY DEF g, AllOrNothingInv, Own, Both
<1>4. OneImport(im)' = OneImport(im) /\ OneImport(saved)' = OneImport(saved)
  BY DEF OneImport
<1>5. CASE Own
  <2>1. /\ OneImport(im) /\ im.fs = 0 /\ im.builder = 0 /\ im.root \in 0 .. g - 1
        /\ Exists({im.root}, {im.bootcat})
    BY <1>5 DEF AllOrNothingInv, Own, Both
  <2>2. im.root \in 0 .. (IF ipc' = "idle" THEN g ELSE g - 1)
    BY <2>1, <1>3 DEF Gens
  <2>3. Own' /\ ~Both' /\ ipc' # "builder"
    BY <1>5 DEF Own, Both
  <2> QED  BY <1>1, <1>2, <1>3, <1>4, <2>1, <2>2, <2>3 DEF AllOrNothingInv
<1>6. CASE Both
  <2>1. /\ OneImport(im) /\ OneImport(saved) /\ saved.fs = 0 /\ saved.builder = 0
        /\ saved.root \in 0 .. g - 1 /\ im.root \in 0 .. g /\ im.root = g
        /\ im.root # saved.root \/ saved.root = 0
        /\ Exists({im.root, saved.root}, {im.bootcat, saved.bootcat})
    BY <1>6 DEF AllOrNothingInv, Own, Both
  <2>2. Both' /\ ~Own' /\ ipc' # "builder" /\ ipc' # "idle"
    BY <1>6 DEF Own, Both
  <2> QED  BY <1>1, <1>2, <1>3, <1>4, <2>1, <2>2 DEF AllOrNothingInv
<1> QED  BY <1>5, <1>6

LEMMA AllOrNothingNext == AllOrNothingInv /\ [ImNext]_imVars => AllOrNothingInv'
<1> SUFFICES ASSUME AllOrNothingInv, [ImNext]_imVars, early' = {} PROVE AllOrNothingInv'
  BY DEF AllOrNothingInv
<1> USE ImportAssumption
<1>0. early = {}
  BY DEF ImNext, imVars, ImportBegins, LoadSystemArea, GetNewRoot, NewBuilderAndRoot, RootAttributes,
         AddFile, TreeDone, HiddenImage, HiddenCatalog, LoadChecksums, EvalBootInfoTable, ImportRevert,
         ImportCleanup
<1>a. Shapes /\ (ipc # "idle" => g \in Gens)
  BY <1>0 DEF AllOrNothingInv
<1>b. /\ nodes = [k \in Gens |-> nodes[k]] /\ cats = [k \in Gens |-> cats[k]]
      /\ \A k \in Gens : IsNodes(nodes[k]) /\ IsCat(cats[k])
  BY <1>a DEF Shapes
<1>c. ASSUME NEW ok \in BOOLEAN, LoadSystemArea(ok) PROVE AllOrNothingInv'
  <2>1. cur'.g = cur.g /\ cur' = [g |-> cur'.g, i |-> cur'.i, o |-> cur'.o, at |-> cur'.at, ret |-> cur'.ret, was |-> cur'.was, d |-> cur'.d]
    BY <1>a, <1>c DEF LoadSystemArea, GiveUp, Shapes
  <2>2. Own /\ Own' /\ ipc # "idle" /\ (ipc' = "idle" => cur.ret' = "failed")
    BY <1>a, <1>c DEF LoadSystemArea, GiveUp, Shapes, Own
  <2> QED  BY <1>0, <1>b, <1>c, <2>1, <2>2, AllOrNothingKept DEF LoadSystemArea
<1>d. ASSUME NEW ok \in BOOLEAN, TreeDone(ok) PROVE AllOrNothingInv'
  <2>1. cur'.g = cur.g /\ cur' = [g |-> cur'.g, i |-> cur'.i, o |-> cur'.o, at |-> cur'.at, ret |-> cur'.ret, was |-> cur'.was, d |-> cur'.d]
    BY <1>a, <1>d DEF TreeDone, Shapes
  <2>2. Both /\ Both' /\ ipc # "cleanup" /\ ipc' # "cleanup"
    BY <1>d DEF TreeDone, Both
  <2> QED  BY <1>0, <1>b, <1>d, <2>1, <2>2, AllOrNothingKept DEF TreeDone
<1>e. ASSUME NEW r \in {"ok", "skip", "abort"}, AddFile(r) PROVE AllOrNothingInv'
  <2>1. cur'.g = cur.g /\ cur' = [g |-> cur'.g, i |-> cur'.i, o |-> cur'.o, at |-> cur'.at, ret |-> cur'.ret, was |-> cur'.was, d |-> cur'.d]
    BY <1>a, <1>e DEF AddFile, Shapes
  <2>2. Both /\ Both' /\ ipc # "cleanup" /\ ipc' # "cleanup"
    BY <1>e DEF AddFile, Both
  <2>3. /\ nodes' = [k \in Gens |-> nodes'[k]] /\ cats' = [k \in Gens |-> cats'[k]]
        /\ \A k \in Gens : IsNodes(nodes'[k]) /\ nodes'[k].root = nodes[k].root
        /\ \A k \in Gens : IsCat(cats'[k]) /\ cats'[k].alloc = cats[k].alloc
    <3>1. CASE r = "ok"
      <4>1. g \in Gens
        BY <1>a, <1>e DEF AddFile
      <4>2. PICK c : c = image_builder_create_node(nodes[g], cats[g], cur.i.files[cur.at], cur.at,
                                                   cur.d.boots, cur.i.catblock)
        OBVIOUS
      <4>3. /\ IsNodes(c.ns) /\ c.ns.root = nodes[g].root
            /\ IsCat(c.c) /\ c.c.alloc = cats[g].alloc
        BY <1>b, <4>1, <4>2, CreateShape
      <4>4. PICK ns : ns = [c.ns EXCEPT !.tree = @ \union {cur.at}]
        OBVIOUS
      <4>5. IsNodes(ns) /\ ns.root = nodes[g].root
        <5>1. ns = [c.ns EXCEPT !.tree = c.ns.tree \union {cur.at}]
          BY <4>3, <4>4 DEF IsNodes
        <5> QED  BY <4>3, <5>1 DEF IsNodes
      <4>6. nodes' = [nodes EXCEPT ![g] = ns] /\ cats' = [cats EXCEPT ![g] = c.c]
        BY <1>e, <3>1, <4>2, <4>4 DEF AddFile
      <4> QED  BY <1>b, <4>1, <4>3, <4>5, <4>6
    <3>2. CASE r # "ok"
      BY <1>b, <1>e, <3>2 DEF AddFile
    <3> QED  BY <3>1, <3>2
  <2> QED  BY <1>0, <1>e, <2>1, <2>2, <2>3, AllOrNothingKept DEF AddFile
<1>f. ASSUME NEW ok \in BOOLEAN, HiddenImage(ok) PROVE AllOrNothingInv'
  <2>1. cur'.g = cur.g /\ cur' = [g |-> cur'.g, i |-> cur'.i, o |-> cur'.o, at |-> cur'.at, ret |-> cur'.ret, was |-> cur'.was, d |-> cur'.d]
    BY <1>a, <1>f DEF HiddenImage, Shapes
  <2>2. Both /\ Both' /\ ipc # "cleanup" /\ ipc' # "cleanup"
    BY <1>f DEF HiddenImage, Both
  <2>3. /\ nodes' = [k \in Gens |-> nodes'[k]] /\ cats' = [k \in Gens |-> cats'[k]]
        /\ \A k \in Gens : IsNodes(nodes'[k]) /\ nodes'[k].root = nodes[k].root
        /\ \A k \in Gens : IsCat(cats'[k]) /\ cats'[k].alloc = cats[k].alloc
    <3>1. CASE cats[g].imgs[cur.at] = 0 /\ ok
      <4>1. g \in Gens
        BY <1>a, <1>f DEF HiddenImage
      <4>n. PICK n : n = HiddenBase + cur.at
        OBVIOUS
      <4>2. PICK c : c = image_builder_create_node(nodes[g], cats[g],
                           [block |-> cur.d.boots[cur.at], empty |-> FALSE, dir |-> FALSE], n,
                           cur.d.boots, cur.i.catblock)
        OBVIOUS
      <4>3. /\ IsNodes(c.ns) /\ c.ns.root = nodes[g].root
            /\ IsCat(c.c) /\ c.c.alloc = cats[g].alloc
        BY <1>b, <4>1, <4>2, CreateShape
      <4>4. PICK ns, cc : /\ ns = (IF c.c.imgs[cur.at] # 0 THEN Unref(c.ns, {n}) ELSE c.ns)
                          /\ cc = (IF c.c.imgs[cur.at] # 0 THEN c.c ELSE [c.c EXCEPT !.imgs[cur.at] = n])
        OBVIOUS
      <4>5. IsNodes(ns) /\ ns.root = nodes[g].root
        BY <4>3, <4>4, DropShape
      <4>6. IsCat(cc) /\ cc.alloc = cats[g].alloc
        BY <4>3, <4>4 DEF IsCat
      <4>7. nodes' = [nodes EXCEPT ![g] = ns] /\ cats' = [cats EXCEPT ![g] = cc]
        BY <1>f, <3>1, <4>n, <4>2, <4>4 DEF HiddenImage
      <4> QED  BY <1>b, <4>1, <4>5, <4>6, <4>7
    <3>2. CASE ~(cats[g].imgs[cur.at] = 0 /\ ok)
      BY <1>b, <1>f, <3>2 DEF HiddenImage
    <3> QED  BY <3>1, <3>2
  <2> QED  BY <1>0, <1>f, <2>1, <2>2, <2>3, AllOrNothingKept DEF HiddenImage
<1>g. ASSUME NEW ok \in BOOLEAN, HiddenCatalog(ok) PROVE AllOrNothingInv'
  <2>1. cur'.g = cur.g /\ cur' = [g |-> cur'.g, i |-> cur'.i, o |-> cur'.o, at |-> cur'.at, ret |-> cur'.ret, was |-> cur'.was, d |-> cur'.d]
    BY <1>a, <1>g DEF HiddenCatalog, Shapes
  <2>2. Both /\ Both' /\ ipc # "cleanup" /\ ipc' # "cleanup"
    BY <1>g DEF HiddenCatalog, Both
  <2>3. /\ nodes' = [k \in Gens |-> nodes'[k]] /\ cats' = [k \in Gens |-> cats'[k]]
        /\ \A k \in Gens : IsNodes(nodes'[k]) /\ nodes'[k].root = nodes[k].root
        /\ \A k \in Gens : IsCat(cats'[k]) /\ cats'[k].alloc = cats[k].alloc
    <3>1. CASE cats[g].node = 0 /\ ok
      <4>1. g \in Gens
        BY <1>a, <1>g DEF HiddenCatalog
      <4>2. PICK ns, cc : /\ ns = [nodes[g] EXCEPT !.refs[CatNode] = 1, !.plain = @ \union {CatNode}]
                          /\ cc = [cats[g] EXCEPT !.node = CatNode]
        OBVIOUS
      <4>3. IsNodes(ns) /\ ns.root = nodes[g].root
        <5>1. PICK v : v = nodes[g]
          OBVIOUS
        <5>2. IsNodes(v)
          BY <1>b, <4>1, <5>1
        <5>3. ns = [v EXCEPT !.refs = [v.refs EXCEPT ![CatNode] = 1], !.plain = v.plain \union {CatNode}]
          BY <4>2, <5>1, <5>2 DEF IsNodes
        <5> QED  BY <5>1, <5>2, <5>3 DEF IsNodes
      <4>4. IsCat(cc) /\ cc.alloc = cats[g].alloc
        BY <1>b, <4>1, <4>2 DEF IsCat
      <4>5. nodes' = [nodes EXCEPT ![g] = ns] /\ cats' = [cats EXCEPT ![g] = cc]
        BY <1>b, <1>g, <3>1, <4>1, <4>2 DEF HiddenCatalog
      <4> QED  BY <1>b, <4>1, <4>3, <4>4, <4>5
    <3>2. CASE ~(cats[g].node = 0 /\ ok)
      BY <1>b, <1>g, <3>2 DEF HiddenCatalog
    <3> QED  BY <3>1, <3>2
  <2> QED  BY <1>0, <1>g, <2>1, <2>2, <2>3, AllOrNothingKept DEF HiddenCatalog
<1>h. ASSUME NEW ok \in BOOLEAN, EvalBootInfoTable(ok), ipc' # "cleanup" PROVE AllOrNothingInv'
  <2>1. cur'.g = cur.g /\ cur' = [g |-> cur'.g, i |-> cur'.i, o |-> cur'.o, at |-> cur'.at, ret |-> cur'.ret, was |-> cur'.was, d |-> cur'.d]
    BY <1>a, <1>h DEF EvalBootInfoTable, Shapes
  <2>2. Both /\ Both' /\ ipc # "cleanup" /\ ipc' # "cleanup"
    BY <1>h DEF EvalBootInfoTable, Both
  <2> QED  BY <1>0, <1>b, <1>h, <2>1, <2>2, AllOrNothingKept DEF EvalBootInfoTable
<1>1. ASSUME NEW ok \in BOOLEAN, EvalBootInfoTable(ok), ipc' = "cleanup" PROVE AllOrNothingInv'
  <2>1. cur'.g = cur.g /\ cur' = [g |-> cur'.g, i |-> cur'.i, o |-> cur'.o, at |-> cur'.at, ret |-> cur'.ret, was |-> cur'.was, d |-> cur'.d]
    BY <1>a, <1>1 DEF EvalBootInfoTable, Shapes
  <2>2. ipc = "table" /\ UNCHANGED <<im, saved, nodes, cats>>
    BY <1>1 DEF EvalBootInfoTable
  <2> QED  BY <1>0, <1>1, <2>1, <2>2 DEF AllOrNothingInv, Shapes, Own, Both, OneImport, Exists, g
<1>2. ASSUME NEW i \in IsoImages, NEW o \in ReadOpts, NEW ok \in BOOLEAN, ImportBegins(i, o, ok)
      PROVE  AllOrNothingInv'
  <2>1. CASE UNCHANGED <<ipc, cur>>
    BY <1>0, <1>2, <2>1 DEF ImportBegins, AllOrNothingInv, Shapes, Own, Both, OneImport, Exists, g
  <2>2. CASE /\ ipc' = IF o.sysarea THEN "sysarea" ELSE "getroot"
             /\ \E d \in {ReadDescriptors(i)} :
               cur' = [g |-> cur.g + 1, i |-> i, o |-> o, at |-> 1, ret |-> "running", was |-> im,
                       d |-> [d EXCEPT !.tree = SelectTree(d, read_root_susp_entries(i), o)]]
    <3>1. /\ ipc = "idle" /\ Own /\ ~Both /\ Own' /\ ~Both' /\ ipc' \notin {"idle", "builder"}
          /\ cur.g < MaxImports /\ UNCHANGED <<im, saved, nodes, cats>>
      BY <1>2, <2>2 DEF ImportBegins, Own, Both
    <3>2. /\ cur'.g = cur.g + 1
          /\ cur' = [g |-> cur'.g, i |-> cur'.i, o |-> cur'.o, at |-> cur'.at, ret |-> cur'.ret, was |-> cur'.was, d |-> cur'.d]
      BY <2>2
    <3>3. cur.g \in Nat /\ g' = g + 1 /\ g' \in Gens /\ g = cur.g
      BY <1>a, <3>1, <3>2 DEF g, Gens, Shapes
    <3>4. Shapes'
      BY <1>a, <3>1, <3>2, <3>3 DEF Shapes, g, Gens
    <3>5. im.root \in 0 .. g' - 1 /\ OneImport(im) /\ im.fs = 0 /\ im.builder = 0 /\ Exists({im.root}, {im.bootcat})
      BY <1>0, <3>1, <3>3 DEF AllOrNothingInv
    <3> QED  BY <3>1, <3>3, <3>4, <3>5 DEF AllOrNothingInv, OneImport, Exists
  <2> QED  BY <1>2, <2>1, <2>2 DEF ImportBegins
<1>3. ASSUME NEW ok \in BOOLEAN, GetNewRoot(ok), ok PROVE AllOrNothingInv'
  <2>1. /\ ipc = "getroot" /\ ipc' = "builder" /\ saved' = im /\ im' = [im EXCEPT !.bootcat = 0, !.arr = 0]
        /\ UNCHANGED <<cur, nodes, cats>>
    BY <1>3 DEF GetNewRoot
  <2>2. /\ IsImage(im') /\ im'.root = im.root /\ im'.bootcat = 0 /\ im'.arr = 0
    BY <1>a, <2>1 DEF Shapes, IsImage
  <2>3. Shapes'
    BY <1>a, <2>1, <2>2 DEF Shapes, IsImage
  <2>4. /\ Own /\ ~Own' /\ ~Both' /\ g' = g
    BY <2>1 DEF Own, Both, g
  <2>5. im.root \in 0 .. g - 1 /\ OneImport(im) /\ im.fs = 0 /\ im.builder = 0 /\ Exists({im.root}, {im.bootcat})
    BY <1>0, <2>1, <2>4 DEF AllOrNothingInv
  <2>6. Exists({saved.root}, {saved.bootcat})'
    BY <2>1, <2>5 DEF Exists
  <2> QED  BY <1>a, <2>1, <2>2, <2>3, <2>4, <2>5, <2>6 DEF AllOrNothingInv, OneImport
<1>4. ASSUME NEW ok \in BOOLEAN, GetNewRoot(ok), ~ok PROVE AllOrNothingInv'
  <2>1. cur'.g = cur.g /\ cur' = [g |-> cur'.g, i |-> cur'.i, o |-> cur'.o, at |-> cur'.at, ret |-> cur'.ret, was |-> cur'.was, d |-> cur'.d]
    BY <1>a, <1>4 DEF GetNewRoot, GiveUp, Shapes
  <2>2. Own /\ Own' /\ ipc # "idle" /\ (ipc' = "idle" => cur.ret' = "failed")
    BY <1>a, <1>4 DEF GetNewRoot, GiveUp, Shapes, Own
  <2>3. UNCHANGED <<im, saved, nodes, cats>>
    BY <1>4 DEF GetNewRoot
  <2> QED  BY <1>0, <1>b, <2>1, <2>2, <2>3, AllOrNothingKept
<1>5. ASSUME NEW ok \in BOOLEAN, NewBuilderAndRoot(ok) PROVE AllOrNothingInv'
  <2>0. g \in Gens
    BY <1>a, <1>5 DEF NewBuilderAndRoot
  <2>1. /\ ipc = "builder" /\ ipc' = "attrs" /\ im' = [im EXCEPT !.builder = g, !.fs = g, !.root = g]
        /\ nodes' = [nodes EXCEPT ![g].root = TRUE] /\ UNCHANGED <<cur, saved, cats>>
    BY <1>5, <1>0, <2>0 DEF NewBuilderAndRoot
  <2>2. /\ IsImage(im') /\ im'.root = g /\ im'.bootcat = im.bootcat /\ im'.arr = im.arr
    BY <1>a, <2>1 DEF Shapes, IsImage
  <2>3. PICK ns : ns = [nodes[g] EXCEPT !.root = TRUE]
    OBVIOUS
  <2>4. IsNodes(ns) /\ ns.root
    <3>1. PICK v : v = nodes[g]
      OBVIOUS
    <3>2. IsNodes(v) /\ ns = [v EXCEPT !.root = TRUE]
      BY <1>b, <2>0, <2>3, <3>1
    <3> QED  BY <3>2 DEF IsNodes
  <2>5. nodes' = [nodes EXCEPT ![g] = ns]
    BY <1>b, <2>0, <2>1, <2>3
  <2>6. Shapes'
    BY <1>a, <2>0, <2>1, <2>2, <2>4, <2>5 DEF Shapes
  <2>7. /\ ~Own /\ ~Own' /\ Both' /\ g' = g
    BY <2>1 DEF Own, Both, g
  <2>8. /\ im.root = saved.root /\ im.bootcat = 0 /\ im.arr = 0 /\ OneImport(saved)
        /\ saved.fs = 0 /\ saved.builder = 0
        /\ Exists({saved.root}, {saved.bootcat}) /\ saved.root \in 0 .. g - 1
    BY <1>0, <2>1, <2>7 DEF AllOrNothingInv
  <2>9. Exists({im.root, saved.root}, {im.bootcat, saved.bootcat})'
    BY <1>b, <2>0, <2>1, <2>2, <2>4, <2>5, <2>8 DEF Exists, Gens
  <2> QED  BY <1>a, <2>0, <2>1, <2>2, <2>6, <2>7, <2>8, <2>9 DEF AllOrNothingInv, OneImport, Gens
<1>6. ASSUME NEW ok \in BOOLEAN, RootAttributes(ok) PROVE AllOrNothingInv'
  <2>0. g \in Gens
    BY <1>a, <1>6 DEF RootAttributes
  <2>1. CASE ok /\ cur.d.elt
    <3>1. PICK c : c = [alloc |-> TRUE, imgs |-> [k \in DOMAIN cur.d.boots |-> 0], node |-> 0]
      OBVIOUS
    <3>2. /\ ipc = "attrs" /\ ipc' = "tree" /\ im' = [im EXCEPT !.bootcat = g]
          /\ cats' = [cats EXCEPT ![g] = c] /\ UNCHANGED <<cur, saved, nodes>>
      BY <1>6, <2>1, <3>1 DEF RootAttributes
    <3>3. IsCat(c) /\ c.alloc
      BY <3>1 DEF IsCat
    <3>4. /\ IsImage(im') /\ im'.root = im.root /\ im'.bootcat = g /\ im'.arr = im.arr
      BY <1>a, <3>2 DEF Shapes, IsImage
    <3>5. Shapes'
      BY <1>a, <2>0, <3>2, <3>3, <3>4 DEF Shapes
    <3>6. /\ ~Own /\ ~Own' /\ Both /\ Both' /\ g' = g /\ ipc # "cleanup"
      BY <3>2 DEF Own, Both, g
    <3>7. /\ im.root = g /\ OneImport(im) /\ OneImport(saved) /\ saved.fs = 0 /\ saved.builder = 0
          /\ Exists({im.root, saved.root}, {im.bootcat, saved.bootcat}) /\ saved.root \in 0 .. g - 1
      BY <1>0, <3>6 DEF AllOrNothingInv
    <3>8. Exists({im.root, saved.root}, {im.bootcat, saved.bootcat})'
      <4>1. im.bootcat \in {0, g} /\ saved.bootcat # g
        BY <2>0, <3>7 DEF OneImport, Gens
      <4> QED  BY <1>b, <2>0, <3>2, <3>3, <3>4, <3>7, <4>1 DEF Exists, Gens
    <3> QED  BY <1>a, <2>0, <3>2, <3>4, <3>5, <3>6, <3>7, <3>8 DEF AllOrNothingInv, OneImport, Gens
  <2>2. CASE ~(ok /\ cur.d.elt)
    <3>1. UNCHANGED <<im, cur, saved, nodes, cats>>
      BY <1>6, <2>2 DEF RootAttributes
    <3>2. Both /\ Both' /\ ipc # "cleanup" /\ ipc' # "cleanup"
      BY <1>6 DEF RootAttributes, Both
    <3>3. cur = [g |-> cur.g, i |-> cur.i, o |-> cur.o, at |-> cur.at, ret |-> cur.ret, was |-> cur.was, d |-> cur.d]
      BY <1>a DEF Shapes
    <3> QED  BY <1>0, <1>b, <3>1, <3>2, <3>3, AllOrNothingKept
  <2> QED  BY <2>1, <2>2
<1>7. ASSUME NEW ok \in BOOLEAN, LoadChecksums(ok) PROVE AllOrNothingInv'
  <2>0. g \in Gens
    BY <1>a, <1>7 DEF LoadChecksums
  <2>1. /\ ipc = "finish" /\ ipc' \in {"table", "cleanup"} /\ UNCHANGED <<saved, nodes, cats>>
        /\ ~Own /\ ~Own' /\ Both /\ Both'
    BY <1>7 DEF LoadChecksums, Own, Both
  <2>2. /\ cur'.g = cur.g
        /\ cur' = [g |-> cur'.g, i |-> cur'.i, o |-> cur'.o, at |-> cur'.at, ret |-> cur'.ret, was |-> cur'.was, d |-> cur'.d]
    BY <1>a, <1>7 DEF LoadChecksums, Shapes
  <2>3. /\ IsImage(im') /\ im'.root = im.root /\ im'.bootcat = im.bootcat /\ im'.arr \in {im.arr, g, 0}
    <3>1. \/ im' = im
          \/ \E a \in {g, 0} : im' = [im EXCEPT !.arr = a, !.cnt = a]
      BY <1>7 DEF LoadChecksums
    <3> QED  BY <1>a, <3>1 DEF Shapes, IsImage
  <2>4. Shapes' /\ g' = g
    BY <1>a, <2>1, <2>2, <2>3 DEF Shapes, g
  <2>5. /\ im.root = g /\ OneImport(im) /\ OneImport(saved) /\ saved.fs = 0 /\ saved.builder = 0
        /\ Exists({im.root, saved.root}, {im.bootcat, saved.bootcat}) /\ saved.root \in 0 .. g - 1
    BY <1>0, <2>1 DEF AllOrNothingInv
  <2>6. Exists({im.root, saved.root}, {im.bootcat, saved.bootcat})'
    BY <2>1, <2>3, <2>5 DEF Exists
  <2> QED  BY <1>a, <2>0, <2>1, <2>3, <2>4, <2>5, <2>6 DEF AllOrNothingInv, OneImport, Gens
<1>8. CASE ImportRevert
  <2>0. g \in Gens
    BY <1>a, <1>8 DEF ImportRevert
  <2>1. /\ ipc = "revert" /\ ipc' = "cleanup" /\ ~Own /\ ~Own' /\ Both /\ Both' /\ g' = g
        /\ cur' = [cur EXCEPT !.ret = "failed"]
        /\ im' = [im EXCEPT !.root = saved.root, !.bootcat = saved.bootcat, !.arr = saved.arr]
        /\ saved' = [saved EXCEPT !.root = 0, !.bootcat = 0, !.arr = 0]
    BY <1>a, <1>8 DEF ImportRevert, Own, Both, g, Shapes
  <2>2. /\ im.root = g /\ OneImport(im) /\ OneImport(saved) /\ saved.fs = 0 /\ saved.builder = 0
        /\ Exists({im.root, saved.root}, {im.bootcat, saved.bootcat}) /\ saved.root \in 0 .. g - 1
    BY <1>0, <2>1 DEF AllOrNothingInv
  <2>3. PICK c : c = IF im.bootcat = 0 THEN NoCat ELSE cats[im.bootcat]
    OBVIOUS
  <2>4. PICK ns : ns = DropCat(DropTree(nodes[g]), c)
    OBVIOUS
  <2>5. IsNodes(ns) /\ ns.root = FALSE
    BY <1>b, <2>0, <2>4, DropShape
  <2>6. nodes' = [nodes EXCEPT ![g] = ns] /\ cats' = IF im.bootcat = 0 THEN cats ELSE [cats EXCEPT ![g] = NoCat]
    <3>1. im.root # 0 /\ (im.bootcat = 0 \/ im.bootcat = g)
      BY <2>0, <2>2 DEF OneImport, Gens
    <3> QED  BY <1>8, <2>2, <2>3, <2>4, <3>1 DEF ImportRevert
  <2>7. IsCat(NoCat) /\ ~NoCat.alloc
    BY DEF IsCat, NoCat
  <2>8. /\ IsImage(im') /\ im'.root = saved.root /\ im'.bootcat = saved.bootcat /\ im'.arr = saved.arr
        /\ IsImage(saved') /\ saved'.root = 0 /\ saved'.bootcat = 0 /\ saved'.arr = 0
        /\ saved'.fs = saved.fs /\ saved'.builder = saved.builder
    BY <1>a, <2>1 DEF Shapes, IsImage
  <2>9. Shapes'
    BY <1>a, <2>0, <2>1, <2>5, <2>6, <2>7, <2>8 DEF Shapes
  <2>10. Exists({im.root, saved.root}, {im.bootcat, saved.bootcat})'
    <3>1. ASSUME NEW k \in Gens PROVE nodes'[k].root <=> k \in {im'.root, saved'.root}
      BY <1>b, <2>0, <2>2, <2>5, <2>6, <2>8 DEF Exists, Gens
    <3>2. ASSUME NEW k \in Gens PROVE cats'[k].alloc <=> k \in {im'.bootcat, saved'.bootcat}
      <4>1. im.bootcat \in {0, g} /\ saved.bootcat \in {0, saved.root} /\ saved.root # g
        BY <2>0, <2>2 DEF OneImport, Gens
      <4> QED  BY <1>b, <2>0, <2>2, <2>6, <2>7, <2>8, <4>1 DEF Exists, Gens
    <3> QED  BY <3>1, <3>2 DEF Exists
  <2> QED  BY <1>a, <2>0, <2>1, <2>2, <2>8, <2>9, <2>10 DEF AllOrNothingInv, OneImport, Gens
<1>9. CASE ImportCleanup
  <2>0. g \in Gens
    BY <1>a, <1>9 DEF ImportCleanup
  <2>1. /\ ipc = "cleanup" /\ ipc' = "idle" /\ ~Own /\ Own' /\ Both /\ ~Both' /\ g' = g /\ cur' = cur
        /\ im' = [im EXCEPT !.fs = saved.fs, !.builder = saved.builder] /\ saved' = im'
    BY <1>9 DEF ImportCleanup, Own, Both, g
  <2>2. /\ im.root \in 0 .. g /\ OneImport(im) /\ OneImport(saved) /\ saved.fs = 0 /\ saved.builder = 0
        /\ Exists({im.root, saved.root}, {im.bootcat, saved.bootcat}) /\ saved.root \in 0 .. g - 1
        /\ im.root # saved.root \/ saved.root = 0
    BY <1>0, <2>1 DEF AllOrNothingInv
  <2>3. /\ IsImage(im') /\ im'.root = im.root /\ im'.bootcat = im.bootcat /\ im'.arr = im.arr
        /\ im'.fs = 0 /\ im'.builder = 0
    BY <1>a, <2>1, <2>2 DEF Shapes, IsImage
  <2>4. PICK r : r = saved.root
    OBVIOUS
  <2>5. PICK c : c = IF saved.bootcat = 0 THEN NoCat ELSE cats[saved.bootcat]
    OBVIOUS
  <2>6. PICK ns : ns = DropCat(DropTree(nodes[r]), c)
    OBVIOUS
  <2>7. r # 0 => r \in Gens /\ IsNodes(ns) /\ ns.root = FALSE
    <3>1. r # 0 => r \in Gens
      BY <2>0, <2>2, <2>4 DEF Gens
    <3> QED  BY <1>b, <2>6, <3>1, DropShape
  <2>8. /\ nodes' = IF r = 0 THEN nodes ELSE [nodes EXCEPT ![r] = ns]
        /\ cats' = IF saved.bootcat = 0 THEN cats ELSE [cats EXCEPT ![saved.bootcat] = NoCat]
    BY <1>9, <2>4, <2>5, <2>6 DEF ImportCleanup
  <2>9. saved.bootcat \in {0, r} /\ im.bootcat \in {0, im.root} /\ IsCat(NoCat) /\ ~NoCat.alloc
    BY <2>2, <2>4 DEF OneImport, IsCat, NoCat
  <2>10. Shapes'
    <3>1. nodes' = [k \in Gens |-> nodes'[k]] /\ \A k \in Gens : IsNodes(nodes'[k])
      BY <1>b, <2>7, <2>8
    <3>2. cats' = [k \in Gens |-> cats'[k]] /\ \A k \in Gens : IsCat(cats'[k])
      BY <1>b, <2>8, <2>9
    <3> QED  BY <1>a, <2>1, <2>3, <3>1, <3>2 DEF Shapes
  <2>11. Exists({im.root}, {im.bootcat})'
    <3>1. ASSUME NEW k \in Gens PROVE nodes'[k].root <=> k \in {im'.root}
      BY <1>b, <2>2, <2>3, <2>4, <2>7, <2>8 DEF Exists, Gens
    <3>2. ASSUME NEW k \in Gens PROVE cats'[k].alloc <=> k \in {im'.bootcat}
      BY <1>b, <2>2, <2>3, <2>4, <2>7, <2>8, <2>9 DEF Exists, Gens
    <3> QED  BY <3>1, <3>2 DEF Exists
  <2> QED  BY <1>a, <2>0, <2>1, <2>2, <2>3, <2>10, <2>11 DEF AllOrNothingInv, OneImport
<1>10. CASE UNCHANGED imVars
  BY <1>0, <1>10 DEF imVars, AllOrNothingInv, Shapes, Own, Both, OneImport, Exists, g
<1> QED
  BY <1>c, <1>d, <1>e, <1>f, <1>g, <1>h, <1>1, <1>2, <1>3, <1>4, <1>5, <1>6, <1>7, <1>8, <1>9, <1>10 DEF ImNext

-----------------------------------------------------------------------------
(* What the IsoImage points to, also where objects get lost.                *)

CheckedArray == IF cur.o.md5 /\ cur.i.sums = "good" THEN g ELSE 0
AsResultTells ==
  /\ cur.ret = "failed" => SameContent(im, cur.was)
  /\ cur.ret = "done" => Installed(CheckedArray)
  /\ cur.ret = "unread" => Installed(g)

PointersInv ==
  /\ IsImage(im) /\ IsImage(saved)
  /\ cur = [g |-> cur.g, i |-> cur.i, o |-> cur.o, at |-> cur.at, ret |-> cur.ret, was |-> cur.was, d |-> cur.d]
  /\ ipc = "idle" \/ ipc = "cleanup" => AsResultTells
  /\ ipc \in {"sysarea", "getroot"} => SameContent(im, cur.was)
  /\ ~Own /\ ipc # "cleanup" => SameContent(saved, cur.was)
  /\ IF Own THEN im.fs = 0 /\ im.builder = 0 ELSE saved.fs = 0 /\ saved.builder = 0
  /\ ipc \in {"builder", "attrs"} => im.bootcat = 0 /\ im.arr = 0
  /\ ipc = "attrs" => im.root = g
  /\ ipc \in {"tree", "hidden", "finish"} => Installed(0)
  /\ ipc = "table" => Installed(CheckedArray)

LEMMA PointersInit == ImInit => PointersInv
<1> SUFFICES ASSUME ImInit PROVE PointersInv
  OBVIOUS
<1>1. /\ ipc = "idle" /\ im = NewImage /\ saved = im /\ cur = NoImport
  BY DEF ImInit
<1>2. IsImage(im) /\ IsImage(saved) /\ im.fs = 0 /\ im.builder = 0
  BY <1>1 DEF IsImage, NewImage
<1>3. /\ cur = [g |-> cur.g, i |-> cur.i, o |-> cur.o, at |-> cur.at, ret |-> cur.ret, was |-> cur.was, d |-> cur.d]
      /\ cur.ret = "none"
  BY <1>1 DEF NoImport
<1> QED  BY <1>1, <1>2, <1>3 DEF PointersInv, AsResultTells, Own

\* What the invariant speaks of, in a step which changes place and result only.
SameImport ==
  /\ cur'.g = cur.g /\ cur'.i = cur.i /\ cur'.o = cur.o /\ cur'.d = cur.d /\ cur'.was = cur.was
  /\ cur' = [g |-> cur'.g, i |-> cur'.i, o |-> cur'.o, at |-> cur'.at, ret |-> cur'.ret, was |-> cur'.was, d |-> cur'.d]

LEMMA PointersKept ==
  ASSUME PointersInv, im' = im, saved' = saved, SameImport,
         \/ ipc' = ipc /\ cur'.ret = cur.ret
         \/ ipc \in {"sysarea", "getroot"} /\ (ipc' = "getroot" \/ (ipc' = "idle" /\ cur'.ret = "failed"))
         \/ ~Own /\ ipc # "cleanup" /\ ipc' = "revert"
         \/ ipc \in {"tree", "hidden"} /\ ipc' \in {"tree", "hidden", "finish"}
         \/ ipc = "table" /\ ipc' = "cleanup" /\ cur'.ret = "done"
  PROVE  PointersInv'
<1>1. /\ SameContent(im, cur.was)' = SameContent(im, cur.was)
      /\ SameContent(saved, cur.was)' = SameContent(saved, cur.was)
      /\ \A x : Installed(x)' = Installed(x)
      /\ CheckedArray' = CheckedArray /\ g' = g
  BY DEF SameImport, SameContent, Installed, CheckedArray, g
<1>2. /\ IsImage(im') /\ IsImage(saved')
      /\ cur' = [g |-> cur'.g, i |-> cur'.i, o |-> cur'.o, at |-> cur'.at, ret |-> cur'.ret, was |-> cur'.was, d |-> cur'.d]
  BY DEF PointersInv, SameImport
<1>3. CheckedArray = CheckedArray' => (Installed(CheckedArray)' = Installed(CheckedArray))
  BY DEF SameImport, Installed, CheckedArray, g
<1>4. Installed(g)' = Installed(g)
  BY DEF SameImport, Installed, g
<1> HIDE DEF SameContent, Installed, CheckedArray, g
<1>5. CASE ipc' = ipc /\ cur'.ret = cur.ret
  BY <1>1, <1>2, <1>3, <1>4, <1>5 DEF PointersInv, AsResultTells, Own
<1>6. CASE ipc \in {"sysarea", "getroot"} /\ (ipc' = "getroot" \/ (ipc' = "idle" /\ cur'.ret = "failed"))
  BY <1>1, <1>2, <1>6 DEF PointersInv, AsResultTells, Own
<1>7. CASE ~Own /\ ipc # "cleanup" /\ ipc' = "revert"
  BY <1>1, <1>2, <1>7 DEF PointersInv, Own
<1>8. CASE ipc \in {"tree", "hidden"} /\ ipc' \in {"tree", "hidden", "finish"}
  BY <1>1, <1>2, <1>8 DEF PointersInv, Own
<1>9. CASE ipc = "table" /\ ipc' = "cleanup" /\ cur'.ret = "done"
  BY <1>1, <1>2, <1>3, <1>9 DEF PointersInv, AsResultTells, Own
<1> QED  BY <1>5, <1>6, <1>7, <1>8, <1>9

LEMMA PointersNext == PointersInv /\ [ImNext]_imVars => PointersInv'
<1> SUFFICES ASSUME PointersInv, [ImNext]_imVars PROVE PointersInv'
  OBVIOUS
<1>1. ASSUME NEW i \in IsoImages, NEW o \in ReadOpts, NEW ok \in BOOLEAN, ImportBegins(i, o, ok)
      PROVE  PointersInv'
  <2>1. ipc = "idle" /\ im' = im /\ saved' = saved
    BY <1>1 DEF ImportBegins
  <2>2. CASE UNCHANGED <<ipc, cur, fss>>
    <3>1. ipc' = ipc /\ cur'.ret = cur.ret /\ SameImport
      BY <2>2 DEF PointersInv, SameImport
    <3> QED  BY <2>1, <3>1, PointersKept
  <2>3. CASE ~UNCHANGED <<ipc, cur, fss>>
    <3>1. ipc' \in {"sysarea", "getroot"}
      BY <1>1, <2>3 DEF ImportBegins
    <3>2. PICK t : cur' = [g |-> cur.g + 1, i |-> i, o |-> o, at |-> 1, ret |-> "running", was |-> im, d |-> t]
      BY <1>1, <2>3 DEF ImportBegins
    <3>3. /\ cur' = [g |-> cur'.g, i |-> cur'.i, o |-> cur'.o, at |-> cur'.at, ret |-> cur'.ret, was |-> cur'.was, d |-> cur'.d]
          /\ cur'.was = im
      BY <3>2
    <3> QED  BY <2>1, <3>1, <3>3 DEF PointersInv, Own, SameContent
  <2> QED  BY <2>2, <2>3
<1>2. ASSUME NEW ok \in BOOLEAN, LoadSystemArea(ok) PROVE PointersInv'
  <2>1. /\ im' = im /\ saved' = saved /\ ipc = "sysarea"
        /\ \/ ipc' = "getroot" /\ cur' = cur
           \/ ipc' = "idle" /\ cur' = [cur EXCEPT !.ret = "failed"]
    BY <1>2 DEF LoadSystemArea, GiveUp
  <2>2. CASE ipc' = "getroot" /\ cur' = cur
    <3>1. SameImport
      BY <2>2 DEF PointersInv, SameImport
    <3>2. ipc \in {"sysarea", "getroot"} /\ ipc' = "getroot" /\ im' = im /\ saved' = saved
      BY <2>1, <2>2
    <3> QED  BY <3>1, <3>2, PointersKept
  <2>3. CASE ipc' = "idle" /\ cur' = [cur EXCEPT !.ret = "failed"]
    <3>1. SameImport /\ cur'.ret = "failed"
      BY <2>3 DEF PointersInv, SameImport
    <3> QED  BY <2>1, <2>3, <3>1, PointersKept
  <2> QED  BY <2>1, <2>2, <2>3
<1>3. ASSUME NEW ok \in BOOLEAN, GetNewRoot(ok) PROVE PointersInv'
  <2>1. CASE ok
    <3>1. /\ ipc = "getroot" /\ ipc' = "builder" /\ saved' = im /\ cur' = cur
          /\ im' = [im EXCEPT !.bootcat = 0, !.arr = 0]
      BY <1>3, <2>1 DEF GetNewRoot
    <3>2. IsImage(im') /\ im'.bootcat = 0 /\ im'.arr = 0
      BY <3>1 DEF PointersInv, IsImage
    <3> QED  BY <3>1, <3>2 DEF PointersInv, Own, SameContent
  <2>2. CASE ~ok
    <3>1. im' = im /\ saved' = saved /\ ipc = "getroot" /\ ipc' = "idle" /\ cur' = [cur EXCEPT !.ret = "failed"]
      BY <1>3, <2>2 DEF GetNewRoot, GiveUp
    <3>2. SameImport /\ cur'.ret = "failed"
      BY <3>1 DEF PointersInv, SameImport
    <3> QED  BY <3>1, <3>2, PointersKept
  <2> QED  BY <2>1, <2>2
<1>4. ASSUME NEW ok \in BOOLEAN, NewBuilderAndRoot(ok) PROVE PointersInv'
  <2>1. ipc = "builder" /\ cur' = cur /\ saved' = saved /\ ~Own
    BY <1>4 DEF NewBuilderAndRoot, Own
  <2>2. CASE ok
    <3>1. ipc' = "attrs" /\ im' = [im EXCEPT !.builder = g, !.fs = g, !.root = g]
      BY <1>4, <2>2 DEF NewBuilderAndRoot
    <3>2. IsImage(im') /\ im'.root = g /\ im'.bootcat = im.bootcat /\ im'.arr = im.arr
      BY <3>1 DEF PointersInv, IsImage
    <3>3. g' = g /\ ~Own'
      BY <2>1, <3>1 DEF g, Own
    <3> QED  BY <2>1, <3>1, <3>2, <3>3 DEF PointersInv, SameContent
  <2>3. CASE ~ok
    <3>1. im' = im /\ ipc' = "revert" /\ SameImport
      BY <1>4, <2>1, <2>3 DEF NewBuilderAndRoot, PointersInv, SameImport
    <3> QED  BY <2>1, <3>1, PointersKept
  <2> QED  BY <2>2, <2>3
<1>5. ASSUME NEW ok \in BOOLEAN, RootAttributes(ok) PROVE PointersInv'
  <2>1. ipc = "attrs" /\ cur' = cur /\ saved' = saved /\ ~Own
    BY <1>5 DEF RootAttributes, Own
  <2>2. CASE ok
    <3>1. ipc' = "tree" /\ im' = (IF cur.d.elt THEN [im EXCEPT !.bootcat = g] ELSE im)
      BY <1>5, <2>2 DEF RootAttributes
    <3>2. /\ IsImage(im') /\ im'.root = g /\ im'.arr = 0
          /\ im'.bootcat = IF cur.d.elt THEN g ELSE 0
      BY <2>1, <3>1 DEF PointersInv, IsImage
    <3>3. g' = g /\ ~Own'
      BY <2>1, <3>1 DEF g, Own
    <3>4. Installed(0)'
      BY <2>1, <3>2, <3>3 DEF Installed
    <3> QED  BY <2>1, <3>1, <3>2, <3>3, <3>4 DEF PointersInv, SameContent
  <2>3. CASE ~ok
    <3>1. im' = im /\ ipc' = "revert" /\ SameImport
      BY <1>5, <2>1, <2>3 DEF RootAttributes, PointersInv, SameImport
    <3> QED  BY <2>1, <3>1, PointersKept
  <2> QED  BY <2>2, <2>3
<1>6. ASSUME NEW r \in {"ok", "skip", "abort"}, AddFile(r) PROVE PointersInv'
  <2>1. /\ ipc = "tree" /\ ipc' \in {"tree", "revert"} /\ im' = im /\ saved' = saved
        /\ cur' = [cur EXCEPT !.at = @ + 1] /\ ~Own
    BY <1>6 DEF AddFile, Own
  <2>2. SameImport
    BY <2>1 DEF PointersInv, SameImport
  <2> QED  BY <2>1, <2>2, PointersKept
<1>7. ASSUME NEW ok \in BOOLEAN, TreeDone(ok) PROVE PointersInv'
  <2>1. /\ ipc = "tree" /\ ipc' \in {"hidden", "finish", "revert"} /\ im' = im /\ saved' = saved
        /\ cur' = [cur EXCEPT !.at = 1] /\ ~Own
    BY <1>7 DEF TreeDone, Own
  <2>2. SameImport
    BY <2>1 DEF PointersInv, SameImport
  <2> QED  BY <2>1, <2>2, PointersKept
<1>8. ASSUME NEW ok \in BOOLEAN, HiddenImage(ok) PROVE PointersInv'
  <2>1. /\ ipc = "hidden" /\ ipc' \in {"hidden", "revert"} /\ im' = im /\ saved' = saved
        /\ cur' = [cur EXCEPT !.at = @ + 1] /\ ~Own
    BY <1>8 DEF HiddenImage, Own
  <2>2. SameImport
    BY <2>1 DEF PointersInv, SameImport
  <2> QED  BY <2>1, <2>2, PointersKept
<1>9. ASSUME NEW ok \in BOOLEAN, HiddenCatalog(ok) PROVE PointersInv'
  <2>1. /\ ipc = "hidden" /\ ipc' \in {"finish", "revert"} /\ im' = im /\ saved' = saved
        /\ cur' = cur /\ ~Own
    BY <1>9 DEF HiddenCatalog, Own
  <2>2. SameImport
    BY <2>1 DEF PointersInv, SameImport
  <2> QED  BY <2>1, <2>2, PointersKept
<1>10. ASSUME NEW ok \in BOOLEAN, LoadChecksums(ok) PROVE PointersInv'
  <2>1. ipc = "finish" /\ saved' = saved /\ ~Own
    BY <1>10 DEF LoadChecksums, Own
  <2>2. CASE cur.o.md5 /\ cur.i.sums # "none" /\ ~ok
    <3>1. /\ ipc' = "cleanup" /\ im' = [im EXCEPT !.arr = g, !.cnt = g]
          /\ cur' = [cur EXCEPT !.ret = "unread"]
      BY <1>10, <2>2 DEF LoadChecksums
    <3>2. SameImport /\ cur'.ret = "unread"
      BY <3>1 DEF PointersInv, SameImport
    <3>3. IsImage(im') /\ im'.root = im.root /\ im'.bootcat = im.bootcat /\ im'.arr = g
      BY <3>1 DEF PointersInv, IsImage
    <3>4. Installed(g)'
      BY <2>1, <3>2, <3>3 DEF PointersInv, SameImport, Installed, g
    <3>5. ~Own'
      BY <3>1 DEF Own
    <3> QED  BY <2>1, <3>1, <3>2, <3>3, <3>4, <3>5 DEF PointersInv, SameImport, AsResultTells
  <2>3. CASE ~(cur.o.md5 /\ cur.i.sums # "none" /\ ~ok)
    <3>1. ipc' = "table" /\ cur' = cur
      BY <1>10, <2>3 DEF LoadChecksums
    <3>2. \/ im' = im /\ CheckedArray = 0
          \/ im' = [im EXCEPT !.arr = CheckedArray, !.cnt = CheckedArray]
      BY <1>10, <2>3 DEF LoadChecksums, CheckedArray
    <3>3. IsImage(im') /\ im'.root = im.root /\ im'.bootcat = im.bootcat /\ im'.arr = CheckedArray
      <4>1. im.arr = 0
        BY <2>1 DEF PointersInv, Installed
      <4> QED  BY <3>2, <4>1 DEF PointersInv, IsImage
    <3>4. Installed(CheckedArray)' /\ ~Own'
      BY <2>1, <3>1, <3>3 DEF PointersInv, Installed, CheckedArray, g, Own
    <3> QED  BY <2>1, <3>1, <3>3, <3>4 DEF PointersInv, SameContent
  <2> QED  BY <2>2, <2>3
<1>11. ASSUME NEW ok \in BOOLEAN, EvalBootInfoTable(ok) PROVE PointersInv'
  <2>1. /\ ipc = "table" /\ im' = im /\ saved' = saved /\ ~Own
        /\ ipc' \in {"cleanup", "revert"}
        /\ cur' = [cur EXCEPT !.ret = IF ipc' = "cleanup" THEN "done" ELSE @]
    BY <1>11 DEF EvalBootInfoTable, Own
  <2>2. SameImport /\ (ipc' = "cleanup" => cur'.ret = "done")
    BY <2>1 DEF PointersInv, SameImport
  <2> QED  BY <2>1, <2>2, PointersKept
<1>12. CASE ImportRevert
  <2>1. /\ ipc = "revert" /\ ipc' = "cleanup" /\ ~Own /\ ~Own'
        /\ cur' = [cur EXCEPT !.ret = "failed"]
        /\ im' = [im EXCEPT !.root = saved.root, !.bootcat = saved.bootcat, !.arr = saved.arr]
        /\ saved' = [saved EXCEPT !.root = 0, !.bootcat = 0, !.arr = 0]
    BY <1>12 DEF ImportRevert, Own
  <2>2. SameImport /\ cur'.ret = "failed"
    BY <2>1 DEF PointersInv, SameImport
  <2>3. /\ IsImage(im') /\ im'.root = saved.root /\ im'.bootcat = saved.bootcat /\ im'.arr = saved.arr
        /\ IsImage(saved') /\ saved'.fs = saved.fs /\ saved'.builder = saved.builder
    BY <2>1 DEF PointersInv, IsImage
  <2>4. SameContent(im, cur.was)'
    BY <2>1, <2>2, <2>3 DEF PointersInv, SameImport, SameContent
  <2> QED  BY <2>1, <2>2, <2>3, <2>4 DEF PointersInv, SameImport, AsResultTells
<1>13. CASE ImportCleanup
  <2>1. /\ ipc = "cleanup" /\ ipc' = "idle" /\ ~Own /\ Own' /\ cur' = cur
        /\ im' = [im EXCEPT !.fs = saved.fs, !.builder = saved.builder] /\ saved' = im'
    BY <1>13 DEF ImportCleanup, Own
  <2>2. /\ IsImage(im') /\ im'.root = im.root /\ im'.bootcat = im.bootcat /\ im'.arr = im.arr
        /\ im'.fs = 0 /\ im'.builder = 0
    BY <2>1 DEF PointersInv, IsImage
  <2>3. AsResultTells
    BY <2>1 DEF PointersInv
  <2>4. AsResultTells'
    BY <2>1, <2>2, <2>3 DEF AsResultTells, SameContent, Installed, CheckedArray, g
  <2> QED  BY <2>1, <2>2, <2>4 DEF PointersInv
<1>14. CASE UNCHANGED imVars
  <2>1. im' = im /\ saved' = saved /\ ipc' = ipc /\ cur'.ret = cur.ret /\ SameImport
    BY <1>14 DEF imVars, PointersInv, SameImport
  <2> QED  BY <2>1, PointersKept
<1> QED
  BY <1>1, <1>2, <1>3, <1>4, <1>5, <1>6, <1>7, <1>8, <1>9, <1>10, <1>11, <1>12, <1>13, <1>14 DEF ImNext

\* The result of iso_image_import() tells what the IsoImage contains, whatever
\* fails: tree, boot catalog and checksum array from before after a failure, all
\* new ones after success, and all new after the read error in the checksum
\* array.  Nothing of another import is left allocated, and the content exists,
\* except if import_revert comes before there is a new root.
THEOREM ImportIsAtomic == ImSafety => []ImportAllOrNothing
<1>1. AllOrNothingInv /\ PointersInv => ImportAllOrNothing
  <2> SUFFICES ASSUME AllOrNothingInv, PointersInv, ipc = "idle"
               PROVE  /\ AsResultTells /\ im.fs = 0 /\ im.builder = 0
                      /\ early = {} => \A k \in Gens : /\ nodes[k].root <=> k = im.root
                                                       /\ cats[k].alloc <=> k = im.bootcat
    BY DEF ImportAllOrNothing, AsResultTells, CheckedArray
  <2>1. AsResultTells /\ im.fs = 0 /\ im.builder = 0
    BY DEF PointersInv, Own
  <2>2. early = {} => Exists({im.root}, {im.bootcat})
    BY DEF AllOrNothingInv, Own
  <2> QED  BY <2>1, <2>2 DEF Exists
<1> QED  BY <1>1, AllOrNothingInit, AllOrNothingNext, PointersInit, PointersNext, PTL DEF ImSafety

-----------------------------------------------------------------------------
(* References.  The types of nodes and catalogs, and the nodes a catalog    *)
(* holds.  Counted(ns, c, t): each node has one reference per place, where  *)
(* t are the nodes which a directory or their creator holds.                *)

NodesOk(ns) == ns.refs \in [NodeIds -> Nat] /\ ns.tree \subseteq NodeIds
CatOk(c) == /\ DOMAIN c.imgs \subseteq 1..MaxBootImgs
            /\ c.imgs \in [DOMAIN c.imgs -> 0..CatNode]
            /\ c.node \in 0..CatNode
            /\ ~c.alloc => c = NoCat
Counted(ns, c, t) == \A n \in NodeIds : ns.refs[n] = (IF n \in t THEN 1 ELSE 0) + Held(c, n)
CountedTo(ns, c, t, n) == Counted(ns, c, t \cup {n})
Dropped(ns, n) == Unref(ns, {n})
Entered(c, k, n) == [c EXCEPT !.imgs[k] = n]
HiddenFile(b) == [block |-> b, empty |-> FALSE, dir |-> FALSE]
Places(c, n) == {j \in DOMAIN c.imgs : c.imgs[j] = n}

LEMMA Numbers ==
  /\ MaxFiles \in Nat /\ MaxBootImgs \in Nat \ {0} /\ CatNode \in Nat \ {0}
  /\ CatNode = MaxFiles + MaxBootImgs + 1 /\ HiddenBase = MaxFiles
  /\ IsFiniteSet(NodeIds) /\ IsFiniteSet(1..MaxBootImgs)
<1>1. /\ MaxFiles \in Nat /\ MaxBootImgs \in Nat \ {0} /\ CatNode \in Nat \ {0}
      /\ CatNode = MaxFiles + MaxBootImgs + 1 /\ HiddenBase = MaxFiles
  BY ImportAssumption, FilesAssumption DEF CatNode, HiddenBase
<1> QED  BY <1>1, FS_Interval DEF NodeIds

LEMMA LeastNatural ==
  ASSUME NEW T, T \subseteq Nat, T # {}
  PROVE  \E x \in T : \A y \in T : x <= y
<1>1. PICK R : R = OpToRel(<, Nat)
  BY Zenon
<1>2. PICK x \in T : \A y \in T : <<y, x>> \notin R
  BY <1>1, NatLessThanWellFounded, WFMin, Zenon
<1>3. \A y \in T : ~(y < x)
  BY <1>1, <1>2, Zenon DEF OpToRel
<1> QED  BY <1>3

LEMMA PlacesFinite ==
  ASSUME NEW c, DOMAIN c.imgs \subseteq 1..MaxBootImgs, NEW n
  PROVE  IsFiniteSet(Places(c, n)) /\ Cardinality(Places(c, n)) \in Nat
<1>1. IsFiniteSet(Places(c, n))
  BY Numbers, FS_Subset DEF Places
<1> QED  BY <1>1, FS_CardinalityType

LEMMA HeldIs ==
  ASSUME NEW c, DOMAIN c.imgs \subseteq 1..MaxBootImgs, NEW n
  PROVE  /\ Held(c, n) = Cardinality(Places(c, n)) + (IF c.node = n THEN 1 ELSE 0)
         /\ Held(c, n) \in Nat
         /\ Held(c, n) = 0 <=> c.node # n /\ \A j \in DOMAIN c.imgs : c.imgs[j] # n
<1>1. Held(c, n) = Cardinality(Places(c, n)) + (IF c.node = n THEN 1 ELSE 0)
  BY DEF Held, Places
<1>2. Cardinality(Places(c, n)) \in Nat /\ (Cardinality(Places(c, n)) = 0 <=> Places(c, n) = {})
  BY PlacesFinite, FS_EmptySet
<1>3. Places(c, n) = {} <=> \A j \in DOMAIN c.imgs : c.imgs[j] # n
  BY DEF Places
<1> HIDE DEF Held, Places
<1> QED  BY <1>1, <1>2, <1>3

\* Another catalog node, and a node for an image which had none.
LEMMA HeldNode ==
  ASSUME NEW c, IsCat(c), CatOk(c), NEW n \in NodeIds, NEW d, d = [c EXCEPT !.node = n], NEW m \in NodeIds
  PROVE  Held(d, m) = Held(c, m) + (IF m = n THEN 1 ELSE 0) - (IF m = c.node THEN 1 ELSE 0)
<1>1. d.imgs = c.imgs /\ d.node = n
  BY DEF IsCat
<1>2. Places(d, m) = Places(c, m)
  BY <1>1 DEF Places
<1>3. /\ Held(d, m) = Cardinality(Places(d, m)) + (IF d.node = m THEN 1 ELSE 0)
      /\ Held(c, m) = Cardinality(Places(c, m)) + (IF c.node = m THEN 1 ELSE 0)
      /\ Cardinality(Places(c, m)) \in Nat
  BY <1>1, HeldIs, PlacesFinite DEF CatOk
<1> HIDE DEF Places, Held
<1> QED  BY <1>1, <1>2, <1>3

LEMMA HeldImage ==
  ASSUME NEW c, IsCat(c), CatOk(c), NEW n \in NodeIds, NEW k \in DOMAIN c.imgs, c.imgs[k] = 0,
         NEW d, d = [c EXCEPT !.imgs[k] = n], NEW m \in NodeIds
  PROVE  Held(d, m) = Held(c, m) + (IF m = n THEN 1 ELSE 0)
<1>1. /\ d.imgs = [c.imgs EXCEPT ![k] = n] /\ d.node = c.node
      /\ DOMAIN d.imgs = DOMAIN c.imgs
  BY DEF IsCat
<1>2. \A j \in DOMAIN c.imgs : d.imgs[j] = IF j = k THEN n ELSE c.imgs[j]
  BY <1>1 DEF CatOk
<1>3. m # 0
  BY DEF NodeIds
<1>4. Places(d, m) = IF m = n THEN Places(c, m) \cup {k} ELSE Places(c, m)
  BY <1>1, <1>2, <1>3 DEF Places
<1>5. k \notin Places(c, m) /\ IsFiniteSet(Places(c, m)) /\ Cardinality(Places(c, m)) \in Nat
  BY <1>3, PlacesFinite DEF Places, CatOk
<1>6. Cardinality(Places(c, m) \cup {k}) = Cardinality(Places(c, m)) + 1
  BY <1>5, FS_AddElement
<1>7. DOMAIN c.imgs \subseteq 1..MaxBootImgs /\ DOMAIN d.imgs \subseteq 1..MaxBootImgs
  BY <1>1 DEF CatOk
<1>8. /\ Held(d, m) = Cardinality(Places(d, m)) + (IF d.node = m THEN 1 ELSE 0)
      /\ Held(c, m) = Cardinality(Places(c, m)) + (IF c.node = m THEN 1 ELSE 0)
  BY <1>7, HeldIs
<1> HIDE DEF Places, Held
<1> QED  BY <1>1, <1>4, <1>5, <1>6, <1>8

\* Dropping the root and the catalog of an import leaves no reference.
Unused(ns) == NodesOk(ns) /\ ns.tree = {} /\ \A n \in NodeIds : ns.refs[n] = 0
LEMMA DropCounts ==
  ASSUME NEW ns, NEW c, IsNodes(ns), NodesOk(ns), CatOk(c), Counted(ns, c, ns.tree),
         NEW ms, ms = DropCat(DropTree(ns), c)
  PROVE  Unused(ms)
<1>1. PICK t : t = DropTree(ns)
  OBVIOUS
<1>2. /\ t = [refs |-> t.refs, tree |-> t.tree, plain |-> t.plain, root |-> t.root] /\ t.tree = {}
      /\ t.refs = [n \in NodeIds |-> IF n \in ns.tree THEN ns.refs[n] - 1 ELSE ns.refs[n]]
  BY <1>1 DEF DropTree, Unref, IsNodes
<1>3. ms = DropCat(t, c)
  BY <1>1
<1>4. ms.tree = {} /\ ms.refs = [n \in NodeIds |-> t.refs[n] - Held(c, n)]
  BY <1>2, <1>3 DEF DropCat
<1>5. ASSUME NEW n \in NodeIds PROVE ms.refs[n] = 0
  <2>1. Held(c, n) \in Nat
    BY HeldIs DEF CatOk
  <2>2. ns.refs[n] = (IF n \in ns.tree THEN 1 ELSE 0) + Held(c, n)
    BY DEF Counted
  <2> QED  BY <1>2, <1>4, <2>1, <2>2
<1>6. ms.refs \in [NodeIds -> Nat]
  BY <1>4, <1>5
<1> QED  BY <1>4, <1>5, <1>6 DEF NodesOk, Unused

\* What image_builder_create_node() does for a fresh node n: its references are
\* counted with the one of its creator, no other node gains any, and images
\* keep their nodes.
Creates(ns, c, n, r) ==
  /\ NodesOk(r.ns) /\ r.ns.tree = ns.tree /\ CatOk(r.c)
  /\ DOMAIN r.c.imgs = DOMAIN c.imgs
  /\ CountedTo(r.ns, r.c, ns.tree, n)
  /\ \A m \in NodeIds : m # n /\ ns.refs[m] = 0 => r.ns.refs[m] = 0
  /\ \A j \in DOMAIN c.imgs : c.imgs[j] # 0 => r.c.imgs[j] # 0

LEMMA CreateCounts ==
  ASSUME NEW ns, NEW c, NEW f, NEW n \in NodeIds, NEW boots, NEW catblock,
         IsNodes(ns), IsCat(c), NodesOk(ns), CatOk(c), Counted(ns, c, ns.tree),
         ns.refs[n] = 0,
         c.alloc => DOMAIN boots = DOMAIN c.imgs,
         NEW r, r = image_builder_create_node(ns, c, f, n, boots, catblock)
  PROVE  Creates(ns, c, n, r)
<1> DEFINE isCat == c.alloc /\ ~f.dir /\ f.block = catblock
           ks    == IF c.alloc /\ ~f.dir /\ ~f.empty /\ ~isCat
                    THEN {k \in DOMAIN boots : boots[k] = f.block /\ c.imgs[k] = 0} ELSE {}
           old   == IF isCat /\ c.node # 0 THEN Unref(ns, {c.node}) ELSE ns
           two   == IF isCat \/ ks # {} THEN 2 ELSE 1
           newNs == [old EXCEPT !.refs[n] = two, !.plain = IF isCat \/ f.dir THEN @ \union {n} ELSE @]
           least == CHOOSE k \in ks : \A j \in ks : k <= j
           newC  == CASE isCat   -> [c EXCEPT !.node = n]
                      [] ks # {} -> [c EXCEPT !.imgs[least] = n]
                      [] OTHER   -> c
<1>1. SUFFICES
         /\ NodesOk(newNs) /\ newNs.tree = ns.tree /\ CatOk(newC)
         /\ DOMAIN newC.imgs = DOMAIN c.imgs
         /\ CountedTo(newNs, newC, ns.tree, n)
         /\ \A m \in NodeIds : m # n /\ ns.refs[m] = 0 => newNs.refs[m] = 0
         /\ \A j \in DOMAIN c.imgs : c.imgs[j] # 0 => newC.imgs[j] # 0
  <2>1. r = [ns |-> newNs, c |-> newC]
    BY DEF image_builder_create_node
  <2> HIDE DEF newNs, newC
  <2>2. r.ns = newNs /\ r.c = newC
    BY <2>1
  <2> QED  BY <2>2 DEF Creates
<1>2. n \notin ns.tree /\ Held(c, n) = 0 /\ c.node # n
  <2>1. Held(c, n) \in Nat /\ ns.refs[n] = (IF n \in ns.tree THEN 1 ELSE 0) + Held(c, n)
    BY HeldIs DEF CatOk, Counted
  <2>2. n \notin ns.tree /\ Held(c, n) = 0
    BY <2>1
  <2> QED  BY <2>2, HeldIs DEF CatOk
<1>3. /\ IsNodes(old) /\ old.tree = ns.tree /\ old.refs \in [NodeIds -> Nat]
      /\ \A m \in NodeIds : old.refs[m] = ns.refs[m] - (IF isCat /\ m = c.node THEN 1 ELSE 0)
  <2>1. CASE isCat /\ c.node # 0
    <3>1. /\ old.refs = [m \in NodeIds |-> IF m \in {c.node} THEN ns.refs[m] - 1 ELSE ns.refs[m]]
          /\ old.tree = ns.tree /\ IsNodes(old)
      BY <2>1 DEF Unref, IsNodes
    <3>2. ASSUME c.node \in NodeIds PROVE ns.refs[c.node] >= 1
      <4>1. Held(c, c.node) \in Nat /\ Held(c, c.node) # 0
        BY HeldIs DEF CatOk
      <4>2. ns.refs[c.node] = (IF c.node \in ns.tree THEN 1 ELSE 0) + Held(c, c.node)
        BY <3>2 DEF Counted
      <4> QED  BY <4>1, <4>2
    <3>3. \A m \in NodeIds : ns.refs[m] \in Nat
      BY DEF NodesOk
    <3>4. \A m \in NodeIds : old.refs[m] = ns.refs[m] - (IF isCat /\ m = c.node THEN 1 ELSE 0)
      BY <2>1, <3>1, <3>3
    <3> HIDE DEF old, isCat
    <3>5. ASSUME NEW m \in NodeIds PROVE old.refs[m] \in Nat
      <4>1. m = c.node => ns.refs[m] >= 1
        BY <3>2
      <4> QED  BY <3>3, <3>4, <4>1
    <3> QED  BY <3>1, <3>4, <3>5
  <2>2. CASE ~(isCat /\ c.node # 0)
    <3>1. old = ns
      BY <2>2
    <3> HIDE DEF old, isCat
    <3>a. (\A m \in NodeIds : m # 0) /\ \A m \in NodeIds : ns.refs[m] \in Nat
      <4>1. \A m \in NodeIds : m # 0
        BY DEF NodeIds
      <4> QED  BY <4>1 DEF NodesOk
    <3>2. \A m \in NodeIds : ~(isCat /\ m = c.node) /\ ns.refs[m] \in Nat
      BY <2>2, <3>a
    <3> QED  BY <3>1, <3>2 DEF NodesOk
  <2> QED  BY <2>1, <2>2
<1>4. /\ newNs.tree = ns.tree
      /\ newNs.refs = [old.refs EXCEPT ![n] = two]
  <2> HIDE DEF old, two, isCat
  <2> QED  BY <1>3 DEF IsNodes
<1>5. two \in {1, 2} /\ NodesOk(newNs) /\ \A m \in NodeIds : newNs.refs[m] = IF m = n THEN two ELSE old.refs[m]
  <2>1. two \in {1, 2}
    OBVIOUS
  <2> HIDE DEF old, newNs, two
  <2> QED  BY <1>3, <1>4, <2>1 DEF NodesOk
<1>6. ASSUME NEW m \in NodeIds, m # n, ns.refs[m] = 0 PROVE newNs.refs[m] = 0
  <2>1. isCat /\ m = c.node => ns.refs[m] # 0
    <3>1. SUFFICES ASSUME m = c.node PROVE Held(c, m) \in Nat /\ Held(c, m) # 0
      BY DEF Counted
    <3> QED  BY <3>1, HeldIs DEF CatOk
  <2> HIDE DEF newNs, old, isCat
  <2> QED  BY <1>3, <1>5, <1>6, <2>1
<1>7. \A m \in NodeIds : Held(c, m) \in Nat /\ ns.refs[m] = (IF m \in ns.tree THEN 1 ELSE 0) + Held(c, m)
  BY HeldIs DEF CatOk, Counted
<1>8. n \in 1..CatNode /\ 0 \in 0..CatNode
  BY Numbers DEF NodeIds
<1>9. CASE isCat
  <2>1. newC = [c EXCEPT !.node = n] /\ two = 2 /\ c.alloc
    BY <1>9
  <2>2. newC.imgs = c.imgs /\ newC.node = n /\ newC.alloc = c.alloc
    BY <2>1 DEF IsCat
  <2>3. CatOk(newC)
    <3> HIDE DEF newC
    <3> QED  BY <1>8, <2>1, <2>2 DEF CatOk
  <2>4. ASSUME NEW m \in NodeIds PROVE newNs.refs[m] = (IF m \in ns.tree \cup {n} THEN 1 ELSE 0) + Held(newC, m)
    <3>1. Held(newC, m) = Held(c, m) + (IF m = n THEN 1 ELSE 0) - (IF m = c.node THEN 1 ELSE 0)
      BY <2>1, HeldNode
    <3> HIDE DEF newNs, newC, old, isCat, two
    <3> QED  BY <1>2, <1>3, <1>5, <1>7, <1>9, <2>1, <3>1
  <2> HIDE DEF newNs, newC, old, two
  <2>5. CountedTo(newNs, newC, ns.tree, n)
    BY <2>4 DEF Counted, CountedTo
  <2> QED  BY <1>4, <1>5, <1>6, <2>2, <2>3, <2>5
<1>10. CASE ~isCat /\ ks # {}
  <2>1. newC = [c EXCEPT !.imgs[least] = n] /\ two = 2
    BY <1>10
  <2>2. least \in DOMAIN c.imgs /\ c.imgs[least] = 0 /\ c.alloc
    <3>1. ks \subseteq DOMAIN c.imgs /\ (\A k \in ks : c.imgs[k] = 0) /\ c.alloc
      BY <1>10
    <3>2. ks \subseteq Nat
      BY <3>1 DEF CatOk
    <3>3. \E k \in ks : \A j \in ks : k <= j
      <4> HIDE DEF ks
      <4>1. PICK k0 \in ks : TRUE
        BY <1>10
      <4> QED  BY <3>2, <4>1, LeastNatural
    <3>4. least \in ks
      <4> HIDE DEF ks
      <4> QED  BY <3>3
    <3> HIDE DEF ks, least
    <3> QED  BY <3>1, <3>4
  <2> HIDE DEF least, ks, isCat, newC
  <2>3. /\ newC.imgs = [c.imgs EXCEPT ![least] = n] /\ newC.node = c.node /\ newC.alloc = c.alloc
        /\ DOMAIN newC.imgs = DOMAIN c.imgs
    BY <2>1, <2>2 DEF IsCat
  <2>4. \A j \in DOMAIN c.imgs : newC.imgs[j] = IF j = least THEN n ELSE c.imgs[j]
    BY <2>3 DEF CatOk
  <2>5. CatOk(newC)
    <3> HIDE DEF newC
    <3> QED  BY <1>8, <2>2, <2>3, <2>4 DEF CatOk
  <2>6. ASSUME NEW m \in NodeIds PROVE newNs.refs[m] = (IF m \in ns.tree \cup {n} THEN 1 ELSE 0) + Held(newC, m)
    <3>1. Held(newC, m) = Held(c, m) + (IF m = n THEN 1 ELSE 0)
      BY <2>1, <2>2, HeldImage
    <3> HIDE DEF newNs, newC, old, isCat, two
    <3> QED  BY <1>2, <1>3, <1>5, <1>7, <1>10, <2>1, <3>1
  <2>7. \A j \in DOMAIN c.imgs : c.imgs[j] # 0 => newC.imgs[j] # 0
    BY <1>8, <2>4
  <2> HIDE DEF newNs, newC, old, two
  <2>8. CountedTo(newNs, newC, ns.tree, n)
    BY <2>6 DEF Counted, CountedTo
  <2> QED  BY <1>4, <1>5, <1>6, <2>3, <2>5, <2>7, <2>8
<1>11. CASE ~isCat /\ ks = {}
  <2>1. newC = c /\ two = 1
    BY <1>11
  <2>2. ASSUME NEW m \in NodeIds PROVE newNs.refs[m] = (IF m \in ns.tree \cup {n} THEN 1 ELSE 0) + Held(c, m)
    <3> HIDE DEF newNs, newC, old, isCat, two
    <3> QED  BY <1>2, <1>3, <1>5, <1>7, <1>11, <2>1
  <2> HIDE DEF newNs, newC, old, two
  <2>3. CountedTo(newNs, newC, ns.tree, n)
    BY <2>1, <2>2 DEF Counted, CountedTo
  <2> QED  BY <1>4, <1>5, <1>6, <2>1, <2>3
<1> QED  BY <1>9, <1>10, <1>11

\* The creator of node n drops its reference, or enters n for an image.
LEMMA CreatorDrops ==
  ASSUME NEW ns, NEW c, NEW t, NEW n \in NodeIds \ t,
         IsNodes(ns), NodesOk(ns), CatOk(c), CountedTo(ns, c, t, n), Held(c, n) # 0,
         NEW ms, ms = Dropped(ns, n)
  PROVE  /\ NodesOk(ms) /\ ms.tree = ns.tree /\ Counted(ms, c, t)
         /\ \A m \in NodeIds : ns.refs[m] = 0 => ms.refs[m] = 0
         /\ Streams(ms) = Streams(ns)
<1>1. /\ ms.tree = ns.tree /\ ms.plain = ns.plain
      /\ ms.refs = [m \in NodeIds |-> IF m \in {n} THEN ns.refs[m] - 1 ELSE ns.refs[m]]
  BY DEF Dropped, Unref, IsNodes
<1>2. \A m \in NodeIds : ns.refs[m] = (IF m \in t \cup {n} THEN 1 ELSE 0) + Held(c, m) /\ Held(c, m) \in Nat
  BY HeldIs DEF CatOk, Counted, CountedTo
<1>3. ASSUME NEW m \in NodeIds
      PROVE  /\ ms.refs[m] = (IF m \in t THEN 1 ELSE 0) + Held(c, m)
             /\ ms.refs[m] \in Nat /\ (ms.refs[m] = 0 <=> ns.refs[m] = 0)
             /\ ms.refs[m] > 0 <=> ns.refs[m] > 0
  <2>1. ms.refs[m] = IF m = n THEN ns.refs[m] - 1 ELSE ns.refs[m]
    BY <1>1
  <2> HIDE DEF Held
  <2> QED  BY <1>2, <2>1
<1>4. Streams(ms) = Streams(ns)
  BY <1>1, <1>3 DEF Streams
<1>5. NodesOk(ms)
  BY <1>1, <1>3 DEF NodesOk
<1> QED  BY <1>1, <1>3, <1>4, <1>5 DEF Counted

LEMMA CreatorEnters ==
  ASSUME NEW ns, NEW c, NEW t, NEW n \in NodeIds \ t, NEW k \in DOMAIN c.imgs,
         IsCat(c), CatOk(c), c.alloc, c.imgs[k] = 0, CountedTo(ns, c, t, n),
         NEW d, d = Entered(c, k, n)
  PROVE  /\ CatOk(d) /\ Counted(ns, d, t) /\ DOMAIN d.imgs = DOMAIN c.imgs
         /\ \A j \in DOMAIN c.imgs : d.imgs[j] = IF j = k THEN n ELSE c.imgs[j]
<1>1. d.imgs = [c.imgs EXCEPT ![k] = n] /\ d.node = c.node /\ d.alloc = c.alloc
  BY DEF IsCat, Entered
<1>2. DOMAIN d.imgs = DOMAIN c.imgs /\ \A j \in DOMAIN c.imgs : d.imgs[j] = IF j = k THEN n ELSE c.imgs[j]
  BY <1>1 DEF CatOk
<1>3. n \in 0..CatNode
  BY Numbers DEF NodeIds
<1>4. CatOk(d)
  BY <1>1, <1>2, <1>3 DEF CatOk
<1>5. ASSUME NEW m \in NodeIds PROVE ns.refs[m] = (IF m \in t THEN 1 ELSE 0) + Held(d, m)
  <2>1. ns.refs[m] = (IF m \in t \cup {n} THEN 1 ELSE 0) + Held(c, m) /\ Held(c, m) \in Nat
    BY HeldIs DEF CatOk, Counted, CountedTo
  <2>2. Held(d, m) = Held(c, m) + (IF m = n THEN 1 ELSE 0)
    BY HeldImage DEF Entered
  <2> QED  BY <2>1, <2>2
<1> QED  BY <1>2, <1>4, <1>5 DEF Counted

\* For the first image without a node, image_builder_create_node() enters the
\* new node there or not at all.
LEMMA FirstWithoutNode ==
  ASSUME NEW ns, NEW c, NEW n, NEW boots, NEW catblock, IsCat(c), CatOk(c), c.alloc, DOMAIN boots = DOMAIN c.imgs,
         NEW k \in DOMAIN c.imgs, c.imgs[k] = 0, \A j \in DOMAIN c.imgs : j < k => c.imgs[j] # 0,
         NEW r, r = image_builder_create_node(ns, c, HiddenFile(boots[k]), n, boots, catblock)
  PROVE  r.c.imgs[k] \in {0, n}
<1>1. CASE boots[k] = catblock
  <2>1. r.c = [c EXCEPT !.node = n]
    BY <1>1 DEF image_builder_create_node, HiddenFile
  <2> QED  BY <2>1 DEF IsCat
<1>2. CASE boots[k] # catblock
  <2> DEFINE ks == {j \in DOMAIN boots : boots[j] = boots[k] /\ c.imgs[j] = 0}
  <2>1. k \in ks /\ ks # {}
    OBVIOUS
  <2>2. r.c = [c EXCEPT !.imgs[CHOOSE x \in ks : \A j \in ks : x <= j] = n]
    BY <1>2, <2>1 DEF image_builder_create_node, HiddenFile
  <2>3. k \in Nat /\ \A j \in ks : j \in Nat /\ k <= j
    <3>1. \A j \in DOMAIN c.imgs : j \in Nat
      BY DEF CatOk
    <3> QED  BY <3>1
  <2>4. (CHOOSE x \in ks : \A j \in ks : x <= j) = k
    <3> HIDE DEF ks
    <3> QED  BY <2>1, <2>3
  <2>5. r.c = [c EXCEPT !.imgs[k] = n]
    BY <2>2, <2>4
  <2> QED  BY <2>5 DEF IsCat, CatOk
<1> QED  BY <1>1, <1>2

\* A hidden boot image: the node which create_boot_img_filesrc() and
\* image_builder_create_node() make for the k-th image belongs to that image.
HiddenMakes(ns, c, n, k, r, ms, d) ==
  /\ NodesOk(ms) /\ ms.tree = ns.tree /\ CatOk(d)
  /\ DOMAIN d.imgs = DOMAIN c.imgs
  /\ Counted(ms, d, ns.tree)
  /\ \A m \in NodeIds : m # n /\ ns.refs[m] = 0 => ms.refs[m] = 0
  /\ \A j \in DOMAIN c.imgs : j <= k => d.imgs[j] # 0
  /\ Streams(ms) = Streams(r.ns)

LEMMA HiddenCounts ==
  ASSUME NEW ns, NEW c, NEW n \in NodeIds, NEW boots, NEW catblock,
         IsNodes(ns), IsCat(c), NodesOk(ns), CatOk(c), Counted(ns, c, ns.tree),
         ns.refs[n] = 0, c.alloc, DOMAIN boots = DOMAIN c.imgs,
         NEW k \in DOMAIN c.imgs, c.imgs[k] = 0,
         \A j \in DOMAIN c.imgs : j < k => c.imgs[j] # 0,
         NEW r, r = image_builder_create_node(ns, c, HiddenFile(boots[k]), n, boots, catblock),
         NEW ms, ms = (IF r.c.imgs[k] # 0 THEN Dropped(r.ns, n) ELSE r.ns),
         NEW d, d = (IF r.c.imgs[k] # 0 THEN r.c ELSE Entered(r.c, k, n))
  PROVE  HiddenMakes(ns, c, n, k, r, ms, d)
<1>1. /\ NodesOk(r.ns) /\ r.ns.tree = ns.tree /\ CatOk(r.c)
      /\ DOMAIN r.c.imgs = DOMAIN c.imgs
      /\ CountedTo(r.ns, r.c, ns.tree, n)
      /\ \A m \in NodeIds : m # n /\ ns.refs[m] = 0 => r.ns.refs[m] = 0
      /\ \A j \in DOMAIN c.imgs : c.imgs[j] # 0 => r.c.imgs[j] # 0
  <2>1. PICK f : f = HiddenFile(boots[k])
    OBVIOUS
  <2>2. r = image_builder_create_node(ns, c, f, n, boots, catblock) /\ (c.alloc => DOMAIN boots = DOMAIN c.imgs)
    BY <2>1
  <2>3. Creates(ns, c, n, r)
    BY <2>2, CreateCounts
  <2> QED  BY <2>3 DEF Creates
<1>2. IsNodes(r.ns) /\ IsCat(r.c) /\ r.c.alloc
  BY CreateShape
<1>3. n \in NodeIds \ ns.tree /\ n # 0
  <2>1. Held(c, n) \in Nat /\ ns.refs[n] = (IF n \in ns.tree THEN 1 ELSE 0) + Held(c, n)
    BY HeldIs DEF CatOk, Counted
  <2>2. n # 0
    BY DEF NodeIds
  <2> QED  BY <2>1, <2>2
<1>4. \A j \in DOMAIN c.imgs : j <= k => j < k \/ j = k
  BY DEF CatOk
<1>5. r.c.imgs[k] \in {0, n}
  BY FirstWithoutNode
<1>6. CASE r.c.imgs[k] # 0
  <2>1. ms = Dropped(r.ns, n) /\ d = r.c
    BY <1>6
  <2>2. Held(r.c, n) # 0
    BY <1>1, <1>5, <1>6, HeldIs DEF CatOk
  <2>3. /\ NodesOk(ms) /\ ms.tree = r.ns.tree /\ Counted(ms, d, ns.tree)
        /\ \A m \in NodeIds : r.ns.refs[m] = 0 => ms.refs[m] = 0
        /\ Streams(ms) = Streams(r.ns)
    BY <1>1, <1>2, <1>3, <2>1, <2>2, CreatorDrops
  <2>4. \A j \in DOMAIN c.imgs : j <= k => d.imgs[j] # 0
    BY <1>1, <1>4, <1>6, <2>1
  <2> QED  BY <1>1, <2>1, <2>3, <2>4 DEF HiddenMakes
<1>7. CASE r.c.imgs[k] = 0
  <2>1. ms = r.ns /\ d = Entered(r.c, k, n)
    BY <1>7
  <2>2. /\ CatOk(d) /\ Counted(ms, d, ns.tree) /\ DOMAIN d.imgs = DOMAIN r.c.imgs
        /\ \A j \in DOMAIN r.c.imgs : d.imgs[j] = IF j = k THEN n ELSE r.c.imgs[j]
    BY <1>1, <1>2, <1>3, <1>7, <2>1, CreatorEnters
  <2>3. \A j \in DOMAIN c.imgs : j <= k => d.imgs[j] # 0
    BY <1>1, <1>3, <1>4, <2>2
  <2> QED  BY <1>1, <2>1, <2>2, <2>3 DEF HiddenMakes
<1> QED  BY <1>6, <1>7

-----------------------------------------------------------------------------
(* The invariant of the references.                                         *)

\* References which the running import has to the filesystem of import k.
Running(k) == IF ipc = "idle" \/ k # g THEN 0 ELSE IF ipc \in {"sysarea", "getroot"} THEN 1 ELSE 2
StreamCount(ns) == Cardinality(Streams(ns))
FsCounted(k) ==
  fss[k] = [refs |-> StreamCount(nodes[k]) + Running(k), open |-> IF Running(k) > 0 THEN 1 ELSE 0]
ObjectsOk(k) == NodesOk(nodes[k]) /\ CatOk(cats[k]) /\ Counted(nodes[k], cats[k], nodes[k].tree)

\* Before its tree is loaded an import has no nodes; a catalog is only
\* incomplete while it is being loaded and when that has failed.
NothingYet(k) == nodes[k].tree = {} /\ ~cats[k].alloc
Fresh(k) == k > g \/ (k = g /\ ipc \in {"sysarea", "getroot", "builder", "attrs"})
AllMade(c) == c.alloc => c.node # 0 /\ \A j \in DOMAIN c.imgs : c.imgs[j] # 0
Settled(k) == k # g \/ ipc \notin {"tree", "hidden", "revert"}

\* The ISO image being imported.
CurOk ==
  /\ cur.i \in IsoImages /\ cur.at \in Nat \ {0}
  /\ DOMAIN cur.d.boots \subseteq 1..MaxBootImgs
  /\ \A j \in DOMAIN cur.d.boots : 1..j \subseteq DOMAIN cur.d.boots

\* The loops over files and boot images: later nodes are still to be made,
\* earlier images have their node.
CatalogAsRead ==
  ipc \in {"tree", "hidden"} =>
    /\ cats[g].alloc <=> cur.d.elt
    /\ cats[g].alloc => DOMAIN cats[g].imgs = DOMAIN cur.d.boots
FilesSoFar ==
  ipc = "tree" => \A n \in NodeIds : n >= cur.at \/ n > Len(cur.i.files) => nodes[g].refs[n] = 0
ImagesSoFar ==
  ipc = "hidden" => /\ cur.at <= MaxBootImgs + 1 /\ cats[g].alloc
                    /\ \A n \in NodeIds : n >= HiddenBase + cur.at => nodes[g].refs[n] = 0
                    /\ \A j \in DOMAIN cats[g].imgs : j < cur.at => cats[g].imgs[j] # 0

RefInv ==
  early = {} =>
    /\ fss = [k \in Gens |-> fss[k]]
    /\ \A k \in Gens : ObjectsOk(k) /\ FsCounted(k)
    /\ \A k \in Gens : (Fresh(k) => NothingYet(k)) /\ (Settled(k) => AllMade(cats[k]))
    /\ ipc # "idle" => CurOk
    /\ CatalogAsRead /\ FilesSoFar /\ ImagesSoFar

LEMMA StreamsCounted ==
  /\ \A ns : StreamCount(ns) \in Nat
  /\ \A ns : (\A n \in NodeIds : ns.refs[n] = 0) => StreamCount(ns) = 0
  /\ \A ns, ms : Streams(ms) = Streams(ns) => StreamCount(ms) = StreamCount(ns)
<1>1. ASSUME NEW ns PROVE StreamCount(ns) \in Nat
  <2>1. Streams(ns) \in SUBSET NodeIds
    BY DEF Streams
  <2>2. IsFiniteSet(Streams(ns))
    BY <2>1, Numbers, FS_Subset
  <2> QED  BY <2>2, FS_CardinalityType DEF StreamCount
<1>2. ASSUME NEW ns, \A n \in NodeIds : ns.refs[n] = 0 PROVE StreamCount(ns) = 0
  <2>1. Streams(ns) = {}
    BY <1>2 DEF Streams
  <2> QED  BY <2>1, FS_EmptySet DEF StreamCount
<1> QED  BY <1>1, <1>2 DEF StreamCount

\* Nodes which neither a directory nor a catalog holds have no reference.
LEMMA NoneHeld ==
  ASSUME NEW ns, NEW c, NodesOk(ns), CatOk(c), Counted(ns, c, ns.tree), ns.tree = {}, ~c.alloc
  PROVE  \A n \in NodeIds : ns.refs[n] = 0
<1>1. c.imgs = <<>> /\ c.node = 0
  BY DEF CatOk, NoCat
<1>2. ASSUME NEW n \in NodeIds PROVE Held(c, n) = 0
  <2>1. c.node # n /\ \A j \in DOMAIN c.imgs : c.imgs[j] # n
    BY <1>1 DEF NodeIds
  <2> QED  BY <2>1, HeldIs DEF CatOk
<1> QED  BY <1>2 DEF Counted

LEMMA NoCatOk == CatOk(NoCat) /\ ~NoCat.alloc
BY Numbers DEF CatOk, NoCat

LEMMA RefInit == ImInit => RefInv
<1> SUFFICES ASSUME ImInit PROVE RefInv
  OBVIOUS
<1>1. ipc = "idle" /\ cur.g = 0
  BY DEF ImInit, NoImport
<1>2. ASSUME NEW k \in Gens
      PROVE  /\ nodes[k].refs \in [NodeIds -> Nat] /\ nodes[k].tree = {} /\ \A n \in NodeIds : nodes[k].refs[n] = 0
             /\ cats[k] = NoCat
             /\ fss[k] = [refs |-> 0, open |-> 0]
  BY DEF ImInit
<1>3. ASSUME NEW k \in Gens PROVE ObjectsOk(k) /\ FsCounted(k) /\ NothingYet(k) /\ AllMade(cats[k])
  <2>1. CatOk(cats[k]) /\ ~cats[k].alloc
    BY <1>2, NoCatOk
  <2>2. ASSUME NEW n \in NodeIds PROVE Held(cats[k], n) = 0
    <3>1. cats[k].node # n /\ cats[k].imgs = <<>>
      BY <1>2 DEF NoCat, NodeIds
    <3> QED  BY <2>1, <3>1, HeldIs DEF CatOk
  <2>3. ObjectsOk(k)
    BY <1>2, <2>1, <2>2 DEF ObjectsOk, NodesOk, Counted
  <2>4. FsCounted(k)
    BY <1>1, <1>2, StreamsCounted DEF FsCounted, Running
  <2> QED  BY <1>2, <2>1, <2>3, <2>4 DEF NothingYet, AllMade
<1>4. fss = [k \in Gens |-> fss[k]]
  BY DEF ImInit
<1> QED  BY <1>1, <1>3, <1>4 DEF RefInv, CatalogAsRead, FilesSoFar, ImagesSoFar

\* A step of the running import which changes no other import's objects.
LEMMA RefKept ==
  ASSUME RefInv, early = {}, early' = {}, ipc # "idle", g \in Gens, g' = g,
         nodes = [k \in Gens |-> nodes[k]], cats = [k \in Gens |-> cats[k]],
         NEW ns, nodes' = [nodes EXCEPT ![g] = ns],
         NEW c, cats' = [cats EXCEPT ![g] = c],
         NEW fs, fss' = [fss EXCEPT ![g] = fs],
         NodesOk(ns), CatOk(c), Counted(ns, c, ns.tree),
         fs = [refs |-> StreamCount(ns) + Running(g)', open |-> IF Running(g)' > 0 THEN 1 ELSE 0],
         Fresh(g)' => ns.tree = {} /\ ~c.alloc,
         Settled(g)' => AllMade(c),
         ipc' # "idle" => CurOk',
         CatalogAsRead', FilesSoFar', ImagesSoFar'
  PROVE  RefInv'
<1>1. fss = [k \in Gens |-> fss[k]] /\ fss' = [k \in Gens |-> fss'[k]]
  BY DEF RefInv
<1>2. /\ nodes'[g] = ns /\ cats'[g] = c /\ fss'[g] = fs
      /\ \A k \in Gens \ {g} : nodes'[k] = nodes[k] /\ cats'[k] = cats[k] /\ fss'[k] = fss[k]
  BY <1>1
<1>3. ASSUME NEW k \in Gens
      PROVE  /\ ObjectsOk(k)' /\ FsCounted(k)'
             /\ Fresh(k)' => NothingYet(k)'
             /\ Settled(k)' => AllMade(cats'[k])
  <2>1. CASE k = g
    BY <1>2, <2>1 DEF ObjectsOk, FsCounted, Fresh, Settled, NothingYet
  <2>2. CASE k # g
    <3>1. /\ ObjectsOk(k) /\ FsCounted(k) /\ (Fresh(k) => NothingYet(k)) /\ (Settled(k) => AllMade(cats[k]))
      BY DEF RefInv
    <3>2. nodes'[k] = nodes[k] /\ cats'[k] = cats[k] /\ fss'[k] = fss[k]
      BY <1>2, <2>2
    <3>3. Running(k) = 0 /\ Running(k)' = 0
      BY <2>2 DEF Running
    <3> QED  BY <2>2, <3>1, <3>2, <3>3 DEF ObjectsOk, FsCounted, Fresh, Settled, NothingYet
  <2> QED  BY <2>1, <2>2
<1> QED  BY <1>1, <1>3 DEF RefInv

LEMMA AtHand ==
  ASSUME RefInv, AllOrNothingInv, early = {}, ipc # "idle"
  PROVE  /\ g \in Gens
         /\ nodes = [k \in Gens |-> nodes[k]] /\ cats = [k \in Gens |-> cats[k]]
         /\ fss = [k \in Gens |-> fss[k]]
         /\ IsNodes(nodes[g]) /\ IsCat(cats[g])
         /\ NodesOk(nodes[g]) /\ CatOk(cats[g]) /\ Counted(nodes[g], cats[g], nodes[g].tree)
         /\ fss[g] = [refs |-> StreamCount(nodes[g]) + Running(g), open |-> IF Running(g) > 0 THEN 1 ELSE 0]
         /\ StreamCount(nodes[g]) \in Nat /\ Running(g) \in {1, 2}
         /\ cur = [g |-> cur.g, i |-> cur.i, o |-> cur.o, at |-> cur.at, ret |-> cur.ret, was |-> cur.was, d |-> cur.d]
         /\ CurOk
<1>1. g \in Gens /\ Shapes
  BY DEF AllOrNothingInv
<1>2. ObjectsOk(g) /\ FsCounted(g) /\ CurOk /\ fss = [k \in Gens |-> fss[k]]
  BY <1>1 DEF RefInv
<1>3. Running(g) \in {1, 2}
  BY DEF Running
<1>4. StreamCount(nodes[g]) \in Nat
  BY StreamsCounted
<1> QED  BY <1>1, <1>2, <1>3, <1>4 DEF Shapes, ObjectsOk, FsCounted

\* A step which keeps nodes and catalogs.
LEMMA RefOnlyFs ==
  ASSUME RefInv, AllOrNothingInv, early = {}, early' = {}, ipc # "idle", g' = g,
         nodes' = nodes, cats' = cats,
         NEW fs, fss' = [fss EXCEPT ![g] = fs],
         fs = [refs |-> StreamCount(nodes[g]) + Running(g)', open |-> IF Running(g)' > 0 THEN 1 ELSE 0],
         Fresh(g)' => Fresh(g),
         Settled(g)' => AllMade(cats[g]),
         ipc' # "idle" => CurOk',
         CatalogAsRead', FilesSoFar', ImagesSoFar'
  PROVE  RefInv'
<1>1. /\ g \in Gens
      /\ nodes = [k \in Gens |-> nodes[k]] /\ cats = [k \in Gens |-> cats[k]]
      /\ NodesOk(nodes[g]) /\ CatOk(cats[g]) /\ Counted(nodes[g], cats[g], nodes[g].tree)
  BY AtHand
<1>2. PICK ns, c : ns = nodes[g] /\ c = cats[g]
  OBVIOUS
<1>3. nodes' = [nodes EXCEPT ![g] = ns] /\ cats' = [cats EXCEPT ![g] = c]
  BY <1>1, <1>2
<1>4. Fresh(g)' => ns.tree = {} /\ ~c.alloc
  BY <1>1, <1>2 DEF RefInv, NothingYet
<1>5. NodesOk(ns) /\ CatOk(c) /\ Counted(ns, c, ns.tree) /\ (Settled(g)' => AllMade(c))
      /\ fs = [refs |-> StreamCount(ns) + Running(g)', open |-> IF Running(g)' > 0 THEN 1 ELSE 0]
  BY <1>1, <1>2
<1> QED  BY <1>1, <1>3, <1>4, <1>5, RefKept

\* A step within the import which keeps filesystems, too.
LEMMA RefNoObject ==
  ASSUME RefInv, AllOrNothingInv, early = {}, early' = {}, ipc # "idle", ipc' # "idle", g' = g,
         nodes' = nodes, cats' = cats, fss' = fss,
         Running(g)' = Running(g), Fresh(g)' => Fresh(g),
         Settled(g)' => AllMade(cats[g]),
         cur'.i = cur.i, cur'.d = cur.d, cur'.at \in Nat \ {0},
         CatalogAsRead', FilesSoFar', ImagesSoFar'
  PROVE  RefInv'
<1>1. /\ g \in Gens /\ CurOk /\ fss = [k \in Gens |-> fss[k]]
      /\ fss[g] = [refs |-> StreamCount(nodes[g]) + Running(g), open |-> IF Running(g) > 0 THEN 1 ELSE 0]
  BY AtHand
<1>2. PICK fs : fs = fss[g]
  OBVIOUS
<1>3. fss' = [fss EXCEPT ![g] = fs]
  BY <1>1, <1>2
<1>4. CurOk'
  BY <1>1 DEF CurOk
<1>5. fs = [refs |-> StreamCount(nodes[g]) + Running(g)', open |-> IF Running(g)' > 0 THEN 1 ELSE 0]
  BY <1>1, <1>2
<1> QED  BY <1>3, <1>4, <1>5, RefOnlyFs

\* The import gives up before it has any node: its filesystem vanishes.
LEMMA GiveUpRefs ==
  ASSUME RefInv, AllOrNothingInv, early = {}, early' = {}, ipc \in {"sysarea", "getroot"},
         GiveUp, UNCHANGED <<nodes, cats>>
  PROVE  RefInv'
<1>1. Running(g) = 1 /\ Fresh(g) /\ Settled(g)
  BY DEF Running, Fresh, Settled
<1>2. /\ g \in Gens /\ fss = [k \in Gens |-> fss[k]]
      /\ fss[g] = [refs |-> StreamCount(nodes[g]) + Running(g), open |-> IF Running(g) > 0 THEN 1 ELSE 0]
      /\ NodesOk(nodes[g]) /\ CatOk(cats[g]) /\ Counted(nodes[g], cats[g], nodes[g].tree)
      /\ cur = [g |-> cur.g, i |-> cur.i, o |-> cur.o, at |-> cur.at, ret |-> cur.ret, was |-> cur.was, d |-> cur.d]
  BY AtHand
<1>3. NothingYet(g) /\ AllMade(cats[g])
  BY <1>1, <1>2 DEF RefInv
<1>4. StreamCount(nodes[g]) = 0
  BY <1>2, <1>3, NoneHeld, StreamsCounted DEF NothingYet
<1>5. ipc' = "idle" /\ g' = g
  BY <1>2 DEF GiveUp, g
<1>6. PICK fs : fs = [refs |-> 0, open |-> 0]
  OBVIOUS
<1>7. fss' = [fss EXCEPT ![g] = fs]
  <2>1. fss[g] = [refs |-> 1, open |-> 1]
    BY <1>1, <1>2, <1>4
  <2>2. FsUnref(fss[g], 1) = fs
    BY <1>6, <2>1 DEF FsUnref
  <2> QED  BY <1>2, <2>2 DEF GiveUp
<1>8. /\ Running(g)' = 0 /\ CatalogAsRead' /\ FilesSoFar' /\ ImagesSoFar'
  BY <1>5 DEF Running, CatalogAsRead, FilesSoFar, ImagesSoFar
<1>9. fs = [refs |-> StreamCount(nodes[g]) + Running(g)', open |-> IF Running(g)' > 0 THEN 1 ELSE 0]
  BY <1>4, <1>6, <1>8
<1> QED  BY <1>1, <1>3, <1>5, <1>7, <1>8, <1>9, RefOnlyFs

LEMMA LoadSystemAreaRefs ==
  ASSUME RefInv, AllOrNothingInv, early = {}, early' = {}, NEW ok, LoadSystemArea(ok) PROVE RefInv'
<1>1. ipc = "sysarea" /\ UNCHANGED <<nodes, cats>> /\ Running(g) = 1 /\ Fresh(g) /\ ipc' \in {"getroot", "idle"}
  BY DEF LoadSystemArea, GiveUp, Running, Fresh
<1>2. /\ g \in Gens
      /\ fss[g] = [refs |-> StreamCount(nodes[g]) + Running(g), open |-> IF Running(g) > 0 THEN 1 ELSE 0]
      /\ NodesOk(nodes[g]) /\ CatOk(cats[g]) /\ Counted(nodes[g], cats[g], nodes[g].tree)
      /\ cur = [g |-> cur.g, i |-> cur.i, o |-> cur.o, at |-> cur.at, ret |-> cur.ret, was |-> cur.was, d |-> cur.d]
  BY <1>1, AtHand
<1>3. NothingYet(g) /\ AllMade(cats[g])
  BY <1>1, <1>2 DEF RefInv, NothingYet, AllMade
<1>4. CASE ok
  <2>1. ipc' = "getroot" /\ cur' = cur /\ fss' = fss /\ g' = g
    BY <1>4 DEF LoadSystemArea, g
  <2>2. Running(g)' = 1 /\ CatalogAsRead' /\ FilesSoFar' /\ ImagesSoFar' /\ cur'.at \in Nat \ {0}
    <3>1. CurOk
      BY <1>1, AtHand
    <3> QED  BY <2>1, <3>1 DEF Running, CatalogAsRead, FilesSoFar, ImagesSoFar, CurOk
  <2> QED  BY <1>1, <1>3, <2>1, <2>2, RefNoObject
<1>5. CASE ~ok
  BY <1>1, <1>2, <1>3, <1>5, GiveUpRefs DEF LoadSystemArea
<1> QED  BY <1>4, <1>5

LEMMA GetNewRootRefs ==
  ASSUME RefInv, AllOrNothingInv, early = {}, early' = {}, NEW ok, GetNewRoot(ok) PROVE RefInv'
<1>1. ipc = "getroot" /\ UNCHANGED <<nodes, cats>> /\ Running(g) = 1 /\ Fresh(g) /\ Settled(g)
  BY DEF GetNewRoot, GiveUp, Running, Fresh, Settled
<1>2. /\ g \in Gens /\ fss = [k \in Gens |-> fss[k]]
      /\ fss[g] = [refs |-> StreamCount(nodes[g]) + Running(g), open |-> IF Running(g) > 0 THEN 1 ELSE 0]
      /\ StreamCount(nodes[g]) \in Nat /\ CurOk
  BY <1>1, AtHand
<1>3. AllMade(cats[g])
  BY <1>1, <1>2 DEF RefInv
<1>4. CASE ok
  <2>1. ipc' = "builder" /\ cur' = cur /\ g' = g /\ fss' = [fss EXCEPT ![g].refs = @ + 1]
    BY <1>4 DEF GetNewRoot, g
  <2>2. /\ Running(g)' = 2 /\ CatalogAsRead' /\ FilesSoFar' /\ ImagesSoFar' /\ CurOk'
    BY <1>2, <2>1 DEF Running, CatalogAsRead, FilesSoFar, ImagesSoFar, CurOk
  <2>3. PICK fs : fs = [refs |-> StreamCount(nodes[g]) + 2, open |-> 1]
    OBVIOUS
  <2>4. fss' = [fss EXCEPT ![g] = fs]
    <3>1. [fss[g] EXCEPT !.refs = @ + 1] = fs
      BY <1>1, <1>2, <2>3
    <3> QED  BY <1>2, <2>1, <3>1
  <2>5. fs = [refs |-> StreamCount(nodes[g]) + Running(g)', open |-> IF Running(g)' > 0 THEN 1 ELSE 0]
    BY <2>2, <2>3
  <2> QED  BY <1>1, <1>3, <2>1, <2>2, <2>4, <2>5, RefOnlyFs
<1>5. CASE ~ok
  BY <1>1, <1>5, GiveUpRefs DEF GetNewRoot
<1> QED  BY <1>4, <1>5

LEMMA NewRootRefs ==
  ASSUME RefInv, AllOrNothingInv, early = {}, early' = {}, NEW ok, NewBuilderAndRoot(ok) PROVE RefInv'
<1>1. ipc = "builder" /\ Running(g) = 2 /\ Fresh(g) /\ Settled(g)
  BY DEF NewBuilderAndRoot, Running, Fresh, Settled
<1>2. /\ g \in Gens /\ fss = [k \in Gens |-> fss[k]]
      /\ nodes = [k \in Gens |-> nodes[k]] /\ cats = [k \in Gens |-> cats[k]]
      /\ IsNodes(nodes[g])
      /\ NodesOk(nodes[g]) /\ CatOk(cats[g]) /\ Counted(nodes[g], cats[g], nodes[g].tree)
      /\ fss[g] = [refs |-> StreamCount(nodes[g]) + Running(g), open |-> IF Running(g) > 0 THEN 1 ELSE 0]
      /\ CurOk
  BY <1>1, AtHand
<1>3. NothingYet(g) /\ AllMade(cats[g])
  BY <1>1, <1>2 DEF RefInv
<1>4. ok
  BY DEF NewBuilderAndRoot
<1>5. /\ ipc' = "attrs" /\ nodes' = [nodes EXCEPT ![g].root = TRUE] /\ UNCHANGED <<cur, cats, fss>> /\ g' = g
  BY <1>4 DEF NewBuilderAndRoot, g
<1>6. PICK v : v = nodes[g]
  OBVIOUS
<1>7. PICK ns : ns = [v EXCEPT !.root = TRUE]
  OBVIOUS
<1>8. ns.refs = v.refs /\ ns.tree = v.tree /\ ns.plain = v.plain
  BY <1>2, <1>6, <1>7 DEF IsNodes
<1>9. StreamCount(ns) = StreamCount(v)
  BY <1>8, StreamsCounted DEF Streams
<1>10. PICK c, fs : c = cats[g] /\ fs = fss[g]
  OBVIOUS
<1>11. nodes' = [nodes EXCEPT ![g] = ns] /\ cats' = [cats EXCEPT ![g] = c] /\ fss' = [fss EXCEPT ![g] = fs]
  BY <1>2, <1>5, <1>6, <1>7, <1>10
<1>12. Running(g)' = 2 /\ CatalogAsRead' /\ FilesSoFar' /\ ImagesSoFar' /\ CurOk'
  BY <1>2, <1>5 DEF Running, CatalogAsRead, FilesSoFar, ImagesSoFar, CurOk
<1>13. fs = [refs |-> StreamCount(ns) + Running(g)', open |-> IF Running(g)' > 0 THEN 1 ELSE 0]
  BY <1>1, <1>2, <1>6, <1>9, <1>10, <1>12
<1>14. NodesOk(ns) /\ CatOk(c) /\ Counted(ns, c, ns.tree) /\ ns.tree = {} /\ ~c.alloc /\ AllMade(c)
  BY <1>2, <1>3, <1>6, <1>8, <1>10 DEF NodesOk, Counted, NothingYet
<1> QED  BY <1>1, <1>2, <1>5, <1>11, <1>12, <1>13, <1>14, RefKept

LEMMA RootAttributesRefs ==
  ASSUME RefInv, AllOrNothingInv, early = {}, early' = {}, NEW ok, RootAttributes(ok) PROVE RefInv'
<1>1. /\ ipc = "attrs" /\ Running(g) = 2 /\ Fresh(g) /\ Settled(g) /\ g' = g
      /\ UNCHANGED <<cur, nodes, fss>> /\ ipc' = IF ok THEN "tree" ELSE "revert"
  BY DEF RootAttributes, Running, Fresh, Settled, g
<1>2. /\ g \in Gens /\ fss = [k \in Gens |-> fss[k]]
      /\ nodes = [k \in Gens |-> nodes[k]] /\ cats = [k \in Gens |-> cats[k]]
      /\ NodesOk(nodes[g]) /\ CatOk(cats[g]) /\ Counted(nodes[g], cats[g], nodes[g].tree)
      /\ fss[g] = [refs |-> StreamCount(nodes[g]) + Running(g), open |-> IF Running(g) > 0 THEN 1 ELSE 0]
      /\ CurOk
  BY <1>1, AtHand
<1>3. NothingYet(g) /\ AllMade(cats[g])
  BY <1>1, <1>2 DEF RefInv
<1>4. nodes[g].tree = {} /\ \A n \in NodeIds : nodes[g].refs[n] = 0
  BY <1>2, <1>3, NoneHeld DEF NothingYet
<1>5. Running(g)' = 2 /\ FilesSoFar' /\ ImagesSoFar' /\ CurOk' /\ ~Settled(g)' /\ ~Fresh(g)'
  <2>1. Running(g)' = 2 /\ ImagesSoFar' /\ CurOk'
    BY <1>1, <1>2 DEF Running, ImagesSoFar, CurOk
  <2>2. FilesSoFar'
    BY <1>1, <1>4 DEF FilesSoFar
  <2>3. ~Settled(g)' /\ ~Fresh(g)'
    <3>1. g \in Nat
      BY <1>2, ImportAssumption DEF Gens
    <3> QED  BY <1>1, <3>1 DEF Settled, Fresh
  <2> QED  BY <2>1, <2>2, <2>3
<1>6. CASE ok /\ cur.d.elt
  <2>1. PICK ns, c, fs : /\ ns = nodes[g] /\ fs = fss[g]
                         /\ c = [alloc |-> TRUE, imgs |-> [k \in DOMAIN cur.d.boots |-> 0], node |-> 0]
    OBVIOUS
  <2>2. nodes' = [nodes EXCEPT ![g] = ns] /\ cats' = [cats EXCEPT ![g] = c] /\ fss' = [fss EXCEPT ![g] = fs]
    BY <1>1, <1>2, <1>6, <2>1 DEF RootAttributes
  <2>3. DOMAIN c.imgs = DOMAIN cur.d.boots /\ c.node = 0 /\ c.alloc /\ \A j \in DOMAIN c.imgs : c.imgs[j] = 0
    BY <2>1
  <2>4. CatOk(c)
    <3>1. 0 \in 0..CatNode
      BY Numbers
    <3>2. DOMAIN c.imgs \subseteq 1..MaxBootImgs
      BY <1>2, <2>3 DEF CurOk
    <3>3. c.imgs \in [DOMAIN c.imgs -> 0..CatNode]
      BY <2>1, <3>1
    <3> QED  BY <2>3, <3>1, <3>2, <3>3 DEF CatOk
  <2>5. Counted(ns, c, ns.tree)
    <3>1. ASSUME NEW n \in NodeIds PROVE Held(c, n) = 0
      <4>1. c.node # n /\ \A j \in DOMAIN c.imgs : c.imgs[j] # n
        BY <2>3 DEF NodeIds
      <4> QED  BY <2>4, <4>1, HeldIs DEF CatOk
    <3>2. ns.tree = {} /\ \A n \in NodeIds : ns.refs[n] = 0
      BY <1>4, <2>1
    <3> HIDE DEF Held
    <3> QED  BY <3>1, <3>2 DEF Counted
  <2>6. CatalogAsRead'
    <3>1. cats'[g] = c
      BY <1>2, <2>2
    <3> QED  BY <1>1, <1>6, <2>3, <3>1 DEF CatalogAsRead
  <2>7. fs = [refs |-> StreamCount(ns) + Running(g)', open |-> IF Running(g)' > 0 THEN 1 ELSE 0]
    BY <1>1, <1>2, <1>5, <2>1
  <2> QED  BY <1>1, <1>2, <1>5, <2>1, <2>2, <2>4, <2>5, <2>6, <2>7, RefKept
<1>7. CASE ~(ok /\ cur.d.elt)
  <2>1. cats' = cats
    BY <1>7 DEF RootAttributes
  <2>2. CatalogAsRead'
    BY <1>1, <1>3, <1>7, <2>1 DEF CatalogAsRead, NothingYet
  <2> QED  BY <1>1, <1>2, <1>3, <1>5, <2>1, <2>2, RefNoObject DEF CurOk
<1> QED  BY <1>6, <1>7

LEMMA AddFileRefs ==
  ASSUME RefInv, AllOrNothingInv, early = {}, early' = {},
         NEW result \in {"ok", "skip", "abort"}, AddFile(result)
  PROVE  RefInv'
<1>1. ipc = "tree" /\ Running(g) = 2 /\ ~Settled(g) /\ ~Fresh(g) /\ cur.at <= Len(cur.i.files)
  <2>1. g \in Nat
    BY AtHand, ImportAssumption DEF AddFile, Gens
  <2> QED  BY <2>1 DEF AddFile, Running, Settled, Fresh
<1>2. /\ g \in Gens /\ fss = [k \in Gens |-> fss[k]]
      /\ nodes = [k \in Gens |-> nodes[k]] /\ cats = [k \in Gens |-> cats[k]]
      /\ IsNodes(nodes[g]) /\ IsCat(cats[g])
      /\ NodesOk(nodes[g]) /\ CatOk(cats[g]) /\ Counted(nodes[g], cats[g], nodes[g].tree)
      /\ fss[g] = [refs |-> StreamCount(nodes[g]) + Running(g), open |-> IF Running(g) > 0 THEN 1 ELSE 0]
      /\ StreamCount(nodes[g]) \in Nat
      /\ cur = [g |-> cur.g, i |-> cur.i, o |-> cur.o, at |-> cur.at, ret |-> cur.ret, was |-> cur.was, d |-> cur.d]
      /\ CurOk
  BY <1>1, AtHand
<1>3. /\ \A n \in NodeIds : n >= cur.at \/ n > Len(cur.i.files) => nodes[g].refs[n] = 0
      /\ cats[g].alloc <=> cur.d.elt
      /\ cats[g].alloc => DOMAIN cats[g].imgs = DOMAIN cur.d.boots
  BY <1>1 DEF RefInv, CatalogAsRead, FilesSoFar
<1>4. /\ cur'.at = cur.at + 1 /\ cur'.i = cur.i /\ cur'.d = cur.d /\ g' = g
  BY <1>2 DEF AddFile, g
<1>n. Len(cur.i.files) \in Nat
  BY <1>2, FilesAssumption DEF CurOk
<1>5. cur.at \in NodeIds /\ cur.at \in Nat
  <2>1. cur.at \in Nat \ {0} /\ Len(cur.i.files) <= MaxFiles /\ Len(cur.i.files) \in Nat
    BY <1>2, FilesAssumption DEF CurOk
  <2> QED  BY <1>1, <2>1, Numbers DEF NodeIds
<1>6. ipc' \in {"tree", "revert"} /\ Running(g)' = 2 /\ ~Settled(g)' /\ ~Fresh(g)'
  <2>1. g \in Nat
    BY <1>2, ImportAssumption DEF Gens
  <2>2. ipc' \in {"tree", "revert"}
    BY <1>1 DEF AddFile
  <2> QED  BY <1>4, <2>1, <2>2 DEF Running, Settled, Fresh
<1>7. CurOk' /\ ImagesSoFar'
  BY <1>2, <1>4, <1>5, <1>6 DEF CurOk, ImagesSoFar
<1>8. CASE result = "ok"
  <2>1. PICK f, n, boots, b : f = cur.i.files[cur.at] /\ n = cur.at /\ boots = cur.d.boots /\ b = cur.i.catblock
    OBVIOUS
  <2>2. PICK v, w : v = nodes[g] /\ w = cats[g]
    OBVIOUS
  <2>3. PICK r : r = image_builder_create_node(v, w, f, n, boots, b)
    OBVIOUS
  <2>4. Creates(v, w, n, r)
    <3>1. /\ IsNodes(v) /\ IsCat(w) /\ NodesOk(v) /\ CatOk(w) /\ Counted(v, w, v.tree)
          /\ n \in NodeIds /\ v.refs[n] = 0 /\ (w.alloc => DOMAIN boots = DOMAIN w.imgs)
      BY <1>2, <1>3, <1>5, <2>1, <2>2
    <3> QED  BY <2>3, <3>1, CreateCounts
  <2>5. IsNodes(r.ns) /\ IsCat(r.c) /\ r.c.alloc = w.alloc
    BY <1>2, <2>2, <2>3, CreateShape
  <2>6. PICK ns : ns = [r.ns EXCEPT !.tree = @ \union {n}]
    OBVIOUS
  <2>7. /\ ns.refs = r.ns.refs /\ ns.plain = r.ns.plain /\ ns.tree = v.tree \cup {n}
    BY <2>4, <2>5, <2>6 DEF IsNodes, Creates
  <2>8. NodesOk(ns) /\ CatOk(r.c) /\ Counted(ns, r.c, ns.tree)
    BY <1>5, <2>1, <2>4, <2>7 DEF NodesOk, Counted, CountedTo, Creates
  <2>9. StreamCount(ns) = StreamCount(r.ns) /\ StreamCount(r.ns) \in Nat
    BY <2>7, StreamsCounted DEF Streams
  <2>10. PICK c, fs : c = r.c /\ fs = [refs |-> StreamCount(ns) + Running(g)', open |-> IF Running(g)' > 0 THEN 1 ELSE 0]
    OBVIOUS
  <2>11. /\ nodes' = [nodes EXCEPT ![g] = ns] /\ cats' = [cats EXCEPT ![g] = c]
         /\ fss' = [fss EXCEPT ![g].refs = @ + StreamCount(r.ns) - StreamCount(v)]
         /\ ipc' = "tree"
    BY <1>1, <1>8, <2>1, <2>2, <2>3, <2>6, <2>10 DEF AddFile, StreamCount
  <2>12. fss' = [fss EXCEPT ![g] = fs]
    <3>1. [fss[g] EXCEPT !.refs = @ + StreamCount(r.ns) - StreamCount(v)] = fs
      BY <1>1, <1>2, <1>6, <2>2, <2>9, <2>10
    <3> QED  BY <1>2, <2>11, <3>1
  <2>13. nodes'[g] = ns /\ cats'[g] = c
    BY <1>2, <2>11
  <2>14. CatalogAsRead'
    BY <1>3, <1>4, <2>2, <2>4, <2>5, <2>10, <2>13 DEF CatalogAsRead, Creates
  <2>15. FilesSoFar'
    <3>1. ASSUME NEW m \in NodeIds, m >= cur.at + 1 \/ m > Len(cur.i.files) PROVE ns.refs[m] = 0
      <4>1. m >= cur.at /\ m # n
        BY <1>1, <1>5, <1>n, <2>1, <3>1 DEF NodeIds
      <4>2. v.refs[m] = 0
        BY <1>3, <2>2, <4>1
      <4> QED  BY <2>4, <2>7, <4>1, <4>2 DEF Creates
    <3> QED  BY <1>4, <2>13, <3>1 DEF FilesSoFar
  <2> QED  BY <1>1, <1>2, <1>4, <1>6, <1>7, <2>8, <2>10, <2>11, <2>12, <2>14, <2>15, RefKept
<1>9. CASE result # "ok"
  <2>1. UNCHANGED <<nodes, cats, fss>>
    BY <1>9 DEF AddFile
  <2>2. CatalogAsRead' /\ FilesSoFar'
    <3>1. \A m \in NodeIds : m >= cur.at + 1 \/ m > Len(cur.i.files) => m >= cur.at
      BY <1>1, <1>5, <1>n DEF NodeIds
    <3> QED  BY <1>3, <1>4, <2>1, <3>1 DEF CatalogAsRead, FilesSoFar
  <2> QED  BY <1>1, <1>4, <1>5, <1>6, <1>7, <2>1, <2>2, RefNoObject
<1> QED  BY <1>8, <1>9

LEMMA TreeDoneRefs ==
  ASSUME RefInv, AllOrNothingInv, early = {}, early' = {}, NEW ok, TreeDone(ok) PROVE RefInv'
<1>1. /\ ipc = "tree" /\ Running(g) = 2 /\ UNCHANGED <<nodes, cats, fss>> /\ cur.at > Len(cur.i.files)
      /\ ipc' = CASE ~ok -> "revert" [] ok /\ cur.d.elt -> "hidden" [] OTHER -> "finish"
  BY DEF TreeDone, Running
<1>2. /\ g \in Gens /\ CurOk
      /\ cur = [g |-> cur.g, i |-> cur.i, o |-> cur.o, at |-> cur.at, ret |-> cur.ret, was |-> cur.was, d |-> cur.d]
  BY <1>1, AtHand
<1>3. cur'.at = 1 /\ cur'.i = cur.i /\ cur'.d = cur.d /\ g' = g
  BY <1>2 DEF TreeDone, g
<1>4. /\ \A n \in NodeIds : n >= cur.at \/ n > Len(cur.i.files) => nodes[g].refs[n] = 0
      /\ cats[g].alloc <=> cur.d.elt
      /\ cats[g].alloc => DOMAIN cats[g].imgs = DOMAIN cur.d.boots
  BY <1>1 DEF RefInv, CatalogAsRead, FilesSoFar
<1>5. CatOk(cats[g]) /\ IsCat(cats[g])
  BY <1>1, AtHand
<1>6. ipc' \in {"revert", "hidden", "finish"} /\ (ipc' = "hidden" => cur.d.elt) /\ (ipc' = "finish" => ~cur.d.elt)
  <2>1. CASE ~ok
    BY <1>1, <2>1
  <2>2. CASE ok /\ cur.d.elt
    BY <1>1, <2>2
  <2>3. CASE ok /\ ~cur.d.elt
    BY <1>1, <2>3
  <2> QED  BY <2>1, <2>2, <2>3
<1>7. Running(g)' = 2 /\ ~Fresh(g)' /\ (Settled(g)' => ipc' = "finish")
  <2>1. g \in Nat
    BY <1>2, ImportAssumption DEF Gens
  <2> QED  BY <1>3, <1>6, <2>1 DEF Running, Fresh, Settled
<1>8. Settled(g)' => AllMade(cats[g])
  BY <1>4, <1>6, <1>7 DEF AllMade
<1>9. CatalogAsRead' /\ FilesSoFar'
  BY <1>1, <1>3, <1>4, <1>6 DEF CatalogAsRead, FilesSoFar
<1>10. ImagesSoFar'
  <2>1. ASSUME NEW n \in NodeIds, n >= HiddenBase + 1 PROVE nodes[g].refs[n] = 0
    <3>1. Len(cur.i.files) \in 0..MaxFiles /\ cur.at \in Nat
      BY <1>2, FilesAssumption DEF CurOk
    <3>2. cur.at > Len(cur.i.files) /\ n \in Int
      BY <1>1 DEF NodeIds
    <3>3. n > Len(cur.i.files)
      BY <2>1, <3>1, <3>2, Numbers
    <3> QED  BY <1>4, <3>3
  <2>2. \A j \in DOMAIN cats[g].imgs : ~(j < 1)
    BY <1>5 DEF CatOk
  <2>3. 1 <= MaxBootImgs + 1
    BY Numbers
  <2> QED  BY <1>1, <1>3, <1>4, <1>6, <2>1, <2>2, <2>3 DEF ImagesSoFar
<1> QED  BY <1>1, <1>3, <1>6, <1>7, <1>8, <1>9, <1>10, RefNoObject

LEMMA HiddenImageRefs ==
  ASSUME RefInv, AllOrNothingInv, early = {}, early' = {}, NEW ok, HiddenImage(ok) PROVE RefInv'
<1>1. ipc = "hidden" /\ Running(g) = 2 /\ cur.at \in DOMAIN cur.d.boots /\ ipc' \in {"hidden", "revert"}
  BY DEF HiddenImage, Running
<1>2. /\ g \in Gens /\ fss = [k \in Gens |-> fss[k]]
      /\ nodes = [k \in Gens |-> nodes[k]] /\ cats = [k \in Gens |-> cats[k]]
      /\ IsNodes(nodes[g]) /\ IsCat(cats[g])
      /\ NodesOk(nodes[g]) /\ CatOk(cats[g]) /\ Counted(nodes[g], cats[g], nodes[g].tree)
      /\ fss[g] = [refs |-> StreamCount(nodes[g]) + Running(g), open |-> IF Running(g) > 0 THEN 1 ELSE 0]
      /\ StreamCount(nodes[g]) \in Nat
      /\ cur = [g |-> cur.g, i |-> cur.i, o |-> cur.o, at |-> cur.at, ret |-> cur.ret, was |-> cur.was, d |-> cur.d]
      /\ CurOk
  BY <1>1, AtHand
<1>3. /\ \A n \in NodeIds : n >= HiddenBase + cur.at => nodes[g].refs[n] = 0
      /\ \A j \in DOMAIN cats[g].imgs : j < cur.at => cats[g].imgs[j] # 0
      /\ cats[g].alloc /\ cur.d.elt
      /\ DOMAIN cats[g].imgs = DOMAIN cur.d.boots
  BY <1>1 DEF RefInv, CatalogAsRead, ImagesSoFar
<1>4. /\ cur'.at = cur.at + 1 /\ cur'.i = cur.i /\ cur'.d = cur.d /\ g' = g
  BY <1>2 DEF HiddenImage, g
<1>5. cur.at \in 1..MaxBootImgs /\ HiddenBase + cur.at \in NodeIds
  <2>1. cur.at \in 1..MaxBootImgs
    BY <1>1, <1>2 DEF CurOk
  <2> QED  BY <2>1, Numbers DEF NodeIds
<1>6. Running(g)' = 2 /\ ~Settled(g)' /\ ~Fresh(g)'
  <2>1. g \in Nat
    BY <1>2, ImportAssumption DEF Gens
  <2> QED  BY <1>1, <1>4, <2>1 DEF Running, Settled, Fresh
<1>7. CurOk' /\ FilesSoFar' /\ cur'.at <= MaxBootImgs + 1 /\ cur'.at \in Nat \ {0}
  <2>1. cur'.at <= MaxBootImgs + 1 /\ cur'.at \in Nat \ {0}
    BY <1>4, <1>5, Numbers
  <2>2. CurOk'
    BY <1>2, <1>4, <2>1 DEF CurOk
  <2> QED  BY <1>1, <2>1, <2>2 DEF FilesSoFar
<1>8. CASE cats[g].imgs[cur.at] # 0
  <2>1. UNCHANGED <<nodes, cats, fss>>
    BY <1>8 DEF HiddenImage
  <2>2. ImagesSoFar'
    <3>1. \A j \in DOMAIN cats[g].imgs : j < cur.at + 1 => j < cur.at \/ j = cur.at
      BY <1>2, <1>5 DEF CatOk
    <3>2. \A n \in NodeIds : n >= HiddenBase + (cur.at + 1) => n >= HiddenBase + cur.at
      BY <1>5, Numbers DEF NodeIds
    <3> QED  BY <1>3, <1>4, <1>7, <1>8, <2>1, <3>1, <3>2 DEF ImagesSoFar
  <2>3. CatalogAsRead'
    BY <1>3, <1>4, <2>1 DEF CatalogAsRead
  <2> QED  BY <1>1, <1>4, <1>6, <1>7, <2>1, <2>2, <2>3, RefNoObject
<1>9. CASE cats[g].imgs[cur.at] = 0 /\ ok
  <2>1. PICK n, boots, b, at : n = HiddenBase + cur.at /\ boots = cur.d.boots /\ b = cur.i.catblock /\ at = cur.at
    OBVIOUS
  <2>2. PICK v, w : v = nodes[g] /\ w = cats[g]
    OBVIOUS
  <2>3. PICK r : r = image_builder_create_node(v, w, HiddenFile(boots[at]), n, boots, b)
    OBVIOUS
  <2>4. PICK ns, c : /\ ns = (IF r.c.imgs[at] # 0 THEN Dropped(r.ns, n) ELSE r.ns)
                     /\ c = (IF r.c.imgs[at] # 0 THEN r.c ELSE Entered(r.c, at, n))
    OBVIOUS
  <2>5. PICK fs : fs = [refs |-> StreamCount(ns) + Running(g)', open |-> IF Running(g)' > 0 THEN 1 ELSE 0]
    OBVIOUS
  <2>6. /\ nodes' = [nodes EXCEPT ![g] = ns] /\ cats' = [cats EXCEPT ![g] = c]
        /\ fss' = [fss EXCEPT ![g].refs = @ + StreamCount(r.ns) - StreamCount(v)] /\ ipc' = "hidden"
    BY <1>1, <1>9, <2>1, <2>2, <2>3, <2>4 DEF HiddenImage, StreamCount, HiddenFile, Dropped, Entered
  <2>7. /\ NodesOk(ns) /\ ns.tree = v.tree /\ CatOk(c)
        /\ DOMAIN c.imgs = DOMAIN w.imgs
        /\ Counted(ns, c, v.tree)
        /\ \A m \in NodeIds : m # n /\ v.refs[m] = 0 => ns.refs[m] = 0
        /\ \A j \in DOMAIN w.imgs : j <= at => c.imgs[j] # 0
        /\ Streams(ns) = Streams(r.ns)
    <3>1. /\ IsNodes(v) /\ IsCat(w) /\ NodesOk(v) /\ CatOk(w) /\ Counted(v, w, v.tree)
          /\ n \in NodeIds /\ v.refs[n] = 0 /\ w.alloc /\ DOMAIN boots = DOMAIN w.imgs
          /\ at \in DOMAIN w.imgs /\ w.imgs[at] = 0
          /\ \A j \in DOMAIN w.imgs : j < at => w.imgs[j] # 0
      <4>1. n >= HiddenBase + cur.at
        BY <1>5, <2>1 DEF NodeIds
      <4> QED  BY <1>1, <1>2, <1>3, <1>5, <1>9, <2>1, <2>2, <4>1
    <3>2. HiddenMakes(v, w, n, at, r, ns, c)
      BY <2>3, <2>4, <3>1, HiddenCounts
    <3> QED  BY <3>2 DEF HiddenMakes
  <2>8. StreamCount(ns) = StreamCount(r.ns) /\ StreamCount(r.ns) \in Nat
    BY <2>7, StreamsCounted
  <2>9. fss' = [fss EXCEPT ![g] = fs]
    <3>1. [fss[g] EXCEPT !.refs = @ + StreamCount(r.ns) - StreamCount(v)] = fs
      BY <1>1, <1>2, <1>6, <2>2, <2>5, <2>8
    <3> QED  BY <1>2, <2>6, <3>1
  <2>10. nodes'[g] = ns /\ cats'[g] = c
    BY <1>2, <2>6
  <2>11. c.alloc
    <3>1. r.c.alloc /\ IsCat(r.c)
      BY <1>2, <1>3, <2>2, <2>3, CreateShape
    <3> QED  BY <2>4, <3>1 DEF Entered, IsCat
  <2>12. CatalogAsRead'
    BY <1>3, <1>4, <2>2, <2>7, <2>10, <2>11 DEF CatalogAsRead
  <2>13. ImagesSoFar'
    <3>1. \A j \in DOMAIN w.imgs : j < cur.at + 1 => j <= at
      BY <1>2, <1>5, <2>1, <2>2 DEF CatOk
    <3>2. \A m \in NodeIds : m >= HiddenBase + (cur.at + 1) => m >= HiddenBase + cur.at /\ m # n
      BY <1>5, <2>1, Numbers DEF NodeIds
    <3>3. \A m \in NodeIds : m >= HiddenBase + (cur.at + 1) => ns.refs[m] = 0
      BY <1>3, <2>2, <2>7, <3>2
    <3>4. \A j \in DOMAIN c.imgs : j < cur.at + 1 => c.imgs[j] # 0
      BY <2>7, <3>1
    <3> QED  BY <1>4, <1>7, <2>10, <2>11, <3>3, <3>4 DEF ImagesSoFar
  <2>14. Counted(ns, c, ns.tree)
    BY <2>7
  <2> QED  BY <1>1, <1>2, <1>4, <1>6, <1>7, <2>5, <2>6, <2>7, <2>9, <2>12, <2>13, <2>14, RefKept
<1>10. CASE cats[g].imgs[cur.at] = 0 /\ ~ok
  <2>1. UNCHANGED <<nodes, cats, fss>> /\ ipc' = "revert"
    BY <1>10 DEF HiddenImage
  <2>2. ImagesSoFar' /\ CatalogAsRead'
    BY <2>1 DEF ImagesSoFar, CatalogAsRead
  <2> QED  BY <1>1, <1>4, <1>6, <1>7, <2>1, <2>2, RefNoObject
<1> QED  BY <1>8, <1>9, <1>10

LEMMA HiddenCatalogRefs ==
  ASSUME RefInv, AllOrNothingInv, early = {}, early' = {}, NEW ok, HiddenCatalog(ok) PROVE RefInv'
<1>1. /\ ipc = "hidden" /\ Running(g) = 2 /\ cur.at \notin DOMAIN cur.d.boots /\ UNCHANGED <<cur, fss>>
      /\ ipc' = IF cats[g].node = 0 /\ ~ok THEN "revert" ELSE "finish"
  BY DEF HiddenCatalog, Running
<1>2. /\ g \in Gens /\ fss = [k \in Gens |-> fss[k]]
      /\ nodes = [k \in Gens |-> nodes[k]] /\ cats = [k \in Gens |-> cats[k]]
      /\ IsNodes(nodes[g]) /\ IsCat(cats[g])
      /\ NodesOk(nodes[g]) /\ CatOk(cats[g]) /\ Counted(nodes[g], cats[g], nodes[g].tree)
      /\ fss[g] = [refs |-> StreamCount(nodes[g]) + Running(g), open |-> IF Running(g) > 0 THEN 1 ELSE 0]
      /\ StreamCount(nodes[g]) \in Nat
      /\ CurOk
  BY <1>1, AtHand
<1>3. /\ \A n \in NodeIds : n >= HiddenBase + cur.at => nodes[g].refs[n] = 0
      /\ \A j \in DOMAIN cats[g].imgs : j < cur.at => cats[g].imgs[j] # 0
      /\ cats[g].alloc /\ cur.at <= MaxBootImgs + 1
      /\ DOMAIN cats[g].imgs = DOMAIN cur.d.boots
  BY <1>1 DEF RefInv, CatalogAsRead, ImagesSoFar
<1>4. g' = g /\ CurOk' /\ Running(g)' = 2 /\ ~Fresh(g)' /\ CatalogAsRead' /\ FilesSoFar' /\ ImagesSoFar'
  <2>1. g \in Nat
    BY <1>2, ImportAssumption DEF Gens
  <2>2. g' = g /\ ipc' \in {"revert", "finish"}
    BY <1>1 DEF g
  <2> QED  BY <1>1, <1>2, <2>1, <2>2 DEF CurOk, Running, Fresh, CatalogAsRead, FilesSoFar, ImagesSoFar
<1>5. \A j \in DOMAIN cats[g].imgs : cats[g].imgs[j] # 0
  <2>1. ASSUME NEW j \in DOMAIN cats[g].imgs PROVE j < cur.at
    <3>1. 1..j \subseteq DOMAIN cur.d.boots /\ j \in Nat /\ cur.at \in Nat \ {0}
      BY <1>2, <1>3 DEF CurOk
    <3>2. cur.at \notin 1..j
      BY <1>1, <3>1
    <3> QED  BY <3>1, <3>2
  <2> QED  BY <1>3, <2>1
<1>6. CASE cats[g].node = 0 /\ ok
  <2>1. PICK v, w : v = nodes[g] /\ w = cats[g]
    OBVIOUS
  <2>2. PICK ns, c, fs : /\ ns = [v EXCEPT !.refs = [v.refs EXCEPT ![CatNode] = 1], !.plain = v.plain \union {CatNode}]
                         /\ c = [w EXCEPT !.node = CatNode] /\ fs = fss[g]
    OBVIOUS
  <2>3. /\ cats' = [cats EXCEPT ![g].node = CatNode]
        /\ nodes' = [nodes EXCEPT ![g].refs[CatNode] = 1, ![g].plain = @ \union {CatNode}]
    BY <1>6 DEF HiddenCatalog
  <2>4. nodes' = [nodes EXCEPT ![g] = ns]
    <3>1. [nodes[g] EXCEPT !.refs[CatNode] = 1, !.plain = @ \union {CatNode}] = ns
      BY <1>2, <2>1, <2>2 DEF IsNodes
    <3> QED  BY <1>2, <2>3, <3>1
  <2>5. cats' = [cats EXCEPT ![g] = c] /\ fss' = [fss EXCEPT ![g] = fs]
    BY <1>1, <1>2, <2>1, <2>2, <2>3
  <2>6. /\ ns.refs = [v.refs EXCEPT ![CatNode] = 1] /\ ns.tree = v.tree /\ ns.plain = v.plain \union {CatNode}
    BY <1>2, <2>1, <2>2 DEF IsNodes
  <2>7. c.imgs = w.imgs /\ c.node = CatNode /\ c.alloc
    BY <1>2, <1>3, <2>1, <2>2 DEF IsCat
  <2>8. CatNode \in NodeIds /\ CatNode # 0 /\ v.refs[CatNode] = 0
    <3>1. CatNode \in NodeIds /\ CatNode # 0 /\ CatNode >= HiddenBase + cur.at
      BY <1>2, <1>3, Numbers DEF NodeIds, CurOk
    <3> QED  BY <1>3, <2>1, <3>1
  <2>9. \A m \in NodeIds : v.refs[m] \in Nat /\ ns.refs[m] = IF m = CatNode THEN 1 ELSE v.refs[m]
    BY <1>2, <2>1, <2>6 DEF NodesOk
  <2>10. NodesOk(ns)
    <3>1. v.refs \in [NodeIds -> Nat] /\ v.tree \subseteq NodeIds
      BY <1>2, <2>1 DEF NodesOk
    <3>2. [v.refs EXCEPT ![CatNode] = 1] \in [NodeIds -> Nat]
      BY <2>8, <3>1
    <3>3. ns.refs \in [NodeIds -> Nat] /\ ns.tree \subseteq NodeIds
      BY <2>6, <3>1, <3>2
    <3> QED  BY <3>3 DEF NodesOk
  <2>11. CatOk(c) /\ AllMade(c)
    BY <1>2, <1>5, <2>1, <2>7, <2>8, Numbers DEF CatOk, AllMade
  <2>12. Counted(ns, c, ns.tree)
    <3>1. ASSUME NEW m \in NodeIds PROVE ns.refs[m] = (IF m \in ns.tree THEN 1 ELSE 0) + Held(c, m)
      <4>1. Held(c, m) = Held(w, m) + (IF m = CatNode THEN 1 ELSE 0) - (IF m = w.node THEN 1 ELSE 0)
        BY <1>2, <2>1, <2>2, <2>8, HeldNode
      <4>2. m # w.node
        BY <1>6, <2>1 DEF NodeIds
      <4>3. Held(w, m) \in Nat /\ v.refs[m] = (IF m \in v.tree THEN 1 ELSE 0) + Held(w, m)
        BY <1>2, <2>1, HeldIs DEF CatOk, Counted
      <4>4. CASE m = CatNode
        <5>1. m \notin v.tree /\ Held(w, m) = 0
          BY <2>8, <4>3, <4>4
        <5> QED  BY <2>6, <2>9, <4>1, <4>2, <4>4, <5>1
      <4>5. CASE m # CatNode
        BY <2>6, <2>9, <4>1, <4>2, <4>3, <4>5
      <4> QED  BY <4>4, <4>5
    <3> QED  BY <3>1 DEF Counted
  <2>13. Streams(ns) = Streams(v)
    BY <2>6, <2>8, <2>9 DEF Streams
  <2>14. fs = [refs |-> StreamCount(ns) + Running(g)', open |-> IF Running(g)' > 0 THEN 1 ELSE 0]
    BY <1>1, <1>2, <1>4, <2>1, <2>2, <2>13, StreamsCounted
  <2> QED  BY <1>1, <1>2, <1>4, <2>4, <2>5, <2>10, <2>11, <2>12, <2>14, RefKept
<1>7. CASE ~(cats[g].node = 0 /\ ok)
  <2>1. UNCHANGED <<nodes, cats>>
    BY <1>7 DEF HiddenCatalog
  <2>2. Settled(g)' => AllMade(cats[g])
    <3>1. Settled(g)' => cats[g].node # 0
      BY <1>1, <1>4, <1>7 DEF Settled
    <3> QED  BY <1>5, <3>1 DEF AllMade
  <2> QED  BY <1>1, <1>2, <1>4, <2>1, <2>2, RefNoObject DEF CurOk
<1> QED  BY <1>6, <1>7

\* Array and boot info table: nothing of the tree changes.
LEMMA AfterTreeRefs ==
  ASSUME RefInv, AllOrNothingInv, early = {}, early' = {}, ipc \in {"finish", "table"},
         ipc' \in {"table", "cleanup", "revert"}, UNCHANGED <<nodes, cats, fss>>,
         cur'.i = cur.i, cur'.d = cur.d, cur'.at = cur.at, g' = g
  PROVE  RefInv'
<1>1. g \in Gens /\ CurOk
  BY AtHand
<1>2. AllMade(cats[g])
  BY <1>1 DEF RefInv, Settled
<1>3. Running(g)' = Running(g) /\ ~Fresh(g)'
  <2>1. g \in Nat
    BY <1>1, ImportAssumption DEF Gens
  <2> QED  BY <2>1 DEF Running, Fresh
<1>4. CatalogAsRead' /\ FilesSoFar' /\ ImagesSoFar' /\ cur'.at \in Nat \ {0}
  BY <1>1 DEF CatalogAsRead, FilesSoFar, ImagesSoFar, CurOk
<1> QED  BY <1>2, <1>3, <1>4, RefNoObject

LEMMA LoadChecksumsRefs ==
  ASSUME RefInv, AllOrNothingInv, early = {}, early' = {}, NEW ok, LoadChecksums(ok) PROVE RefInv'
<1>1. ipc = "finish" /\ ipc' \in {"table", "cleanup"} /\ UNCHANGED <<nodes, cats, fss>>
      /\ (cur' = cur \/ cur' = [cur EXCEPT !.ret = "unread"])
  BY DEF LoadChecksums
<1>2. cur = [g |-> cur.g, i |-> cur.i, o |-> cur.o, at |-> cur.at, ret |-> cur.ret, was |-> cur.was, d |-> cur.d]
  BY <1>1, AtHand
<1>3. cur'.i = cur.i /\ cur'.d = cur.d /\ cur'.at = cur.at /\ g' = g
  BY <1>1, <1>2 DEF g
<1> QED  BY <1>1, <1>3, AfterTreeRefs

LEMMA EvalBootInfoTableRefs ==
  ASSUME RefInv, AllOrNothingInv, early = {}, early' = {}, NEW ok, EvalBootInfoTable(ok) PROVE RefInv'
<1>1. ipc = "table" /\ ipc' \in {"cleanup", "revert"} /\ UNCHANGED <<nodes, cats, fss>>
      /\ \E r : cur' = [cur EXCEPT !.ret = r]
  BY DEF EvalBootInfoTable
<1>2. cur = [g |-> cur.g, i |-> cur.i, o |-> cur.o, at |-> cur.at, ret |-> cur.ret, was |-> cur.was, d |-> cur.d]
  BY <1>1, AtHand
<1>3. cur'.i = cur.i /\ cur'.d = cur.d /\ cur'.at = cur.at /\ g' = g
  BY <1>1, <1>2 DEF g
<1> QED  BY <1>1, <1>3, AfterTreeRefs

\* Without catalog and tree all nodes are unused, and so are the streams.
LEMMA UnusedCounts ==
  ASSUME NEW ns, Unused(ns)
  PROVE  StreamCount(ns) = 0 /\ NodesOk(ns) /\ ns.tree = {} /\ Counted(ns, NoCat, {})
<1>1. StreamCount(ns) = 0
  BY StreamsCounted DEF Unused
<1>2. ASSUME NEW n \in NodeIds PROVE Held(NoCat, n) = 0
  <2>1. NoCat.node # n /\ NoCat.imgs = <<>>
    BY DEF NoCat, NodeIds
  <2> QED  BY <2>1, NoCatOk, HeldIs DEF CatOk
<1> QED  BY <1>1, <1>2 DEF Unused, Counted

LEMMA ImportRevertRefs ==
  ASSUME RefInv, AllOrNothingInv, early = {}, early' = {}, ImportRevert PROVE RefInv'
<1>1. ipc = "revert" /\ ipc' = "cleanup" /\ cur' = [cur EXCEPT !.ret = "failed"] /\ Running(g) = 2
  BY DEF ImportRevert, Running
<1>2. /\ g \in Gens /\ fss = [k \in Gens |-> fss[k]]
      /\ nodes = [k \in Gens |-> nodes[k]] /\ cats = [k \in Gens |-> cats[k]]
      /\ IsNodes(nodes[g]) /\ IsCat(cats[g])
      /\ NodesOk(nodes[g]) /\ CatOk(cats[g]) /\ Counted(nodes[g], cats[g], nodes[g].tree)
      /\ fss[g] = [refs |-> StreamCount(nodes[g]) + Running(g), open |-> IF Running(g) > 0 THEN 1 ELSE 0]
      /\ StreamCount(nodes[g]) \in Nat
      /\ cur = [g |-> cur.g, i |-> cur.i, o |-> cur.o, at |-> cur.at, ret |-> cur.ret, was |-> cur.was, d |-> cur.d]
      /\ CurOk
  BY <1>1, AtHand
<1>3. cur'.i = cur.i /\ cur'.d = cur.d /\ cur'.at = cur.at /\ g' = g
  BY <1>1, <1>2 DEF g
<1>4. /\ im.root = g /\ g # 0 /\ im.bootcat \in {0, g}
      /\ im.bootcat = 0 => cats[g] = NoCat
  <2>1. /\ im.root = g /\ OneImport(im) /\ OneImport(saved) /\ saved.root \in 0 .. g - 1
        /\ Exists({im.root, saved.root}, {im.bootcat, saved.bootcat})
    BY <1>1 DEF AllOrNothingInv, Own, Both
  <2>2. g \in Nat \ {0}
    BY <1>2, ImportAssumption DEF Gens
  <2>3. im.bootcat \in {0, g} /\ saved.bootcat # g
    BY <2>1, <2>2 DEF OneImport
  <2>4. im.bootcat = 0 => ~cats[g].alloc
    BY <1>2, <2>1, <2>2, <2>3 DEF Exists
  <2> QED  BY <1>2, <2>1, <2>2, <2>3, <2>4 DEF CatOk
<1>5. PICK v, w : v = nodes[g] /\ w = cats[g]
  OBVIOUS
<1>6. PICK ns : ns = DropCat(DropTree(v), w)
  OBVIOUS
<1>7. Unused(ns)
  BY <1>2, <1>5, <1>6, DropCounts
<1>8. StreamCount(ns) = 0 /\ NodesOk(ns) /\ ns.tree = {} /\ Counted(ns, NoCat, ns.tree)
  BY <1>7, UnusedCounts
<1>9. PICK c, fs : c = NoCat /\ fs = [refs |-> 2, open |-> 1]
  OBVIOUS
<1>10. /\ nodes' = [nodes EXCEPT ![g] = ns]
       /\ cats' = IF im.bootcat = 0 THEN cats ELSE [cats EXCEPT ![g] = NoCat]
       /\ fss' = FsAfter(g, ns)
  <2>1. w = IF im.bootcat = 0 THEN NoCat ELSE cats[im.bootcat]
    BY <1>4, <1>5
  <2> QED  BY <1>4, <1>5, <1>6, <2>1 DEF ImportRevert
<1>11. cats' = [cats EXCEPT ![g] = c]
  BY <1>2, <1>4, <1>9, <1>10
<1>12. fss' = [fss EXCEPT ![g] = fs]
  <2>1. fss' = [fss EXCEPT ![g] = FsUnref(fss[g], StreamCount(v) - StreamCount(ns))]
    BY <1>2, <1>5, <1>10 DEF FsAfter, StreamCount
  <2>2. fss[g] = [refs |-> StreamCount(v) + 2, open |-> 1] /\ StreamCount(v) \in Nat
    BY <1>1, <1>2, <1>5
  <2>3. FsUnref(fss[g], StreamCount(v) - StreamCount(ns)) = fs
    BY <1>8, <1>9, <2>2 DEF FsUnref
  <2> QED  BY <2>1, <2>3
<1>13. Running(g)' = 2 /\ CurOk' /\ CatalogAsRead' /\ FilesSoFar' /\ ImagesSoFar'
  BY <1>1, <1>2, <1>3 DEF Running, CurOk, CatalogAsRead, FilesSoFar, ImagesSoFar
<1>14. fs = [refs |-> StreamCount(ns) + Running(g)', open |-> IF Running(g)' > 0 THEN 1 ELSE 0]
  BY <1>8, <1>9, <1>13
<1>15. CatOk(c) /\ ~c.alloc /\ AllMade(c) /\ Counted(ns, c, ns.tree)
  BY <1>8, <1>9, NoCatOk DEF AllMade
<1> QED  BY <1>1, <1>2, <1>3, <1>8, <1>10, <1>11, <1>12, <1>13, <1>14, <1>15, RefKept

\* What import_cleanup leaves of the old tree and of the filesystem.
OldTree == IF saved.root = 0 THEN nodes[g]
           ELSE DropCat(DropTree(nodes[saved.root]), IF saved.bootcat = 0 THEN NoCat ELSE cats[saved.bootcat])
CloseFs(fs) == FsUnref([fs EXCEPT !.open = @ - 1], 2)
Closed(f) == [f EXCEPT ![g] = CloseFs(f[g])]

LEMMA ImportCleanupRefs ==
  ASSUME RefInv, AllOrNothingInv, early = {}, early' = {}, ImportCleanup PROVE RefInv'
<1>1. ipc = "cleanup" /\ ipc' = "idle" /\ cur' = cur /\ g' = g /\ Running(g) = 2
  BY DEF ImportCleanup, Running, g
<1>2. /\ g \in Gens /\ fss = [k \in Gens |-> fss[k]]
      /\ nodes = [k \in Gens |-> nodes[k]] /\ cats = [k \in Gens |-> cats[k]]
      /\ \A k \in Gens : IsNodes(nodes[k]) /\ IsCat(cats[k])
  BY <1>1, AtHand DEF AllOrNothingInv, Shapes
<1>3. \A k \in Gens :
        /\ NodesOk(nodes[k]) /\ CatOk(cats[k]) /\ Counted(nodes[k], cats[k], nodes[k].tree)
        /\ fss[k] = [refs |-> StreamCount(nodes[k]) + Running(k), open |-> IF Running(k) > 0 THEN 1 ELSE 0]
        /\ StreamCount(nodes[k]) \in Nat
        /\ AllMade(cats[k]) /\ (k > g => NothingYet(k))
  BY <1>1, StreamsCounted DEF RefInv, ObjectsOk, FsCounted, Settled, Fresh
<1>4. PICK r : r = saved.root
  OBVIOUS
<1>5. /\ r \in 0 .. g - 1 /\ saved.bootcat \in {0, r} /\ g \in Nat \ {0}
      /\ r # 0 => r \in Gens /\ (saved.bootcat = 0 => cats[r] = NoCat)
  <2>1. /\ OneImport(im) /\ OneImport(saved) /\ r \in 0 .. g - 1
        /\ Exists({im.root, r}, {im.bootcat, saved.bootcat})
        /\ im.root # r \/ r = 0
    BY <1>1, <1>4 DEF AllOrNothingInv, Own, Both
  <2>2. g \in Nat \ {0} /\ (r # 0 => r \in Gens)
    BY <1>2, <2>1, ImportAssumption DEF Gens
  <2>3. saved.bootcat \in {0, r} /\ im.bootcat \in {0, im.root}
    BY <1>4, <2>1 DEF OneImport
  <2>4. ASSUME r # 0, saved.bootcat = 0 PROVE cats[r] = NoCat
    <3>1. ~cats[r].alloc
      BY <2>1, <2>2, <2>3, <2>4 DEF Exists
    <3> QED  BY <1>3, <2>2, <2>4, <3>1 DEF CatOk
  <2> QED  BY <2>1, <2>2, <2>3, <2>4
\* The old tree and its catalog vanish, and by that the old filesystem.
<1>6. PICK ns : ns = DropCat(DropTree(nodes[r]), cats[r])
  OBVIOUS
<1>7. r # 0 => Unused(ns)
  BY <1>2, <1>3, <1>5, <1>6, DropCounts
<1>8. /\ nodes' = IF r = 0 THEN nodes ELSE [nodes EXCEPT ![r] = ns]
      /\ cats' = IF r = 0 THEN cats ELSE [cats EXCEPT ![r] = NoCat]
  <2>1. r # 0 => cats[r] = IF saved.bootcat = 0 THEN NoCat ELSE cats[saved.bootcat]
    BY <1>5
  <2>2. nodes' = IF r = 0 THEN nodes ELSE [nodes EXCEPT ![r] = ns]
    BY <1>4, <1>6, <2>1 DEF ImportCleanup
  <2>3. cats' = IF saved.bootcat = 0 THEN cats ELSE [cats EXCEPT ![saved.bootcat] = NoCat]
    BY DEF ImportCleanup
  <2>4. cats' = IF r = 0 THEN cats ELSE [cats EXCEPT ![r] = NoCat]
    BY <1>2, <1>5, <2>3
  <2> QED  BY <2>2, <2>4
<1>9. PICK fs : fs = IF r = 0 THEN fss ELSE FsAfter(r, ns)
  OBVIOUS
<1>10. fss' = Closed(fs)
  <2>1. PICK old : old = OldTree
    OBVIOUS
  <2>2. fss' = Closed(IF saved.root = 0 THEN fss ELSE FsAfter(saved.root, old))
    BY <2>1 DEF ImportCleanup, Closed, CloseFs, OldTree
  <2>3. r # 0 => cats[r] = IF saved.bootcat = 0 THEN NoCat ELSE cats[saved.bootcat]
    BY <1>5
  <2>4. r # 0 => old = ns
    BY <1>4, <1>6, <2>1, <2>3 DEF OldTree
  <2>5. fss' = Closed(fs)
    BY <1>4, <1>9, <2>2, <2>4
  <2> QED  BY <2>5
<1>11. /\ fs = [k \in Gens |-> fs[k]]
       /\ \A k \in Gens : fs[k] = IF k = r THEN [refs |-> 0, open |-> 0] ELSE fss[k]
  <2>1. CASE r = 0
    BY <1>2, <1>9, <2>1, ImportAssumption DEF Gens
  <2>2. CASE r # 0
    <3>1. fs = [fss EXCEPT ![r] = FsUnref(fss[r], StreamCount(nodes[r]) - StreamCount(ns))]
      BY <1>2, <1>5, <1>9, <2>2 DEF FsAfter, StreamCount
    <3>2. fss[r] = [refs |-> StreamCount(nodes[r]), open |-> 0] /\ StreamCount(nodes[r]) \in Nat
      <4>1. Running(r) = 0
        BY <1>5 DEF Running
      <4>2. /\ fss[r] = [refs |-> StreamCount(nodes[r]) + Running(r), open |-> IF Running(r) > 0 THEN 1 ELSE 0]
            /\ StreamCount(nodes[r]) \in Nat
        BY <1>3, <1>5, <2>2
      <4> QED  BY <4>1, <4>2
    <3>3. FsUnref(fss[r], StreamCount(nodes[r]) - StreamCount(ns)) = [refs |-> 0, open |-> 0]
      BY <1>7, <2>2, <3>2, UnusedCounts DEF FsUnref
    <3> QED  BY <1>2, <1>5, <2>2, <3>1, <3>3
  <2> QED  BY <2>1, <2>2
<1>12. /\ fss' = [k \in Gens |-> fss'[k]]
       /\ \A k \in Gens : fss'[k] = IF k = g THEN [refs |-> StreamCount(nodes[g]), open |-> 0] ELSE fs[k]
  <2>1. fs[g] = [refs |-> StreamCount(nodes[g]) + 2, open |-> 1] /\ StreamCount(nodes[g]) \in Nat
    BY <1>1, <1>2, <1>3, <1>5, <1>11
  <2>2. [fs[g] EXCEPT !.open = @ - 1] = [refs |-> StreamCount(nodes[g]) + 2, open |-> 0]
    BY <2>1
  <2>3. FsUnref([refs |-> StreamCount(nodes[g]) + 2, open |-> 0], 2) = [refs |-> StreamCount(nodes[g]), open |-> 0]
    BY <2>1 DEF FsUnref
  <2>4. PICK h : h = fs[g]
    OBVIOUS
  <2>5. CloseFs(h) = [refs |-> StreamCount(nodes[g]), open |-> 0]
    BY <2>2, <2>3, <2>4 DEF CloseFs
  <2>6. fss' = [fs EXCEPT ![g] = CloseFs(h)]
    BY <1>10, <2>4 DEF Closed
  <2> QED  BY <1>2, <1>11, <2>5, <2>6
<1>13. ASSUME NEW k \in Gens
       PROVE  /\ ObjectsOk(k)' /\ FsCounted(k)'
              /\ Fresh(k)' => NothingYet(k)'
              /\ AllMade(cats'[k])
  <2>1. Running(k)' = 0 /\ (Fresh(k)' => k > g)
    BY <1>1 DEF Running, Fresh
  <2>2. CASE k = r
    <3>1. r # 0 /\ r # g
      BY <1>5, <2>2, ImportAssumption DEF Gens
    <3>2. nodes'[k] = ns /\ cats'[k] = NoCat /\ fss'[k] = [refs |-> 0, open |-> 0]
      BY <1>2, <1>8, <1>11, <1>12, <2>2, <3>1
    <3>3. StreamCount(ns) = 0 /\ NodesOk(ns) /\ ns.tree = {} /\ Counted(ns, NoCat, ns.tree)
      BY <1>7, <3>1, UnusedCounts
    <3> QED  BY <2>1, <3>2, <3>3, NoCatOk DEF ObjectsOk, FsCounted, NothingYet, AllMade
  <2>3. CASE k # r
    <3>1. nodes'[k] = nodes[k] /\ cats'[k] = cats[k]
      BY <1>2, <1>8, <2>3
    <3>2. fss'[k] = [refs |-> StreamCount(nodes[k]), open |-> 0]
      <4>1. CASE k = g
        BY <1>12, <4>1
      <4>2. CASE k # g
        <5>1. Running(k) = 0 /\ fss'[k] = fss[k]
          BY <1>11, <1>12, <2>3, <4>2 DEF Running
        <5>2. /\ fss[k] = [refs |-> StreamCount(nodes[k]) + Running(k), open |-> IF Running(k) > 0 THEN 1 ELSE 0]
              /\ StreamCount(nodes[k]) \in Nat
          BY <1>3
        <5> QED  BY <5>1, <5>2
      <4> QED  BY <4>1, <4>2
    <3>3. FsCounted(k)'
      <4>1. StreamCount(nodes[k]) \in Nat /\ StreamCount(nodes'[k]) = StreamCount(nodes[k])
        BY <1>3, <3>1
      <4> QED  BY <2>1, <3>2, <4>1 DEF FsCounted
    <3> QED  BY <1>3, <2>1, <3>1, <3>3 DEF ObjectsOk, NothingYet
  <2> QED  BY <2>2, <2>3
<1>14. CatalogAsRead' /\ FilesSoFar' /\ ImagesSoFar'
  BY <1>1 DEF CatalogAsRead, FilesSoFar, ImagesSoFar
<1> QED  BY <1>1, <1>12, <1>13, <1>14 DEF RefInv

\* The boot entries which the descriptors yield: the first ones, and no more
\* than there is room for.
LEMMA DescriptorsRead ==
  ASSUME NEW i, NEW d, d = ReadDescriptors(i)
  PROVE  /\ d = [elt |-> d.elt, boots |-> d.boots, joliet |-> d.joliet, iso1999 |-> d.iso1999, tree |-> d.tree]
         /\ DOMAIN d.boots \subseteq 1..MaxBootImgs
         /\ \A j \in DOMAIN d.boots : 1..j \subseteq DOMAIN d.boots
<1> USE Numbers
<1>1. PICK e : e = [NoFsData EXCEPT !.joliet = "svd" \in Range(i.vds), !.iso1999 = "evd" \in Range(i.vds)]
  OBVIOUS
<1>2. e = [elt |-> e.elt, boots |-> e.boots, joliet |-> e.joliet, iso1999 |-> e.iso1999, tree |-> e.tree]
      /\ e.boots = <<>>
  BY <1>1 DEF NoFsData
<1>3. d = e \/ d = read_el_torito_boot_catalog(e, i.cat)
  BY <1>1 DEF ReadDescriptors
<1>4. d = e \/ \E all : LET room == {k \in 1..MaxBootImgs : 1..k \subseteq DOMAIN all}
                        IN d = [e EXCEPT !.elt = TRUE, !.boots = [k \in room |-> all[k]]]
  BY <1>3 DEF read_el_torito_boot_catalog
<1>5. CASE d = e
  BY <1>2, <1>5
<1>6. CASE d # e
  <2>1. PICK all, room : /\ room = {k \in 1..MaxBootImgs : 1..k \subseteq DOMAIN all}
                         /\ d = [e EXCEPT !.elt = TRUE, !.boots = [k \in room |-> all[k]]]
    BY <1>4, <1>6
  <2>2. /\ d = [elt |-> d.elt, boots |-> d.boots, joliet |-> d.joliet, iso1999 |-> d.iso1999, tree |-> d.tree]
        /\ DOMAIN d.boots = room
    BY <1>2, <2>1
  <2>3. ASSUME NEW j \in room, NEW k \in 1..j PROVE k \in room
    <3>1. k \in 1..MaxBootImgs /\ 1..k \subseteq 1..j
      BY <2>1
    <3> QED  BY <2>1, <3>1
  <2> QED  BY <2>1, <2>2, <2>3
<1> QED  BY <1>5, <1>6

\* Nothing the invariant speaks of changes.
LEMMA RefStutter ==
  ASSUME RefInv, early = {}, UNCHANGED <<ipc, cur, nodes, cats, fss>> PROVE RefInv'
<1>1. g' = g
  BY DEF g
<1>2. \A k : Running(k)' = Running(k) /\ Fresh(k)' = Fresh(k) /\ Settled(k)' = Settled(k)
  BY <1>1 DEF Running, Fresh, Settled
<1>3. \A k \in Gens : ObjectsOk(k)' /\ FsCounted(k)'
  BY <1>2 DEF RefInv, ObjectsOk, FsCounted
<1>4. \A k \in Gens : (Fresh(k)' => NothingYet(k)') /\ (Settled(k)' => AllMade(cats'[k]))
  BY <1>2 DEF RefInv, NothingYet
<1>5. fss' = [k \in Gens |-> fss'[k]] /\ (ipc' # "idle" => CurOk')
  BY DEF RefInv, CurOk
<1>6. CatalogAsRead' /\ FilesSoFar' /\ ImagesSoFar'
  BY <1>1 DEF RefInv, CatalogAsRead, FilesSoFar, ImagesSoFar
<1> QED  BY <1>3, <1>4, <1>5, <1>6 DEF RefInv

LEMMA ImportBeginsRefs ==
  ASSUME RefInv, AllOrNothingInv, early = {}, early' = {},
         NEW i \in IsoImages, NEW o \in ReadOpts, NEW ok, ImportBegins(i, o, ok)
  PROVE  RefInv'
<1>1. ipc = "idle" /\ cur.g < MaxImports /\ UNCHANGED <<nodes, cats>>
  BY DEF ImportBegins
<1>2. CASE UNCHANGED <<ipc, cur, fss>>
  BY <1>1, <1>2, RefStutter
<1>3. CASE /\ ipc' = IF o.sysarea THEN "sysarea" ELSE "getroot"
           /\ \E d \in {ReadDescriptors(i)} :
                cur' = [g |-> cur.g + 1, i |-> i, o |-> o, at |-> 1, ret |-> "running", was |-> im,
                        d |-> [d EXCEPT !.tree = SelectTree(d, read_root_susp_entries(i), o)]]
           /\ fss' = [fss EXCEPT ![cur.g + 1] = [refs |-> 1, open |-> 1]]
  <2>1. ipc' \in {"sysarea", "getroot"}
    BY <1>3
  <2>2. g \in Nat /\ g' = g + 1 /\ g' \in Gens
    <3>1. cur.g \in 0..MaxImports /\ cur'.g = cur.g + 1
      BY <1>3 DEF AllOrNothingInv, Shapes
    <3> QED  BY <1>1, <3>1, ImportAssumption DEF g, Gens
  <2>3. CurOk'
    <3>1. PICK d : d = ReadDescriptors(i)
      OBVIOUS
    <3>2. /\ DOMAIN d.boots \subseteq 1..MaxBootImgs
          /\ \A j \in DOMAIN d.boots : 1..j \subseteq DOMAIN d.boots
          /\ d = [elt |-> d.elt, boots |-> d.boots, joliet |-> d.joliet, iso1999 |-> d.iso1999, tree |-> d.tree]
      BY <3>1, DescriptorsRead
    <3>3. PICK t : t = SelectTree(d, read_root_susp_entries(i), o)
      OBVIOUS
    <3>4. cur'.i = i /\ cur'.at = 1 /\ cur'.d = [d EXCEPT !.tree = t]
      BY <1>3, <3>1, <3>3
    <3>5. cur'.d.boots = d.boots
      BY <3>2, <3>4
    <3> QED  BY <3>2, <3>4, <3>5 DEF CurOk
  <2>4. fss = [k \in Gens |-> fss[k]] /\ fss' = [fss EXCEPT ![g'] = [refs |-> 1, open |-> 1]]
    <3>1. g' = cur.g + 1
      BY <1>3 DEF g
    <3> QED  BY <1>3, <3>1 DEF RefInv
  <2>5. ASSUME NEW k \in Gens
        PROVE  /\ ObjectsOk(k)' /\ FsCounted(k)'
               /\ Fresh(k)' => NothingYet(k)'
               /\ AllMade(cats'[k])
    <3>1. /\ ObjectsOk(k) /\ FsCounted(k) /\ (Fresh(k) => NothingYet(k)) /\ AllMade(cats[k])
      BY <1>1 DEF RefInv, Settled
    <3>2. ObjectsOk(k)' /\ AllMade(cats'[k])
      BY <1>1, <3>1 DEF ObjectsOk
    <3>3. Fresh(k)' => Fresh(k)
      <4>1. k \in Nat
        BY ImportAssumption DEF Gens
      <4> QED  BY <1>1, <2>2, <4>1 DEF Fresh
    <3>4. Fresh(k)' => NothingYet(k)'
      BY <1>1, <3>1, <3>3 DEF NothingYet
    <3>5. FsCounted(k)'
      <4>1. CASE k = g'
        <5>1. Fresh(k) /\ NothingYet(k)
          BY <2>2, <3>1, <4>1 DEF Fresh
        <5>2. StreamCount(nodes[k]) = 0
          BY <3>1, <5>1, NoneHeld, StreamsCounted DEF ObjectsOk, NothingYet
        <5>3. Running(k)' = 1 /\ fss'[k] = [refs |-> 1, open |-> 1]
          BY <2>1, <2>2, <2>4, <4>1 DEF Running
        <5>4. StreamCount(nodes[k])' = 0
          BY <1>1, <5>2
        <5> QED  BY <5>3, <5>4 DEF FsCounted
      <4>2. CASE k # g'
        <5>1. Running(k) = 0 /\ Running(k)' = 0 /\ fss'[k] = fss[k]
          BY <1>1, <2>4, <4>2 DEF Running
        <5> QED  BY <1>1, <3>1, <5>1 DEF FsCounted
      <4> QED  BY <4>1, <4>2
    <3> QED  BY <3>2, <3>4, <3>5
  <2>6. fss' = [k \in Gens |-> fss'[k]]
    BY <2>4
  <2>7. CatalogAsRead' /\ FilesSoFar' /\ ImagesSoFar'
    BY <2>1 DEF CatalogAsRead, FilesSoFar, ImagesSoFar
  <2> QED  BY <2>3, <2>5, <2>6, <2>7 DEF RefInv
<1> QED  BY <1>2, <1>3 DEF ImportBegins

LEMMA RefNext == RefInv /\ AllOrNothingInv /\ [ImNext]_imVars => RefInv'
<1> SUFFICES ASSUME RefInv, AllOrNothingInv, [ImNext]_imVars, early' = {} PROVE RefInv'
  BY DEF RefInv
<1>1. early = {}
  BY DEF ImNext, imVars, ImportBegins, LoadSystemArea, GetNewRoot, NewBuilderAndRoot, RootAttributes,
         AddFile, TreeDone, HiddenImage, HiddenCatalog, LoadChecksums, EvalBootInfoTable, ImportRevert,
         ImportCleanup
<1>2. CASE UNCHANGED imVars
  BY <1>1, <1>2, RefStutter DEF imVars
<1>3. ASSUME NEW i \in IsoImages, NEW o \in ReadOpts, NEW ok \in BOOLEAN, ImportBegins(i, o, ok) PROVE RefInv'
  BY <1>1, <1>3, ImportBeginsRefs
<1>4. ASSUME NEW ok \in BOOLEAN,
             \/ LoadSystemArea(ok) \/ GetNewRoot(ok) \/ NewBuilderAndRoot(ok) \/ RootAttributes(ok)
             \/ TreeDone(ok) \/ HiddenImage(ok) \/ HiddenCatalog(ok) \/ LoadChecksums(ok) \/ EvalBootInfoTable(ok)
      PROVE  RefInv'
  BY <1>1, <1>4, LoadSystemAreaRefs, GetNewRootRefs, NewRootRefs, RootAttributesRefs, TreeDoneRefs,
     HiddenImageRefs, HiddenCatalogRefs, LoadChecksumsRefs, EvalBootInfoTableRefs
<1>5. ASSUME NEW r \in {"ok", "skip", "abort"}, AddFile(r) PROVE RefInv'
  BY <1>1, <1>5, AddFileRefs
<1>6. CASE ImportRevert
  BY <1>1, <1>6, ImportRevertRefs
<1>7. CASE ImportCleanup
  BY <1>1, <1>7, ImportCleanupRefs
<1> QED  BY <1>2, <1>3, <1>4, <1>5, <1>6, <1>7 DEF ImNext

\* At any time of an import, whatever fails in it, each node has exactly the
\* references of its directory and of the places in the boot catalog, the
\* filesystem those of the nodes with stream and of the running import, and a
\* boot catalog that stays is complete (image_builder_create_node(),
\* create_boot_img_filesrc(), iso_image_import(), el_torito_boot_catalog_free()).
THEOREM ReferencesCounted == ImSafety => []ImportReferences
<1>1. RefInv => ImportReferences
  <2> SUFFICES ASSUME RefInv, early = {}, NEW k \in Gens
               PROVE  /\ \A n \in NodeIds :
                           nodes[k].refs[n] = (IF n \in nodes[k].tree THEN 1 ELSE 0) + Held(cats[k], n)
                      /\ fss[k].refs = Cardinality(Streams(nodes[k])) + Running(k)
                      /\ fss[k].open = IF Running(k) > 0 THEN 1 ELSE 0
                      /\ ipc = "idle" /\ cats[k].alloc => Held(cats[k], 0) = 0
    BY DEF ImportReferences, Running
  <2>1. ObjectsOk(k) /\ FsCounted(k) /\ (Settled(k) => AllMade(cats[k]))
    BY DEF RefInv
  <2>2. /\ fss[k].refs = Cardinality(Streams(nodes[k])) + Running(k)
        /\ fss[k].open = IF Running(k) > 0 THEN 1 ELSE 0
    BY <2>1 DEF FsCounted, StreamCount
  <2>3. ASSUME ipc = "idle", cats[k].alloc PROVE Held(cats[k], 0) = 0
    <3>1. cats[k].node # 0 /\ \A j \in DOMAIN cats[k].imgs : cats[k].imgs[j] # 0
      BY <2>1, <2>3 DEF Settled, AllMade
    <3> QED  BY <2>1, <3>1, HeldIs DEF ObjectsOk, CatOk
  <2> QED  BY <2>1, <2>2, <2>3 DEF ObjectsOk, Counted
<1> QED  BY <1>1, AllOrNothingInit, AllOrNothingNext, RefInit, RefNext, PTL DEF ImSafety
=============================================================================
