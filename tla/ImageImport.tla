----------------------------- MODULE ImageImport -----------------------------
(***************************************************************************)
(* libisofs/fs_image.c: iso_image_import(), which replaces the tree, boot  *)
(* catalog and checksum array of an IsoImage by those of an ISO image, and *)
(* shall put the old ones back if it fails.                                *)
(*                                                                         *)
(* Objects are named by the import that creates them, 0 stands for NULL    *)
(* and for what exists before the first import.  Nodes are numbered: files *)
(* of the tree by their position, hidden boot images after them, last a    *)
(* catalog that is not in the tree.  An ISO image has                      *)
(*   tags          MD5 tags of superblock and tree, as met by the check    *)
(*   pvd, vds      valid primary volume descriptor; the descriptors after  *)
(*   sp, er        SUSP SP entry and ER entries of the root directory      *)
(*   files         its files: start block, empty or not, whether a dir     *)
(*   catblock, cat      block and content of the boot catalog              *)
(*   sums          checksum array: "none", "good", "damaged"               *)
(***************************************************************************)
EXTENDS Integers, Sequences, SequencesExt, FiniteSets

CONSTANTS
  IsoImages,     \* images to import
  ReadOpts,      \* read options: norock, nojoliet, preferjoliet, noiso1999, md5, sysarea
  MaxFiles,      \* files of the largest image
  MaxBootImgs,   \* Libisofs_max_boot_imageS
  MaxImports     \* imports into the same IsoImage

ASSUME ImportAssumption == MaxImports \in Nat \ {0} /\ MaxBootImgs \in Nat \ {0}
ASSUME FilesAssumption == MaxFiles \in Nat /\ \A i \in IsoImages : Len(i.files) \in 0..MaxFiles

VARIABLES
  ipc,      \* step of iso_image_import()
  im,       \* the IsoImage: root, bootcat, array and its count, builder, filesystem
  cur,      \* number of the import, its image and options, filesystem data, position,
            \* result (ret), and the IsoImage as it was before (was)
  saved,    \* fsback, blback, oldroot, oldbootcat, old_checksum_array
  nodes,    \* per import: references of the nodes
  cats,     \* per import: boot catalog, "none" or its image nodes and catalog node
  fss,      \* per import: references and open count of the filesystem
  early     \* imports that were reverted before they had a root of their own

imVars == <<ipc, im, cur, saved, nodes, cats, fss, early>>

Gens == 1..MaxImports
HiddenBase == MaxFiles
CatNode == MaxFiles + MaxBootImgs + 1
NodeIds == 1..CatNode
NoCat == [alloc |-> FALSE, imgs |-> <<>>, node |-> 0]
NoFsData == [elt |-> FALSE, boots |-> <<>>, joliet |-> FALSE, iso1999 |-> FALSE, tree |-> "none"]
g == cur.g

\* iso_node_unref(): the last reference of a file drops its stream, by that its
\* source, and by that a reference to the filesystem.  Catalog nodes and
\* directories have no stream.
Streams(ns) == {n \in NodeIds : ns.refs[n] > 0 /\ n \notin ns.plain}
Unref(ns, set) == [ns EXCEPT !.refs = [n \in NodeIds |-> IF n \in set THEN @[n] - 1 ELSE @[n]]]
FsUnref(fs, n) == IF fs.refs > n THEN [fs EXCEPT !.refs = @ - n] ELSE [refs |-> 0, open |-> 0]
FsAfter(k, ns) == [fss EXCEPT ![k] = FsUnref(@, Cardinality(Streams(nodes[k])) - Cardinality(Streams(ns)))]

\* iso_node_unref() of a root and el_torito_boot_catalog_free(): each drops one
\* reference of the nodes it holds.
DropTree(ns) == [Unref(ns, ns.tree) EXCEPT !.tree = {}, !.root = FALSE]
Held(c, n) == Cardinality({j \in DOMAIN c.imgs : c.imgs[j] = n}) + (IF c.node = n THEN 1 ELSE 0)
DropCat(ns, c) == [ns EXCEPT !.refs = [n \in NodeIds |-> @[n] - Held(c, n)]]

-----------------------------------------------------------------------------
(* iso_image_filesystem_new().                                              *)

\* iso_src_check_sb_tree(): only the superblock at address 0 may refer to
\* another one.  Without tag, or with the tag of a copied session, all is well.
iso_src_check_sb_tree(tags) ==
  LET t == IF Head(tags) = "relocated" THEN tags[2] ELSE Head(tags) IN t # "mismatch"

\* read_root_susp_entries(): without a good SP as first entry there is no Rock
\* Ridge, else the last known ER tells the version.
read_root_susp_entries(i) ==
  LET known == SelectSeq(i.er, LAMBDA e : e \in {"RRIP_1991A", "IEEE_P1282", "IEEE_1282"})
  IN i.sp = "good" /\ known # <<>>

\* read_el_torito_boot_catalog(): default entry and the entries of all sections
\* up to the one that is marked as last, as many as there is room for.
BootEntries(cat) ==
  LET last == SelectInSeq(cat.sections, LAMBDA s : s.last)
      secs == IF last = 0 THEN cat.sections ELSE SubSeq(cat.sections, 1, last)
  IN <<cat.default>> \o FlattenSeq([k \in DOMAIN secs |-> secs[k].entries])
read_el_torito_boot_catalog(d, cat) ==
  IF ~cat.valid THEN d
  ELSE LET all  == BootEntries(cat)
           room == {k \in 1..MaxBootImgs : 1..k \subseteq DOMAIN all}
       IN [d EXCEPT !.elt = TRUE, !.boots = [k \in room |-> all[k]]]

\* The loop over the volume descriptors.  It finds the same in any order of them.
ReadDescriptors(i) ==
  LET d == [NoFsData EXCEPT !.joliet = "svd" \in Range(i.vds), !.iso1999 = "evd" \in Range(i.vds)]
  IN IF "boot" \in Range(i.vds) THEN read_el_torito_boot_catalog(d, i.cat) ELSE d

\* Which tree is loaded.
SelectTree(d, rr, o) ==
  IF rr /\ ~o.norock
  THEN IF ~o.nojoliet /\ o.preferjoliet /\ d.joliet THEN "joliet" ELSE "rr"
  ELSE CASE ~o.nojoliet /\ d.joliet -> "joliet"
         [] (o.nojoliet \/ ~d.joliet) /\ ~o.noiso1999 /\ d.iso1999 -> "iso1999"
         [] OTHER -> "plain"

\* iso_image_filesystem_new(): the tree must match its MD5, if that is asked
\* for, and there must be a primary volume descriptor.
iso_image_filesystem_new(i, o) == (o.md5 => iso_src_check_sb_tree(i.tags)) /\ i.pvd

\* Nothing of the IsoImage is touched if the image is not accepted or a block of
\* it is not readable.  On success the filesystem is open.
ImportBegins(i, o, ok) ==
  /\ ipc = "idle" /\ cur.g < MaxImports
  /\ IF ~ok \/ ~iso_image_filesystem_new(i, o) THEN UNCHANGED <<ipc, cur, fss>>
     ELSE /\ ipc' = IF o.sysarea THEN "sysarea" ELSE "getroot"
          /\ \E d \in {ReadDescriptors(i)} :
               cur' = [g |-> cur.g + 1, i |-> i, o |-> o, at |-> 1, ret |-> "running", was |-> im,
                       d |-> [d EXCEPT !.tree = SelectTree(d, read_root_susp_entries(i), o)]]
          /\ fss' = [fss EXCEPT ![cur.g + 1] = [refs |-> 1, open |-> 1]]
  /\ UNCHANGED <<im, saved, nodes, cats, early>>

\* iso_filesystem_unref() without close: disposal closes.
GiveUp == /\ ipc' = "idle" /\ cur' = [cur EXCEPT !.ret = "failed"]
          /\ fss' = [fss EXCEPT ![g] = FsUnref(@, 1)]

LoadSystemArea(ok) ==
  /\ ipc = "sysarea"
  /\ IF ok THEN ipc' = "getroot" /\ UNCHANGED <<cur, fss>> ELSE GiveUp
  /\ UNCHANGED <<im, saved, nodes, cats, early>>

\* get_root(), and then the pointers of the IsoImage are put aside.
GetNewRoot(ok) ==
  /\ ipc = "getroot"
  /\ IF ok
     THEN /\ ipc' = "builder"
          /\ saved' = im
          /\ im' = [im EXCEPT !.bootcat = 0, !.arr = 0]
          /\ fss' = [fss EXCEPT ![g].refs = @ + 1]
          /\ UNCHANGED cur
     ELSE GiveUp /\ UNCHANGED <<saved, im>>
  /\ UNCHANGED <<nodes, cats, early>>

\* iso_image_builder_new() and iso_node_new_root().  The jump to import_revert
\* from here disposes the root which image->root still points to.
NewBuilderAndRoot(ok) ==
  /\ ipc = "builder"
  /\ IF ok
     THEN /\ ipc' = "attrs"
          /\ im' = [im EXCEPT !.builder = g, !.fs = g, !.root = g]
          /\ nodes' = [nodes EXCEPT ![g].root = TRUE]
          /\ UNCHANGED early
     ELSE /\ ipc' = "revert" /\ early' = early \union {g}
          /\ UNCHANGED <<im, nodes>>
  /\ UNCHANGED <<cur, saved, cats, fss>>

\* Attributes of the root and, with El Torito, the new catalog without nodes.
RootAttributes(ok) ==
  /\ ipc = "attrs"
  /\ ipc' = IF ok THEN "tree" ELSE "revert"
  /\ IF ok /\ cur.d.elt
     THEN /\ cats' = [cats EXCEPT ![g] = [alloc |-> TRUE, imgs |-> [k \in DOMAIN cur.d.boots |-> 0], node |-> 0]]
          /\ im' = [im EXCEPT !.bootcat = g]
     ELSE UNCHANGED <<cats, im>>
  /\ UNCHANGED <<cur, saved, nodes, fss, early>>

-----------------------------------------------------------------------------
(* The tree.                                                                *)

\* Mutant: a boot image which is a file of the tree gets one reference only.
OneReference(ns, c, f, n, boots, catblock) ==
  LET ks == {k \in DOMAIN boots : boots[k] = f.block /\ c.imgs[k] = 0 /\ ~f.empty}
  IN [ns |-> [ns EXCEPT !.refs[n] = 1],
      c  |-> IF ks = {} \/ f.dir THEN c ELSE [c EXCEPT !.imgs[CHOOSE k \in ks : \A j \in ks : k <= j] = n]]

\* image_builder_create_node() for file f as node n: the boot catalog becomes
\* an IsoBoot node, a boot image is entered in the first catalog entry for its
\* block that has no node yet.  Both count for catalog and creator.
image_builder_create_node(ns, c, f, n, boots, catblock) ==
  LET isCat == c.alloc /\ ~f.dir /\ f.block = catblock
      ks    == IF c.alloc /\ ~f.dir /\ ~f.empty /\ ~isCat
               THEN {k \in DOMAIN boots : boots[k] = f.block /\ c.imgs[k] = 0} ELSE {}
      old   == IF isCat /\ c.node # 0 THEN Unref(ns, {c.node}) ELSE ns
      two   == IF isCat \/ ks # {} THEN 2 ELSE 1
  IN [ns |-> [old EXCEPT !.refs[n] = two, !.plain = IF isCat \/ f.dir THEN @ \union {n} ELSE @],
      c  |-> CASE isCat   -> [c EXCEPT !.node = n]
               [] ks # {} -> [c EXCEPT !.imgs[CHOOSE k \in ks : \A j \in ks : k <= j] = n]
               [] OTHER   -> c]

\* iso_add_dir_src_rec(): a file that cannot be added is skipped, unless the
\* problem reaches the abort threshold.
AddFile(result) ==
  /\ ipc = "tree" /\ cur.at <= Len(cur.i.files)
  /\ cur' = [cur EXCEPT !.at = @ + 1]
  /\ CASE result = "ok" ->
            LET r == image_builder_create_node(nodes[g], cats[g], cur.i.files[cur.at], cur.at, cur.d.boots, cur.i.catblock)
            IN /\ nodes' = [nodes EXCEPT ![g] = [r.ns EXCEPT !.tree = @ \union {cur.at}]]
               /\ cats' = [cats EXCEPT ![g] = r.c]
               /\ fss' = [fss EXCEPT ![g].refs = @ + Cardinality(Streams(r.ns)) - Cardinality(Streams(nodes[g]))]
               /\ UNCHANGED <<ipc, im>>
       [] result = "skip" -> UNCHANGED <<ipc, nodes, cats, fss, im>>
       [] OTHER -> ipc' = "revert" /\ UNCHANGED <<nodes, cats, fss, im>>
  /\ UNCHANGED <<saved, early>>

\* After the tree img_make_inos() gives inode numbers where needed.
TreeDone(ok) ==
  /\ ipc = "tree" /\ cur.at > Len(cur.i.files)
  /\ ipc' = CASE ~ok -> "revert" [] ok /\ cur.d.elt -> "hidden" [] OTHER -> "finish"
  /\ cur' = [cur EXCEPT !.at = 1]
  /\ UNCHANGED <<im, saved, nodes, cats, fss, early>>

\* create_boot_img_filesrc(): a boot image without file gets a node that only
\* the catalog knows.
HiddenImage(ok) ==
  /\ ipc = "hidden" /\ cur.at \in DOMAIN cur.d.boots
  /\ cur' = [cur EXCEPT !.at = @ + 1]
  /\ CASE cats[g].imgs[cur.at] # 0 -> UNCHANGED <<ipc, nodes, cats, fss>>
       [] cats[g].imgs[cur.at] = 0 /\ ok ->
            LET n == HiddenBase + cur.at
                f == [block |-> cur.d.boots[cur.at], empty |-> FALSE, dir |-> FALSE]
                r == image_builder_create_node(nodes[g], cats[g], f, n, cur.d.boots, cur.i.catblock)
            IN /\ nodes' = [nodes EXCEPT ![g] = IF r.c.imgs[cur.at] # 0 THEN Unref(r.ns, {n}) ELSE r.ns]
               /\ cats' = [cats EXCEPT ![g] = IF r.c.imgs[cur.at] # 0 THEN r.c ELSE [r.c EXCEPT !.imgs[cur.at] = n]]
               /\ fss' = [fss EXCEPT ![g].refs = @ + Cardinality(Streams(r.ns)) - Cardinality(Streams(nodes[g]))]
               /\ UNCHANGED ipc
       [] OTHER -> ipc' = "revert" /\ UNCHANGED <<nodes, cats, fss>>
  /\ UNCHANGED <<im, saved, early>>

\* The catalog always gets a node.
HiddenCatalog(ok) ==
  /\ ipc = "hidden" /\ cur.at \notin DOMAIN cur.d.boots
  /\ ipc' = IF cats[g].node = 0 /\ ~ok THEN "revert" ELSE "finish"
  /\ IF cats[g].node = 0 /\ ok
     THEN /\ cats' = [cats EXCEPT ![g].node = CatNode]
          /\ nodes' = [nodes EXCEPT ![g].refs[CatNode] = 1, ![g].plain = @ \union {CatNode}]
     ELSE UNCHANGED <<cats, nodes>>
  /\ UNCHANGED <<im, cur, saved, fss, early>>

-----------------------------------------------------------------------------
(* Checksums, boot info tables, end.                                        *)

\* The checksum array is read and checked against its own MD5.  A read error
\* ends the import with that error ("unread"), but the new tree stays.
LoadChecksums(ok) ==
  /\ ipc = "finish"
  /\ CASE ~cur.o.md5 \/ cur.i.sums = "none" -> ipc' = "table" /\ UNCHANGED <<im, cur>>
       [] cur.o.md5 /\ cur.i.sums # "none" /\ ~ok ->
            /\ ipc' = "cleanup" /\ im' = [im EXCEPT !.arr = g, !.cnt = g]
            /\ cur' = [cur EXCEPT !.ret = "unread"]
       [] OTHER ->
            /\ ipc' = "table" /\ UNCHANGED cur
            /\ im' = [im EXCEPT !.arr = IF cur.i.sums = "good" THEN g ELSE 0,
                                !.cnt = IF cur.i.sums = "good" THEN g ELSE 0]
  /\ UNCHANGED <<saved, nodes, cats, fss, early>>

\* iso_image_eval_boot_info_table(): the boot images are read.  They stay closed.
EvalBootInfoTable(ok) ==
  /\ ipc = "table"
  /\ ipc' = IF ok \/ im.bootcat = 0 THEN "cleanup" ELSE "revert"
  /\ cur' = [cur EXCEPT !.ret = IF ipc' = "cleanup" THEN "done" ELSE @]
  /\ UNCHANGED <<im, saved, nodes, cats, fss, early>>

\* Mutant: the new boot catalog survives its tree.
RevertTreeOnly ==
  /\ ipc = "revert" /\ ipc' = "cleanup"
  /\ LET k  == im.root
         ns == IF k = 0 THEN nodes[g] ELSE DropTree(nodes[k])
     IN /\ nodes' = IF k = 0 THEN nodes ELSE [nodes EXCEPT ![k] = ns]
        /\ fss' = IF k = 0 THEN fss ELSE FsAfter(k, ns)
  /\ im' = [im EXCEPT !.root = saved.root, !.arr = saved.arr]
  /\ saved' = [saved EXCEPT !.root = 0, !.arr = 0]
  /\ cur' = [cur EXCEPT !.ret = "failed"]
  /\ UNCHANGED <<cats, early>>

\* import_revert: root and catalog at hand are disposed, the old ones return.
ImportRevert ==
  /\ ipc = "revert" /\ ipc' = "cleanup"
  /\ LET k  == im.root
         c  == IF im.bootcat = 0 THEN NoCat ELSE cats[im.bootcat]
         ns == IF k = 0 THEN nodes[g] ELSE DropCat(DropTree(nodes[k]), c)
     IN /\ nodes' = IF k = 0 THEN nodes ELSE [nodes EXCEPT ![k] = ns]
        /\ cats' = IF im.bootcat = 0 THEN cats ELSE [cats EXCEPT ![im.bootcat] = NoCat]
        /\ fss' = IF k = 0 THEN fss ELSE FsAfter(k, ns)
  /\ im' = [im EXCEPT !.root = saved.root, !.bootcat = saved.bootcat, !.arr = saved.arr]
  /\ saved' = [saved EXCEPT !.root = 0, !.bootcat = 0, !.arr = 0]
  /\ cur' = [cur EXCEPT !.ret = "failed"]
  /\ UNCHANGED early

\* import_cleanup: filesystem and builder of the IsoImage return, old root and
\* old catalog are disposed unless they were put back, the root source and the
\* filesystem lose the reference and the open count of the import.
ImportCleanup ==
  /\ ipc = "cleanup" /\ ipc' = "idle"
  /\ im' = [im EXCEPT !.fs = saved.fs, !.builder = saved.builder]
  /\ LET r  == saved.root
         c  == IF saved.bootcat = 0 THEN NoCat ELSE cats[saved.bootcat]
         ns == IF r = 0 THEN nodes[g] ELSE DropCat(DropTree(nodes[r]), c)
         fs == IF r = 0 THEN fss ELSE FsAfter(r, ns)
     IN /\ nodes' = IF r = 0 THEN nodes ELSE [nodes EXCEPT ![r] = ns]
        /\ fss' = [fs EXCEPT ![g] = FsUnref([fs[g] EXCEPT !.open = @ - 1], 2)]
  /\ cats' = IF saved.bootcat = 0 THEN cats ELSE [cats EXCEPT ![saved.bootcat] = NoCat]
  /\ saved' = im'
  /\ UNCHANGED <<cur, early>>

-----------------------------------------------------------------------------

NewImage == [root |-> 0, bootcat |-> 0, arr |-> 0, cnt |-> 0, builder |-> 0, fs |-> 0]
NoImport == [g |-> 0, i |-> CHOOSE i \in IsoImages : TRUE, o |-> CHOOSE o \in ReadOpts : TRUE,
             d |-> NoFsData, at |-> 1, ret |-> "none", was |-> NewImage]
ImInit ==
  /\ ipc = "idle" /\ early = {} /\ cur = NoImport /\ im = NewImage
  /\ saved = im
  /\ nodes = [k \in Gens |-> [refs |-> [n \in NodeIds |-> 0], tree |-> {}, plain |-> {}, root |-> FALSE]]
  /\ cats = [k \in Gens |-> NoCat]
  /\ fss = [k \in Gens |-> [refs |-> 0, open |-> 0]]

ImNext ==
  \/ \E i \in IsoImages, o \in ReadOpts, ok \in BOOLEAN : ImportBegins(i, o, ok)
  \/ \E ok \in BOOLEAN :
       \/ LoadSystemArea(ok) \/ GetNewRoot(ok) \/ NewBuilderAndRoot(ok) \/ RootAttributes(ok)
       \/ TreeDone(ok) \/ HiddenImage(ok) \/ HiddenCatalog(ok) \/ LoadChecksums(ok) \/ EvalBootInfoTable(ok)
  \/ \E r \in {"ok", "skip", "abort"} : AddFile(r)
  \/ ImportRevert \/ ImportCleanup

-----------------------------------------------------------------------------

SameContent(x, y) == x.root = y.root /\ x.bootcat = y.bootcat /\ x.arr = y.arr

\* Tree and boot catalog are those of the image which was imported last, with
\* the given checksum array.
Installed(arr) == im.root = g /\ im.bootcat = (IF cur.d.elt THEN g ELSE 0) /\ im.arr = arr

\* The result of iso_image_import() tells what the IsoImage contains.  After a
\* failure which leads to import_revert, or comes before the pointers are put
\* aside, it points to the tree, boot catalog and checksum array from before, of
\* whatever earlier import.  After success all three are new, the array only if
\* it is asked for, there and undamaged.  The read error in the array is the one
\* failure which leaves all that is new: FailedImportRestores says so.
\* And no object of another import is left.  This is exempted if import_revert
\* comes before there is a new root: the old tree, to which image->root points
\* again, is disposed then.
ImportAllOrNothing ==
  ipc = "idle" =>
    /\ cur.ret = "failed" => SameContent(im, cur.was)
    /\ cur.ret = "done" => Installed(IF cur.o.md5 /\ cur.i.sums = "good" THEN g ELSE 0)
    /\ cur.ret = "unread" => Installed(g)
    /\ im.fs = 0 /\ im.builder = 0
    /\ early = {} => \A k \in Gens : (nodes[k].root <=> k = im.root) /\ (cats[k].alloc <=> k = im.bootcat)

\* libisofs.h announces "1 on success, < 0 on error", and iso_image_import() has
\* "backup image filesystem, builder and root" before the steps which can fail.
\* So an import that returns an error would leave what the IsoImage had.
FailedImportRestores ==
  ipc = "idle" /\ cur.ret \in {"failed", "unread"} => SameContent(im, cur.was)

\* At any time a node has exactly the references of its directory and of the
\* boot catalog, the filesystem of an image the ones of the nodes with stream
\* and of the running import, and it is open only during the import.  A boot
\* catalog that stays has a node for each image and one for itself
\* (image_builder_create_node(), create_boot_img_filesrc(), iso_image_import()).
ImportReferences ==
  early = {} =>
  \A k \in Gens :
    /\ \A n \in NodeIds :
         nodes[k].refs[n] = (IF n \in nodes[k].tree THEN 1 ELSE 0) + Held(cats[k], n)
    /\ LET running == IF ipc = "idle" \/ k # g THEN 0 ELSE IF ipc \in {"sysarea", "getroot"} THEN 1 ELSE 2
       IN /\ fss[k].refs = Cardinality(Streams(nodes[k])) + running
          /\ fss[k].open = IF running > 0 THEN 1 ELSE 0
    /\ ipc = "idle" /\ cats[k].alloc => Held(cats[k], 0) = 0
=============================================================================
