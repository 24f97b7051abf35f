------------------------------ MODULE ElTorito ------------------------------
(* The El Torito boot catalog: eltorito.c, and its reader in fs_image.c.    *)
(* The application attaches boot images, a write run turns them into the    *)
(* catalog block, and read_el_torito_boot_catalog() of a later import must  *)
(* find the same images.  A catalog is a sequence of 32-byte slots.         *)
EXTENDS Integers, Sequences, SequencesExt, FiniteSets, FiniteSetsExt

CONSTANTS MaxImages,         \* Libisofs_max_boot_imageS, 32 in eltorito.h
          Files,             \* [path -> [ok, size, mbr]]: regular and repeatable, size, MBR entries in use
          MaxSets,           \* bound: calls of setters
          LoadSegs, LoadSizes \* values of type short for el_torito_set_load_seg, _load_size

ASSUME EltAssumption == MaxImages \in Nat \ {0} /\ LoadSegs \subseteq Int /\ LoadSizes \subseteq Int

VARIABLES cat,               \* image->bootcat: [have, imgs, node, sets]
          tree,              \* paths with a node in the tree
          refs,              \* [path -> references to its node]
          tgt,               \* the write run: [st, src, slots, part, patched]
          got                \* what an import found in the catalog
evars == <<cat, tree, refs, tgt, got>>

NoCat == [have |-> FALSE, imgs |-> <<>>, node |-> FALSE, sets |-> 0]
NoTgt == [st |-> "none", src |-> <<>>, slots |-> <<>>, efi |-> 0, patched |-> {}]
CatPath == "boot.cat"
NoFile == "none"             \* of an image in an appended partition
Paths == DOMAIN Files \union {CatPath}

EltInit == /\ cat = NoCat /\ tgt = NoTgt /\ got = <<>>
           /\ tree = DOMAIN Files
           /\ refs = [p \in Paths |-> IF p \in DOMAIN Files THEN 1 ELSE 0]

----------------------------------------------------------------------------
(* Building the catalog.  `emul' is the boot media type. *)

\* Sizes of floppies are Files[p].size = 1, 2, 3; a disk image needs one used
\* partition.  Without any the code reads the entry before the table.
MediaTypes(p, emul) ==
  CASE emul = "none"   -> {[type |-> 0, ptype |-> 0]}
    [] emul = "floppy" -> IF Files[p].size \in 1..3 THEN {[type |-> Files[p].size, ptype |-> 0]} ELSE {}
    [] emul = "disk"   -> IF Files[p].mbr = 1 THEN {[type |-> 4, ptype |-> 12]}
                          ELSE IF Files[p].mbr = 0 THEN [type : {4}, ptype : {0, 255}] ELSE {}
NewImage(p, app, m) ==
  [file |-> p, app |-> app, type |-> m.type, ptype |-> m.ptype, boot |-> TRUE, seg |-> 0,
   size |-> IF m.type = 0 THEN 0 ELSE 1, full |-> FALSE, plat |-> 0, id |-> 0, crit |-> 0, patch |-> FALSE]
\* Boot image from a file of the tree, or from appended partition `app'.
create_image(p, app, emul) ==
  IF app > 0 THEN (IF emul = "none" THEN {NewImage(NoFile, app, [type |-> 0, ptype |-> 0])} ELSE {})
  ELSE IF p \notin tree \/ p \notin DOMAIN Files THEN {}
  ELSE IF ~Files[p].ok \/ Files[p].size = 0 THEN {}
  ELSE {NewImage(p, 0, m) : m \in MediaTypes(p, emul)}
Ref(r, p, n) == IF p \in DOMAIN r THEN [r EXCEPT ![p] = @ + n] ELSE r

\* The catalog node enters the tree first and leaves it again on failure.
iso_image_set_boot_image(p, app, emul) ==
  /\ tgt.st = "none" /\ ~cat.have /\ CatPath \notin tree
  /\ \/ /\ create_image(p, app, emul) = {}
        /\ UNCHANGED evars
     \/ \E i \in create_image(p, app, emul) :
          /\ cat' = [NoCat EXCEPT !.have = TRUE, !.imgs = <<i>>, !.node = TRUE]
          /\ tree' = tree \union {CatPath}
          /\ refs' = Ref([refs EXCEPT ![CatPath] = 2], i.file, 1)
          /\ UNCHANGED <<tgt, got>>
iso_image_add_boot_image(p, app, emul) ==
  /\ tgt.st = "none" /\ cat.have /\ Len(cat.imgs) < MaxImages
  /\ \E i \in create_image(p, app, emul) :
       /\ cat' = [cat EXCEPT !.imgs = Append(@, i)]
       /\ refs' = Ref(refs, i.file, 1)
  /\ UNCHANGED <<tree, tgt, got>>

\* Drop all references of the catalog; its node leaves the tree if it is there.
el_torito_boot_catalog_free_first(r) ==
  [p \in Paths |-> r[p] - (IF p = CatPath /\ cat.node THEN 1 ELSE 0)
                        - Cardinality({k \in 1..Min({1, Len(cat.imgs)}) : cat.imgs[k].file = p})]
el_torito_boot_catalog_free(r) ==
  [p \in Paths |-> r[p] - (IF p = CatPath /\ cat.node THEN 1 ELSE 0)
                        - Cardinality({k \in 1..Len(cat.imgs) : cat.imgs[k].file = p})]
iso_image_remove_boot_image ==
  /\ tgt.st = "none" /\ cat.have
  /\ refs' = el_torito_boot_catalog_free(IF CatPath \in tree THEN [refs EXCEPT ![CatPath] = @ - 1]
                                         ELSE refs)
  /\ tree' = tree \ {CatPath}
  /\ cat' = NoCat
  /\ UNCHANGED <<tgt, got>>
\* The application removes the node from the tree by iso_node_remove().
RemoveNode(p) == /\ tgt.st = "none" /\ p \in tree
                 /\ tree' = tree \ {p}
                 /\ refs' = [refs EXCEPT ![p] = @ - 1]
                 /\ UNCHANGED <<cat, tgt, got>>

\* Setters of the image; segments and sizes are of type short.
Short(v, wrap) == (IF v < 0 THEN wrap + v ELSE v) % 65536
NoEmul(i, j) == IF i.type = 0 THEN j ELSE i
el_torito_set_load_seg(i, v)  == NoEmul(i, [i EXCEPT !.seg = Short(v, 4096)])
el_torito_set_load_size(i, v) == NoEmul(i, [i EXCEPT !.size = Short(v, 65536)])
el_torito_set_full_load(i)    == NoEmul(i, [i EXCEPT !.full = TRUE])
Changed(i) == {[i EXCEPT !.plat = 239], [i EXCEPT !.boot = FALSE], [i EXCEPT !.id = 1],
               [i EXCEPT !.crit = 1], [i EXCEPT !.patch = TRUE]}
              \union {el_torito_set_load_seg(i, v) : v \in LoadSegs}
              \union {el_torito_set_load_size(i, v) : v \in LoadSizes} \union {el_torito_set_full_load(i)}
SetImage == /\ tgt.st = "none" /\ cat.have /\ cat.sets < MaxSets
            /\ \E k \in {Len(cat.imgs)} : \E i \in Changed(cat.imgs[k]) :
                 cat.imgs[k] # i /\ cat' = [cat EXCEPT !.imgs[k] = i, !.sets = @ + 1]
            /\ UNCHANGED <<tree, refs, tgt, got>>

----------------------------------------------------------------------------
(* Writing.  Blocks of files are their index in an arbitrary order; two     *)
(* catalog entries of the same file share its IsoFileSrc.                   *)

BlockOf(p) == 100 + 10 * Cardinality({q \in DOMAIN Files : Files[q].rank < Files[p].rank})
\* `app' is the start block of appended partitions, 0 if they do not exist;
\* `efi' tells that the first EFI image shall become a partition of its own.
eltorito_writer_create(app, efi) ==
  LET imgs == cat.imgs
      mine == {k \in 1..Len(imgs) : imgs[k].app = 0 /\ imgs[k].plat = 239} IN
  /\ tgt.st = "none" /\ cat.have
  /\ tgt' = [NoTgt EXCEPT !.st = IF efi /\ mine = {} THEN "failed" ELSE "created",
               !.efi = IF efi /\ mine # {} THEN Min(mine) ELSE 0,
               !.src = [k \in 1..Len(imgs) |-> IF imgs[k].app > 0 THEN app ELSE BlockOf(imgs[k].file)]]
  /\ UNCHANGED <<cat, tree, refs, got>>

\* Boot info table and GRUB2 address: files of less than 64 bytes, which are
\* those of size 1, get only a warning; appended partitions are refused.
Patchable(k) == cat.imgs[k].patch
iso_patch_eltoritos ==
  /\ tgt.st = "created"
  /\ tgt' = IF \E k \in 1..Len(cat.imgs) : Patchable(k) /\ cat.imgs[k].app > 0
            THEN [tgt EXCEPT !.st = "failed"]
            ELSE [tgt EXCEPT !.st = "patched",
                   !.patched = {[at |-> tgt.src[k], info |-> tgt.src[k]] :
                                  k \in {j \in 1..Len(cat.imgs) : Patchable(j) /\ Files[cat.imgs[j].file].size > 1}}]
  /\ UNCHANGED <<cat, tree, refs, got>>

\* Size of a file of size n is n * 1000 sectors of 512 bytes.
ImageSectors(p) == Files[p].size * 25000
write_section_load_size(i) ==
  IF ~(i.type = 0 /\ i.full) THEN i.size
  ELSE IF ImageSectors(i.file) > 65535 THEN (IF i.plat = 239 THEN 0 ELSE 65535) ELSE ImageSectors(i.file)
write_section_entry(i, block) ==
  [k |-> "entry", boot |-> i.boot, type |-> i.type, seg |-> i.seg, ptype |-> i.ptype,
   size |-> IF i.app > 0 THEN 40 ELSE write_section_load_size(i),
   block |-> block, crit |-> i.crit]
SameSection_noId(a, b) == a.plat = b.plat
SameSection(a, b) == a.plat = b.plat /\ a.id = b.id
\* The last image of the section which begins with image k.
SectionEnd(imgs, k) ==
  LET diff == {j \in (k + 1)..Len(imgs) : ~SameSection(imgs[k], imgs[j])} IN
  IF diff = {} THEN Len(imgs) ELSE Min(diff) - 1
write_section_header(imgs, k) ==
  [k |-> "section", last |-> SectionEnd(imgs, k) = Len(imgs), plat |-> imgs[k].plat,
   n |-> SectionEnd(imgs, k) - k + 1, id |-> imgs[k].id]
Section(imgs, src, k) ==
  <<write_section_header(imgs, k)>>
  \o [j \in 1..(SectionEnd(imgs, k) - k + 1) |-> write_section_entry(imgs[k + j - 1], src[k + j - 1])]
\* The first image has no section.
CatalogSlots(imgs, src) ==
  LET from[k \in Nat \ {0}] == IF k > Len(imgs) THEN <<>>
                               ELSE Section(imgs, src, k) \o from[SectionEnd(imgs, k) + 1]
  IN <<[k |-> "valid", plat |-> imgs[1].plat, id |-> imgs[1].id], write_section_entry(imgs[1], src[1])>>
     \o from[2]
catalog_open ==
  /\ tgt.st = "patched"
  /\ tgt' = IF \E k \in 1..Len(cat.imgs) : cat.imgs[k].app > 0 /\ tgt.src[k] = 0
            THEN [tgt EXCEPT !.st = "failed"]
            ELSE [tgt EXCEPT !.st = "written", !.slots = CatalogSlots(cat.imgs, tgt.src)]
  /\ UNCHANGED <<cat, tree, refs, got>>
\* The run ends, the application may go on.
EndRun == /\ tgt.st \in {"written", "failed"} /\ (tgt.st = "written" => got # <<>>)
          /\ tgt' = NoTgt /\ got' = <<>>
          /\ UNCHANGED <<cat, tree, refs>>

----------------------------------------------------------------------------
(* Reading it back. *)

Found(h, e, first) == [plat |-> h.plat, id |-> h.id, boot |-> e.boot, type |-> e.type, seg |-> e.seg,
                       ptype |-> e.ptype, size |-> e.size, block |-> e.block,
                       crit |-> IF first THEN 0 ELSE e.crit]
\* A header which is not the last leads to the next one behind its entries;
\* surplus images are dropped.
ReadSections(q) ==
  LET from[i \in Nat \ {0}] ==
        IF i > Len(q) \/ q[i].k # "section" THEN <<>>
        ELSE [j \in 1..q[i].n |-> Found(q[i], q[i + j], FALSE)]
             \o (IF q[i].last THEN <<>> ELSE from[i + q[i].n + 1])
      all == <<Found(q[1], q[2], TRUE)>> \o from[3]
  IN SubSeq(all, 1, Min({MaxImages, Len(all)}))
read_el_torito_boot_catalog == /\ tgt.st = "written" /\ got = <<>>
                               /\ got' = ReadSections(tgt.slots)
                               /\ UNCHANGED <<cat, tree, refs, tgt>>

Emuls == {"none", "floppy", "disk"}
EltNext == \/ \E p \in DOMAIN Files, emul \in Emuls : \/ iso_image_set_boot_image(p, 0, emul)
                                                      \/ iso_image_add_boot_image(p, 0, emul)
           \/ \E emul \in Emuls : \/ iso_image_set_boot_image(NoFile, 2, emul)
                                  \/ iso_image_add_boot_image(NoFile, 2, emul)
           \/ iso_image_remove_boot_image \/ SetImage
           \/ \E p \in Paths : RemoveNode(p)
           \/ \E app \in {0, 500}, efi \in BOOLEAN : eltorito_writer_create(app, efi)
           \/ iso_patch_eltoritos \/ catalog_open \/ read_el_torito_boot_catalog \/ EndRun
EltSpec == EltInit /\ [][EltNext]_evars

----------------------------------------------------------------------------
(* Properties. *)

\* The reader of fs_image.c must find each image with its attributes although
\* the writer groups consecutive images of same platform and id under common
\* headers and gives the first image a header of another form.  The selection
\* criteria of the first image are not read back.
CatalogRoundTrip ==
  got # <<>> =>
    /\ Len(got) = Len(cat.imgs)
    /\ \A k \in 1..Len(got) : LET i == cat.imgs[k] IN
         got[k] = [plat |-> i.plat, id |-> i.id, boot |-> i.boot, type |-> i.type, seg |-> i.seg,
                   ptype |-> i.ptype, size |-> write_section_entry(i, tgt.src[k]).size, block |-> tgt.src[k],
                   crit |-> IF k = 1 THEN 0 ELSE i.crit]

\* Each node is kept alive by the tree and by the catalog entries which refer
\* to it, over failed attachments, removal of nodes and of the whole catalog.
CatalogReferences ==
  \A p \in Paths :
    refs[p] = (IF p \in tree THEN 1 ELSE 0) + (IF p = CatPath /\ cat.node THEN 1 ELSE 0)
              + Cardinality({k \in 1..Len(cat.imgs) : cat.imgs[k].file = p})

\* As eltorito.c demands, the catalog fits into a single block: 64 slots of 32
\* bytes for 32 images, even if each image has a section of its own.
CatalogFits == Len(tgt.slots) <= 2 * MaxImages

\* The boot catalog of memory survives any sequence of calls without dangling
\* nodes, and comes back from the catalog that eltorito.c writes.
CatalogSound == CatalogRoundTrip /\ CatalogReferences /\ CatalogFits
=============================================================================
