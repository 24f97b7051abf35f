------------------------------- MODULE MCDirTree -------------------------------
(***************************************************************************)
(* Instances of DirTree with blocks of 2048 bytes and the field lengths of *)
(* the code.  The kinds of nodes are chosen so that names, link targets and *)
(* attributes end at, before and behind the limits of record and block.    *)
(* The machines of MCLayout share no state with DirTree: a behaviour goes   *)
(* on in one of them and leaves the others in an initial state.             *)
(***************************************************************************)
EXTENDS DirTree, MCLayout

CONSTANTS rootDir, dirC, dirD, dirE, fileA, fileB

MCDirs == {rootDir, dirC, dirD, dirE}
MCLeaves == {fileA, fileB}

Nested == (rootDir :> <<fileA, dirD, fileB, dirC>>) @@ (dirD :> <<dirE>>) @@ (dirE :> <<>>) @@ (dirC :> <<>>)
Flat   == (rootDir :> <<dirD, dirE, dirC>>) @@ (dirD :> <<>>) @@ (dirE :> <<fileB, fileA>>) @@ (dirC :> <<>>)
MCShapes == {Nested, Flat}

File == [type |-> "file", root |-> FALSE, iso |-> 8, name |-> 6, link |-> <<>>,
         device |-> FALSE, relocated |-> FALSE, relocDir |-> FALSE,
         zf |-> FALSE, al |-> <<>>, sections |-> 1]
Dir  == [File EXCEPT !.type = "dir"]
Link(link, name) == [File EXCEPT !.type = "symlink", !.link = link, !.name = name]

\* Attributes of n fields with 255 bytes and a last one.
Al(n, last) == [k \in 1 .. n + 1 |-> IF k = n + 1 THEN last ELSE 255]

MCDirKinds ==
  (rootDir :> {[Dir EXCEPT !.root = TRUE, !.al = <<90>>]})
  @@ (dirD :> {Dir, [Dir EXCEPT !.iso = 31, !.name = 250, !.relocDir = TRUE]})
  @@ (dirE :> {[Dir EXCEPT !.relocated = TRUE, !.al = <<40>>]})
  @@ (dirC :> {[Dir EXCEPT !.iso = 5]})

LongName == [File EXCEPT !.iso = 31, !.name = 255]

AKinds ==
  { [File EXCEPT !.sections = 16, !.name = 119],
    [File EXCEPT !.zf = TRUE, !.name = 115, !.al = Al(0, 60)],
    [LongName EXCEPT !.sections = 3, !.al = Al(2, 200)],
    [LongName EXCEPT !.type = "special", !.device = TRUE, !.iso = 30],
    [File EXCEPT !.type = "placeholder", !.name = 120, !.al = Al(8, 100)],
    Link(<<0, 3, -2, 60, -1>>, 8),
    Link(<<-2, 100, 245, 2, 255>>, 20),
    [Link(<<255, 200, 40>>, 200) EXCEPT !.al = Al(6, 9)],
    [Link(<<120, 123, 251>>, 5) EXCEPT !.al = <<77>>] }

BKinds ==
  { File,
    [File EXCEPT !.al = Al(7, 230) \o <<30>>],
    [File EXCEPT !.sections = 2, !.zf = TRUE, !.name = 130, !.al = Al(15, 249)] }
  \cup {Link(<<k>>, 60) : k \in {63, 64, 71, 72}}

MCLeafKinds == (fileA :> AKinds) @@ (fileB :> BKinds)

Plain == [rockridge |-> FALSE, aaip |-> FALSE, susp110 |-> FALSE,
          rrip110 |-> TRUE, pxIno |-> FALSE, markReloc |-> FALSE,
          version |-> TRUE, md5 |-> TRUE, twin |-> FALSE]
RockRidge == [Plain EXCEPT !.rockridge = TRUE, !.aaip = TRUE]

MCTreeOptions ==
  { [Plain EXCEPT !.version = FALSE],
    [RockRidge EXCEPT !.twin = TRUE],
    [RockRidge EXCEPT !.rrip110 = FALSE, !.markReloc = TRUE],
    [RockRidge EXCEPT !.susp110 = TRUE, !.pxIno = TRUE, !.md5 = FALSE],
    [RockRidge EXCEPT !.aaip = FALSE, !.version = FALSE] }

\* One of the trees stands for all while the machines of MCLayout step.
TreeIdle ==
  /\ opts = [RockRidge EXCEPT !.twin = TRUE] /\ kids = Flat
  /\ node = [n \in Nodes |-> CHOOSE k \in (MCDirKinds @@ MCLeafKinds)[n] : TRUE]
  /\ pc = "calc" /\ half = 1 /\ todo = <<Root>>

TreeInit == MCInit /\ Init
TreeNext == \/ LayoutIdle /\ EltInit /\ IvrInit /\ Next /\ UNCHANGED mcvars
            \/ TreeIdle /\ MCNext /\ UNCHANGED vars
TreeSpec == TreeInit /\ [][TreeNext]_<<vars, mcvars>>
=============================================================================
