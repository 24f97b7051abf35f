------------------------------ MODULE TreeBuild ------------------------------
(***************************************************************************)
(* libisofs/tree.c, builder.c and find.c: the operations that build the    *)
(* tree of nodes from new nodes, from files of the local filesystem and by *)
(* cloning, and those that find nodes in it.                               *)
(*                                                                         *)
(* A name is a sequence of characters.  Period is '.', 1..Ring are the ones  *)
(* which ascii_increment() runs through ('0'-'9', 'A'-'Z', '_', 'a'-'z' in *)
(* the order of ASCII), larger ones are all others.                        *)
(*                                                                         *)
(* Source files are numbered; file s has                                   *)
(*   name, type    type is "dir", "file", "link" or "special"              *)
(*   to            type behind a link                                      *)
(*   kids          files in the directory (or in the one behind the link)  *)
(***************************************************************************)
EXTENDS Integers, Sequences, SequencesExt, FiniteSets

CONSTANTS
  MaxNodes,     \* nodes that exist at the same time
  MaxOps,       \* calls
  MaxFails,     \* files that fail or get refused by the callback, per call
  Files,        \* the source files
  TopDir,       \* the source directory of iso_tree_add_dir_rec()
  NewNames,     \* names given by the application
  NewTypes,     \* types of nodes which the application makes of nothing
  Singles,      \* source files that get added one by one
  NoClone,      \* source files whose streams cannot be cloned
  Settings,     \* settings of the IsoImage and abort level of messages
  Conds,        \* conditions for iso_dir_find_children()
  Ring, Filler,  \* number of characters to increment, '_' among them
  MinIncr, MaxSuffix, IncrLen,    \* min_incr, max_suffix, 64
  TruncLen      \* truncate_length of the IsoImage

ASSUME TreeAssumption ==
  MaxNodes \in Nat \ {0} /\ Ring \in Nat \ {0} /\ Filler \in 1..Ring /\ MinIncr \in Nat /\ TruncLen \in Nat \ {0}

\* iso_add_dir_src_rec() looks for the place by a name which the node builder
\* then truncates.  Names of source files are assumed to be short enough.
ASSUME SourceNamesFit == \A s \in DOMAIN Files : Len(Files[s].name) + MinIncr < TruncLen

VARIABLES
  tree,     \* the nodes by number, Root is the root directory
  refs,     \* references to each source file
  rec,      \* running iso_tree_add_dir_rec(): settings, stack of directories
  ops,      \* calls done
  last,     \* outcome of the last call
  leaked    \* references to sources that nobody will give up

tbVars == <<tree, refs, rec, ops, last, leaked>>

Root == 1
Period == 0
Ids == 1..MaxNodes
Sources == DOMAIN Files
Unborn == [type |-> "none", name |-> <<>>, parent |-> 0, kids |-> <<>>, attr |-> "", data |-> 0, src |-> 0]
Live(t) == {n \in Ids : t[n].type # "none"}
Spare(t) == CHOOSE n \in Ids : t[n].type = "none" /\ \A m \in Ids : t[m].type = "none" => n <= m
Room(t, k) == Cardinality(Live(t)) + k <= MaxNodes

-----------------------------------------------------------------------------
(* Directories.                                                             *)

\* strcmp() < 0
NameLess(a, b) ==
  \E n \in 0..Len(a) : /\ n < Len(b) /\ SubSeq(a, 1, n) = SubSeq(b, 1, n)
                       /\ n < Len(a) => a[n + 1] < b[n + 1]

\* iso_dir_find(): number of children before the first one that is not smaller.
iso_dir_find(t, d, name) ==
  SelectInSeq(Append([i \in DOMAIN t[d].kids |-> t[t[d].kids[i]].name], <<>>),
              LAMBDA k : k = <<>> \/ ~NameLess(k, name)) - 1

\* iso_dir_get_node(): 0 if there is none.
iso_dir_get_node(t, d, name) ==
  LET p == iso_dir_find(t, d, name)
  IN IF p < Len(t[d].kids) /\ t[t[d].kids[p + 1]].name = name THEN t[d].kids[p + 1] ELSE 0
iso_dir_exists(t, d, name) == iso_dir_get_node(t, d, name) # 0

\* iso_dir_insert() where no node of that name is at the position.
iso_dir_insert(t, d, n, pos) ==
  [t EXCEPT ![n].parent = d, ![d].kids = SubSeq(@, 1, pos) \o <<n>> \o SubSeq(@, pos + 1, Len(@))]

\* iso_node_take()
iso_node_take(t, n) ==
  [t EXCEPT ![t[n].parent].kids = SelectSeq(@, LAMBDA k : k # n), ![n].parent = 0]

\* iso_dir_add_node()
iso_dir_add_node(t, d, n) == iso_dir_insert(t, d, n, iso_dir_find(t, d, t[n].name))

RECURSIVE Below(_, _)
Below(t, n) == {n} \union UNION {Below(t, k) : k \in ToSet(t[n].kids)}

NewNode(type, name, attr, data, src) ==
  [Unborn EXCEPT !.type = type, !.name = name, !.attr = attr, !.data = data, !.src = src]

\* iso_truncate_rr_name() with truncate mode 1.  The MD5 in the truncated name
\* is a character of its own for each name.
Digest(name) == Ring + 1 + FoldLeft(LAMBDA x, c : x * (Ring + 1) + c, 0, name)
Truncated(name) == IF Len(name) <= TruncLen THEN name ELSE Append(SubSeq(name, 1, TruncLen - 1), Digest(name))

-----------------------------------------------------------------------------
(* Names for files of which the name is already in use.                     *)

\* insert_underscores()
insert_underscores(name, at, count) ==
  SubSeq(name, 1, at) \o [i \in 1..count |-> Filler] \o SubSeq(name, at + 1, Len(name))

\* make_incrementable_name(): name, length of the part that gets incremented,
\* whether the carry goes around the end of the name, whether the name itself
\* is worth a try.  A dot more than the last one may belong to the suffix.
make_incrementable_name(name) ==
  LET len   == Len(name)
      dots  == {i \in 0..(len - 1) : name[i + 1] = Period}
      Highest(s) == CHOOSE i \in s : \A j \in s : j <= i
      one   == CHOOSE i \in dots : \A j \in dots : i <= j
      dpt   == IF one < MinIncr THEN Highest(dots) ELSE one
      pre   == {i \in dots : i < dpt}
      first == IF dots = {} THEN len
               ELSE IF dpt > 0 /\ len - dpt < MaxSuffix /\ pre # {} /\ len - Highest(pre) <= MaxSuffix THEN Highest(pre)
               ELSE dpt
  IN CASE first < MinIncr /\ len - first <= MaxSuffix ->
            [name |-> insert_underscores(name, first, MinIncr - first), first |-> MinIncr, carry |-> FALSE, try |-> TRUE]
       [] ~(first < MinIncr /\ len - first <= MaxSuffix) /\ len < IncrLen ->
            [name |-> insert_underscores(name, first, 1), first |-> first + 1, carry |-> FALSE, try |-> TRUE]
       [] OTHER -> [name |-> name, first |-> first, carry |-> first < MinIncr, try |-> FALSE]

\* ascii_increment() at place pos.
RECURSIVE ascii_increment(_, _, _)
ascii_increment(name, pos, carry) ==
  LET p == IF pos < 1 \/ pos > Len(name) THEN Len(name) ELSE pos
      c == name[p]
  IN CASE c \in 1..(Ring - 1) -> [name EXCEPT ![p] = c + 1]
       [] c = Ring -> IF p > 1 \/ carry THEN ascii_increment([name EXCEPT ![p] = 1], p - 1, carry)
                      ELSE [name EXCEPT ![p] = 1]
       [] OTHER -> [name EXCEPT ![p] = IF p = Len(name) \/ (p < Len(name) /\ name[p + 1] = Period) THEN Filler ELSE 1]

\* make_really_unique_name()
RECURSIVE FirstUnused(_, _, _, _)
FirstUnused(t, d, m, name) ==
  IF ~iso_dir_exists(t, d, name) THEN name ELSE FirstUnused(t, d, m, ascii_increment(name, m.first, m.carry))
make_really_unique_name(t, d, name) ==
  LET m == make_incrementable_name(name)
  IN FirstUnused(t, d, m, IF m.try THEN m.name ELSE ascii_increment(m.name, m.first, m.carry))

-----------------------------------------------------------------------------
(* Calls that add one node.                                                 *)

NoRec == [set |-> CHOOSE x \in Settings : TRUE, stack |-> <<>>, failed |-> {}, closed |-> {}, new |-> {}, target |-> 0]
Idle == rec.stack = <<>> /\ ops < MaxOps
Done(kind) == ops' = ops + 1 /\ last' = [kind |-> kind] /\ rec' = NoRec /\ UNCHANGED leaked

\* iso_tree_add_new_dir(), _symlink(), _special() and _file(), and with
\* truncation iso_image_add_new_dir() and so on.  Attributes come from parent.
AddNew(d, type, name, trunc) ==
  /\ Idle /\ Room(tree, 1) /\ tree[d].type = "dir"
  /\ \E n \in {IF trunc THEN Truncated(name) ELSE name} :
       /\ ~iso_dir_exists(tree, d, n)
       /\ tree' = iso_dir_insert([tree EXCEPT ![Spare(tree)] = NewNode(type, n, tree[d].attr, 0, 0)],
                                 d, Spare(tree), iso_dir_find(tree, d, n))
  /\ UNCHANGED refs /\ Done("new")

\* default_create_node(): the type depends on whether links are followed.  A
\* data file gets a stream, which takes a reference to its source.
TypeOf(s, follow) == IF follow /\ Files[s].type = "link" THEN Files[s].to ELSE Files[s].type
default_create_node(s, name, follow) ==
  LET y == TypeOf(s, follow) IN NewNode(y, Truncated(name), y, s, IF y = "file" THEN s ELSE 0)
\* Mutant: the stream does not take a reference.
NoStreamRef(r, s, n) == r
WithStream(r, s, n) == IF n.src = s THEN [r EXCEPT ![s] = @ + 1] ELSE r

\* iso_tree_add_node() and, with a name, iso_tree_add_new_node().
iso_tree_add_node(d, s, name, set, ok) ==
  /\ Idle /\ Room(tree, 1) /\ tree[d].type = "dir"
  /\ \E n \in {Truncated(name)} :
       /\ ~iso_dir_exists(tree, d, n)
       /\ IF ok
          THEN \E new \in {default_create_node(s, n, set.follow)} :
                 /\ tree' = iso_dir_insert([tree EXCEPT ![Spare(tree)] = new], d, Spare(tree), iso_dir_find(tree, d, n))
                 /\ refs' = WithStream(refs, s, new)
          ELSE UNCHANGED <<tree, refs>>
  /\ Done("node")

\* iso_node_remove(): the nodes below it go with it, and their streams
\* give up their references to sources.
iso_node_remove(n) ==
  /\ Idle /\ n \in Live(tree) \ {Root} /\ tree[n].parent # 0
  /\ \E gone \in {Below(tree, n)} :
       /\ tree' = [m \in Ids |-> IF m \in gone THEN Unborn ELSE iso_node_take(tree, n)[m]]
       /\ refs' = [s \in Sources |-> refs[s] - Cardinality({m \in gone : tree[m].src = s})]
  /\ Done("remove")

-----------------------------------------------------------------------------
(* iso_tree_add_dir_rec() and iso_add_dir_src_rec().  A frame of the stack  *)
(* is a call: node and source of the directory, files not yet read.  After  *)
(* the call, rec still tells what it has met.                               *)

Frame == Last(rec.stack)
Aborts(sev) == CASE rec.set.abort = "failure" -> sev = "failure"
                 [] rec.set.abort = "sorry"   -> sev \in {"failure", "sorry"}
                 [] OTHER                     -> TRUE
Drop(r, set) == [s \in Sources |-> IF s \in set THEN r[s] - 1 ELSE r[s]]
OnStack == {rec.stack[i].src : i \in DOMAIN rec.stack}

\* check_hidden(), check_special() and check_excludes(), which matches paths.
Skipped(set, s) ==
  \/ set.ignore_hidden /\ Files[s].name[1] = Period
  \/ set.ignore_special /\ TypeOf(s, set.follow) = "special"
  \/ s \in set.excludes

\* Open the source directory.  Failure is a reason to give up all the work or
\* to go on without it.
PushDir(r, d, s, ok) ==
  IF ok THEN rec' = [r EXCEPT !.stack = Append(@, [dir |-> d, src |-> s, left |-> Files[s].kids])]
  ELSE rec' = r

iso_tree_add_dir_rec(d, set, ok) ==
  /\ Idle /\ tree[d].type = "dir"
  /\ PushDir([NoRec EXCEPT !.set = set, !.target = d], d, TopDir, ok)
  /\ refs' = IF ok THEN [refs EXCEPT ![TopDir] = @ + 1] ELSE refs
  /\ last' = [kind |-> "addrec"]
  /\ ops' = ops + 1
  /\ UNCHANGED <<tree, leaked>>

\* Every level closes its directory and releases its source.
GiveUpAll(r) == rec' = NoRec /\ last' = [kind |-> "aborted"] /\ refs' = Drop(r, OnStack)

NextFile == [rec EXCEPT !.stack[Len(rec.stack)].left = Tail(@)]
Failed(r, s) == [r EXCEPT !.failed = @ \union {s}]
Added(n) == [NextFile EXCEPT !.new = @ \union {n}]

\* A name in use is reported by a warning.
InUse(s) == iso_dir_exists(tree, Frame.dir, Files[s].name)
WarningAborts(s) == InUse(s) /\ Aborts("warning")

\* The next file cannot be examined or its node not be created.
RecFileFails ==
  /\ rec.stack # <<>> /\ Frame.left # <<>>
  /\ IF Aborts("sorry") THEN GiveUpAll(refs)
     ELSE /\ Cardinality(rec.failed) < MaxFails
          /\ rec' = Failed(NextFile, Head(Frame.left)) /\ UNCHANGED <<refs, last>>
  /\ UNCHANGED <<tree, ops, leaked>>

\* It is excluded, hidden or special, or the callback image->report says so.
RecSkip(byReport) ==
  /\ rec.stack # <<>> /\ Frame.left # <<>>
  /\ Skipped(rec.set, Head(Frame.left)) <=> ~byReport
  /\ byReport => ~WarningAborts(Head(Frame.left)) /\ Cardinality(rec.failed) < MaxFails
  /\ rec' = IF byReport THEN Failed(NextFile, Head(Frame.left)) ELSE NextFile
  /\ UNCHANGED <<tree, refs, ops, last, leaked>>

\* The callback cancels.
RecCancel ==
  /\ rec.stack # <<>> /\ Frame.left # <<>>
  /\ ~Skipped(rec.set, Head(Frame.left)) /\ ~WarningAborts(Head(Frame.left))
  /\ GiveUpAll(refs) /\ UNCHANGED <<tree, ops, leaked>>

\* Mutant: the position of the colliding name is kept for the unique one.
InsertAtOldPlace(t, d, n, name, unique) == iso_dir_insert(t, d, n, iso_dir_find(t, d, name))
\* iso_dir_exists() of the name that was chosen tells the place.
InsertNamed(t, d, n, name, unique) == iso_dir_insert(t, d, n, iso_dir_find(t, d, unique))

\* The file becomes a node, under another name if its own one is in use.  If the
\* warning about that aborts, then the source of the file is not released.  A
\* directory is entered, unless it cannot be opened.
RecAdd(open) ==
  /\ rec.stack # <<>> /\ Frame.left # <<>> /\ Room(tree, 1)
  /\ \E s \in {Head(Frame.left)} :
       /\ ~Skipped(rec.set, s)
       /\ IF WarningAborts(s)
          THEN GiveUpAll([refs EXCEPT ![s] = @ + 1]) /\ leaked' = [leaked EXCEPT ![s] = @ + 1] /\ UNCHANGED tree
          ELSE \E name \in {IF InUse(s) THEN make_really_unique_name(tree, Frame.dir, Files[s].name) ELSE Files[s].name} :
               \E new \in {default_create_node(s, name, rec.set.follow)} : \E n \in {Spare(tree)} :
                 /\ tree' = InsertNamed([tree EXCEPT ![n] = new], Frame.dir, n, Files[s].name, name)
                 /\ UNCHANGED leaked
                 /\ IF new.type # "dir"
                    THEN /\ open /\ rec' = Added(n) /\ refs' = WithStream(refs, s, new) /\ UNCHANGED last
                    ELSE IF ~open /\ Aborts("sorry") THEN GiveUpAll(refs)
                    ELSE /\ PushDir(IF open THEN Added(n) ELSE [Added(n) EXCEPT !.closed = @ \union {s}], n, s, open)
                         /\ refs' = IF open THEN [refs EXCEPT ![s] = @ + 1] ELSE refs
                         /\ UNCHANGED last
  /\ UNCHANGED ops

\* The call for a directory ends.
Return(r) ==
  /\ rec' = [r EXCEPT !.stack = Front(@)]
  /\ refs' = Drop(refs, {Frame.src})
  /\ last' = IF Len(rec.stack) = 1 THEN [kind |-> "added"] ELSE last
  /\ UNCHANGED <<tree, ops, leaked>>
RecReturn == rec.stack # <<>> /\ Frame.left = <<>> /\ Return(rec)

\* The directory cannot be read any further: its other files are left out.
RecReadFails ==
  /\ rec.stack # <<>> /\ Frame.left # <<>>
  /\ IF Aborts("sorry") THEN GiveUpAll(refs) /\ UNCHANGED <<tree, ops, leaked>>
     ELSE /\ Cardinality(rec.failed) < MaxFails
          /\ Return([rec EXCEPT !.failed = @ \union ToSet(Frame.left)])

-----------------------------------------------------------------------------
(* Cloning.                                                                 *)

\* iso_tree_clone() of node n as child of d.  Result: tree, new node or 0, and
\* whether the node existed already.  Sources whose stream cannot be cloned make
\* it fail.  New directories are not in the tree while they get filled, so that
\* a directory can be cloned into itself.  If it fails, the new nodes stay
\* allocated outside the tree; directories to be merged with return to their place.
RECURSIVE CloneKids(_, _, _, _)
RECURSIVE CloneDir(_, _, _, _, _)
\* Mutant: a directory to merge with is lost by a failure.
CloneDirLost(t, n, d, name, old) ==
  LET m == IF old # 0 THEN old ELSE Spare(t)
      a == IF old # 0 THEN iso_node_take(t, m) ELSE [t EXCEPT ![m] = NewNode("dir", name, t[d].attr, 0, 0)]
      r == CloneKids(a, a[n].kids, m, old # 0)
  IN [r EXCEPT !.t = IF r.ok THEN iso_dir_add_node(@, d, m) ELSE @, !.n = IF r.ok THEN m ELSE 0]
CloneDir(t, n, d, name, old) ==
  LET m == IF old # 0 THEN old ELSE Spare(t)
      a == IF old # 0 THEN iso_node_take(t, m) ELSE [t EXCEPT ![m] = NewNode("dir", name, t[d].attr, 0, 0)]
      r == CloneKids(a, a[n].kids, m, old # 0)
  IN [r EXCEPT !.t = IF r.ok \/ old # 0 THEN iso_dir_add_node(@, d, m) ELSE @, !.n = IF r.ok THEN m ELSE 0]

\* The new node gets the attributes of the old one, merged directories keep theirs.
iso_tree_clone(t, n, d, name, merge) ==
  LET old == iso_dir_get_node(t, d, name)
      Bad == [t |-> t, n |-> 0, ok |-> FALSE]
  IN CASE old # 0 /\ ~(merge /\ t[n].type = "dir" /\ t[old].type = "dir") -> Bad
       [] old # 0 /\ merge /\ t[n].type = "dir" /\ t[old].type = "dir" -> CloneDir(t, n, d, name, old)
       [] old = 0 /\ t[n].type = "dir" ->
            LET r == CloneDir(t, n, d, name, 0)
            IN IF r.ok THEN [r EXCEPT !.t[r.n].attr = t[n].attr, !.t[r.n].data = t[n].data] ELSE r
       [] old = 0 /\ t[n].type = "file" /\ t[n].data \in NoClone -> Bad
       [] OTHER ->
            LET m == Spare(t)
            IN [t |-> iso_dir_add_node([t EXCEPT ![m] = NewNode(t[n].type, name, t[n].attr, t[n].data, 0)], d, m),
                n |-> m, ok |-> TRUE]
CloneKids(t, kids, d, merge) ==
  IF kids = <<>> THEN [t |-> t, n |-> 0, ok |-> TRUE]
  ELSE LET r == iso_tree_clone(t, Head(kids), d, t[Head(kids)].name, merge)
       IN IF r.ok THEN CloneKids(r.t, Tail(kids), d, merge) ELSE r

\* The nodes below n by their paths.
RECURSIVE Listing(_, _)
Listing(t, n) ==
  {[path |-> <<>>, is |-> <<t[n].type, t[n].data, t[n].attr>>]}
  \union UNION {{[x EXCEPT !.path = <<t[k].name>> \o @] : x \in Listing(t, k)} : k \in ToSet(t[n].kids)}

\* A directory cannot be merged with itself: its iterator would meet each
\* subdirectory again, for ever.
Clone(n, d, given, merge, trunc) ==
  /\ Idle /\ n \in Below(tree, Root) \ {Root} /\ d \in Below(tree, Root) /\ tree[d].type = "dir"
  /\ Room(tree, Cardinality(Below(tree, n)))
  /\ \E name \in {IF trunc THEN Truncated(given) ELSE given} : \E old \in {iso_dir_get_node(tree, d, name)} :
       /\ old # n
       /\ \E r \in {iso_tree_clone(tree, n, d, name, merge)} :
            /\ tree' = r.t
            /\ last' = [kind |-> "clone", ok |-> r.ok, merged |-> r.ok /\ old # 0,
                         want |-> Listing(IF old # 0 THEN iso_node_take(tree, old) ELSE tree, n),
                         had |-> IF old # 0 THEN Listing(tree, old) ELSE {},
                         got |-> IF r.ok THEN Listing(r.t, r.n) ELSE {},
                         before |-> Listing(tree, Root), atomic |-> ~(merge /\ old # 0)]
  /\ ops' = ops + 1 /\ rec' = NoRec /\ UNCHANGED <<refs, leaked>>

-----------------------------------------------------------------------------
(* Finding nodes.                                                           *)

\* iso_tree_path_to_node() and iso_tree_get_node_path().
iso_tree_path_to_node(t, path) ==
  FoldLeft(LAMBDA n, c : IF n = 0 \/ t[n].type # "dir" THEN 0 ELSE iso_dir_get_node(t, n, c), Root, path)
RECURSIVE iso_tree_get_node_path(_, _)
iso_tree_get_node_path(t, n) ==
  IF n = Root THEN <<>> ELSE Append(iso_tree_get_node_path(t, t[n].parent), t[n].name)

\* cond_name_matches() and the like, cond_logical_and_matches(), ...
RECURSIVE Matches(_, _, _)
Matches(t, c, n) ==
  CASE c.op = "name" -> t[n].name = c.arg
    [] c.op = "mode" -> t[n].type = c.arg
    [] c.op = "and"  -> Matches(t, c.a, n) /\ Matches(t, c.b, n)
    [] c.op = "or"   -> Matches(t, c.a, n) \/ Matches(t, c.b, n)
    [] c.op = "not"  -> ~Matches(t, c.a, n)

\* The iterator of iso_dir_find_children(): children not yet read, the node it
\* will return next, and an iterator for a subdirectory.
RECURSIVE get_next(_, _, _)
RECURSIVE update_next(_, _, _)
iso_dir_find_children(t, c, d) == update_next(t, c, [left |-> t[d].kids, cur |-> 0, sec |-> <<>>])
find_iter_next(t, c, it) == [n |-> it.cur, it |-> update_next(t, c, it)]
get_next(t, c, it) ==
  LET r == IF it.sec = <<>> THEN [n |-> 0, it |-> it] ELSE find_iter_next(t, c, it.sec[1])
      rest == [it EXCEPT !.sec = <<>>, !.left = IF @ = <<>> THEN @ ELSE Tail(@)]
  IN IF r.n # 0 THEN [n |-> r.n, it |-> [it EXCEPT !.sec = <<r.it>>]]
     ELSE CASE it.left = <<>> -> [n |-> 0, it |-> rest]
            [] it.left # <<>> /\ Matches(t, c, Head(it.left)) -> [n |-> Head(it.left), it |-> rest]
            [] OTHER -> get_next(t, c, IF t[Head(it.left)].type = "dir"
                                       THEN [rest EXCEPT !.sec = <<iso_dir_find_children(t, c, Head(it.left))>>]
                                       ELSE rest)
update_next(t, c, it) ==
  LET sub == IF it.sec = <<>> /\ it.cur # 0 /\ t[it.cur].type = "dir"
             THEN [it EXCEPT !.sec = <<iso_dir_find_children(t, c, it.cur)>>] ELSE it
      r   == get_next(t, c, sub)
  IN [r.it EXCEPT !.cur = r.n]

RECURSIVE Found(_, _, _)
Found(t, c, it) == LET r == find_iter_next(t, c, it) IN IF r.n = 0 THEN <<>> ELSE <<r.n>> \o Found(t, c, r.it)

-----------------------------------------------------------------------------

TbInit ==
  /\ tree = [n \in Ids |-> IF n = Root THEN [Unborn EXCEPT !.type = "dir", !.attr = "root"] ELSE Unborn]
  /\ refs = [s \in Sources |-> 0] /\ leaked = refs
  /\ rec = NoRec /\ ops = 0 /\ last = [kind |-> "none"]

Dirs == {n \in Below(tree, Root) : tree[n].type = "dir"}
TbNext ==
  \/ \E d \in Dirs, name \in NewNames :
       \/ \E type \in NewTypes, trunc \in BOOLEAN : AddNew(d, type, name, trunc)
       \/ \E s \in Singles, set \in Settings, ok \in BOOLEAN : iso_tree_add_node(d, s, name, set, ok)
  \/ \E d \in Dirs, set \in Settings, ok \in BOOLEAN : iso_tree_add_dir_rec(d, set, ok)
  \/ RecFileFails \/ RecCancel \/ RecReturn \/ RecReadFails
  \/ \E b \in BOOLEAN : RecSkip(b) \/ RecAdd(b)
  \/ \E n \in Ids : iso_node_remove(n)
  \/ \E n \in Ids, d \in Dirs, given \in NewNames, merge, trunc \in BOOLEAN : Clone(n, d, given, merge, trunc)

TbSpec == TbInit /\ [][TbNext]_tbVars

-----------------------------------------------------------------------------

RECURSIVE Preorder(_, _)
Preorder(t, d) == FlattenSeq([i \in DOMAIN t[d].kids |-> <<t[d].kids[i]>> \o Preorder(t, t[d].kids[i])])

\* Each node of the tree is found under its own path, so no two nodes of a
\* directory have the same name and the children are in the order by which
\* iso_dir_find() searches; and iso_dir_find_children() returns all matching
\* nodes, each once, parents first (iso_dir_insert(), make_really_unique_name(),
\* iso_tree_path_to_node(), get_next(), update_next()).
TreeLookup ==
  /\ \A n \in Below(tree, Root) :
       /\ iso_tree_path_to_node(tree, iso_tree_get_node_path(tree, n)) = n
       /\ \A i \in 2..Len(tree[n].kids) : NameLess(tree[tree[n].kids[i - 1]].name, tree[tree[n].kids[i]].name)
  /\ \A c \in Conds :
       Found(tree, c, iso_dir_find_children(tree, c, Root)) = SelectSeq(Preorder(tree, Root), LAMBDA n : Matches(tree, c, n))

RECURSIVE Wanted(_)
Wanted(s) ==
  UNION {{k} \union (IF TypeOf(k, rec.set.follow) = "dir" /\ k \notin rec.closed THEN Wanted(k) ELSE {})
         : k \in {k \in ToSet(Files[s].kids) : ~Skipped(rec.set, k) /\ k \notin rec.failed}}

\* A directory added recursively has one node for each file which was neither
\* skipped nor failed, below the node of its own directory, whatever names were
\* in use; and at any time each source has the references of the streams and
\* of the running calls, except for the one lost when a collision warning
\* aborts (iso_add_dir_src_rec(), default_create_node()).
AddDirExact ==
  /\ last.kind = "added" =>
       LET new == rec.new
       IN /\ {tree[n].data : n \in new} = Wanted(TopDir)
          /\ \A n \in new : /\ \A m \in new : tree[m].data = tree[n].data => m = n
                            /\ IF tree[n].parent = rec.target THEN tree[n].data \in ToSet(Files[TopDir].kids)
                               ELSE /\ tree[n].parent \in new
                                    /\ tree[n].data \in ToSet(Files[tree[tree[n].parent].data].kids)
  /\ \A s \in Sources :
       refs[s] = Cardinality({n \in Live(tree) : tree[n].src = s}) + leaked[s] + (IF s \in OnStack THEN 1 ELSE 0)

\* A clone is equal to the original in names, types, content and attributes;
\* merging adds to a directory what it lacks and changes nothing of it; a failed
\* clone loses no node, and without merging adds none (iso_tree_clone()).
CloneFaithful ==
  last.kind = "clone" =>
    LET now == Listing(tree, Root)
        places == {x.path : x \in last.had}
    IN /\ last.before \subseteq now
       /\ last.ok /\ ~last.merged => last.got = last.want /\ Cardinality(now) = Cardinality(last.before) + Cardinality(last.got)
       /\ last.merged => last.got = last.had \union {x \in last.want : x.path \notin places}
       /\ ~last.ok /\ last.atomic => now = last.before
=============================================================================
