------------------------------ MODULE MCTrees ------------------------------
(***************************************************************************)
(* Instance of the low level trees and of the HFS+ tree for TLC.  Two      *)
(* digits instead of ten, and all length limits scaled down.               *)
(***************************************************************************)
EXTENDS LowTree, HfsTree, MCTreeBuild

D0 == Digit(0)
D1 == Digit(1)
A == Upper
a == Lower

Image(n, par, name, type) ==
  [n |-> n, par |-> par, name |-> name, type |-> type,
   hide |-> [x \in 1..n |-> {}], key |-> [x \in 1..n |-> 0],
   ino |-> [x \in 1..n |-> -1], attr |-> [x \in 1..n |-> 0],
   big |-> [x \in 1..n |-> FALSE]]

Strict == [low |-> 0, ascii7 |-> FALSE]
Opts == [kind |-> "ecma119", rr |-> TRUE, deep |-> FALSE, longer |-> FALSE,
         abort |-> FALSE, eltorito |-> TRUE, level |-> 2, max37 |-> FALSE,
         relaxed |-> Strict, untranslated |-> 0, dirext |-> FALSE,
         nodots |-> FALSE, hardlinks |-> TRUE, reloc |-> <<>>,
         dedicated |-> FALSE, joliet_long_names |-> FALSE,
         newino |-> "none", counter |-> 0]

\* one directory with some of these names, as files or as directories
Pool == {<<A>>, <<a>>, <<Star>>, <<A, D0>>, <<A, A, A>>, <<a, a, A>>,
         <<A, Dot, A>>, <<a, Dot, a>>, <<Dot, A, A>>, <<A, A, A, Dot, A, A>>,
         <<A, A, a, Dot, A, A>>, <<A, a, A, D1, A, A>>}
Crowd == {<<A, A, A>>, <<a, A, A>>, <<A, a, A>>, <<A, A, a>>, <<a, a, A>>, <<A, a, a>>}

Flat(S, types) ==
  LET q == SetToSeq(S) IN
  Image(Len(q) + 1, [i \in 1..(Len(q) + 1) |-> 1], <<<<>>>> \o q,
        <<"dir">> \o [i \in DOMAIN q |-> types[1 + (i % Len(types))]])

NameOpts ==
  {[Opts EXCEPT !.level = 1], [Opts EXCEPT !.level = 1, !.nodots = TRUE], Opts,
   [Opts EXCEPT !.relaxed.low = 1, !.dirext = TRUE], [Opts EXCEPT !.relaxed.ascii7 = TRUE],
   [Opts EXCEPT !.max37 = TRUE], [Opts EXCEPT !.untranslated = 3],
   [Opts EXCEPT !.kind = "joliet"], [Opts EXCEPT !.kind = "joliet", !.joliet_long_names = TRUE],
   [Opts EXCEPT !.kind = "iso1999"]}

FlatInputs ==
  [ts |-> {Flat(S, ty) : S \in {X \in SUBSET Pool : Cardinality(X) \in {2, 3}} \cup {Crowd},
                         ty \in {<<"file">>, <<"dir", "file">>}},
   os |-> NameOpts]

\* two chains of directories of various depth, with files and hidden parts
Chain(n, k, names, types) ==
  Image(n, [x \in 1..n |-> IF x = 1 \/ x = k THEN 1 ELSE x - 1], names, types)

DeepTypes == {<<"dir", "dir", "dir", "dir", "dir", "dir", "file">>,
              <<"dir", "dir", "dir", "dir", "dir", "dir", "dir">>,
              <<"dir", "dir", "dir", "symlink", "dir", "dir", "boot">>,
              <<"dir", "dir", "dir", "dir", "special", "dir", "file">>}
DeepNames == {[x \in 1..7 |-> IF x = 1 THEN <<>> ELSE <<A>>],
              [x \in 1..7 |-> IF x = 1 THEN <<>> ELSE IF x = 2 THEN <<D0>> ELSE <<A, A, A>>],
              [x \in 1..7 |-> IF x = 1 THEN <<>> ELSE IF x \in {2, 3} THEN <<D0>> ELSE <<A, a>>]}
DeepHide == {[x \in 1..7 |-> {}]} \cup
            {[x \in 1..7 |-> IF x = y THEN h ELSE {}] : y \in {1, 3, 5},
               h \in {{"rr"}, {"rr", "write", "joliet", "1999"}}}
DeepOpts ==
  {[Opts EXCEPT !.reloc = r, !.rr = rr] : r \in {<<>>, <<D0>>}, rr \in BOOLEAN}
  \cup {[Opts EXCEPT !.deep = TRUE], [Opts EXCEPT !.rr = FALSE, !.abort = TRUE],
        [Opts EXCEPT !.rr = FALSE, !.eltorito = FALSE],
        [Opts EXCEPT !.kind = "joliet"], [Opts EXCEPT !.kind = "iso1999"],
        [Opts EXCEPT !.kind = "joliet", !.longer = TRUE],
        [Opts EXCEPT !.kind = "iso1999", !.longer = TRUE]}

\* a node other than a directory has no children
WellFormed(t) == \A x \in 2..t.n : t.type[t.par[x]] = "dir"

\* make_reloc_dir_if_needed() has just created node 2 if the directory is dedicated
RelocOpts == {[Opts EXCEPT !.reloc = <<D0>>, !.dedicated = TRUE]}

DeepInputs(ks, os) ==
  [ts |-> {t \in {[Chain(7, k, nm, ty) EXCEPT !.hide = h, !.big[7] = b] :
                    k \in ks, nm \in DeepNames, ty \in DeepTypes,
                    h \in DeepHide, b \in BOOLEAN} : WellFormed(t)},
   os |-> os]

\* four files with sources and inode numbers, which differ if the type differs
Loaded(t) == \A x, y \in 1..t.n :
               t.ino[x] > 0 /\ t.ino[x] = t.ino[y] => t.type[x] = t.type[y]

LinkInputs ==
  [ts |-> {t \in
      {[Image(5, <<1, 1, 1, 2, 1>>, <<<<>>, <<A>>, <<A, A>>, <<A>>, <<D0>>>>,
              <<"dir", "dir">> \o ty)
          EXCEPT !.key = <<0, 0>> \o k, !.ino = i, !.attr = <<0, 0>> \o at] :
        ty \in {<<"file", "file", "file">>, <<"symlink", "symlink", "file">>,
                <<"special", "special", "boot">>},
        k \in {<<1, 1, 2>>, <<1, 1, 1>>, <<0, 0, 1>>},
        i \in {<<-1, -1, -1, -1, -1>>, <<0, 4, 5, 5, 5>>, <<0, 4, 5, -1, 6>>, <<0, 4, 5, 5, 2>>,
               <<-1, 4, -1, 4 + InoLimit, -1>>, <<3, 4, -1, -1, 6>>, <<0, 2, -1, 1, -1>>},
        at \in {<<0, 0, 0>>, <<0, 1, 0>>, <<0, 0, 1>>}} : Loaded(t)},
   os |-> {[Opts EXCEPT !.hardlinks = h, !.counter = c, !.newino = nw] :
             h \in BOOLEAN, c \in {6, InoLimit - 2, InoLimit - 1},
             nw \in {"none", "files", "missing"}}]

MCLtInputs == {FlatInputs, LinkInputs, DeepInputs({2, 3, 5, 6}, DeepOpts),
               DeepInputs({3}, RelocOpts)}

\* HFS+: names that collide when case is folded and some characters are ignored,
\* and links that lead through them
HfPool == {<<A>>, <<a>>, <<A, Star>>, <<Star, A>>, <<a, Under>>, <<A, A, A, A>>, <<a, A, A, A>>,
           <<A, Under, D0>>}
Up == <<Dot, Dot>>

HfImage(p, q, r, s, types, links, boot) ==
  [n |-> 7, par |-> <<1, 1, 2, 1, 4, 1, 1>>,
   name |-> <<<<D0, D1>>, p, <<A>>, q, <<a>>, r, s>>,
   type |-> <<"dir", "dir", types[1], "dir", types[2], "symlink", types[3]>>,
   hide |-> [x \in 1..7 |-> IF x = 7 /\ boot THEN {"hfsplus"} ELSE {}],
   dest |-> [x \in 1..7 |->
      CASE x = 6 -> [abs |-> links = 1, comps |-> IF links = 2 THEN <<q, <<a>>>> ELSE <<p, <<A>>>>]
        [] x = 5 -> [abs |-> FALSE, comps |-> IF links = 2 THEN <<Up, p, <<A>>>> ELSE <<Up, r>>]
        [] x = 3 -> [abs |-> TRUE, comps |-> IF links = 1 THEN <<q, Up, q>> ELSE <<s>>]
        [] OTHER -> [abs |-> FALSE, comps |-> <<>>]]]

MCHfInputs ==
  {t \in {HfImage(p, q, r, s, ty, l, b) :
            p \in HfPool, q \in HfPool, r \in HfPool, s \in {<<A, Star, Star>>, <<a, A, a, A>>},
            ty \in {<<"file", "symlink", "boot">>, <<"symlink", "file", "special">>,
                    <<"symlink", "symlink", "file">>},
            l \in 0..2, b \in BOOLEAN} :
     /\ Cardinality({t.name[2], t.name[4], t.name[6], t.name[7]}) = 4
     /\ t.type[7] = "file" => t.hide[7] = {}}

vars == <<ltVars, hfVars, tbVars>>
Init == LtInit /\ HfInit /\ TbInit
Next == \/ HfInit /\ TbInit /\ LtNext /\ UNCHANGED <<hfVars, tbVars>>
        \/ LtInit /\ TbInit /\ HfNext /\ UNCHANGED <<ltVars, tbVars>>
        \/ LtInit /\ HfInit /\ TbNext /\ UNCHANGED <<ltVars, hfVars>>

\* a tree is finished once, calls are made until their number is reached
Finished == /\ ltPc \in {"done", "failed"} \/ hfPc \in {"done", "displaced"} \/ (ops = MaxOps /\ rec.stack = <<>>)
            /\ UNCHANGED vars

Spec == Init /\ [][Next \/ Finished]_vars
=============================================================================
