------------------------------ MODULE MCImport ------------------------------
(* Images for ImageSource: their directory blocks, continuation areas and   *)
(* the files that readdir shall show; images for ImageImport.               *)
EXTENDS ImageSource, ImageImport

Px(m)       == [sig |-> "PX", valid |-> TRUE, mode |-> m]
Nm(t, c)    == [sig |-> "NM", text |-> t, cont |-> c]
Sl(cs, c)   == [sig |-> "SL", comps |-> cs, cont |-> c]
Al(x, c)    == [sig |-> "AL", part |-> x, cont |-> c]
Zf(v)       == [sig |-> "ZF", valid |-> v]
Ce(b)       == [sig |-> "CE", block |-> b]
Cl(b)       == [sig |-> "CL", loc |-> b]
Sig(x)      == [sig |-> x]
Comp(t, p)  == [text |-> t, part |-> p]
Sec(b, n)   == [block |-> b, size |-> n]
Rec(l, id, b, n, sue) == [len |-> l, id |-> id, dir |-> FALSE, multi |-> FALSE, gap |-> FALSE,
                          sec |-> Sec(b, n), sue |-> sue]
Dir(r)      == [r EXCEPT !.dir = TRUE]
Multi(r)    == [r EXCEPT !.multi = TRUE]
Dots(b, n, sue) == <<Dir(Rec(1, <<".">>, b, n, sue)), Dir(Rec(1, <<"..">>, b, n, sue))>>
Shown(n, m, secs) == [Blank EXCEPT !.name = n, !.mode = m, !.secs = secs]
Set(r, s)   == [rr |-> r, strict |-> s, map |-> 3, trunc |-> 4]

\* The NM of "abc" and the SL of "../bc/a", in all ways to split them.
Names == {<<Nm(<<"a", "b", "c">>, FALSE)>>,
          <<Nm(<<"a">>, TRUE), Nm(<<"b", "c">>, FALSE)>>,
          <<Nm(<<"a">>, TRUE), Nm(<<"b">>, TRUE), Nm(<<"c">>, FALSE)>>,
          <<Nm(<<"a", "b", "c">>, FALSE), Nm(<<"x">>, FALSE)>>}
Up == Comp(<<".", ".">>, FALSE)
Targets == {<<Sl(<<Up, Comp(<<"b", "c">>, FALSE), Comp(<<"a">>, FALSE)>>, FALSE)>>,
            <<Sl(<<Up>>, TRUE), Sl(<<Comp(<<"b", "c">>, FALSE), Comp(<<"a">>, FALSE)>>, FALSE)>>,
            <<Sl(<<Up, Comp(<<"b">>, TRUE)>>, TRUE), Sl(<<Comp(<<"c">>, FALSE), Comp(<<"a">>, FALSE)>>, FALSE)>>,
            <<Sl(<<Up, Comp(<<"b">>, TRUE)>>, FALSE), Sl(<<Comp(<<"c">>, FALSE)>>, TRUE), Sl(<<Comp(<<"a">>, FALSE)>>, FALSE)>>}
Target == <<".", ".", "/", "b", "c", "/", "a">>

\* A file of two sections and a link with continuation area.
Sectioned == {[set |-> Set(TRUE, t), root |-> 10,
           disk |-> [dir |-> (10 :> Dots(10, 8, <<Px("dir")>>)
                                    \o <<Multi(Rec(1, <<"A">>, 50, 3, <<>>)),
                                         Rec(1, <<"A">>, 60, 4, <<Px("file")>> \o n \o <<Al("p", TRUE), Al("q", FALSE), Zf(TRUE)>>)>>)
                             @@ (11 :> <<Rec(2, <<"B">>, 0, 0, <<Px("link"), Nm(<<"b">>, FALSE), Ce(30)>>)>>),
                     ca |-> 30 :> l],
           shows |-> 10 :> <<[Shown(<<"a", "b", "c">>, "file", <<Sec(50, 3), Sec(60, 4)>>) EXCEPT !.aa = <<"p", "q">>, !.zf = TRUE],
                             [Shown(<<"b">>, "link", <<Sec(0, 0)>>) EXCEPT !.link = Target]>>]
          : n \in Names, l \in Targets, t \in BOOLEAN}

\* A relocated directory.
Relocated == {[set |-> Set(TRUE, FALSE), root |-> 10,
           disk |-> [dir |-> (10 :> Dots(10, 4, <<Px("dir")>>)
                                    \o <<Rec(1, <<"R">>, 0, 0, <<Px("dir"), Nm(<<"r">>, FALSE), Cl(20)>>),
                                         Dir(Rec(1, <<"M">>, 15, 4, <<Px("dir"), Nm(<<"m">>, FALSE)>>))>>)
                             @@ (15 :> Dots(15, 4, <<Px("dir")>>)
                                    \o <<Dir(Rec(1, <<"R">>, 20, 4, <<Px("dir"), Nm(<<"r">>, FALSE), Sig("RE")>>))>>)
                             @@ (20 :> Dots(20, 4, <<Px("dir")>> \o <<Sig("PL")>>)
                                    \o <<Rec(2, <<"A", ";", "1">>, 50, 3, <<Px("file")>>)>>),
                     ca |-> 30 :> <<>>],
           shows |-> (10 :> <<Shown(<<"r">>, "dir", <<Sec(20, 4)>>), Shown(<<"m">>, "dir", <<Sec(15, 4)>>)>>)
                     @@ (15 :> <<>>) @@ (20 :> <<Shown(<<"a">>, "file", <<Sec(50, 3)>>)>>)]}

\* No Rock Ridge: mapped ECMA-119 names, of which one is too long; a file lacks
\* its last section.
Foreign == {[set |-> Set(r, t), root |-> 10,
           disk |-> [dir |-> 10 :> Dots(10, 4, <<>>) \o <<x, y>>,
                     ca |-> (30 :> <<Sl(<<Up>>, TRUE)>>) @@ (31 :> <<Ce(30), Ce(31)>>)],
           shows |-> <<>>] :
             r \in BOOLEAN, t \in BOOLEAN,
             x \in {Rec(1, <<"A", ".", ";", "1">>, 50, 3, <<Px("link"), Nm(<<"c">>, TRUE), Ce(31)>>),
                    Multi(Rec(1, <<"B">>, 50, 2, <<>>)),
                    [Rec(1, <<"B">>, 50, 2, <<>>) EXCEPT !.gap = TRUE]},
             y \in {Rec(1, <<"A", "B", "C", "A", "B", ";", "1">>, 60, 3, <<Px("link")>>),
                    Rec(1, <<"C">>, 60, 3, <<Px("dir"), Cl(10), Sig("SF")>>)}}

MCImages == Sectioned \union Relocated \union Foreign

\* All calls are made with two of the images, data being read from one source
\* while nothing else is open.  On the other images directories are opened with
\* the root source as the only one handed out.
Deep == Relocated \union {i \in Sectioned : i.set.strict /\ Len(i.disk.ca[30]) = 3 /\ Len(i.disk.dir[10][4].sue) = 7}
Quiet == app.open = 0 /\ app.fs = 1 /\ lost = 0
ImportBound ==
  \/ img \in Deep /\ \A s \in Ids : heap.src[s].off > 0 =>
                       Quiet /\ \A t \in Ids \ {s} : heap.src[t].opened = 0 /\ heap.src[t].off = 0
  \/ Quiet /\ \A s \in Ids \ {1} : app.src[s] = 0
MCPaths == {<<>>, <<<<"r">>, <<"a">>>>, <<<<"b">>, <<"a">>>>}

\* A boot image that is a file, one that is not, two entries for one block; the
\* catalog twice, once or not in the tree; no El Torito.
File(b) == [block |-> b, empty |-> FALSE, dir |-> FALSE]
Folder == [File(1) EXCEPT !.dir = TRUE]
Cat(d, secs) == [valid |-> TRUE, default |-> d, sections |-> secs]
Section(l, e) == [last |-> l, entries |-> e]
Iso(tags, vds, er, files, cat, sums) ==
  [tags |-> tags, pvd |-> TRUE, vds |-> vds, sp |-> "good", er |-> er, files |-> files, catblock |-> 6, cat |-> cat, sums |-> sums]
MCIsoImages ==
  {Iso(<<"relocated", "match">>, <<"boot", "svd">>, <<"IEEE_1282", "AAIP_0200">>, <<File(5), Folder, File(6), File(7)>>,
       Cat(7, <<Section(TRUE, <<8, 7>>), Section(TRUE, <<9>>)>>), "good"),
   Iso(<<"none">>, <<"boot", "evd">>, <<>>, <<File(6), File(7), File(6)>>, Cat(7, <<Section(FALSE, <<7>>)>>), "damaged"),
   [Iso(<<"copied">>, <<"boot", "svd", "evd">>, <<>>, <<File(6)>>, Cat(7, <<>>), "none") EXCEPT !.cat.valid = FALSE],
   Iso(<<"match">>, <<"boot">>, <<"RRIP_1991A">>, <<[File(7) EXCEPT !.empty = TRUE]>>, Cat(7, <<>>), "good"),
   Iso(<<"relocated", "mismatch">>, <<>>, <<>>, <<>>, Cat(7, <<>>), "none"),
   [Iso(<<"none">>, <<>>, <<>>, <<>>, Cat(7, <<>>), "none") EXCEPT !.pvd = FALSE]}
ReadOpt(nr, nj, pj, n9) == [norock |-> nr, nojoliet |-> nj, preferjoliet |-> pj, noiso1999 |-> n9, md5 |-> ~nr, sysarea |-> ~nr]
MCReadOpts == {ReadOpt(FALSE, FALSE, FALSE, FALSE), ReadOpt(TRUE, FALSE, FALSE, TRUE)}

\* The sources are used before an import, or imports are done with no sources.
ImportInit == IsInit /\ ImInit
ImportNext ==
  \/ ImportBound /\ ipc = "idle" /\ cur.g = 0 /\ IsNext /\ UNCHANGED imVars
  \/ ImportBound /\ img \in Relocated /\ app.fs = 1 /\ heap.fsrefs = 1 /\ heap.open = 0 /\ ImNext /\ UNCHANGED isVars
ImportSpec == ImportInit /\ [][ImportNext]_<<isVars, imVars>>
=============================================================================
