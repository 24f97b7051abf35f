----------------------------- MODULE MCSessions -----------------------------
(* Sessions with checksums, the attribute lists that carry their index, and *)
(* the import of images that they come from.  They share no state: a        *)
(* behaviour goes on in one of them while the others are in an initial one. *)
EXTENDS MCSessionMd5, AttrList, MCImport

\* Attributes: the ACL, names of several name spaces, some of them escaped, nested
\* or nothing but a name space, and values of up to several chunks.
MCNsText == [i \in 2..6 |-> <<60 + i, 46>>]
User == MCNsText[3]
Acl == <<>>
UA == User \o <<97>>
Long == User \o <<97, 98, 99, 100, 101, 102, 103>>
Sec6 == MCNsText[6] \o <<98>>
Isofs == MCNsText[4] \o <<99, 100>>
Strange == <<3, 97>>
Nested == User \o MCNsText[6] \o <<97>>
AttrNames == {Acl, UA, Long, Sec6, Isofs, Strange}
ValueOf(n) == [i \in 1..n |-> i % 3]
AttrPool == {Pair(n, ValueOf(v)) : n \in AttrNames, v \in {0, 1, 4, 9}}
ManyLists == {<<>>, <<Pair(UA, ValueOf(40))>>, <<Pair(UA, <<8>>), Pair(Long, ValueOf(5)), Pair(Sec6, ValueOf(12))>>}
             \union {<<p>> : p \in AttrPool \union {Pair(Nested, <<1>>), Pair(User, <<1>>)}}
             \union {<<Pair(n, ValueOf(v)), Pair(m, ValueOf(w))>> :
                       n \in {UA, Isofs}, m \in AttrNames \ {UA, Isofs}, v \in {0, 3}, w \in {1, 4, 8}}
             \union {<<Pair(n, ValueOf(v)), Pair(UA, <<>>)>> : n \in {Acl, Sec6}, v \in {0, 3}}
FewLists == {<<Pair(UA, <<8>>)>>, <<Pair(UA, <<8>>), Pair(Acl, <<7>>), Pair(Isofs, <<>>)>>,
             <<Pair(Long, <<>>), Pair(UA, <<9>>)>>, <<Pair(Sec6, ValueOf(5))>>}
Flag(a, m, d, n, i) == [acl |-> a, merge |-> m, delete |-> d, any |-> n, noisofs |-> i]
NewList == Flag(TRUE, FALSE, FALSE, TRUE, FALSE)
MergeUser  == Flag(FALSE, TRUE, FALSE, FALSE, FALSE)
DeleteAny  == Flag(FALSE, TRUE, TRUE, TRUE, FALSE)
Flags == {MergeUser, DeleteAny, Flag(FALSE, FALSE, FALSE, FALSE, FALSE),
          Flag(TRUE, TRUE, FALSE, TRUE, TRUE), Flag(TRUE, FALSE, FALSE, TRUE, TRUE)}
Calls(ls, fs) == {[list |-> l, flag |-> f] : l \in ls, f \in fs}
MCAttrCalls == <<Calls(ManyLists, {NewList}), Calls(FewLists, Flags),
                 Calls({<<Pair(UA, <<2>>)>>}, {MergeUser, DeleteAny})>>
Split == <<1, 1, 3, 0, 1, 97, 0, 0>>       \* name of user.a in two records, empty value
Found(a, l, t) == [aa |-> a, attrs |-> l, trust |-> t]
UAField(cont) == <<65, 76, 9, 1, cont, 0, 2, 3, 97>>
\* None; split in an unusual way; ended inside of a record, of a component, of a
\* pair; with a bad field version; too long.
MCImported ==
  {Found(<<>>, <<>>, "list"),
   Found(<<65, 76, 9, 1, 1>> \o SubSeq(Split, 1, 4) \o <<65, 76, 7, 1, 1>> \o SubSeq(Split, 5, 6)
         \o <<65, 76, 7, 1, 1, 0, 0>> \o <<65, 76, 9, 1, 1, 0, 0, 0, 2>> \o <<65, 65, 7, 1, 0, 5, 6>>,
         <<Pair(UA, <<>>), Pair(Acl, <<5, 6>>)>>, "list"),
   Found(UAField(1) \o <<65, 76, 8, 1, 0, 0, 3, 5>>, <<Pair(UA, <<5, 0, 0>>)>>, "list"),
   Found(UAField(1) \o <<65, 76, 8, 1, 0, 1, 1, 5>>, <<Pair(UA, <<5>>)>>, "list"),
   Found(UAField(0), <<Pair(UA, <<>>)>>, "list"),
   Found(UAField(1) \o <<65, 76, 8, 2, 0, 0, 1, 5>>, <<>>, "refused"),
   Found(aaip_encode(<<Pair(UA, ValueOf(100))>>), <<>>, "refused")}

\* One initial state of each stands for all while another one steps.
NoIndex == array = NoArray /\ \A f \in Files : file[f].cx = None
NoSession == NoIndex /\ Init
NoAttributes == aa = <<>> /\ sets = 0 /\ ~got.done /\ dpc = "idle"
NotLoaded == /\ img = CHOOSE i \in Relocated : TRUE
             /\ ipc = "idle" /\ cur.g = 0 /\ job = NoWalk /\ last = NoRead
             /\ app.fs = 1 /\ app.open = 0 /\ heap.open = 0 /\ ~heap.dsOpen
             /\ dirty = {} /\ spoiled = {} /\ lost = 0 /\ \A s \in Ids : heap.src[s] = Free

MCInit == /\ ImportInit /\ Init /\ AlInit
          /\ \/ NoIndex /\ (NoAttributes \/ NotLoaded)
             \/ NoAttributes /\ NotLoaded
MCNext == \/ NoAttributes /\ NotLoaded /\ Next /\ UNCHANGED <<alVars, isVars, imVars>>
          \/ NoSession /\ NotLoaded /\ AlNext /\ UNCHANGED <<vars, isVars, imVars>>
          \/ NoSession /\ NoAttributes /\ ImportNext /\ UNCHANGED <<vars, alVars>>
MCSpec == MCInit /\ [][MCNext]_<<vars, alVars, isVars, imVars>>
=============================================================================
