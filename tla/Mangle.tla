------------------------------- MODULE Mangle -------------------------------
(***************************************************************************)
(* File names of the ECMA-119, Joliet and ISO 9660:1999 trees: conversion  *)
(* of a node name to what the tree allows (util.c) and the renaming of     *)
(* equal names in a directory (mangle_single_dir() of ecma119_tree.c,      *)
(* joliet.c and iso1999.c).                                                *)
(*                                                                         *)
(* A character is a number in ASCII order: one character that no restricted*)
(* character set allows, the dot, Base digits, one upper case letter, the  *)
(* underscore and the lower case letter.  A name is a sequence of them.    *)
(***************************************************************************)
EXTENDS Integers, Sequences, FiniteSets, TLC

CONSTANTS Base,       \* how many digits there are (10)
          MaxDigits,  \* mangled numbers are shorter than this (8)
          Ext,        \* extension that is kept when a name is shortened (3)
          Stem1,      \* stem of an ISO level 1 name (8)
          Len2,       \* ISO level 2 and 3 (31)
          Len37,      \* with max_37_char_filenames (37)
          LenJ,       \* Joliet (64)
          LenJLong,   \* Joliet with joliet_long_names (103)
          Len1999     \* ISO 9660:1999 (207)

Star  == 0
Dot   == 1
Digit(d) == 2 + d
Upper == 2 + Base
Under == 3 + Base
Lower == 4 + Base

\* a name that cannot be made, and an operation that failed
NoName == <<-1>>

Smaller(a, b) == IF a < b THEN a ELSE b

\* strcmp(), ucscmp() < 0
Before(a, b) ==
  \E n \in 0..Smaller(Len(a), Len(b)) :
     /\ SubSeq(a, 1, n) = SubSeq(b, 1, n)
     /\ Len(b) > n
     /\ Len(a) > n => a[n + 1] < b[n + 1]

\* index of the last dot, 0 if there is none
LastDot(s) == CHOOSE i \in 0..Len(s) :
                /\ i > 0 => s[i] = Dot
                /\ \A j \in (i + 1)..Len(s) : s[j] # Dot

-----------------------------------------------------------------------------
(* Conversion of single characters.                                        *)

valid_d_char(c) == c \in {Digit(d) : d \in 0..(Base - 1)} \cup {Upper, Under}

valid_j_char(c) == c # Star

toupper(c) == IF c = Lower THEN Upper ELSE c

\* relaxed: .low is 0, 1 (lower case allowed) or 2 (any character),
\* .ascii7 allows all of ASCII but lower case
map_fileid_char(c, relaxed) ==
  IF \/ relaxed.low = 2
     \/ valid_d_char(c)
     \/ relaxed.ascii7 /\ c # Lower
     \/ relaxed.low = 1 /\ valid_d_char(toupper(c))
  THEN c
  ELSE IF valid_d_char(toupper(c)) THEN toupper(c) ELSE Under

MapName(s, relaxed) == [i \in 1..Len(s) |-> map_fileid_char(s[i], relaxed)]

JolietName(s) == [i \in 1..Len(s) |-> IF valid_j_char(s[i]) THEN s[i] ELSE Under]

-----------------------------------------------------------------------------
(* Names of one node.                                                      *)

\* iso_r_dirid(), and with other sizes iso_1_dirid() and iso_2_dirid()
iso_r_dirid(s, size, relaxed) ==
  MapName(SubSeq(s, 1, Smaller(size, Len(s))), relaxed)

iso_dirid(s, size, relaxed) == iso_r_dirid(s, size, relaxed)

\* How many characters before and after the last dot remain in a file name of
\* len characters and a dot.  A name that ends by a dot has no extension.
Split(s, len) ==
  LET dot   == LastDot(s)
      lext  == Len(s) - dot
      lname == dot - 1
      long  == Len(s) > len + 1
      lnext == IF long /\ lext > Ext
               THEN IF lname < len - Ext THEN len - lname ELSE Ext
               ELSE lext
  IN  IF dot \in {0, Len(s)}
      THEN [stem |-> SubSeq(s, 1, Smaller(len, Len(s))), ext |-> <<>>]
      ELSE [stem |-> SubSeq(s, 1, IF long THEN len - lnext ELSE lname),
            ext  |-> SubSeq(s, dot + 1, dot + lnext)]

Joined(stem, ext, forcedot) ==
  stem \o (IF forcedot \/ ext # <<>> THEN <<Dot>> ELSE <<>>) \o ext

iso_r_fileid(s, len, relaxed, forcedot) ==
  LET p == Split(s, len) IN
  Joined(MapName(p.stem, relaxed), MapName(p.ext, relaxed), forcedot)

iso_2_fileid(s) == iso_r_fileid(s, Len2 - 1, [low |-> 0, ascii7 |-> FALSE], TRUE)

\* A leading dot counts as part of the stem if the name is long
iso_1_fileid(s, relaxed, forcedot) ==
  LET d    == LastDot(s)
      dot  == IF d = 1 /\ Len(s) > Ext + 1 THEN 0 ELSE d
      stem == IF dot = 0 THEN s ELSE SubSeq(s, 1, dot - 1)
      ext  == IF dot = 0 THEN <<>> ELSE SubSeq(s, dot + 1, Len(s))
      Map(c) == IF dot = 0 /\ c = Dot THEN Under ELSE map_fileid_char(c, relaxed)
  IN  IF stem = <<>> /\ ext = <<>>
      THEN NoName
      ELSE Joined([i \in 1..Smaller(Stem1, Len(stem)) |-> Map(stem[i])],
                  MapName(SubSeq(ext, 1, Smaller(Ext, Len(ext))), relaxed),
                  forcedot \/ ext # <<>>)

iso_j_file_id(s, maxchar, nodot) ==
  LET p == Split(s, maxchar) IN
  Joined(JolietName(p.stem), JolietName(p.ext), ~nodot)

iso_j_dir_id(s, maxchar) == JolietName(SubSeq(s, 1, Smaller(maxchar, Len(s))))

iso_get_ecma119_name(o, s, isdir) ==
  LET force == ~(o.nodots \/ isdir)
      plain == o.relaxed.low = 0 /\ ~o.relaxed.ascii7
  IN  CASE o.untranslated > 0 ->
             IF Len(s) > o.untranslated THEN NoName ELSE s
        [] o.untranslated = 0 /\ isdir /\ ~o.dirext ->
             IF o.max37 THEN iso_r_dirid(s, Len37, o.relaxed)
             ELSE iso_dirid(s, IF o.level = 1 THEN Stem1 ELSE Len2, o.relaxed)
        [] OTHER ->
             IF o.max37 THEN iso_r_fileid(s, Len37 - 1, o.relaxed, force)
             ELSE IF o.level = 1 THEN iso_1_fileid(s, o.relaxed, force)
             ELSE IF ~plain \/ ~force
                  THEN iso_r_fileid(s, Len2 - 1, o.relaxed, force)
                  ELSE iso_2_fileid(s)

JolietMax(o) == IF o.joliet_long_names THEN LenJLong ELSE LenJ

\* Charset conversion is not modelled: the characters at hand exist in both sets
iso_get_joliet_name(o, s, isdir) ==
  IF isdir THEN iso_j_dir_id(s, JolietMax(o))
  ELSE iso_j_file_id(s, JolietMax(o), o.nodots)

get_iso1999_name(s) == SubSeq(s, 1, Smaller(Len1999, Len(s)))

-----------------------------------------------------------------------------
(* Renaming of equal names.  A child is [id, dir, name].  What remains of  *)
(* the name if digits are appended is [ok, stem, dot, ext].                *)

\* Mutant for MangleEcma119: the digits are forgotten when the room is computed
NoRoomForDigits(o, c, digits) ==
  LET d == LastDot(c.name) IN
  [ok |-> TRUE, dot |-> d > 0,
   stem |-> IF d > 0 THEN SubSeq(c.name, 1, d - 1) ELSE c.name,
   ext |-> IF d > 0 THEN SubSeq(c.name, d + 1, Len(c.name)) ELSE <<>>]

MaxFile119(o) == IF o.untranslated > 0 THEN o.untranslated
                 ELSE IF o.max37 THEN Len37
                 ELSE IF o.level = 1 THEN Stem1 + 1 + Ext ELSE Len2

MaxDir119(o) == IF o.untranslated = 0 /\ ~o.max37 /\ o.level = 1
                THEN Stem1 ELSE MaxFile119(o)

\* A name without extension, cut to leave room for the digits
StemOnly(name, max) ==
  [ok |-> TRUE, dot |-> FALSE, ext |-> <<>>,
   stem |-> SubSeq(name, 1, Smaller(max, Len(name)))]

\* The extension is kept if at least one character of the stem fits; else it is
\* cut if more than three characters of it remain
StemAndExt(name, dot, len, extlen, digits) ==
  LET max  == len - extlen - 1 - digits
      cut  == IF max <= 0 THEN extlen + max - 1 ELSE extlen
      room == len - cut - 1 - digits
      ext  == SubSeq(name, dot + 1, Len(name))
  IN  [ok |-> max > 0 \/ extlen + max > Ext, dot |-> TRUE,
       ext |-> SubSeq(ext, 1, Smaller(cut, Len(ext))),
       stem |-> SubSeq(name, 1, Smaller(room, dot - 1))]

MangleEcma119(o, c, digits) ==
  LET dot == LastDot(c.name) IN
  IF dot > 0 /\ (~c.dir \/ o.dirext)
  THEN StemAndExt(c.name, dot, MaxFile119(o),
                  IF MaxFile119(o) = Stem1 + 1 + Ext /\ o.level = 1
                  THEN Ext ELSE Len(c.name) - dot, digits)
  ELSE StemOnly(c.name, (IF c.dir THEN MaxDir119(o) ELSE MaxFile119(o)) - digits)

MangleIso1999(o, c, digits) ==
  LET dot == LastDot(c.name) IN
  IF dot > 0 /\ ~c.dir
  THEN StemAndExt(c.name, dot, Len1999, Len(c.name) - dot, digits)
  ELSE StemOnly(c.name, Len1999 - digits)

\* The dot is not counted, and it vanishes together with an empty extension
MangleJoliet(o, c, digits) ==
  LET dot    == LastDot(c.name)
      extlen == Len(c.name) - dot
      room   == JolietMax(o) - extlen - digits
      max    == IF room <= 0 THEN (IF dot > 1 THEN 1 ELSE 0) ELSE room
      cut    == IF room <= 0 THEN JolietMax(o) - max - digits ELSE extlen
  IN  IF dot > 0 /\ ~c.dir
      THEN [ok |-> room > 0 \/ cut >= Ext, dot |-> extlen > 0,
            ext |-> SubSeq(c.name, dot + 1, dot + Smaller(cut, extlen)),
            stem |-> SubSeq(c.name, 1, Smaller(max, dot - 1))]
      ELSE StemOnly(c.name, JolietMax(o) - digits)

NameRoom(kind, o, c, digits) ==
  CASE kind = "ecma119" -> MangleEcma119(o, c, digits)
    [] kind = "joliet"  -> MangleJoliet(o, c, digits)
    [] kind = "iso1999" -> MangleIso1999(o, c, digits)

\* sprintf("%0*d")
Number(n, digits) == [i \in 1..digits |-> Digit((n \div Base^(digits - i)) % Base)]

joliet_create_mangled_name(p, n, digits) ==
  p.stem \o Number(n, digits) \o (IF p.ext # <<>> THEN <<Dot>> \o p.ext ELSE <<>>)

MangledName(kind, p, n, digits) ==
  IF kind = "joliet" THEN joliet_create_mangled_name(p, n, digits)
  ELSE p.stem \o Number(n, digits) \o (IF p.dot THEN <<Dot>> ELSE <<>>) \o p.ext

Names(ch) == {ch[i].name : i \in DOMAIN ch}

\* Numbers from change on that make a name which no child has.  The hash table
\* holds the current name of each child.
Unused(kind, ch, p, change, digits) ==
  {n \in change..(Base^digits - 1) :
     MangledName(kind, p, n, digits) \notin Names(ch)}

RECURSIVE RenameRun(_, _, _, _, _, _, _)

\* Children k..j get ascending unused numbers, as long as there are some
RenameRun(kind, ch, p, k, j, change, digits) ==
  LET free == Unused(kind, ch, p, change, digits)
      n    == CHOOSE x \in free : \A y \in free : x <= y
  IN  IF k > j THEN [ok |-> TRUE, ch |-> ch]
      ELSE IF free = {} THEN [ok |-> FALSE, ch |-> ch]
      ELSE RenameRun(kind, [ch EXCEPT ![k].name = MangledName(kind, p, n, digits)],
                     p, k + 1, j, n + 1, digits)

RECURSIVE ResolveRun(_, _, _, _, _, _)

\* With too few numbers the next try uses a digit more.  It starts from the name
\* which child i has got meanwhile.
ResolveRun(kind, o, ch, i, j, digits) ==
  IF digits = MaxDigits THEN <<>>
  ELSE LET p == NameRoom(kind, o, ch[i], digits)
           r == RenameRun(kind, ch, p, i, j, 0, digits)
       IN  IF ~p.ok THEN <<>>
           ELSE IF r.ok THEN r.ch
           ELSE ResolveRun(kind, o, r.ch, i, j, digits + 1)

RECURSIVE MangleFrom(_, _, _, _)

\* Runs of equal names from child i on.  The empty sequence is an error return.
MangleFrom(kind, o, ch, i) ==
  IF i > Len(ch) THEN ch
  ELSE LET j == CHOOSE x \in i..Len(ch) :
                  /\ \A y \in i..x : ch[y].name = ch[i].name
                  /\ x < Len(ch) => ch[x + 1].name # ch[i].name
           r == IF j = i THEN ch
                ELSE IF kind = "ecma119" /\ o.untranslated > 0 THEN <<>>
                ELSE ResolveRun(kind, o, ch, i, j, 1)
       IN  IF r = <<>> THEN <<>> ELSE MangleFrom(kind, o, r, j + 1)

SortByName(ch) == SortSeq(ch, LAMBDA a, b : Before(a.name, b.name))

mangle_single_dir(kind, o, ch) ==
  LET r == MangleFrom(kind, o, ch, 1) IN
  IF r = ch THEN ch ELSE SortByName(r)
=============================================================================
