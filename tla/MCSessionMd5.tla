---------------------------- MODULE MCSessionMd5 ----------------------------
(* Two old files which are hard links, a single old file and a new file.   *)
EXTENDS SessionMd5

Opt(a, m, w) == [appendable |-> a, md5 |-> m, willCancel |-> w]

MCOld == {1, 2, 3}
MCChecked == {3, 4}
MCContent == <<1, 1, 2, 3>>
ASSUME LinksUncheckedAssumption == LinksUnchecked
MCOptions == {Opt(TRUE, "files", FALSE), Opt(FALSE, "files", FALSE),
              Opt(TRUE, "files", TRUE), Opt(TRUE, "session", FALSE),
              Opt(FALSE, "session", FALSE), Opt(TRUE, "off", FALSE)}
=============================================================================
