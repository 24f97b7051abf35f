----------------------------- MODULE MCTreeBuild -----------------------------
(* A source directory with names that collide with each other's unique     *)
(* variants and with those of the application, a hidden file, a special     *)
(* file, a subdirectory and a link to a directory.                          *)
EXTENDS TreeBuild, TLC

Entry(name, type, to, kids) == [name |-> name, type |-> type, to |-> to, kids |-> kids]
MCFiles == 1 :> Entry(<<1>>, "dir", "dir", <<2, 3, 4>>)
        @@ 2 :> Entry(<<1>>, "file", "file", <<>>)
        @@ 3 :> Entry(<<1, 2>>, "link", "dir", <<5>>)
        @@ 4 :> Entry(<<1, 0, 3>>, "dir", "dir", <<6>>)
        @@ 5 :> Entry(<<0, 1>>, "file", "file", <<>>)
        @@ 6 :> Entry(<<1>>, "special", "special", <<>>)
Set(f, h, s, x, a) == [follow |-> f, ignore_hidden |-> h, ignore_special |-> s, excludes |-> x, abort |-> a]
MCSettings == {Set(TRUE, FALSE, FALSE, {}, "failure"), Set(TRUE, TRUE, TRUE, {}, "sorry"),
               Set(FALSE, FALSE, FALSE, {4}, "warning")}
MCNewNames == {<<1>>, <<1, 2, 1, 2, 1, 2, 1>>}
MCConds == {[op |-> "or", a |-> [op |-> "mode", arg |-> "dir"], b |-> [op |-> "name", arg |-> <<1>>]],
            [op |-> "not", a |-> [op |-> "and", a |-> [op |-> "mode", arg |-> "dir"], b |-> [op |-> "name", arg |-> <<1>>]]]}
=============================================================================
