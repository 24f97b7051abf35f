------------------------------ MODULE MCLayout ------------------------------
(* Write options for ImageLayout, and the runs of the boot catalog and of   *)
(* the interval reader: one of the three machines steps while the others    *)
(* are in their initial state.                                              *)
EXTENDS ImageLayout, ElTorito, IntervalReader

Base == [ms |-> 0, ov |-> FALSE, poff |-> 0, type |-> 0, prot |-> FALSE, hyb |-> FALSE, align |-> 0,
         chrp |-> FALSE, grub |-> FALSE, bootbit |-> FALSE, like |-> FALSE, asgpt |-> FALSE,
         asapm |-> FALSE, app |-> <<>>, tail |-> 0, fat |-> FALSE, hfs |-> 0, hbs |-> 2048, efi |-> 0,
         efiimg |-> 0, prep |-> 0, md5 |-> 0, jol |-> 0, img |-> <<>>, mtype |-> -1, hpc |-> 8,
         sph |-> 32, abs |-> 2048, sadata |-> <<>>, tree |-> 3, files |-> 7, bfile |-> 0, elf |-> 1]
App(n, k) == [size |-> n, ty |-> 11, keep |-> k]
Img(g, a, p) == [gpt |-> g, apm |-> a, app |-> p, size |-> 2, old |-> FALSE]
OldMbr == [i \in 1..4 |-> IF i = 2 THEN [NoEntry EXCEPT !.ty = 23, !.s = 64, !.n = 400] ELSE NoEntry]

Kept == (1 :> App(5, -1)) @@ (3 :> App(2, 40))           \* partition 3 lies in an older session

\* Plain and grub-like MBR with appended partitions, sessions and checksums.
MbrFamily == {[Base EXCEPT !.ms = m, !.ov = v, !.poff = p, !.prot = x, !.asgpt = g, !.app = a,
                           !.align = l, !.md5 = c, !.tail = 150 * (l % 2), !.jol = c,
                           !.bootbit = x, !.sadata = IF v THEN OldMbr ELSE <<>>] :
                m \in {0, 96}, v \in BOOLEAN, p \in {0, 16}, x \in BOOLEAN, g \in BOOLEAN,
                a \in {<<>>, 2 :> App(5, -1), (1 :> App(5, -1)) @@ (3 :> App(2, -1)),
                       Kept},
                l \in {0, 1, 3}, c \in {0, 1, 2}}
\* Isohybrid, with boot images listed in GPT and APM or lying in appended partitions.
HybridFamily == {[Base EXCEPT !.hyb = h, !.like = ~h, !.ov = v, !.sadata = s, !.img = i, !.app = a,
                              !.asgpt = g, !.asapm = g, !.grub = b, !.bootbit = b, !.align = 1,
                              !.poff = p, !.hfs = f, !.chrp = b] :
                h \in BOOLEAN, v \in BOOLEAN, s \in {<<>>, OldMbr}, g \in BOOLEAN, b \in BOOLEAN,
                i \in {<<>>, <<[Img(FALSE, FALSE, 0) EXCEPT !.old = TRUE]>>,
                       <<Img(FALSE, FALSE, 0), Img(TRUE, FALSE, 0), Img(TRUE, TRUE, 0)>>,
                       <<Img(FALSE, FALSE, 0), Img(TRUE, FALSE, 2)>>},
                a \in {<<>>, 2 :> App(5, -1)}, p \in {0, 16}, f \in {0, 5}}
\* EFI, PReP, FAT, CHRP and HFS+, which request entries of all three tables.
MixedFamily == {[Base EXCEPT !.ms = m, !.ov = v, !.efi = e, !.efiimg = IF e > 0 THEN 1 ELSE 0,
                             !.img = <<Img(FALSE, FALSE, 0)>>, !.prep = r, !.fat = f, !.hfs = h,
                             !.abs = b, !.hbs = k, !.app = a, !.asgpt = g, !.asapm = g, !.mtype = y] :
                m \in {0, 96}, v \in BOOLEAN, e \in {0, 4}, r \in {0, 3}, f \in BOOLEAN, h \in {0, 5},
                b \in {0, 2048}, k \in {512, 2048}, a \in {<<>>, 4 :> App(5, -1)}, g \in BOOLEAN,
                y \in {-1, 131}}
\* System Areas of other architectures.
OtherFamily == {[Base EXCEPT !.type = y, !.bfile = b, !.app = a, !.ms = m, !.ov = v, !.img = <<>>,
                             !.prep = r] :
                y \in 1..6, b \in 0..2, a \in {<<>>, (2 :> App(5, -1)) @@ (4 :> App(0, -1)) @@ (5 :> App(3, -1))},
                m \in {0, 96}, v \in BOOLEAN, r \in {0, 3}}
MCOptions == {x \in MbrFamily : x.ms > 0 \/ x.app # Kept} \union HybridFamily \union MixedFamily \union OtherFamily

MCFiles == "a" :> [ok |-> TRUE, size |-> 3, mbr |-> 0, rank |-> 1]
MCZeroKinds == {{}, {0}, {1, 2}, {3}}

mcvars == <<lvars, evars, ivars>>
MCInit == LayoutInit /\ EltInit /\ IvrInit
LayoutIdle == lpc = "new"
MCNext == \/ EltInit /\ IvrInit /\ LayoutNext /\ UNCHANGED <<evars, ivars>>
          \/ LayoutIdle /\ IvrInit /\ EltNext /\ UNCHANGED <<lvars, ivars>>
          \/ LayoutIdle /\ EltInit /\ IvrNext /\ UNCHANGED <<lvars, evars>>
=============================================================================
