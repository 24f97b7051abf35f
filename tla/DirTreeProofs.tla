----------------------------- MODULE DirTreeProofs -----------------------------
(***************************************************************************)
(* Proofs about DirTree.                                                   *)
(***************************************************************************)
EXTENDS DirTree, FiniteSetTheorems, SequenceTheorems, WellFoundedInduction, TLAPS

-----------------------------------------------------------------------------
(* Arithmetic of blocks.                                                    *)

LEMMA BlockIs == BlockSize \in Nat /\ BlockSize >= 512
BY BlockSizeAssumption

LEMMA ByUnits ==
  ASSUME NEW n \in Nat, NEW d \in Nat \ {0}
  PROVE  \E q \in Nat : \E r \in 0 .. d - 1 :
           /\ n \div d = q /\ n % d = r /\ n = q * d + r
<1>1. PICK q \in Nat : q = n \div d
  OBVIOUS
<1>2. PICK r \in 0 .. d - 1 : r = n % d
  OBVIOUS
<1>3. n = d * q + r
  BY <1>1, <1>2
<1>4. d * q = q * d
  OBVIOUS
<1> QED  BY <1>1, <1>2, <1>3, <1>4

LEMMA UnitsIs ==
  ASSUME NEW d \in Nat \ {0}, NEW q \in Nat, NEW r \in 0 .. d - 1
  PROVE  (q * d + r) \div d = q /\ (q * d + r) % d = r
<1>1. PICK n \in Nat : n = q * d + r
  OBVIOUS
<1>2. PICK a \in Nat, b \in 0 .. d - 1 : n \div d = a /\ n % d = b /\ n = a * d + b
  BY ByUnits
<1>3. a * d + b = q * d + r
  BY <1>1, <1>2
<1>4. ~(a < q)
  <2>1. ASSUME a < q PROVE FALSE
    <3>1. PICK e \in Nat : q = a + 1 + e
      BY <2>1
    <3>2. q * d = a * d + d + e * d
      BY <3>1
    <3>3. a * d \in Nat /\ e * d \in Nat /\ q * d \in Nat
      BY <3>1
    <3> QED  BY <1>3, <3>2, <3>3
  <2> QED  BY <2>1
<1>5. ~(q < a)
  <2>1. ASSUME q < a PROVE FALSE
    <3>1. PICK e \in Nat : a = q + 1 + e
      BY <2>1
    <3>2. a * d = q * d + d + e * d
      BY <3>1
    <3>3. a * d \in Nat /\ e * d \in Nat /\ q * d \in Nat
      BY <3>1
    <3> QED  BY <1>3, <3>2, <3>3
  <2> QED  BY <2>1
<1>6. a = q
  BY <1>4, <1>5
<1>7. q * d \in Nat
  OBVIOUS
<1>8. b = r
  BY <1>3, <1>6, <1>7
<1> QED  BY <1>1, <1>2, <1>6, <1>8

LEMMA ByBlocks ==
  ASSUME NEW n \in Nat
  PROVE  \E q \in Nat : \E r \in 0 .. BlockSize - 1 :
           /\ n \div BlockSize = q /\ n % BlockSize = r /\ n = q * BlockSize + r
BY BlockIs, ByUnits

LEMMA BlocksIs ==
  ASSUME NEW q \in Nat, NEW r \in 0 .. BlockSize - 1
  PROVE  (q * BlockSize + r) \div BlockSize = q /\ (q * BlockSize + r) % BlockSize = r
BY BlockIs, UnitsIs

LEMMA DivUpIs ==
  ASSUME NEW q \in Nat, NEW r \in 1 .. BlockSize
  PROVE  DivUp(q * BlockSize + r, BlockSize) = q + 1
BY BlockIs DEF DivUp

LEMMA DivUpWhole ==
  ASSUME NEW q \in Nat
  PROVE  DivUp(q * BlockSize, BlockSize) = q
BY BlockIs DEF DivUp

LEMMA RoundUpIs ==
  ASSUME NEW n \in Nat
  PROVE  /\ DivUp(n, BlockSize) \in Nat /\ RoundUpBlock(n) \in Nat
         /\ RoundUpBlock(n) = DivUp(n, BlockSize) * BlockSize
         /\ n =< RoundUpBlock(n) /\ RoundUpBlock(n) < n + BlockSize
         /\ DivUp(RoundUpBlock(n), BlockSize) = DivUp(n, BlockSize)
BY BlockIs DEF DivUp, RoundUpBlock

-----------------------------------------------------------------------------
(* Folds, one step after the other.                                         *)

LEMMA LeastNatural ==
  ASSUME NEW T, T \subseteq Nat, T # {}
  PROVE  \E x \in T : \A y \in T : x =< y
<1>1. PICK R : R = OpToRel(<, Nat)
  OBVIOUS
<1>2. IsWellFoundedOn(R, Nat)
  BY <1>1, NatLessThanWellFounded
<1>3. PICK x \in T : \A y \in T : ~(<<y, x>> \in R)
  BY <1>2, WFMin
<1>4. \A y \in T : ~(y < x)
  BY <1>1, <1>3 DEF OpToRel
<1> QED  BY <1>4

\* What holds for 0 and gets handed on holds up to n.
LEMMA UpTo ==
  ASSUME NEW n \in Nat, NEW P, 0 \in P, \A k \in 0 .. n - 1 : k \in P => k + 1 \in P
  PROVE  \A k \in 0 .. n : k \in P
<1> DEFINE T == {k \in 0 .. n : k \notin P}
<1>1. SUFFICES ASSUME T # {} PROVE FALSE
  OBVIOUS
<1>2. PICK m \in T : \A y \in T : m =< y
  <2>1. T \subseteq Nat
    OBVIOUS
  <2> HIDE DEF T
  <2> QED  BY <1>1, <2>1, LeastNatural
<1>3. m \in 0 .. n /\ m # 0
  BY <1>2
<1>4. m - 1 \in 0 .. n - 1 /\ m - 1 \in 0 .. n /\ ~(m =< m - 1)
  BY <1>3
<1>5. m - 1 \in P
  BY <1>2, <1>4
<1> QED  BY <1>2, <1>4, <1>5

LEMMA MaxOf ==
  ASSUME NEW n \in Nat, NEW s \in SUBSET (1 .. n), s # {}
  PROVE  Max(s) \in s /\ \A k \in s : k =< Max(s)
<1> DEFINE T == {n - k : k \in s}
<1>1. PICK m \in T : \A y \in T : m =< y
  <2>1. \A k \in s : n - k \in Nat
    OBVIOUS
  <2>2. T \subseteq Nat /\ T # {}
    BY <2>1
  <2> HIDE DEF T
  <2> QED  BY <2>2, LeastNatural
<1>2. PICK k \in s : m = n - k
  BY <1>1
<1>3. \A j \in s : k >= j
  <2> TAKE j \in s
  <2>1. n - k =< n - j
    BY <1>1, <1>2
  <2> QED  BY <2>1
<1> QED  BY <1>3 DEF Max

LEMMA MaxIs ==
  ASSUME NEW n \in Nat, NEW s \in SUBSET (1 .. n), NEW k \in s, \A j \in s : j =< k
  PROVE  Max(s) = k
<1>1. PICK m \in s : m = Max(s) /\ k =< m
  BY MaxOf
<1>2. m =< k /\ m \in Nat /\ k \in Nat
  OBVIOUS
<1> QED  BY <1>1, <1>2

\* The step operators of the folds, by name.
FoldStep(c, a, v) ==
  CASE c.op = "size"  -> AddRecord(a, v, RecordLen(v, a.ce))
    [] c.op = "list"  -> a \o SubDirs(a[v])
    [] c.op = "table" -> Append(a, PathRecord(c.list, a, v))
    [] c.op = "sum"   -> a + v
    [] c.op = "sua"   -> AppendSua(a, v)
    [] c.op = "ce"    -> AppendCe(c.block, a, v)
    [] c.op = "comps" -> ComposeComp(c.link, c.free, a, v)
    [] c.op = "sl"    -> AddComp(c.block, c.toCe, a, v)
    [] c.op = "sizes" -> CountCe(c.i, a, v)
    [] c.op = "ca"    -> WriteCe(a, v)
    [] c.op = "dirs"  -> a \o If(v \in Dirs, <<v>>)
    [] c.op = "recs"  -> a \o SectionRecords(v)

\* h has the fold over each subset of the indices of q.
IsFold(c, x, q, n, h) ==
  h = [s \in SUBSET (1 .. n) |->
         IF s = {} THEN x ELSE FoldStep(c, h[s \ {Max(s)}], q[Max(s)])]

LEMMA FoldGrows ==
  ASSUME NEW c, NEW x, NEW q, NEW n \in Nat, NEW h, IsFold(c, x, q, n, h)
  PROVE  \E g : IsFold(c, x, q, n + 1, g)
<1> DEFINE g == [s \in SUBSET (1 .. n + 1) |->
                   IF n + 1 \in s THEN FoldStep(c, h[s \ {n + 1}], q[n + 1]) ELSE h[s]]
<1>1. ASSUME NEW s \in SUBSET (1 .. n + 1)
      PROVE  g[s] = IF s = {} THEN x ELSE FoldStep(c, g[s \ {Max(s)}], q[Max(s)])
  <2>1. CASE n + 1 \in s
    <3>1. Max(s) = n + 1
      BY <2>1, MaxIs
    <3>2. s \ {n + 1} \in SUBSET (1 .. n + 1) /\ n + 1 \notin s \ {n + 1}
      OBVIOUS
    <3>3. g[s \ {n + 1}] = h[s \ {n + 1}]
      BY <3>2
    <3> QED  BY <2>1, <3>1, <3>3
  <2>2. CASE n + 1 \notin s
    <3>1. s \in SUBSET (1 .. n) /\ g[s] = h[s]
      BY <2>2
    <3>2. h[s] = IF s = {} THEN x ELSE FoldStep(c, h[s \ {Max(s)}], q[Max(s)])
      BY <3>1 DEF IsFold
    <3>3. n + 1 \notin s \ {Max(s)} /\ s \ {Max(s)} \in SUBSET (1 .. n + 1)
      BY <2>2
    <3>4. g[s \ {Max(s)}] = h[s \ {Max(s)}]
      BY <3>3
    <3> QED  BY <3>1, <3>2, <3>4
  <2> QED  BY <2>1, <2>2
<1>2. g = [s \in SUBSET (1 .. n + 1) |-> g[s]]
  OBVIOUS
<1> HIDE DEF g
<1>3. IsFold(c, x, q, n + 1, g)
  BY <1>1, <1>2 DEF IsFold
<1> QED  BY <1>3

LEMMA FoldExists ==
  ASSUME NEW c, NEW x, NEW q, NEW n \in Nat
  PROVE  \E h : IsFold(c, x, q, n, h)
<1> DEFINE P == {k \in 0 .. n : \E h : IsFold(c, x, q, k, h)}
<1>1. 0 \in P
  <2> DEFINE h == [s \in SUBSET (1 .. 0) |-> x]
  <2>1. \A s \in SUBSET (1 .. 0) : s = {}
    OBVIOUS
  <2>2. IsFold(c, x, q, 0, h)
    BY <2>1 DEF IsFold
  <2> QED  BY <2>2
<1>2. \A k \in 0 .. n - 1 : k \in P => k + 1 \in P
  BY FoldGrows
<1> HIDE DEF P
<1>3. n \in P
  BY <1>1, <1>2, UpTo
<1> QED  BY <1>3 DEF P

\* The values between the steps.
IsChain(c, x, q, n, y) ==
  y[0] = x /\ \A k \in 1 .. n : y[k] = FoldStep(c, y[k - 1], q[k])

LEMMA FoldIsChain ==
  ASSUME NEW c, NEW x, NEW q, NEW n \in Nat, NEW h, IsFold(c, x, q, n, h)
  PROVE  \E y : IsChain(c, x, q, n, y) /\ h[1 .. n] = y[n]
<1> DEFINE y == [k \in 0 .. n |-> h[1 .. k]]
<1>1. y[0] = x
  <2>1. 1 .. 0 = {} /\ 1 .. 0 \in SUBSET (1 .. n)
    OBVIOUS
  <2>2. h[1 .. 0] = x
    BY <2>1 DEF IsFold
  <2> QED  BY <2>2
<1>2. ASSUME NEW k \in 1 .. n PROVE y[k] = FoldStep(c, y[k - 1], q[k])
  <2>1. PICK s \in SUBSET (1 .. n) : s = 1 .. k
    OBVIOUS
  <2>2. k \in s /\ \A z \in s : z =< k
    BY <2>1
  <2>3. Max(s) = k /\ s # {}
    BY <2>2, MaxIs
  <2>4. s \ {k} = 1 .. k - 1
    BY <2>1
  <2>5. h[s] = FoldStep(c, h[s \ {k}], q[k])
    BY <2>3 DEF IsFold
  <2>6. y[k] = h[1 .. k] /\ y[k - 1] = h[1 .. k - 1]
    OBVIOUS
  <2> QED  BY <2>1, <2>4, <2>5, <2>6
<1>3. y[n] = h[1 .. n]
  OBVIOUS
<1> HIDE DEF y
<1> QED  BY <1>1, <1>2, <1>3 DEF IsChain

FoldOf(c, x, q, n) == CHOOSE h : IsFold(c, x, q, n, h)

LEMMA FoldChosen ==
  ASSUME NEW c, NEW x, NEW q, NEW n \in Nat
  PROVE  \E y : IsChain(c, x, q, n, y) /\ FoldOf(c, x, q, n)[1 .. n] = y[n]
<1>1. IsFold(c, x, q, n, FoldOf(c, x, q, n))
  BY FoldExists DEF FoldOf
<1> QED  BY <1>1, FoldIsChain

\* Total() adds one after the other.
LEMMA TotalChain ==
  ASSUME NEW n \in Nat, NEW q, DOMAIN q = 1 .. n
  PROVE  \E y : IsChain([op |-> "sum"], 0, q, n, y) /\ Total(q) = y[n]
<1> DEFINE c == [op |-> "sum"]
           Gen(h) == h = [s \in SUBSET (1 .. n) |->
                            IF s = {} THEN 0 ELSE h[s \ {Max(s)}] + q[Max(s)]]
<1>1. \A a, v : FoldStep(c, a, v) = a + v
  BY DEF FoldStep
<1>2. \A h : IsFold(c, 0, q, n, h) <=> Gen(h)
  BY <1>1 DEF IsFold
<1>3. Total(q) = (CHOOSE h : Gen(h))[1 .. n]
  BY DEF Total, FoldLeft, MapThenFoldSet
<1> HIDE DEF Gen, c
<1>4. FoldOf(c, 0, q, n) = CHOOSE h : Gen(h)
  BY <1>2 DEF FoldOf
<1>5. \E y : IsChain(c, 0, q, n, y) /\ FoldOf(c, 0, q, n)[1 .. n] = y[n]
  BY FoldChosen
<1> QED  BY <1>3, <1>4, <1>5 DEF c

\* AppendAllSua() appends one field after the other.
LEMMA SuaChain ==
  ASSUME NEW n \in Nat, NEW q, DOMAIN q = 1 .. n, NEW i
  PROVE  \E y : IsChain([op |-> "sua"], i, q, n, y) /\ AppendAllSua(i, q) = y[n]
<1> DEFINE c == [op |-> "sua"]
           Gen(h) == h = [s \in SUBSET (1 .. n) |->
                            IF s = {} THEN i ELSE AppendSua(h[s \ {Max(s)}], q[Max(s)])]
<1>1. \A a, v : FoldStep(c, a, v) = AppendSua(a, v)
  BY DEF FoldStep
<1>2. \A h : IsFold(c, i, q, n, h) <=> Gen(h)
  BY <1>1 DEF IsFold
<1>3. AppendAllSua(i, q) = (CHOOSE h : Gen(h))[1 .. n]
  BY DEF AppendAllSua, FoldLeft, MapThenFoldSet
<1> HIDE DEF Gen, c
<1>4. FoldOf(c, i, q, n) = CHOOSE h : Gen(h)
  BY <1>2 DEF FoldOf
<1>5. \E y : IsChain(c, i, q, n, y) /\ FoldOf(c, i, q, n)[1 .. n] = y[n]
  BY FoldChosen
<1> QED  BY <1>3, <1>4, <1>5 DEF c

\* AppendAllCe() appends one field after the other.
LEMMA CeChain ==
  ASSUME NEW n \in Nat, NEW q, DOMAIN q = 1 .. n, NEW i, NEW blk
  PROVE  \E y : IsChain([op |-> "ce", block |-> blk], i, q, n, y) /\ AppendAllCe(blk, i, q) = y[n]
<1> DEFINE c == [op |-> "ce", block |-> blk]
           Gen(h) == h = [s \in SUBSET (1 .. n) |->
                            IF s = {} THEN i ELSE AppendCe(blk, h[s \ {Max(s)}], q[Max(s)])]
<1>1. \A a, v : FoldStep(c, a, v) = AppendCe(blk, a, v)
  BY DEF FoldStep
<1>2. \A h : IsFold(c, i, q, n, h) <=> Gen(h)
  BY <1>1 DEF IsFold
<1>3. AppendAllCe(blk, i, q) = (CHOOSE h : Gen(h))[1 .. n]
  BY DEF AppendAllCe, FoldLeft, MapThenFoldSet
<1> HIDE DEF Gen, c
<1>4. FoldOf(c, i, q, n) = CHOOSE h : Gen(h)
  BY <1>2 DEF FoldOf
<1>5. \E y : IsChain(c, i, q, n, y) /\ FoldOf(c, i, q, n)[1 .. n] = y[n]
  BY FoldChosen
<1> QED  BY <1>3, <1>4, <1>5 DEF c

\* The Continuation Area gets written field by field.
LEMMA CaChain ==
  ASSUME NEW n \in Nat, NEW q, DOMAIN q = 1 .. n
  PROVE  \E y : IsChain([op |-> "ca"], 0, q, n, y) /\ FoldLeft(WriteCe, 0, q) = y[n]
<1> DEFINE c == [op |-> "ca"]
           Gen(h) == h = [s \in SUBSET (1 .. n) |->
                            IF s = {} THEN 0 ELSE WriteCe(h[s \ {Max(s)}], q[Max(s)])]
<1>1. \A a, v : FoldStep(c, a, v) = WriteCe(a, v)
  BY DEF FoldStep
<1>2. \A h : IsFold(c, 0, q, n, h) <=> Gen(h)
  BY <1>1 DEF IsFold
<1>3. FoldLeft(WriteCe, 0, q) = (CHOOSE h : Gen(h))[1 .. n]
  BY DEF FoldLeft, MapThenFoldSet
<1> HIDE DEF Gen, c
<1>4. FoldOf(c, 0, q, n) = CHOOSE h : Gen(h)
  BY <1>2 DEF FoldOf
<1>5. \E y : IsChain(c, 0, q, n, y) /\ FoldOf(c, 0, q, n)[1 .. n] = y[n]
  BY FoldChosen
<1> QED  BY <1>3, <1>4, <1>5 DEF c

NoSize == [len |-> 0, ce |-> 0, recs |-> <<>>]

SizeFold(q) == FoldLeft(LAMBDA size, r : AddRecord(size, r, RecordLen(r, size.ce)), NoSize, q)
ListFold(q) == FoldLeft(LAMBDA l, k : l \o SubDirs(l[k]), <<Root>>, q)
TableFold(list, q) ==
  FoldLeft(LAMBDA acc, k : Append(acc, PathRecord(list, acc, k)), <<>>, q)
CompsFold(link, free, x, q) == FoldLeft(LAMBDA acc, k : ComposeComp(link, free, acc, k), x, q)
SlFold(blk, toCe, x, q) == FoldLeft(LAMBDA acc, cmp : AddComp(blk, toCe, acc, cmp), x, q)
CountFold(i, x, q) == FoldLeft(LAMBDA acc, k : CountCe(i, acc, k), x, q)

\* calc_dir_size() adds one record after the other.
LEMMA SizeChain ==
  ASSUME NEW n \in Nat, NEW q, DOMAIN q = 1 .. n
  PROVE  \E y : IsChain([op |-> "size"], NoSize, q, n, y) /\ SizeFold(q) = y[n]
<1> DEFINE c == [op |-> "size"]
           Gen(h) == h = [s \in SUBSET (1 .. n) |->
                            IF s = {} THEN NoSize ELSE AddRecord(h[s \ {Max(s)}], q[Max(s)], RecordLen(q[Max(s)], h[s \ {Max(s)}].ce))]
<1>1. \A a, v : FoldStep(c, a, v) = AddRecord(a, v, RecordLen(v, a.ce))
  BY DEF FoldStep
<1>2. \A h : IsFold(c, NoSize, q, n, h) <=> Gen(h)
  BY <1>1 DEF IsFold
<1>3. SizeFold(q) = (CHOOSE h : Gen(h))[1 .. n]
  BY DEF SizeFold, FoldLeft, MapThenFoldSet
<1> HIDE DEF Gen, c
<1>4. FoldOf(c, NoSize, q, n) = CHOOSE h : Gen(h)
  BY <1>2 DEF FoldOf
<1>5. \E y : IsChain(c, NoSize, q, n, y) /\ FoldOf(c, NoSize, q, n)[1 .. n] = y[n]
  BY FoldChosen
<1> QED  BY <1>3, <1>4, <1>5 DEF c

\* write_path_tables() adds the subdirectories of one directory after the other.
LEMMA ListChain ==
  ASSUME NEW n \in Nat, NEW q, DOMAIN q = 1 .. n
  PROVE  \E y : IsChain([op |-> "list"], <<Root>>, q, n, y) /\ ListFold(q) = y[n]
<1> DEFINE c == [op |-> "list"]
           Gen(h) == h = [s \in SUBSET (1 .. n) |->
                            IF s = {} THEN <<Root>> ELSE h[s \ {Max(s)}] \o SubDirs(h[s \ {Max(s)}][q[Max(s)]])]
<1>1. \A a, v : FoldStep(c, a, v) = a \o SubDirs(a[v])
  BY DEF FoldStep
<1>2. \A h : IsFold(c, <<Root>>, q, n, h) <=> Gen(h)
  BY <1>1, ZenonT(30) DEF IsFold
<1>3. ListFold(q) = (CHOOSE h : Gen(h))[1 .. n]
  BY DEF ListFold, FoldLeft, MapThenFoldSet
<1> HIDE DEF Gen, c
<1>4. FoldOf(c, <<Root>>, q, n) = CHOOSE h : Gen(h)
  BY <1>2 DEF FoldOf
<1>5. \E y : IsChain(c, <<Root>>, q, n, y) /\ FoldOf(c, <<Root>>, q, n)[1 .. n] = y[n]
  BY FoldChosen
<1> QED  BY <1>3, <1>4, <1>5 DEF c

\* write_path_table() writes one record after the other.
LEMMA TableChain ==
  ASSUME NEW n \in Nat, NEW q, DOMAIN q = 1 .. n, NEW list
  PROVE  \E y : IsChain([op |-> "table", list |-> list], <<>>, q, n, y) /\ TableFold(list, q) = y[n]
<1> DEFINE c == [op |-> "table", list |-> list]
           Gen(h) == h = [s \in SUBSET (1 .. n) |->
                            IF s = {} THEN <<>> ELSE Append(h[s \ {Max(s)}], PathRecord(list, h[s \ {Max(s)}], q[Max(s)]))]
<1>1. \A a, v : FoldStep(c, a, v) = Append(a, PathRecord(list, a, v))
  BY DEF FoldStep
<1>2. \A h : IsFold(c, <<>>, q, n, h) <=> Gen(h)
  BY <1>1 DEF IsFold
<1>3. TableFold(list, q) = (CHOOSE h : Gen(h))[1 .. n]
  BY DEF TableFold, FoldLeft, MapThenFoldSet
<1> HIDE DEF Gen, c
<1>4. FoldOf(c, <<>>, q, n) = CHOOSE h : Gen(h)
  BY <1>2 DEF FoldOf
<1>5. \E y : IsChain(c, <<>>, q, n, y) /\ FoldOf(c, <<>>, q, n)[1 .. n] = y[n]
  BY FoldChosen
<1> QED  BY <1>3, <1>4, <1>5 DEF c

\* The components of a link target get composed one after the other.
LEMMA CompsChain ==
  ASSUME NEW n \in Nat, NEW q, DOMAIN q = 1 .. n, NEW link, NEW free, NEW x
  PROVE  \E y : IsChain([op |-> "comps", link |-> link, free |-> free], x, q, n, y) /\ CompsFold(link, free, x, q) = y[n]
<1> DEFINE c == [op |-> "comps", link |-> link, free |-> free]
           Gen(h) == h = [s \in SUBSET (1 .. n) |->
                            IF s = {} THEN x ELSE ComposeComp(link, free, h[s \ {Max(s)}], q[Max(s)])]
<1>1. \A a, v : FoldStep(c, a, v) = ComposeComp(link, free, a, v)
  BY DEF FoldStep
<1>2. \A h : IsFold(c, x, q, n, h) <=> Gen(h)
  BY <1>1 DEF IsFold
<1>3. CompsFold(link, free, x, q) = (CHOOSE h : Gen(h))[1 .. n]
  BY DEF CompsFold, FoldLeft, MapThenFoldSet
<1> HIDE DEF Gen, c
<1>4. FoldOf(c, x, q, n) = CHOOSE h : Gen(h)
  BY <1>2 DEF FoldOf
<1>5. \E y : IsChain(c, x, q, n, y) /\ FoldOf(c, x, q, n)[1 .. n] = y[n]
  BY FoldChosen
<1> QED  BY <1>3, <1>4, <1>5 DEF c

\* rrip_add_SL() adds one component after the other.
LEMMA SlChain ==
  ASSUME NEW n \in Nat, NEW q, DOMAIN q = 1 .. n, NEW blk, NEW toCe, NEW x
  PROVE  \E y : IsChain([op |-> "sl", block |-> blk, toCe |-> toCe], x, q, n, y) /\ SlFold(blk, toCe, x, q) = y[n]
<1> DEFINE c == [op |-> "sl", block |-> blk, toCe |-> toCe]
           Gen(h) == h = [s \in SUBSET (1 .. n) |->
                            IF s = {} THEN x ELSE AddComp(blk, toCe, h[s \ {Max(s)}], q[Max(s)])]
<1>1. \A a, v : FoldStep(c, a, v) = AddComp(blk, toCe, a, v)
  BY DEF FoldStep
<1>2. \A h : IsFold(c, x, q, n, h) <=> Gen(h)
  BY <1>1 DEF IsFold
<1>3. SlFold(blk, toCe, x, q) = (CHOOSE h : Gen(h))[1 .. n]
  BY DEF SlFold, FoldLeft, MapThenFoldSet
<1> HIDE DEF Gen, c
<1>4. FoldOf(c, x, q, n) = CHOOSE h : Gen(h)
  BY <1>2 DEF FoldOf
<1>5. \E y : IsChain(c, x, q, n, y) /\ FoldOf(c, x, q, n)[1 .. n] = y[n]
  BY FoldChosen
<1> QED  BY <1>3, <1>4, <1>5 DEF c

\* susp_update_CE_sizes() counts one field after the other.
LEMMA CeSizesChain ==
  ASSUME NEW n \in Nat, NEW q, DOMAIN q = 1 .. n, NEW i, NEW x
  PROVE  \E y : IsChain([op |-> "sizes", i |-> i], x, q, n, y) /\ CountFold(i, x, q) = y[n]
<1> DEFINE c == [op |-> "sizes", i |-> i]
           Gen(h) == h = [s \in SUBSET (1 .. n) |->
                            IF s = {} THEN x ELSE CountCe(i, h[s \ {Max(s)}], q[Max(s)])]
<1>1. \A a, v : FoldStep(c, a, v) = CountCe(i, a, v)
  BY DEF FoldStep
<1>2. \A h : IsFold(c, x, q, n, h) <=> Gen(h)
  BY <1>1 DEF IsFold
<1>3. CountFold(i, x, q) = (CHOOSE h : Gen(h))[1 .. n]
  BY DEF CountFold, FoldLeft, MapThenFoldSet
<1> HIDE DEF Gen, c
<1>4. FoldOf(c, x, q, n) = CHOOSE h : Gen(h)
  BY <1>2 DEF FoldOf
<1>5. \E y : IsChain(c, x, q, n, y) /\ FoldOf(c, x, q, n)[1 .. n] = y[n]
  BY FoldChosen
<1> QED  BY <1>3, <1>4, <1>5 DEF c

Dots(d) == <<[id |-> d, type |-> 1], [id |-> d, type |-> 2]>>

\* The subdirectories get listed one after the other.
LEMMA SubDirsChain ==
  ASSUME NEW n \in Nat, NEW d, DOMAIN kids[d] = 1 .. n
  PROVE  \E y : IsChain([op |-> "dirs"], <<>>, kids[d], n, y) /\ SubDirs(d) = y[n]
<1> DEFINE c == [op |-> "dirs"]
           Gen(h) == h = [s \in SUBSET (1 .. n) |->
                            IF s = {} THEN <<>> ELSE h[s \ {Max(s)}] \o If(kids[d][Max(s)] \in Dirs, <<kids[d][Max(s)]>>)]
<1>1. \A a, v : FoldStep(c, a, v) = a \o If(v \in Dirs, <<v>>)
  BY DEF FoldStep
<1>2. \A h : IsFold(c, <<>>, kids[d], n, h) <=> Gen(h)
  BY <1>1 DEF IsFold
<1>3. SubDirs(d) = (CHOOSE h : Gen(h))[1 .. n]
  BY DEF SubDirs, FoldLeft, MapThenFoldSet
<1> HIDE DEF Gen, c
<1>4. FoldOf(c, <<>>, kids[d], n) = CHOOSE h : Gen(h)
  BY <1>2 DEF FoldOf
<1>5. \E y : IsChain(c, <<>>, kids[d], n, y) /\ FoldOf(c, <<>>, kids[d], n)[1 .. n] = y[n]
  BY FoldChosen
<1> QED  BY <1>3, <1>4, <1>5 DEF c

\* So do the records of the children.
LEMMA RecordsChain ==
  ASSUME NEW n \in Nat, NEW d, DOMAIN kids[d] = 1 .. n
  PROVE  \E y : IsChain([op |-> "recs"], Dots(d), kids[d], n, y) /\ Records(d) = y[n]
<1> DEFINE c == [op |-> "recs"]
           Gen(h) == h = [s \in SUBSET (1 .. n) |->
                            IF s = {} THEN Dots(d) ELSE h[s \ {Max(s)}] \o SectionRecords(kids[d][Max(s)])]
<1>1. \A a, v : FoldStep(c, a, v) = a \o SectionRecords(v)
  BY DEF FoldStep
<1>2. \A h : IsFold(c, Dots(d), kids[d], n, h) <=> Gen(h)
  BY <1>1 DEF IsFold
<1>3. Records(d) = (CHOOSE h : Gen(h))[1 .. n]
  BY DEF Records, Dots, FoldLeft, MapThenFoldSet
<1> HIDE DEF Gen, c
<1>4. FoldOf(c, Dots(d), kids[d], n) = CHOOSE h : Gen(h)
  BY <1>2 DEF FoldOf
<1>5. \E y : IsChain(c, Dots(d), kids[d], n, y) /\ FoldOf(c, Dots(d), kids[d], n)[1 .. n] = y[n]
  BY FoldChosen
<1> QED  BY <1>3, <1>4, <1>5 DEF c

-----------------------------------------------------------------------------
(* The Continuation Area of a directory.                                    *)

CaSize(q) == FoldLeft(WriteCe, 0, q)

LEMMA CaSame ==
  ASSUME NEW n \in Nat, NEW q, NEW r, DOMAIN q = 1 .. n, DOMAIN r = 1 .. n,
         \A k \in 1 .. n : q[k].id = r[k].id /\ q[k].len = r[k].len
  PROVE  CaSize(q) = CaSize(r)
<1> DEFINE c == [op |-> "ca"]
<1>1. PICK y : IsChain(c, 0, q, n, y) /\ CaSize(q) = y[n]
  BY CaChain DEF CaSize
<1>2. PICK z : IsChain(c, 0, r, n, z) /\ CaSize(r) = z[n]
  BY CaChain DEF CaSize
<1>3. \A a, f : FoldStep(c, a, f) = WriteCe(a, f)
  BY DEF FoldStep
<1> HIDE DEF c
<1> DEFINE P == {k \in 0 .. n : y[k] = z[k]}
<1>4. 0 \in P
  BY <1>1, <1>2 DEF IsChain
<1>5. ASSUME NEW k \in 0 .. n - 1, k \in P PROVE k + 1 \in P
  <2>1. k + 1 \in 1 .. n /\ k + 1 \in 0 .. n /\ (k + 1) - 1 = k
    OBVIOUS
  <2>2. y[k + 1] = WriteCe(y[k], q[k + 1]) /\ z[k + 1] = WriteCe(z[k], r[k + 1])
    BY <1>1, <1>2, <1>3, <2>1 DEF IsChain
  <2>3. WriteCe(y[k], q[k + 1]) = WriteCe(z[k], r[k + 1])
    BY <1>5, <2>1 DEF WriteCe
  <2> QED  BY <2>1, <2>2, <2>3
<1> HIDE DEF P
<1>a. \A k \in 0 .. n - 1 : k \in P => k + 1 \in P
  BY <1>5
<1>6. n \in P
  <2>1. \A k \in 0 .. n : k \in P
    BY <1>4, <1>a, UpTo
  <2> QED  BY <2>1
<1> QED  BY <1>1, <1>2, <1>6 DEF P

LEMMA CaAppend ==
  ASSUME NEW S, NEW q \in Seq(S), NEW f \in S
  PROVE  CaSize(Append(q, f)) = WriteCe(CaSize(q), f)
<1> DEFINE c == [op |-> "ca"]
           r == Append(q, f)
<1>1. PICK n \in Nat : n = Len(q) /\ DOMAIN q = 1 .. n
  BY LenProperties
<1>2. DOMAIN r = 1 .. n + 1 /\ r[n + 1] = f /\ \A k \in 1 .. n : r[k] = q[k]
  BY <1>1
<1> HIDE DEF r
<1>3. PICK y : IsChain(c, 0, q, n, y) /\ CaSize(q) = y[n]
  BY <1>1, CaChain DEF CaSize
<1>4. PICK z : IsChain(c, 0, r, n + 1, z) /\ CaSize(r) = z[n + 1]
  BY <1>2, CaChain DEF CaSize
<1>5. \A a, g : FoldStep(c, a, g) = WriteCe(a, g)
  BY DEF FoldStep
<1> HIDE DEF c
<1> DEFINE P == {k \in 0 .. n : y[k] = z[k]}
<1>6. 0 \in P
  BY <1>3, <1>4 DEF IsChain
<1>7. ASSUME NEW k \in 0 .. n - 1, k \in P PROVE k + 1 \in P
  <2>1. k + 1 \in 1 .. n /\ k + 1 \in 1 .. n + 1 /\ k + 1 \in 0 .. n /\ (k + 1) - 1 = k
    OBVIOUS
  <2>2. y[k + 1] = WriteCe(y[k], q[k + 1]) /\ z[k + 1] = WriteCe(z[k], r[k + 1])
    BY <1>3, <1>4, <1>5, <2>1 DEF IsChain
  <2> QED  BY <1>2, <1>7, <2>1, <2>2
<1> HIDE DEF P
<1>a. \A k \in 0 .. n - 1 : k \in P => k + 1 \in P
  BY <1>7
<1>8. n \in P
  <2>1. \A k \in 0 .. n : k \in P
    BY <1>6, <1>a, UpTo
  <2> QED  BY <2>1
<1>9. n + 1 \in 1 .. n + 1 /\ (n + 1) - 1 = n
  OBVIOUS
<1>10. z[n + 1] = WriteCe(z[n], r[n + 1])
  BY <1>4, <1>5, <1>9 DEF IsChain
<1>11. CaSize(r) = WriteCe(CaSize(q), f)
  BY <1>2, <1>3, <1>4, <1>8, <1>10 DEF P
<1> QED  BY <1>11 DEF r

\* The whole list is what gets written.
LEMMA CaWhole ==
  ASSUME NEW S, NEW q \in Seq(S)
  PROVE  CeWritten(q, Len(q)) = CaSize(q)
<1>1. SubSeq(q, 1, Len(q)) = q
  OBVIOUS
<1> QED  BY <1>1 DEF CeWritten, CaSize

-----------------------------------------------------------------------------
(* struct susp_info: what the composition of fields keeps.                  *)

IsList(q) == \E S : q \in Seq(S)

\* A field of the SUA or of the CA.
IsField(f) ==
  /\ f = [id |-> f.id, len |-> f.len, block |-> f.block, off |-> f.off, size |-> f.size]
  /\ f.len \in Nat

IsFields(q) == IsList(q) /\ \A k \in 1 .. Len(q) : IsField(q[k])

\* ce_len is what the CA takes when it gets written.
InfoOK(i) ==
  /\ i = [sua |-> i.sua, suf |-> i.suf, ce |-> i.ce, ceLen |-> i.ceLen,
          start |-> i.start, comps |-> i.comps, err |-> i.err]
  /\ i.suf \in Nat /\ i.ceLen \in Nat
  /\ IsFields(i.ce) /\ i.start \in 0 .. Len(i.ce)
  /\ CaSize(i.ce) = i.ceLen

LEMMA FieldIs ==
  ASSUME NEW id, NEW len \in Nat
  PROVE  IsField(Field(id, len)) /\ Field(id, len).len = len /\ Field(id, len).id = id
BY DEF IsField, Field

LEMMA CeIs ==
  ASSUME NEW blk, NEW off, NEW size
  PROVE  IsField(CE(blk, off, size)) /\ CE(blk, off, size).len = CeSize
         /\ CE(blk, off, size).id = "CE"
BY DEF IsField, CE, CeSize

LEMMA FieldsAppend ==
  ASSUME NEW q, IsFields(q), NEW f, IsField(f)
  PROVE  /\ IsFields(Append(q, f)) /\ Len(Append(q, f)) = Len(q) + 1 /\ Len(q) \in Nat
         /\ CaSize(Append(q, f)) = WriteCe(CaSize(q), f)
<1>1. PICK S : q \in Seq(S)
  BY DEF IsFields, IsList
<1> DEFINE U == S \cup {f}
           r == Append(q, f)
<1>2. q \in Seq(U) /\ f \in U
  BY <1>1
<1>3. PICK n \in Nat : n = Len(q)
  BY <1>1
<1> HIDE DEF U
<1>4. r \in Seq(U) /\ Len(r) = n + 1 /\ r[n + 1] = f /\ \A k \in 1 .. n : r[k] = q[k]
  BY <1>2, <1>3
<1>5. CaSize(r) = WriteCe(CaSize(q), f)
  BY <1>2, CaAppend
<1> HIDE DEF r
<1>6. \A k \in 1 .. n + 1 : IsField(r[k])
  <2> TAKE k \in 1 .. n + 1
  <2>1. CASE k = n + 1
    BY <1>4, <2>1
  <2>2. CASE k # n + 1
    <3>1. k \in 1 .. n
      BY <2>2
    <3> QED  BY <1>3, <1>4, <3>1 DEF IsFields
  <2> QED  BY <2>1, <2>2
<1>7. IsFields(r)
  BY <1>4, <1>6 DEF IsFields, IsList
<1> QED  BY <1>3, <1>4, <1>5, <1>7 DEF r

LEMMA AppendSuaOK ==
  ASSUME NEW i, InfoOK(i), NEW f, IsField(f)
  PROVE  InfoOK(AppendSua(i, f)) /\ AppendSua(i, f).ceLen = i.ceLen
<1>1. f.len \in Nat /\ i.suf \in Nat
  BY DEF IsField, InfoOK
<1>2. PICK j : j = AppendSua(i, f)
  OBVIOUS
<1>3. j = [sua |-> Append(i.sua, f), suf |-> i.suf + f.len, ce |-> i.ce, ceLen |-> i.ceLen,
           start |-> i.start, comps |-> i.comps, err |-> i.err]
  BY <1>2 DEF AppendSua, InfoOK
<1>4. i.suf + f.len \in Nat
  BY <1>1
<1> QED  BY <1>2, <1>3, <1>4 DEF InfoOK

LEMMA AppendIs ==
  ASSUME NEW q, IsList(q), NEW f
  PROVE  q \o <<f>> = Append(q, f) /\ q \o <<>> = q
<1>1. PICK S : q \in Seq(S)
  BY DEF IsList
<1>2. q \in Seq(S \cup {f}) /\ f \in S \cup {f}
  BY <1>1
<1> QED  BY <1>1, <1>2

\* susp_append_ce() keeps count.
LEMMA AppendCeOK ==
  ASSUME NEW blk, NEW i, InfoOK(i), NEW f, IsField(f), f.id # "PAD"
  PROVE  InfoOK(AppendCe(blk, i, f)) /\ AppendCe(blk, i, f).suf = i.suf
<1>1. f.len \in Nat /\ i.ceLen \in Nat /\ CaSize(i.ce) = i.ceLen /\ IsFields(i.ce)
  BY DEF IsField, InfoOK
<1>2. PICK j : j = AppendCe(blk, i, f)
  OBVIOUS
<1>3. ASSUME NEW q, NEW len \in Nat, IsFields(q), CaSize(q) = len, Len(q) >= Len(i.ce),
             j = [sua |-> i.sua, suf |-> i.suf, ce |-> q, ceLen |-> len,
                  start |-> i.start, comps |-> i.comps, err |-> i.err]
      PROVE  InfoOK(j) /\ j.suf = i.suf
  <2>1. Len(q) \in Nat /\ Len(i.ce) \in Nat
    BY <1>1, <1>3 DEF IsFields, IsList
  <2>2. i.start \in 0 .. Len(q)
    BY <1>3, <2>1 DEF InfoOK
  <2> QED  BY <1>3, <2>2 DEF InfoOK
<1> DEFINE hop == (i.ceLen + f.len + CeSize - 1) \div BlockSize # i.ceLen \div BlockSize
           pad == (i.ceLen + CeSize) % BlockSize # 0
<1>4. CASE ~hop
  <2>1. j = [sua |-> i.sua, suf |-> i.suf, ce |-> Append(i.ce, f), ceLen |-> i.ceLen + f.len,
             start |-> i.start, comps |-> i.comps, err |-> i.err]
    BY <1>2, <1>4 DEF AppendCe, InfoOK
  <2>2. /\ IsFields(Append(i.ce, f)) /\ Len(Append(i.ce, f)) >= Len(i.ce)
        /\ CaSize(Append(i.ce, f)) = i.ceLen + f.len
    <3>1. /\ IsFields(Append(i.ce, f)) /\ Len(Append(i.ce, f)) = Len(i.ce) + 1 /\ Len(i.ce) \in Nat
          /\ CaSize(Append(i.ce, f)) = WriteCe(CaSize(i.ce), f)
      BY <1>1, FieldsAppend
    <3> QED  BY <1>1, <3>1 DEF WriteCe
  <2>3. i.ceLen + f.len \in Nat
    BY <1>1
  <2> QED  BY <1>2, <1>3, <2>1, <2>2, <2>3
<1>5. CASE hop
  <2> DEFINE ptr == CE(blk + i.ceLen \div BlockSize + 1, 0, BlockSize)
             q1 == Append(i.ce, ptr)
             q2 == IF pad THEN Append(q1, Field("PAD", 0)) ELSE q1
             q3 == Append(q2, f)
             len == RoundUpBlock(i.ceLen + CeSize) + f.len
  <2>1. IsField(ptr) /\ ptr.len = CeSize /\ ptr.id = "CE"
    BY CeIs
  <2>2. j = [sua |-> i.sua, suf |-> i.suf,
             ce |-> i.ce \o <<ptr>> \o If(pad, <<Field("PAD", 0)>>) \o <<f>>, ceLen |-> len,
             start |-> i.start, comps |-> i.comps, err |-> i.err]
    BY <1>2, <1>5 DEF AppendCe, InfoOK
  <2> HIDE DEF ptr
  <2>3. /\ IsFields(q1) /\ Len(q1) = Len(i.ce) + 1 /\ Len(i.ce) \in Nat
        /\ CaSize(q1) = WriteCe(CaSize(i.ce), ptr)
    BY <1>1, <2>1, FieldsAppend
  <2>4. CaSize(q1) = i.ceLen + CeSize
    BY <1>1, <2>1, <2>3 DEF WriteCe
  <2>5. i.ce \o <<ptr>> = q1
    BY <1>1, AppendIs DEF IsFields
  <2> HIDE DEF q1
  <2>6. IsField(Field("PAD", 0)) /\ Field("PAD", 0).id = "PAD"
    BY FieldIs
  <2>7. PICK m \in Nat : m = i.ceLen + CeSize
    BY <1>1 DEF CeSize
  <2>8. /\ IsFields(q2) /\ Len(q2) >= Len(i.ce) /\ Len(q2) \in Nat /\ Len(i.ce) \in Nat
        /\ CaSize(q2) = RoundUpBlock(m) /\ q1 \o If(pad, <<Field("PAD", 0)>>) = q2
    <3>1. CASE pad
      <4>1. /\ IsFields(Append(q1, Field("PAD", 0)))
            /\ Len(Append(q1, Field("PAD", 0))) = Len(q1) + 1 /\ Len(q1) \in Nat
            /\ CaSize(Append(q1, Field("PAD", 0))) = WriteCe(CaSize(q1), Field("PAD", 0))
        BY <2>3, <2>6, FieldsAppend
      <4>2. q1 \o <<Field("PAD", 0)>> = Append(q1, Field("PAD", 0))
        BY <2>3, AppendIs DEF IsFields
      <4> QED  BY <2>3, <2>4, <2>6, <2>7, <3>1, <4>1, <4>2 DEF WriteCe, If
    <3>2. CASE ~pad
      <4>1. m % BlockSize = 0
        BY <2>7, <3>2
      <4>2. RoundUpBlock(m) = m
        <5>1. PICK a \in Nat, b \in 0 .. BlockSize - 1 :
                 m % BlockSize = b /\ m = a * BlockSize + b
          BY ByBlocks
        <5>2. a * BlockSize \in Nat
          BY BlockIs
        <5>3. m = a * BlockSize
          BY <4>1, <5>1, <5>2
        <5>4. DivUp(a * BlockSize, BlockSize) = a
          BY DivUpWhole
        <5> QED  BY <5>3, <5>4 DEF RoundUpBlock
      <4>3. q1 \o <<>> = q1
        BY <2>3, AppendIs DEF IsFields
      <4> QED  BY <2>3, <2>4, <2>7, <3>2, <4>2, <4>3 DEF If
    <3> QED  BY <3>1, <3>2
  <2> HIDE DEF q2
  <2>9. /\ IsFields(q3) /\ Len(q3) = Len(q2) + 1 /\ CaSize(q3) = WriteCe(CaSize(q2), f)
    BY <1>1, <2>8, FieldsAppend
  <2>10. q2 \o <<f>> = q3
    BY <2>8, AppendIs DEF IsFields
  <2> HIDE DEF q3
  <2>11. i.ce \o <<ptr>> \o If(pad, <<Field("PAD", 0)>>) \o <<f>> = q3
    BY <2>5, <2>8, <2>10
  <2>12. RoundUpBlock(m) \in Nat
    BY RoundUpIs
  <2>13. CaSize(q3) = len /\ len \in Nat
    BY <1>1, <2>7, <2>8, <2>9, <2>12 DEF WriteCe
  <2> HIDE DEF len
  <2>14. Len(q3) >= Len(i.ce)
    BY <2>8, <2>9
  <2>15. j = [sua |-> i.sua, suf |-> i.suf, ce |-> q3, ceLen |-> len,
              start |-> i.start, comps |-> i.comps, err |-> i.err]
    BY <2>2, <2>11, Zenon
  <2> QED  BY <1>2, <1>3, <2>9, <2>13, <2>14, <2>15
<1> QED  BY <1>2, <1>4, <1>5

LEMMA AllSuaOK ==
  ASSUME NEW q, IsFields(q), NEW i, InfoOK(i)
  PROVE  InfoOK(AppendAllSua(i, q)) /\ AppendAllSua(i, q).ceLen = i.ceLen
<1> DEFINE c == [op |-> "sua"]
<1>1. PICK n \in Nat : n = Len(q) /\ DOMAIN q = 1 .. n
  BY LenProperties DEF IsFields, IsList
<1>2. PICK y : IsChain(c, i, q, n, y) /\ AppendAllSua(i, q) = y[n]
  BY <1>1, SuaChain
<1>3. \A a, v : FoldStep(c, a, v) = AppendSua(a, v)
  BY DEF FoldStep
<1> HIDE DEF c
<1> DEFINE P == {k \in 0 .. n : InfoOK(y[k]) /\ y[k].ceLen = i.ceLen}
<1>4. 0 \in P
  BY <1>2 DEF IsChain
<1>5. ASSUME NEW k \in 0 .. n - 1, k \in P PROVE k + 1 \in P
  <2>1. k + 1 \in 1 .. n /\ k + 1 \in 0 .. n /\ (k + 1) - 1 = k
    OBVIOUS
  <2>2. y[k + 1] = AppendSua(y[k], q[k + 1])
    BY <1>2, <1>3, <2>1 DEF IsChain
  <2>3. IsField(q[k + 1])
    BY <1>1, <2>1 DEF IsFields
  <2>4. InfoOK(y[k]) /\ y[k].ceLen = i.ceLen
    BY <1>5
  <2>5. InfoOK(AppendSua(y[k], q[k + 1])) /\ AppendSua(y[k], q[k + 1]).ceLen = y[k].ceLen
    BY <2>3, <2>4, AppendSuaOK
  <2> QED  BY <2>1, <2>2, <2>4, <2>5
<1>6. \A k \in 0 .. n - 1 : k \in P => k + 1 \in P
  BY <1>5
<1> HIDE DEF P
<1>7. \A k \in 0 .. n : k \in P
  BY <1>4, <1>6, UpTo
<1>8. n \in P
  BY <1>7
<1> QED  BY <1>2, <1>8 DEF P

LEMMA AllCeOK ==
  ASSUME NEW blk, NEW q, IsFields(q), \A k \in 1 .. Len(q) : q[k].id # "PAD", NEW i, InfoOK(i)
  PROVE  InfoOK(AppendAllCe(blk, i, q))
<1> DEFINE c == [op |-> "ce", block |-> blk]
<1>1. PICK n \in Nat : n = Len(q) /\ DOMAIN q = 1 .. n
  BY LenProperties DEF IsFields, IsList
<1>2. PICK y : IsChain(c, i, q, n, y) /\ AppendAllCe(blk, i, q) = y[n]
  BY <1>1, CeChain
<1>3. \A a, v : FoldStep(c, a, v) = AppendCe(blk, a, v)
  BY DEF FoldStep
<1> HIDE DEF c
<1> DEFINE P == {k \in 0 .. n : InfoOK(y[k])}
<1>4. 0 \in P
  BY <1>2 DEF IsChain
<1>5. ASSUME NEW k \in 0 .. n - 1, k \in P PROVE k + 1 \in P
  <2>1. k + 1 \in 1 .. n /\ k + 1 \in 0 .. n /\ (k + 1) - 1 = k
    OBVIOUS
  <2>2. y[k + 1] = AppendCe(blk, y[k], q[k + 1])
    BY <1>2, <1>3, <2>1 DEF IsChain
  <2>3. IsField(q[k + 1]) /\ q[k + 1].id # "PAD"
    BY <1>1, <2>1 DEF IsFields
  <2>4. InfoOK(y[k])
    BY <1>5
  <2>5. InfoOK(AppendCe(blk, y[k], q[k + 1]))
    BY <2>3, <2>4, AppendCeOK
  <2> QED  BY <2>1, <2>2, <2>5
<1>6. \A k \in 0 .. n - 1 : k \in P => k + 1 \in P
  BY <1>5
<1> HIDE DEF P
<1>7. \A k \in 0 .. n : k \in P
  BY <1>4, <1>6, UpTo
<1>8. n \in P
  BY <1>7
<1> QED  BY <1>2, <1>8 DEF P

\* The components of a link target.
IsComps(q) == IsList(q) /\ \A k \in 1 .. Len(q) : q[k].size \in Nat

LEMMA AddSLOK ==
  ASSUME NEW blk, NEW i, InfoOK(i), NEW q, IsComps(q), NEW toCe
  PROVE  InfoOK(AddSL(blk, i, q, toCe))
<1> DEFINE c == [op |-> "sl", block |-> blk, toCe |-> toCe]
           x == [i |-> i, total |-> 0]
<1>1. PICK n \in Nat : n = Len(q) /\ DOMAIN q = 1 .. n
  BY LenProperties DEF IsComps, IsList
<1> HIDE DEF x
<1>2. PICK y : /\ IsChain(c, x, q, n, y)
               /\ SlFold(blk, toCe, x, q) = y[n]
  BY <1>1, SlChain
<1>3. \A a, v : FoldStep(c, a, v) = AddComp(blk, toCe, a, v)
  BY DEF FoldStep
<1> HIDE DEF c
<1> DEFINE P == {k \in 0 .. n : \E j : \E tot \in Nat : y[k] = [i |-> j, total |-> tot] /\ InfoOK(j)}
<1>4. 0 \in P
  <2>1. y[0] = [i |-> i, total |-> 0]
    BY <1>2 DEF IsChain, x
  <2> QED  BY <2>1
<1>5. ASSUME NEW k \in 0 .. n - 1, k \in P PROVE k + 1 \in P
  <2>1. k + 1 \in 1 .. n /\ k + 1 \in 0 .. n /\ (k + 1) - 1 = k
    OBVIOUS
  <2>2. y[k + 1] = AddComp(blk, toCe, y[k], q[k + 1])
    BY <1>2, <1>3, <2>1 DEF IsChain
  <2>3. PICK sz \in Nat : sz = q[k + 1].size
    BY <1>1, <2>1 DEF IsComps
  <2>a. PICK j : \E tot \in Nat : y[k] = [i |-> j, total |-> tot] /\ InfoOK(j)
    BY <1>5
  <2>4. PICK tot \in Nat : y[k] = [i |-> j, total |-> tot] /\ InfoOK(j)
    BY <2>a
  <2>5. IsField(Field("SL", tot + 5)) /\ Field("SL", tot + 5).id = "SL"
    BY <2>4, FieldIs
  <2>6. InfoOK(AppendCe(blk, j, Field("SL", tot + 5)))
    BY <2>4, <2>5, AppendCeOK
  <2>7. PICK u : u = AppendCe(blk, j, Field("SL", tot + 5))
    OBVIOUS
  <2>8. InfoOK([u EXCEPT !.err = @ \/ ~toCe])
    BY <2>6, <2>7, SMTT(30) DEF InfoOK
  <2>9. CASE tot + sz + 2 =< 250
    <3>1. y[k + 1] = [i |-> j, total |-> tot + sz + 2]
      BY <2>2, <2>3, <2>4, <2>9 DEF AddComp
    <3> QED  BY <2>1, <2>4, <3>1
  <2>10. CASE ~(tot + sz + 2 =< 250)
    <3>1. y[k + 1] = [i |-> [u EXCEPT !.err = @ \/ ~toCe], total |-> sz + 2]
      BY <2>2, <2>3, <2>4, <2>7, <2>10 DEF AddComp
    <3>2. PICK j2 : j2 = [u EXCEPT !.err = @ \/ ~toCe]
      OBVIOUS
    <3>3. PICK t2 \in Nat : t2 = sz + 2
      BY <2>3
    <3>4. y[k + 1] = [i |-> j2, total |-> t2] /\ InfoOK(j2)
      BY <2>8, <3>1, <3>2, <3>3
    <3> QED  BY <2>1, <3>4
  <2> QED  BY <2>9, <2>10
<1>6. \A k \in 0 .. n - 1 : k \in P => k + 1 \in P
  BY <1>5
<1> HIDE DEF P
<1>7. \A k \in 0 .. n : k \in P
  BY <1>4, <1>6, UpTo
<1>8. n \in P
  BY <1>7
<1>b. PICK j : \E tot \in Nat : y[n] = [i |-> j, total |-> tot] /\ InfoOK(j)
  BY <1>8 DEF P
<1>9. PICK tot \in Nat : y[n] = [i |-> j, total |-> tot] /\ InfoOK(j)
  BY <1>b
<1>10. IsField(Field("SL", tot + 5)) /\ Field("SL", tot + 5).id = "SL"
  BY <1>9, FieldIs
<1>11. InfoOK(AppendCe(blk, j, Field("SL", tot + 5))) /\ InfoOK(AppendSua(j, Field("SL", tot + 5)))
  BY <1>9, <1>10, AppendCeOK, AppendSuaOK
<1>12. AddSL(blk, i, q, toCe) = IF toCe THEN AppendCe(blk, j, Field("SL", tot + 5))
                                       ELSE AppendSua(j, Field("SL", tot + 5))
  <2>1. SlFold(blk, toCe, [i |-> i, total |-> 0], q) = [i |-> j, total |-> tot]
    BY <1>2, <1>9 DEF x
  <2>2. AddSL(blk, i, q, toCe) =
          LET e == SlFold(blk, toCe, [i |-> i, total |-> 0], q)
          IN  IF toCe THEN AppendCe(blk, e.i, Field("SL", e.total + 5))
                      ELSE AppendSua(e.i, Field("SL", e.total + 5))
    BY DEF AddSL, SlFold
  <2> QED  BY <2>1, <2>2
<1> QED  BY <1>11, <1>12

LEMMA TotalInt ==
  ASSUME NEW q, IsList(q), \A k \in 1 .. Len(q) : q[k] \in Int
  PROVE  Total(q) \in Int
<1> DEFINE c == [op |-> "sum"]
<1>1. PICK n \in Nat : n = Len(q) /\ DOMAIN q = 1 .. n
  BY LenProperties DEF IsList
<1>2. PICK y : IsChain(c, 0, q, n, y) /\ Total(q) = y[n]
  BY <1>1, TotalChain
<1>3. \A a, v : FoldStep(c, a, v) = a + v
  BY DEF FoldStep
<1> HIDE DEF c
<1> DEFINE P == {k \in 0 .. n : y[k] \in Int}
<1>4. 0 \in P
  BY <1>2 DEF IsChain
<1>5. ASSUME NEW k \in 0 .. n - 1, k \in P PROVE k + 1 \in P
  <2>1. k + 1 \in 1 .. n /\ k + 1 \in 0 .. n /\ (k + 1) - 1 = k
    OBVIOUS
  <2>2. y[k + 1] = y[k] + q[k + 1]
    BY <1>2, <1>3, <2>1 DEF IsChain
  <2>3. y[k] \in Int /\ q[k + 1] \in Int
    BY <1>1, <1>5, <2>1
  <2> QED  BY <2>1, <2>2, <2>3
<1>6. \A k \in 0 .. n - 1 : k \in P => k + 1 \in P
  BY <1>5
<1> HIDE DEF P
<1>7. \A k \in 0 .. n : k \in P
  BY <1>4, <1>6, UpTo
<1>8. n \in P
  BY <1>7
<1> QED  BY <1>2, <1>8 DEF P

LEMMA RemainderInt ==
  ASSUME NEW link \in Seq(Int), NEW k \in 1 .. Len(link)
  PROVE  Remainder(link, k) \in Int
<1> DEFINE text(w) == IF w < 0 THEN -w ELSE w
           q == [j \in 1 .. Len(link) - k |-> 1 + text(link[k + j])]
<1>1. PICK n \in Nat : n = Len(link) - k
  <2>1. PICK m \in Nat : m = Len(link)
    BY LenProperties
  <2>2. m - k \in Nat
    BY <2>1
  <2> QED  BY <2>1, <2>2
<1>2. \A j \in 1 .. n : 1 + text(link[k + j]) \in Int
  <2> TAKE j \in 1 .. n
  <2>1. link[k + j] \in Int
    BY <1>1
  <2> QED  BY <2>1
<1>3. q \in [1 .. n -> Int]
  BY <1>1, <1>2
<1>4. q \in Seq(Int) /\ Len(q) = n /\ \A j \in 1 .. n : q[j] \in Int
  BY <1>3, SMTT(30)
<1> HIDE DEF q
<1>5. Total(q) \in Int
  BY <1>4, TotalInt DEF IsList
<1>6. text(link[k]) \in Int
  <2>1. PICK w \in Int : w = link[k]
    BY <1>1
  <2> QED  BY <2>1
<1> HIDE DEF text
<1>7. Remainder(link, k) = text(link[k]) - 248 + Total(q)
  BY DEF Remainder, text, q
<1> QED  BY <1>5, <1>6, <1>7

LEMMA CompNat ==
  ASSUME NEW m \in Int, NEW b
  PROVE  Comp(m, b).size \in Nat
BY DEF Comp

LEMMA CompsAppend ==
  ASSUME NEW q, IsComps(q), NEW v, v.size \in Nat
  PROVE  IsComps(Append(q, v))
<1>1. PICK S : q \in Seq(S)
  BY DEF IsComps, IsList
<1> DEFINE U == S \cup {v}
           r == Append(q, v)
<1>2. q \in Seq(U) /\ v \in U
  BY <1>1
<1>3. PICK n \in Nat : n = Len(q)
  BY <1>1
<1> HIDE DEF U
<1>4. r \in Seq(U) /\ Len(r) = n + 1 /\ r[n + 1] = v /\ \A k \in 1 .. n : r[k] = q[k]
  BY <1>2, <1>3
<1> HIDE DEF r
<1>5. \A k \in 1 .. n + 1 : r[k].size \in Nat
  <2> TAKE k \in 1 .. n + 1
  <2>1. CASE k = n + 1
    BY <1>4, <2>1
  <2>2. CASE k # n + 1
    <3>1. k \in 1 .. n
      BY <2>2
    <3> QED  BY <1>3, <1>4, <3>1 DEF IsComps
  <2> QED  BY <2>1, <2>2
<1> QED  BY <1>4, <1>5 DEF IsComps, IsList, r

LEMMA CompsTwo ==
  ASSUME NEW q, IsComps(q), NEW v, v.size \in Nat, NEW w, w.size \in Nat
  PROVE  IsComps(q \o <<v, w>>)
<1>1. PICK S : q \in Seq(S)
  BY DEF IsComps, IsList
<1>2. q \in Seq(S \cup {v, w})
  BY <1>1
<1>3. q \o <<v, w>> = Append(Append(q, v), w)
  BY <1>2
<1> QED  BY <1>3, CompsAppend

LEMMA ComposeCompOK ==
  ASSUME NEW link \in Seq(Int), NEW free, NEW acc, NEW k \in 1 .. Len(link),
         acc.sl \in Int, IsComps(acc.comps)
  PROVE  ComposeComp(link, free, acc, k).sl \in Int /\ IsComps(ComposeComp(link, free, acc, k).comps)
<1>1. PICK clen \in Int : clen = CompLen(link[k])
  <2>1. link[k] \in Int
    OBVIOUS
  <2> QED  BY <2>1 DEF CompLen
<1>2. PICK fit \in Int : fit = 255 - acc.sl - 2
  OBVIOUS
<1> DEFINE cew == acc.cew \/ acc.sl + clen > free
           whole == Comp(clen - 2, FALSE)
           a1 == [cew |-> cew, ce |-> acc.ce, sl |-> acc.sl + clen,
                  comps |-> Append(acc.comps, whole)]
           a2 == [cew |-> TRUE, ce |-> acc.ce + 255, sl |-> 5 + (clen - fit),
                  comps |-> acc.comps \o <<Comp(fit, TRUE), Comp(clen - fit - 2, FALSE)>>]
           a3 == [cew |-> TRUE, ce |-> acc.ce + acc.sl + 255, sl |-> 5 + (clen - 250) + 2,
                  comps |-> acc.comps \o <<Comp(248, TRUE), Comp(Remainder(link, k), FALSE)>>]
           a4 == [cew |-> TRUE, ce |-> acc.ce + acc.sl, sl |-> 5 + clen,
                  comps |-> Append(acc.comps, whole)]
<1>3. ComposeComp(link, free, acc, k) \in {a1, a2, a3, a4}
  BY <1>1, <1>2 DEF ComposeComp
<1>4. whole.size \in Nat /\ Comp(fit, TRUE).size \in Nat /\ Comp(clen - fit - 2, FALSE).size \in Nat
      /\ Comp(248, TRUE).size \in Nat /\ Comp(Remainder(link, k), FALSE).size \in Nat
  <2>1. clen - 2 \in Int /\ clen - fit - 2 \in Int /\ 248 \in Int /\ Remainder(link, k) \in Int
    BY RemainderInt
  <2> QED  BY <2>1, CompNat
<1>5. a1.sl \in Int /\ a2.sl \in Int /\ a3.sl \in Int /\ a4.sl \in Int
  OBVIOUS
<1>6. IsComps(a1.comps) /\ IsComps(a4.comps)
  BY <1>4, CompsAppend
<1>7. IsComps(a2.comps) /\ IsComps(a3.comps)
  BY <1>4, CompsTwo, ZenonT(30)
<1> HIDE DEF a1, a2, a3, a4
<1> QED  BY <1>3, <1>5, <1>6, <1>7

LEMMA ComposeSlOK ==
  ASSUME NEW link \in Seq(Int), NEW free, NEW ce
  PROVE  IsComps(ComposeSl(link, free, ce).comps)
<1> DEFINE c == [op |-> "comps", link |-> link, free |-> free]
           x == [cew |-> ce > 0, ce |-> ce, sl |-> 5, comps |-> <<>>]
           q == [k \in 1 .. Len(link) |-> k]
<1>1. PICK n \in Nat : n = Len(link) /\ DOMAIN q = 1 .. n /\ \A k \in 1 .. n : q[k] = k
  BY LenProperties
<1> HIDE DEF q, x
<1>2. PICK y : IsChain(c, x, q, n, y) /\ CompsFold(link, free, x, q) = y[n]
  BY <1>1, CompsChain
<1>3. \A a, v : FoldStep(c, a, v) = ComposeComp(link, free, a, v)
  BY DEF FoldStep
<1> HIDE DEF c
<1> DEFINE P == {k \in 0 .. n : y[k].sl \in Int /\ IsComps(y[k].comps)}
<1>4. 0 \in P
  <2>1. y[0].sl = 5 /\ y[0].comps = <<>>
    BY <1>2 DEF IsChain, x
  <2>2. IsComps(<<>>)
    BY DEF IsComps, IsList
  <2> QED  BY <2>1, <2>2
<1>5. ASSUME NEW k \in 0 .. n - 1, k \in P PROVE k + 1 \in P
  <2>1. k + 1 \in 1 .. n /\ k + 1 \in 0 .. n /\ (k + 1) - 1 = k
    OBVIOUS
  <2>2. y[k + 1] = ComposeComp(link, free, y[k], k + 1)
    BY <1>1, <1>2, <1>3, <2>1 DEF IsChain
  <2>3. y[k].sl \in Int /\ IsComps(y[k].comps) /\ k + 1 \in 1 .. Len(link)
    BY <1>1, <1>5, <2>1
  <2>4. y[k + 1].sl \in Int /\ IsComps(y[k + 1].comps)
    BY <2>2, <2>3, ComposeCompOK
  <2> QED  BY <2>1, <2>4
<1>6. \A k \in 0 .. n - 1 : k \in P => k + 1 \in P
  BY <1>5
<1> HIDE DEF P
<1>7. \A k \in 0 .. n : k \in P
  BY <1>4, <1>6, UpTo
<1>8. n \in P
  BY <1>7
<1>9. ComposeSl(link, free, ce).comps = CompsFold(link, free, x, q).comps
  BY DEF ComposeSl, CompsFold, x, q
<1> QED  BY <1>2, <1>8, <1>9 DEF P

\* If() of one field.
LEMMA IfIs ==
  ASSUME NEW S, NEW f \in S, NEW b
  PROVE  If(b, <<f>>) \in Seq(S)
BY DEF If

LEMMA FixedFieldsOK ==
  ASSUME NEW o, NEW n, NEW type
  PROVE  IsFields(FixedFields(o, n, type))
<1> DEFINE S == {Field("SP", 7), Field("ES", 5), Field("PX", IF o.pxIno \/ ~o.rrip110 THEN 44 ELSE 36),
                 Field("TF", 26), Field("PL", 12), Field("RE", 4), Field("PN", 20), Field("CL", 12)}
<1>1. \A f \in S : IsField(f)
  BY FieldIs
<1>2. FixedFields(o, n, type) \in Seq(S)
  <2> DEFINE px == Field("PX", IF o.pxIno \/ ~o.rrip110 THEN 44 ELSE 36)
  <2>1. \A b : /\ If(b, <<Field("SP", 7)>>) \in Seq(S) /\ If(b, <<Field("ES", 5)>>) \in Seq(S)
               /\ If(b, <<Field("PL", 12)>>) \in Seq(S) /\ If(b, <<Field("RE", 4)>>) \in Seq(S)
               /\ If(b, <<Field("PN", 20)>>) \in Seq(S) /\ If(b, <<Field("CL", 12)>>) \in Seq(S)
    BY IfIs, ZenonT(30)
  <2>2. <<px, Field("TF", 26)>> \in Seq(S)
    <3>1. px \in S /\ Field("TF", 26) \in S
      OBVIOUS
    <3> HIDE DEF px, S
    <3> QED  BY <3>1
  <2> HIDE DEF px
  <2> HIDE DEF S
  <2>3. \A u, v \in Seq(S) : u \o v \in Seq(S)
    OBVIOUS
  <2> DEFINE relocated == n.type = "dir" /\ n.relocated
             dedicated == n.type = "dir" /\ ~n.relocated /\ n.relocDir /\ o.markReloc
             f1 == If(type = 1 /\ n.root, <<Field("SP", 7)>>)
             f2 == If(AaipByEr(o), <<Field("ES", 5)>>)
             f3 == <<px, Field("TF", 26)>>
             f4 == If(relocated /\ type = 2, <<Field("PL", 12)>>)
             f5 == If((relocated /\ type = 0) \/ dedicated, <<Field("RE", 4)>>)
             f6 == If(n.type = "special" /\ n.device, <<Field("PN", 20)>>)
             f7 == If(n.type = "placeholder", <<Field("CL", 12)>>)
  <2>4. FixedFields(o, n, type) = f1 \o f2 \o f3 \o f4 \o f5 \o f6 \o f7
    BY Zenon DEF FixedFields, px
  <2>5. f1 \in Seq(S) /\ f2 \in Seq(S) /\ f3 \in Seq(S) /\ f4 \in Seq(S) /\ f5 \in Seq(S)
        /\ f6 \in Seq(S) /\ f7 \in Seq(S)
    BY <2>1, <2>2
  <2> HIDE DEF f1, f2, f3, f4, f5, f6, f7
  <2> QED  BY <2>3, <2>4, <2>5
<1> HIDE DEF S
<1>3. \A k \in 1 .. Len(FixedFields(o, n, type)) : FixedFields(o, n, type)[k] \in S
  BY <1>2
<1> QED  BY <1>1, <1>2, <1>3 DEF IsFields, IsList

\* The fields of a node which lie in the CA are not paddings.
IsCaFields(q) == IsFields(q) /\ \A k \in 1 .. Len(q) : q[k].id # "PAD"

LEMMA AlFieldsOK ==
  ASSUME NEW o, NEW n, n.al \in Seq(Nat)
  PROVE  IsCaFields(AlFields(o, n))
<1> DEFINE fl(k) == Field(IF k = 1 /\ ~o.susp110 THEN "ES" ELSE "AL", AlLens(o, n)[k])
           q == [k \in 1 .. Len(AlLens(o, n)) |-> fl(k)]
<1>1. AlLens(o, n) \in Seq(Nat)
  <2>1. If(~o.susp110, <<5>>) \in Seq(Nat)
    BY DEF If
  <2> QED  BY <2>1 DEF AlLens
<1>2. PICK m \in Nat : m = Len(AlLens(o, n))
  BY <1>1
<1>3. \A k \in 1 .. m : IsField(fl(k)) /\ fl(k).id # "PAD"
  <2> TAKE k \in 1 .. m
  <2>1. AlLens(o, n)[k] \in Nat
    BY <1>1, <1>2
  <2>2. IsField(fl(k)) /\ fl(k).id = IF k = 1 /\ ~o.susp110 THEN "ES" ELSE "AL"
    BY <2>1, FieldIs
  <2> HIDE DEF fl
  <2>3. (IF k = 1 /\ ~o.susp110 THEN "ES" ELSE "AL") # "PAD"
    OBVIOUS
  <2> QED  BY <2>2, <2>3
<1>4. AlFields(o, n) = q
  BY DEF AlFields
<1> HIDE DEF fl
<1>5. q \in [1 .. m -> {fl(k) : k \in 1 .. m}]
  BY <1>2
<1>6. q \in Seq({fl(k) : k \in 1 .. m}) /\ Len(q) = m /\ \A k \in 1 .. m : q[k] = fl(k)
  BY <1>2, <1>5
<1> HIDE DEF q
<1> QED  BY <1>3, <1>4, <1>6 DEF IsCaFields, IsFields, IsList

LEMMA CaFieldsConcat ==
  ASSUME NEW p, IsCaFields(p), NEW q, IsCaFields(q)
  PROVE  IsCaFields(p \o q)
<1>1. PICK S : p \in Seq(S)
  BY DEF IsCaFields, IsFields, IsList
<1>2. PICK T : q \in Seq(T)
  BY DEF IsCaFields, IsFields, IsList
<1>3. p \in Seq(S \cup T) /\ q \in Seq(S \cup T)
  BY <1>1, <1>2
<1>4. PICK m, n \in Nat : m = Len(p) /\ n = Len(q)
  BY <1>3
<1>5. PICK r : r = p \o q
  OBVIOUS
<1>6. /\ r \in Seq(S \cup T) /\ Len(r) = m + n
      /\ \A k \in 1 .. m : r[k] = p[k]
      /\ \A k \in m + 1 .. m + n : r[k] = q[k - m]
  BY <1>3, <1>4, <1>5
<1>7. \A k \in 1 .. m + n : IsField(r[k]) /\ r[k].id # "PAD"
  <2> TAKE k \in 1 .. m + n
  <2>1. CASE k =< m
    <3>1. k \in 1 .. m
      BY <2>1
    <3> QED  BY <1>4, <1>6, <3>1 DEF IsCaFields, IsFields
  <2>2. CASE k > m
    <3>1. k \in m + 1 .. m + n /\ k - m \in 1 .. n
      BY <2>2
    <3> QED  BY <1>4, <1>6, <3>1 DEF IsCaFields, IsFields
  <2> QED  BY <2>1, <2>2
<1> QED  BY <1>5, <1>6, <1>7 DEF IsCaFields, IsFields, IsList

LEMMA OneCaField ==
  ASSUME NEW f, IsField(f), f.id # "PAD", NEW b
  PROVE  IsCaFields(<<f>>) /\ IsCaFields(If(b, <<f>>))
<1>1. <<f>> \in Seq({f}) /\ Len(<<f>>) = 1 /\ <<f>>[1] = f
  OBVIOUS
<1>a. PICK q : q = <<f>>
  OBVIOUS
<1>b. IsList(q) /\ \A k \in 1 .. Len(q) : k = 1
  <2>1. q \in Seq({f}) /\ Len(q) = 1
    BY <1>1, <1>a
  <2> QED  BY <2>1 DEF IsList
<1>2. IsCaFields(<<f>>)
  BY <1>1, <1>a, <1>b DEF IsCaFields, IsFields
<1>3. IsCaFields(<<>>)
  BY DEF IsCaFields, IsFields, IsList
<1> QED  BY <1>2, <1>3 DEF If

LEMMA ComposeZfAlOK ==
  ASSUME NEW o, NEW n, n.al \in Seq(Nat), NEW blk, NEW i, InfoOK(i), NEW base, NEW free, NEW ce
  PROVE  InfoOK(ComposeZfAl(o, n, blk, i, base, free, ce))
<1> DEFINE zf == PlaceZf(n, [free |-> free, ce |-> ce], base, TRUE)
           al == PlaceAl(o, n, zf, base, TRUE)
           i1 == IF ~n.zf THEN i
                 ELSE IF zf.ce > 0 THEN AppendCe(blk, i, Field("ZF", 16))
                 ELSE AppendSua(i, Field("ZF", 16))
<1>1. IsField(Field("ZF", 16)) /\ Field("ZF", 16).id # "PAD"
  BY FieldIs
<1>2. InfoOK(AppendCe(blk, i, Field("ZF", 16))) /\ InfoOK(AppendSua(i, Field("ZF", 16)))
  BY <1>1, AppendCeOK, AppendSuaOK
<1>3. InfoOK(i1)
  BY <1>2
<1>4. ComposeZfAl(o, n, blk, i, base, free, ce)
        = IF al.ce > 0 THEN AppendAllCe(blk, i1, AlFields(o, n))
                       ELSE AppendAllSua(i1, AlFields(o, n))
  BY DEF ComposeZfAl
<1> HIDE DEF al, zf, i1
<1>5. IsFields(AlFields(o, n)) /\ \A k \in 1 .. Len(AlFields(o, n)) : AlFields(o, n)[k].id # "PAD"
  BY AlFieldsOK DEF IsCaFields
<1>6. InfoOK(AppendAllCe(blk, i1, AlFields(o, n))) /\ InfoOK(AppendAllSua(i1, AlFields(o, n)))
  BY <1>3, <1>5, AllCeOK, AllSuaOK
<1> QED  BY <1>4, <1>6

LEMMA AddCEOK ==
  ASSUME NEW blk, NEW i, InfoOK(i), NEW len
  PROVE  InfoOK(AddCE(blk, i, len))
BY CeIs, AppendSuaOK DEF AddCE

LEMMA InfoFlags ==
  ASSUME NEW i, InfoOK(i), NEW v
  PROVE  InfoOK([i EXCEPT !.err = v]) /\ InfoOK([i EXCEPT !.comps = v])
BY DEF InfoOK

LEMMA ComposeDotsOK ==
  ASSUME NEW o, NEW n, n.al \in Seq(Nat), NEW type, NEW blk, NEW i, InfoOK(i)
  PROVE  InfoOK(ComposeDots(o, n, type, blk, i))
<1> DEFINE i1 == AppendAllSua(i, If(~o.rrip110, <<Field("NM", 5)>>))
           al == PlaceAl(o, n, [free |-> 0, ce |-> 0], i.ceLen, TRUE)
           i2 == AddCE(blk, i1, ErLen(o) + al.ce)
           er == Field("ER", IF o.rrip110 THEN 237 ELSE 182)
           q == <<er>> \o If(AaipByEr(o), <<Field("ER", 160)>>) \o AlFields(o, n)
<1>1. /\ IsField(Field("NM", 5)) /\ Field("NM", 5).id # "PAD"
      /\ IsField(er) /\ er.id # "PAD" /\ IsField(Field("ER", 160)) /\ Field("ER", 160).id # "PAD"
  BY FieldIs
<1>2. InfoOK(i1)
  <2>1. IsFields(If(~o.rrip110, <<Field("NM", 5)>>))
    BY <1>1, OneCaField DEF IsCaFields
  <2> QED  BY <2>1, AllSuaOK
<1>3. InfoOK(i2)
  BY <1>2, AddCEOK
<1>4. IsCaFields(q)
  <2> HIDE DEF er
  <2>1. IsCaFields(<<er>>) /\ IsCaFields(If(AaipByEr(o), <<Field("ER", 160)>>))
    BY <1>1, OneCaField
  <2>2. IsCaFields(<<er>> \o If(AaipByEr(o), <<Field("ER", 160)>>))
    BY <2>1, CaFieldsConcat
  <2> QED  BY <2>2, AlFieldsOK, CaFieldsConcat
<1>5. ComposeDots(o, n, type, blk, i) = IF type = 1 /\ n.root THEN AppendAllCe(blk, i2, q) ELSE i1
  BY DEF ComposeDots
<1> HIDE DEF i1, i2, q
<1>6. InfoOK(AppendAllCe(blk, i2, q))
  BY <1>3, <1>4, AllCeOK DEF IsCaFields
<1> QED  BY <1>2, <1>5, <1>6

LEMMA ComposeNodeOK ==
  ASSUME NEW o, NEW n, IsNode(n), NEW space \in Int, NEW blk, NEW i, InfoOK(i), NEW try,
         i.suf + CeSize =< space
  PROVE  InfoOK(ComposeNode(o, n, space, blk, i, try))
<1> DEFINE free   == space - i.suf - (IF try.announced THEN CeSize ELSE 0)
           whole  == 5 + n.name =< free
           part   == IF whole THEN n.name ELSE free - 5
           nmCe   == IF whole THEN 0 ELSE 5 + n.name - part
           freeNm == IF whole THEN free - 5 - n.name ELSE 0
           i1     == AppendSua(i, Field("NM", 5 + part))
           i2     == IF try.announced THEN AddCE(blk, i1, try.ce) ELSE i1
           i3     == IF whole THEN i2 ELSE AppendCe(blk, i2, Field("NM", nmCe))
           sl     == IF n.type = "symlink" THEN ComposeSl(n.link, freeNm, nmCe)
                                           ELSE [comps |-> <<>>, ce |-> nmCe]
           i4     == IF n.type = "symlink"
                     THEN [AddSL(blk, i3, sl.comps, sl.ce > 0) EXCEPT !.comps = sl.comps]
                     ELSE i3
           i5     == ComposeZfAl(o, n, blk, i4, i.ceLen, freeNm, sl.ce)
<1>1. n.name \in Nat /\ n.al \in Seq(Nat) /\ n.link \in Seq(Int) /\ i.suf \in Nat
  BY DEF IsNode, InfoOK
<1>2. PICK fr \in Nat : fr = free
  <2>1. PICK s \in Nat : s = i.suf /\ s + 28 =< space
    BY <1>1 DEF CeSize
  <2>2. CASE try.announced
    <3>1. space - s - 28 \in Nat /\ free = space - s - 28
      BY <2>1, <2>2 DEF CeSize
    <3> QED  BY <3>1
  <2>3. CASE ~try.announced
    <3>1. space - s \in Nat /\ free = space - s
      BY <2>1, <2>3
    <3> QED  BY <3>1
  <2> QED  BY <2>2, <2>3
<1>3. 5 + part \in Nat /\ nmCe \in Nat
  <2>1. CASE whole
    BY <1>1, <2>1
  <2>2. CASE ~whole
    <3>1. part = fr - 5 /\ nmCe = 5 + n.name - (fr - 5) /\ ~(5 + n.name =< fr)
      BY <1>2, <2>2
    <3> QED  BY <1>1, <1>2, <3>1
  <2> QED  BY <2>1, <2>2
<1>4. ComposeNode(o, n, space, blk, i, try)
        = [i5 EXCEPT !.err = @ \/ 5 + part > 255 \/ nmCe > 255]
  BY DEF ComposeNode
<1> HIDE DEF free, part, nmCe, freeNm, whole
<1>5. IsField(Field("NM", 5 + part)) /\ IsField(Field("NM", nmCe)) /\ Field("NM", nmCe).id # "PAD"
  BY <1>3, FieldIs
<1>6. InfoOK(i1)
  BY <1>5, AppendSuaOK
<1> HIDE DEF i1
<1>7. InfoOK(i2)
  BY <1>6, AddCEOK
<1> HIDE DEF i2
<1>8. InfoOK(i3)
  BY <1>5, <1>7, AppendCeOK
<1> HIDE DEF i3
<1>9. InfoOK(i4)
  <2>1. CASE n.type = "symlink"
    <3>1. IsComps(sl.comps)
      BY <1>1, <2>1, ComposeSlOK
    <3> HIDE DEF sl
    <3>2. InfoOK(AddSL(blk, i3, sl.comps, sl.ce > 0))
      BY <1>8, <3>1, AddSLOK
    <3> QED  BY <2>1, <3>2, InfoFlags
  <2>2. CASE n.type # "symlink"
    BY <1>8, <2>2
  <2> QED  BY <2>1, <2>2
<1> HIDE DEF i4, sl
<1>10. InfoOK(i5)
  BY <1>1, <1>9, ComposeZfAlOK
<1> HIDE DEF i5
<1>11. InfoOK([i5 EXCEPT !.err = @ \/ 5 + part > 255 \/ nmCe > 255])
  BY <1>10, InfoFlags
<1> QED  BY <1>4, <1>11

LEMMA StartOK ==
  ASSUME NEW i, InfoOK(i), NEW v, NEW w, NEW m \in 0 .. Len(i.ce)
  PROVE  InfoOK([i EXCEPT !.comps = v, !.err = w, !.start = m])
<1>1. PICK j : j = [i EXCEPT !.comps = v, !.err = w, !.start = m]
  OBVIOUS
<1>2. j = [sua |-> i.sua, suf |-> i.suf, ce |-> i.ce, ceLen |-> i.ceLen,
           start |-> m, comps |-> v, err |-> w]
  BY <1>1 DEF InfoOK
<1> QED  BY <1>1, <1>2 DEF InfoOK

LEMMA EmptiedOK ==
  ASSUME NEW i, InfoOK(i), NEW b
  PROVE  LET j == IF b THEN i ELSE [i EXCEPT !.sua = <<>>, !.suf = 0]
         IN  InfoOK(j) /\ j.ce = i.ce
<1>1. ASSUME NEW v, NEW m \in Nat
      PROVE  InfoOK([i EXCEPT !.sua = v, !.suf = m]) /\ [i EXCEPT !.sua = v, !.suf = m].ce = i.ce
  <2>1. PICK j : j = [i EXCEPT !.sua = v, !.suf = m]
    OBVIOUS
  <2>2. j = [sua |-> v, suf |-> m, ce |-> i.ce, ceLen |-> i.ceLen,
             start |-> i.start, comps |-> i.comps, err |-> i.err]
    BY <2>1 DEF InfoOK
  <2> QED  BY <2>1, <2>2 DEF InfoOK
<1>2. CASE b
  BY <1>2
<1>3. CASE ~b
  BY <1>1, <1>3
<1> QED  BY <1>2, <1>3

\* rrip_get_susp_fields() keeps count of the Continuation Area.
LEMMA ComposeOK ==
  ASSUME NEW o, NEW n, IsNode(n), NEW type, NEW usedUp \in Nat, NEW blk, NEW i, InfoOK(i)
  PROVE  InfoOK(Compose(o, n, type, usedUp, blk, i))
<1> DEFINE space == Space(usedUp)
           left  == IF i.err THEN i ELSE [i EXCEPT !.sua = <<>>, !.suf = 0]
           i0 == [left EXCEPT !.comps = <<>>, !.err = FALSE, !.start = Len(i.ce)]
           j  == AppendAllSua(i0, FixedFields(o, n, type))
           u == IF type = 0
                THEN ComposeNode(o, n, space, blk, j, Tries(o, n, space, j.suf, j.ceLen))
                ELSE ComposeDots(o, n, type, blk, j)
<1>1. space \in Int
  BY DEF Space
<1>2. InfoOK(i0)
  <2>1. Len(i.ce) \in Nat
    BY DEF InfoOK, IsFields, IsList
  <2>2. InfoOK(left) /\ left.ce = i.ce
    BY EmptiedOK
  <2> HIDE DEF left
  <2>3. Len(i.ce) \in 0 .. Len(left.ce)
    BY <2>1, <2>2
  <2> QED  BY <2>2, <2>3, StartOK
<1> HIDE DEF i0
<1>3. InfoOK(j)
  BY <1>2, FixedFieldsOK, AllSuaOK
<1>4. Compose(o, n, type, usedUp, blk, i)
        = IF j.suf + CeSize > space \/ space < 124 THEN [j EXCEPT !.err = TRUE]
          ELSE [u EXCEPT !.suf = Even(@)]
  BY DEF Compose, i0
<1> HIDE DEF j, space
<1>5. CASE j.suf + CeSize > space \/ space < 124
  <2>1. InfoOK([j EXCEPT !.err = TRUE])
    BY <1>3, InfoFlags
  <2> QED  BY <1>4, <1>5, <2>1
<1>6. CASE ~(j.suf + CeSize > space \/ space < 124)
  <2>1. j.suf + CeSize =< space
    BY <1>1, <1>3, <1>6 DEF InfoOK, CeSize
  <2>2. InfoOK(u)
    BY <1>1, <1>3, <2>1, ComposeNodeOK, ComposeDotsOK DEF IsNode
  <2> HIDE DEF u
  <2>3. Even(u.suf) \in Nat
    BY <2>2 DEF InfoOK, Even
  <2>4. InfoOK([u EXCEPT !.suf = Even(@)])
    BY <2>2, <2>3 DEF InfoOK
  <2> QED  BY <1>4, <1>6, <2>4
<1> QED  BY <1>5, <1>6

LEMMA FieldSized ==
  ASSUME NEW f, IsField(f), NEW size
  PROVE  /\ IsField([f EXCEPT !.size = size]) /\ [f EXCEPT !.size = size].id = f.id
         /\ [f EXCEPT !.size = size].len = f.len
<1>1. PICK g : g = [f EXCEPT !.size = size]
  OBVIOUS
<1>2. g = [id |-> f.id, len |-> f.len, block |-> f.block, off |-> f.off, size |-> size]
  BY <1>1 DEF IsField
<1> QED  BY <1>1, <1>2 DEF IsField

LEMMA SetCeSizeOK ==
  ASSUME NEW i, NEW j, InfoOK(j), NEW ptr, NEW size
  PROVE  InfoOK(SetCeSize(i, j, ptr, size)) /\ SetCeSize(i, j, ptr, size).ceLen = j.ceLen
<1>1. ASSUME NEW v
      PROVE  InfoOK([j EXCEPT !.sua = v]) /\ [j EXCEPT !.sua = v].ceLen = j.ceLen
  <2>1. PICK r : r = [j EXCEPT !.sua = v]
    OBVIOUS
  <2>2. r = [sua |-> v, suf |-> j.suf, ce |-> j.ce, ceLen |-> j.ceLen,
             start |-> j.start, comps |-> j.comps, err |-> j.err]
    BY <2>1 DEF InfoOK
  <2> QED  BY <2>1, <2>2 DEF InfoOK
<1>2. ASSUME NEW v, IsFields(v), Len(v) = Len(j.ce), CaSize(v) = j.ceLen
      PROVE  InfoOK([j EXCEPT !.ce = v]) /\ [j EXCEPT !.ce = v].ceLen = j.ceLen
  <2>1. PICK r : r = [j EXCEPT !.ce = v]
    OBVIOUS
  <2>2. r = [sua |-> j.sua, suf |-> j.suf, ce |-> v, ceLen |-> j.ceLen,
             start |-> j.start, comps |-> j.comps, err |-> j.err]
    BY <2>1 DEF InfoOK
  <2> QED  BY <1>2, <2>1, <2>2 DEF InfoOK
<1>3. CASE ptr = 0
  <2>1. SetCeSize(i, j, ptr, size) = [j EXCEPT !.sua = [@ EXCEPT ![FirstCE(i)].size = size]]
    BY <1>3 DEF SetCeSize
  <2> QED  BY <1>1, <2>1
<1>4. CASE ptr # 0
  <2> DEFINE v == [j.ce EXCEPT ![ptr] = [@ EXCEPT !.size = size]]
  <2>1. SetCeSize(i, j, ptr, size) = [j EXCEPT !.ce = v]
    BY <1>4 DEF SetCeSize
  <2>2. PICK S : j.ce \in Seq(S)
    BY DEF InfoOK, IsFields, IsList
  <2>3. PICK n \in Nat : n = Len(j.ce) /\ DOMAIN j.ce = 1 .. n
    BY <2>2, LenProperties
  <2> DEFINE f == [j.ce[ptr] EXCEPT !.size = size]
  <2>4. /\ DOMAIN v = 1 .. n
        /\ \A k \in 1 .. n : v[k] = IF k = ptr THEN f ELSE j.ce[k]
        /\ v = [k \in 1 .. n |-> v[k]]
    BY <2>2, <2>3
  <2>5. ptr \in 1 .. n => IsField(f) /\ f.id = j.ce[ptr].id /\ f.len = j.ce[ptr].len
    BY <2>3, FieldSized DEF InfoOK, IsFields
  <2> HIDE DEF v, f
  <2>6. \A k \in 1 .. n : IsField(v[k]) /\ v[k].id = j.ce[k].id /\ v[k].len = j.ce[k].len
    BY <2>3, <2>4, <2>5 DEF InfoOK, IsFields
  <2>7. v \in Seq({v[k] : k \in 1 .. n}) /\ Len(v) = n
    <3>1. v \in [1 .. n -> {v[k] : k \in 1 .. n}]
      BY <2>4
    <3> QED  BY <3>1
  <2>8. IsFields(v)
    BY <2>6, <2>7 DEF IsFields, IsList
  <2>9. CaSize(v) = CaSize(j.ce)
    <3>1. PICK w : w = j.ce
      OBVIOUS
    <3>2. DOMAIN v = 1 .. n /\ DOMAIN w = 1 .. n
      BY <2>3, <2>4, <3>1
    <3>3. \A k \in 1 .. n : v[k].id = w[k].id /\ v[k].len = w[k].len
      BY <2>6, <3>1
    <3>4. CaSize(v) = CaSize(w)
      BY <3>2, <3>3, CaSame
    <3> QED  BY <3>1, <3>4
  <2>10. CaSize(v) = j.ceLen
    BY <2>9 DEF InfoOK
  <2> QED  BY <1>2, <2>1, <2>3, <2>7, <2>8, <2>10
<1> QED  BY <1>3, <1>4

\* susp_update_CE_sizes() only sets sizes.
LEMMA UpdateOK ==
  ASSUME NEW i, InfoOK(i)
  PROVE  InfoOK(UpdateCeSizes(i)) /\ UpdateCeSizes(i).ceLen = i.ceLen
<1> DEFINE c == [op |-> "sizes", i |-> i]
           x == [i |-> i, cur |-> 0, pos |-> 0]
           q == [k \in 1 .. Len(i.ce) - i.start |-> i.start + k]
<1>1. PICK n \in Nat : n = Len(i.ce) - i.start /\ DOMAIN q = 1 .. n
  <2>1. PICK m \in Nat : m = Len(i.ce)
    BY DEF InfoOK, IsFields, IsList
  <2>2. m - i.start \in Nat
    BY <2>1 DEF InfoOK
  <2> QED  BY <2>1, <2>2
<1> HIDE DEF q, x
<1>2. PICK y : IsChain(c, x, q, n, y) /\ CountFold(i, x, q) = y[n]
  BY <1>1, CeSizesChain
<1>3. \A a, v : FoldStep(c, a, v) = CountCe(i, a, v)
  BY DEF FoldStep
<1> HIDE DEF c
<1> DEFINE Good(a) == \E j, ptr, pos : /\ a = [i |-> j, cur |-> ptr, pos |-> pos]
                                       /\ InfoOK(j) /\ j.ceLen = i.ceLen
           P == {k \in 0 .. n : Good(y[k])}
<1>4. 0 \in P
  <2>1. y[0] = [i |-> i, cur |-> 0, pos |-> 0]
    BY <1>2 DEF IsChain, x
  <2> QED  BY <2>1
<1>5. ASSUME NEW k \in 0 .. n - 1, k \in P PROVE k + 1 \in P
  <2>1. k + 1 \in 1 .. n /\ k + 1 \in 0 .. n /\ (k + 1) - 1 = k
    OBVIOUS
  <2>2. y[k + 1] = CountCe(i, y[k], q[k + 1])
    BY <1>2, <1>3, <2>1 DEF IsChain
  <2>3. PICK j, ptr, pos : /\ y[k] = [i |-> j, cur |-> ptr, pos |-> pos]
                           /\ InfoOK(j) /\ j.ceLen = i.ceLen
    BY <1>5
  <2> DEFINE next == (pos + i.ce[q[k + 1]].len) % BlockSize
             size == IF next = 0 THEN BlockSize ELSE next
  <2>4. CountCe(i, y[k], q[k + 1]) \in
          {[i |-> j, cur |-> ptr, pos |-> 0], [i |-> j, cur |-> ptr, pos |-> next],
           [i |-> SetCeSize(i, j, ptr, size), cur |-> q[k + 1], pos |-> next]}
    BY <2>3 DEF CountCe
  <2>5. InfoOK(SetCeSize(i, j, ptr, size)) /\ SetCeSize(i, j, ptr, size).ceLen = i.ceLen
    BY <2>3, SetCeSizeOK
  <2> HIDE DEF size, next
  <2>6. Good(y[k + 1])
    BY <2>2, <2>3, <2>4, <2>5
  <2> QED  BY <2>1, <2>6
<1>6. \A k \in 0 .. n - 1 : k \in P => k + 1 \in P
  BY <1>5
<1> HIDE DEF P
<1>7. \A k \in 0 .. n : k \in P
  BY <1>4, <1>6, UpTo
<1>8. n \in P
  BY <1>7
<1>9. PICK j, ptr, pos : /\ y[n] = [i |-> j, cur |-> ptr, pos |-> pos]
                         /\ InfoOK(j) /\ j.ceLen = i.ceLen
  BY <1>8 DEF P
<1>10. UpdateCeSizes(i) =
         LET e == CountFold(i, x, q)
         IN  IF i.sua = <<>> \/ Len(i.ce) = i.start THEN i
             ELSE IF FirstCE(i) = 0 THEN [i EXCEPT !.err = TRUE]
             ELSE IF e.pos > 0 THEN SetCeSize(i, e.i, e.cur, e.pos) ELSE e.i
  BY DEF UpdateCeSizes, CountFold, x, q
<1>11. UpdateCeSizes(i) \in {i, [i EXCEPT !.err = TRUE], SetCeSize(i, j, ptr, pos), j}
  BY <1>2, <1>9, <1>10
<1>12. InfoOK(SetCeSize(i, j, ptr, pos)) /\ SetCeSize(i, j, ptr, pos).ceLen = i.ceLen
  BY <1>9, SetCeSizeOK
<1>13. InfoOK([i EXCEPT !.err = TRUE]) /\ [i EXCEPT !.err = TRUE].ceLen = i.ceLen
  <2>1. [i EXCEPT !.err = TRUE].ceLen = i.ceLen
    BY DEF InfoOK
  <2> QED  BY <2>1, InfoFlags
<1> QED  BY <1>9, <1>11, <1>12, <1>13


-----------------------------------------------------------------------------
(* The directory tree.                                                      *)

LEMMA ConcatIs ==
  ASSUME NEW S, NEW p \in Seq(S), NEW q \in Seq(S), NEW m \in Nat, m = Len(p),
         NEW n \in Nat, n = Len(q)
  PROVE  /\ p \o q \in Seq(S) /\ Len(p \o q) = m + n
         /\ \A k \in 1 .. m : (p \o q)[k] = p[k]
         /\ \A k \in 1 .. n : (p \o q)[m + k] = q[k]
<1>1. \A k \in 1 .. m + n : (p \o q)[k] = IF k <= m THEN p[k] ELSE q[k - m]
  BY ConcatProperties
<1>2. ASSUME NEW k \in 1 .. n PROVE (p \o q)[m + k] = q[k]
  <2>1. m + k \in 1 .. m + n /\ ~(m + k <= m) /\ (m + k) - m = k
    OBVIOUS
  <2> QED  BY <1>1, <2>1
<1> QED  BY <1>1, <1>2, ConcatProperties

LEMMA AppendNew ==
  ASSUME NEW S, NEW q \in Seq(S), NEW v \in S
  PROVE  /\ q \o <<v>> \in Seq(S) /\ q \o <<>> = q
         /\ \A x : Contains(q \o <<v>>, x) <=> Contains(q, x) \/ x = v
         /\ IsInjective(q) /\ ~Contains(q, v) => IsInjective(q \o <<v>>)
<1>1. PICK n \in Nat : n = Len(q) /\ DOMAIN q = 1 .. n
  BY LenProperties
<1>2. PICK r \in Seq(S) : r = q \o <<v>>
  <2>1. <<v>> \in Seq(S)
    OBVIOUS
  <2> QED  BY <2>1, ConcatProperties
<1>3. /\ Len(r) = n + 1 /\ DOMAIN r = 1 .. n + 1 /\ r[n + 1] = v
      /\ \A k \in 1 .. n : r[k] = q[k]
  <2>1. r = Append(q, v)
    BY <1>2
  <2> QED  BY <1>1, <2>1
<1>4. q \o <<>> = q
  OBVIOUS
<1>5. \A x : Contains(r, x) <=> Contains(q, x) \/ x = v
  <2> TAKE x
  <2>1. ASSUME NEW k \in 1 .. n + 1, r[k] = x PROVE Contains(q, x) \/ x = v
    <3>1. CASE k = n + 1
      BY <1>3, <2>1, <3>1
    <3>2. CASE k # n + 1
      <4>1. k \in 1 .. n
        BY <3>2
      <4> QED  BY <1>1, <1>3, <2>1, <4>1 DEF Contains
    <3> QED  BY <3>1, <3>2
  <2>2. ASSUME NEW k \in 1 .. n, q[k] = x PROVE Contains(r, x)
    <3>1. k \in 1 .. n + 1
      OBVIOUS
    <3> QED  BY <1>3, <2>2, <3>1 DEF Contains
  <2>3. Contains(r, v)
    BY <1>1, <1>3 DEF Contains
  <2> QED  BY <1>1, <1>3, <2>1, <2>2, <2>3 DEF Contains
<1>6. ASSUME IsInjective(q), ~Contains(q, v) PROVE IsInjective(r)
  <2>1. \A k \in 1 .. n : q[k] # v
    BY <1>1, <1>6 DEF Contains
  <2> QED  BY <1>1, <1>3, <1>6, <2>1 DEF IsInjective
<1> QED  BY <1>2, <1>4, <1>5, <1>6

\* The subdirectories are the children which are directories.
LEMMA SubDirsAre ==
  ASSUME NEW d, kids[d] \in Seq(Nodes), IsInjective(kids[d])
  PROVE  /\ SubDirs(d) \in Seq(Dirs) /\ IsInjective(SubDirs(d))
         /\ \A x : Contains(SubDirs(d), x) <=> x \in Dirs /\ Contains(kids[d], x)
<1>1. PICK n \in Nat : n = Len(kids[d]) /\ DOMAIN kids[d] = 1 .. n
  BY LenProperties
<1> DEFINE c == [op |-> "dirs"]
<1>2. PICK y : IsChain(c, <<>>, kids[d], n, y) /\ SubDirs(d) = y[n]
  BY <1>1, SubDirsChain
<1>3. \A a, v : FoldStep(c, a, v) = a \o If(v \in Dirs, <<v>>)
  BY DEF FoldStep
<1> HIDE DEF c
<1> DEFINE Good(k) == /\ y[k] \in Seq(Dirs) /\ IsInjective(y[k])
                      /\ \A x : Contains(y[k], x) <=> x \in Dirs /\ \E j \in 1 .. k : kids[d][j] = x
           P == {k \in 0 .. n : Good(k)}
<1>4. 0 \in P
  <2>1. y[0] = <<>> /\ 0 \in 0 .. n
    BY <1>1, <1>2 DEF IsChain
  <2>2. PICK q : q = y[0]
    OBVIOUS
  <2>3. q = <<>> /\ q \in Seq(Dirs) /\ DOMAIN q = {} /\ Len(q) = 0
    BY <2>1, <2>2
  <2>4. IsInjective(q) /\ \A x : ~Contains(q, x)
    BY <2>3 DEF IsInjective, Contains
  <2>5. Good(0)
    BY <2>2, <2>3, <2>4
  <2> QED  BY <2>1, <2>5
<1>5. ASSUME NEW k \in 0 .. n - 1, k \in P PROVE k + 1 \in P
  <2>1. k + 1 \in 1 .. n /\ k + 1 \in 0 .. n /\ (k + 1) - 1 = k
    OBVIOUS
  <2>2. PICK v : v = kids[d][k + 1]
    OBVIOUS
  <2>3. y[k + 1] = y[k] \o If(v \in Dirs, <<v>>)
    BY <1>2, <1>3, <2>1, <2>2 DEF IsChain
  <2>4. PICK q \in Seq(Dirs) : q = y[k]
    BY <1>5
  <2>5. \A x : Contains(q, x) <=> x \in Dirs /\ \E j \in 1 .. k : kids[d][j] = x
    BY <1>5, <2>4
  <2>6. \A j \in 1 .. k + 1 : j \in 1 .. k \/ j = k + 1
    OBVIOUS
  <2>7. \A j \in 1 .. k : j \in 1 .. k + 1 /\ j \in 1 .. n /\ j # k + 1
    OBVIOUS
  <2>8. ~Contains(q, v)
    BY <1>1, <2>1, <2>2, <2>5, <2>7, SMTT(30) DEF IsInjective
  <2>9. \A x : (\E j \in 1 .. k + 1 : kids[d][j] = x) <=> x = v \/ \E j \in 1 .. k : kids[d][j] = x
    BY <2>2, <2>6, <2>7
  <2>10. CASE v \in Dirs
    <3>1. y[k + 1] = q \o <<v>>
      BY <2>3, <2>4, <2>10 DEF If
    <3>2. PICK r \in Seq(Dirs) : r = y[k + 1]
      BY <2>10, <3>1, AppendNew
    <3>3. IsInjective(q)
      BY <1>5, <2>4
    <3>4. IsInjective(r) /\ \A x : Contains(r, x) <=> Contains(q, x) \/ x = v
      BY <2>8, <2>10, <3>1, <3>2, <3>3, AppendNew
    <3>5. \A x : Contains(r, x) <=> x \in Dirs /\ \E j \in 1 .. k + 1 : kids[d][j] = x
      BY <2>5, <2>9, <2>10, <3>4
    <3>6. Good(k + 1)
      BY <3>2, <3>4, <3>5
    <3> QED  BY <2>1, <3>6
  <2>11. CASE v \notin Dirs
    <3>1. y[k + 1] = q
      BY <2>3, <2>4, <2>11 DEF If
    <3>2. Good(k + 1)
      BY <1>5, <2>4, <2>5, <2>9, <2>11, <3>1
    <3> QED  BY <2>1, <3>2
  <2> QED  BY <2>10, <2>11
<1>6. \A k \in 0 .. n - 1 : k \in P => k + 1 \in P
  BY <1>5
<1> HIDE DEF P
<1>7. \A k \in 0 .. n : k \in P
  BY <1>4, <1>6, UpTo
<1>8. n \in P
  BY <1>7
<1>9. Good(n)
  BY <1>8 DEF P
<1> QED  BY <1>1, <1>2, <1>9 DEF Contains

LEMMA RecordsAre ==
  ASSUME NEW d \in Dirs, kids[d] \in Seq(Nodes), \A n \in Nodes : node[n].sections \in Nat
  PROVE  /\ Records(d) \in Seq([id : Nodes, type : 0 .. 2]) /\ Len(Records(d)) >= 2
         /\ Records(d)[1].type = 1 /\ Records(d)[2].type = 2
         /\ \A k \in 3 .. Len(Records(d)) : Records(d)[k].type = 0
<1>1. PICK n \in Nat : n = Len(kids[d]) /\ DOMAIN kids[d] = 1 .. n
  BY LenProperties
<1> DEFINE c == [op |-> "recs"]
           S == [id : Nodes, type : 0 .. 2]
<1>2. PICK y : IsChain(c, Dots(d), kids[d], n, y) /\ Records(d) = y[n]
  BY <1>1, RecordsChain
<1>3. \A a, v : FoldStep(c, a, v) = a \o SectionRecords(v)
  BY DEF FoldStep
<1> HIDE DEF c
<1> DEFINE Good(k) == /\ y[k] \in Seq(S) /\ Len(y[k]) >= 2
                      /\ y[k][1].type = 1 /\ y[k][2].type = 2
                      /\ \A j \in 3 .. Len(y[k]) : y[k][j].type = 0
           P == {k \in 0 .. n : Good(k)}
<1>4. 0 \in P
  <2>1. y[0] = Dots(d) /\ 0 \in 0 .. n
    BY <1>1, <1>2 DEF IsChain
  <2>2. d \in Nodes
    BY DEF Nodes
  <2>a. [id |-> d, type |-> 1] \in S /\ [id |-> d, type |-> 2] \in S
    BY <2>2
  <2>3. PICK a, b : a = [id |-> d, type |-> 1] /\ b = [id |-> d, type |-> 2]
    OBVIOUS
  <2>b. a \in S /\ b \in S /\ a.type = 1 /\ b.type = 2
    BY <2>a, <2>3
  <2> HIDE DEF S
  <2>c. <<a, b>> \in Seq(S)
    BY <2>b
  <2>4. PICK q \in Seq(S) : q = <<a, b>>
    BY <2>c
  <2>5. Len(q) = 2 /\ q[1].type = 1 /\ q[2].type = 2 /\ 3 .. Len(q) = {}
    BY <2>b, <2>4
  <2>6. q = y[0]
    BY <2>1, <2>3, <2>4 DEF Dots
  <2>7. Good(0)
    BY <2>5, <2>6
  <2> QED  BY <2>1, <2>7
<1>5. ASSUME NEW k \in 0 .. n - 1, k \in P PROVE k + 1 \in P
  <2>1. k + 1 \in 1 .. n /\ k + 1 \in 0 .. n /\ (k + 1) - 1 = k
    OBVIOUS
  <2>2. PICK v \in Nodes : v = kids[d][k + 1]
    BY <1>1, <2>1
  <2>3. y[k + 1] = y[k] \o SectionRecords(v)
    BY <1>2, <1>3, <2>1, <2>2 DEF IsChain
  <2>4. PICK q \in Seq(S) : q = y[k]
    BY <1>5
  <2>5. PICK l \in Nat : l = Len(q) /\ l >= 2
    BY <1>5, <2>4
  <2>6. PICK m \in Nat : m = node[v].sections
    OBVIOUS
  <2>7. PICK f : f = SectionRecords(v)
    OBVIOUS
  <2>8. f \in [1 .. m -> S] /\ \A j \in 1 .. m : f[j].type = 0
    BY <2>6, <2>7 DEF SectionRecords
  <2> HIDE DEF S
  <2>9. f \in Seq(S) /\ Len(f) = m
    BY <2>8
  <2>10. PICK r \in Seq(S) : r = q \o f
    BY <2>9, ConcatProperties
  <2>11. /\ Len(r) = l + m /\ \A j \in 1 .. l : r[j] = q[j]
         /\ \A j \in 1 .. m : r[l + j] = f[j]
    BY <2>5, <2>9, <2>10, ConcatIs, SMTT(30)
  <2>12. \A j \in 3 .. l + m : r[j].type = 0
    <3> TAKE j \in 3 .. l + m
    <3>1. CASE j =< l
      <4>1. j \in 1 .. l /\ j \in 3 .. l
        BY <3>1
      <4> QED  BY <1>5, <2>4, <2>5, <2>11, <4>1
    <3>2. CASE ~(j =< l)
      <4>1. j - l \in 1 .. m /\ l + (j - l) = j
        BY <3>2
      <4> QED  BY <2>8, <2>11, <4>1
    <3> QED  BY <3>1, <3>2
  <2>13. r[1] = q[1] /\ r[2] = q[2] /\ l + m >= 2
    BY <2>5, <2>11
  <2>14. r = y[k + 1]
    BY <2>3, <2>4, <2>7, <2>10
  <2>15. Good(k + 1)
    BY <1>5, <2>4, <2>11, <2>12, <2>13, <2>14
  <2> QED  BY <2>1, <2>15
<1>6. \A k \in 0 .. n - 1 : k \in P => k + 1 \in P
  BY <1>5
<1> HIDE DEF P
<1>7. \A k \in 0 .. n : k \in P
  BY <1>4, <1>6, UpTo
<1>8. n \in P
  BY <1>7
<1>9. Good(n)
  BY <1>8 DEF P
<1> QED  BY <1>2, <1>9

\* The sizes which calc_dir_size() has after k records of d.
IsSizes(d, y) == IsChain([op |-> "size"], NoSize, Records(d), Len(Records(d)), y)

SizesOf(d) == CHOOSE y : IsSizes(d, y) /\ SizeFold(Records(d)) = y[Len(Records(d))]

\* What the first pass predicts for record k of d.
Predicted(d, k) == RecordLen(Records(d)[k], SizesOf(d)[k - 1].ce)

LEMMA SizesAre ==
  ASSUME NEW d, NEW S, Records(d) \in Seq(S), NEW n \in Nat, n = Len(Records(d))
  PROVE  /\ SizesOf(d)[0] = NoSize
         /\ \A k \in 1 .. n : SizesOf(d)[k] = AddRecord(SizesOf(d)[k - 1], Records(d)[k], Predicted(d, k))
         /\ SizeFold(Records(d)) = SizesOf(d)[n]
<1>1. DOMAIN Records(d) = 1 .. n
  BY LenProperties
<1>2. \E y : IsSizes(d, y) /\ SizeFold(Records(d)) = y[n]
  BY <1>1, SizeChain DEF IsSizes
<1>3. IsSizes(d, SizesOf(d)) /\ SizeFold(Records(d)) = SizesOf(d)[n]
  BY <1>2 DEF SizesOf
<1>4. \A a, v : FoldStep([op |-> "size"], a, v) = AddRecord(a, v, RecordLen(v, a.ce))
  BY DEF FoldStep
<1> QED  BY <1>3, <1>4 DEF IsSizes, IsChain, Predicted

\* The predictions get collected, and the last block counts as a whole.
LEMMA DirSizeIs ==
  ASSUME NEW d, NEW S, Records(d) \in Seq(S), NEW n \in Nat, n = Len(Records(d))
  PROVE  /\ CalcDirSize(d).len = RoundUpBlock(SizesOf(d)[n].len) /\ CalcDirSize(d).ce = SizesOf(d)[n].ce
         /\ \A k \in 1 .. n : CalcDirSize(d).recs[k] = Predicted(d, k)
<1>1. CalcDirSize(d) = [SizeFold(Records(d)) EXCEPT !.len = RoundUpBlock(@)]
  BY DEF CalcDirSize, SizeFold, NoSize
<1> DEFINE y == SizesOf(d)
           Shaped(a) == \E l, x, q : a = [len |-> l, ce |-> x, recs |-> q]
           Good(k) == /\ Shaped(y[k]) /\ IsList(y[k].recs) /\ Len(y[k].recs) = k
                      /\ \A j \in 1 .. k : y[k].recs[j] = Predicted(d, j)
           P == {k \in 0 .. n : Good(k)}
<1>2. /\ y[0] = NoSize
      /\ \A k \in 1 .. n : y[k] = AddRecord(y[k - 1], Records(d)[k], Predicted(d, k))
      /\ SizeFold(Records(d)) = y[n]
  BY SizesAre
<1> HIDE DEF y
<1>3. 0 \in P
  <2>1. y[0] = [len |-> 0, ce |-> 0, recs |-> <<>>] /\ 0 \in 0 .. n
    BY <1>2 DEF NoSize
  <2>2. PICK q : q = <<>>
    OBVIOUS
  <2>4. IsList(q) /\ Len(q) = 0 /\ 1 .. 0 = {}
    BY <2>2 DEF IsList
  <2>5. y[0] = [len |-> 0, ce |-> 0, recs |-> q]
    BY <2>1, <2>2
  <2>7. y[0].recs = q
    BY <2>5
  <2>6. y[0].recs = q /\ Shaped(y[0])
    BY <2>5, <2>7
  <2> HIDE DEF Shaped
  <2>3. Good(0)
    BY <2>4, <2>6
  <2> QED  BY <2>1, <2>3
<1>4. ASSUME NEW k \in 0 .. n - 1, k \in P PROVE k + 1 \in P
  <2>1. k + 1 \in 1 .. n /\ k + 1 \in 0 .. n /\ (k + 1) - 1 = k /\ k \in Nat
    OBVIOUS
  <2>2. y[k + 1] = AddRecord(y[k], Records(d)[k + 1], Predicted(d, k + 1))
    BY <1>2, <2>1
  <2>3. PICK q : q = y[k].recs /\ IsList(q) /\ Len(q) = k /\ \A j \in 1 .. k : q[j] = Predicted(d, j)
    BY <1>4
  <2>4. PICK T : q \in Seq(T)
    BY <2>3 DEF IsList
  <2>5. PICK p : p = Predicted(d, k + 1)
    OBVIOUS
  <2>6. PICK r : r = Append(q, p)
    OBVIOUS
  <2>7. q \in Seq(T \cup {p}) /\ p \in T \cup {p}
    BY <2>4
  <2>8. /\ r \in Seq(T \cup {p}) /\ Len(r) = k + 1 /\ r[k + 1] = p
        /\ \A j \in 1 .. k : r[j] = q[j]
    BY <2>1, <2>3, <2>6, <2>7
  <2>a. PICK l, x : y[k + 1] = [len |-> l, ce |-> x, recs |-> r]
    BY <2>2, <2>3, <2>5, <2>6 DEF AddRecord
  <2>b. y[k + 1].recs = r
    BY <2>a
  <2>9. Shaped(y[k + 1]) /\ y[k + 1].recs = r
    BY <2>a, <2>b
  <2>10. \A j \in 1 .. k + 1 : r[j] = Predicted(d, j)
    <3> TAKE j \in 1 .. k + 1
    <3>1. j = k + 1 \/ j \in 1 .. k
      OBVIOUS
    <3> QED  BY <2>3, <2>5, <2>8, <3>1
  <2>11. Good(k + 1)
    BY <2>8, <2>9, <2>10 DEF IsList
  <2> QED  BY <2>1, <2>11
<1>5. \A k \in 0 .. n - 1 : k \in P => k + 1 \in P
  BY <1>4
<1> HIDE DEF P
<1>6. \A k \in 0 .. n : k \in P
  BY <1>3, <1>5, UpTo
<1>7. n \in P
  BY <1>6
<1>8. Good(n)
  BY <1>7 DEF P
<1>9. PICK l, x, q : y[n] = [len |-> l, ce |-> x, recs |-> q]
  BY <1>8
<1>10. CalcDirSize(d) = [len |-> RoundUpBlock(l), ce |-> x, recs |-> q]
  BY <1>1, <1>2, <1>9
<1> QED  BY <1>8, <1>9, <1>10 DEF y

-----------------------------------------------------------------------------
(* The recursion of calc_dir_pos() and the one of write_dirs().             *)

\* What both passes depend on: subdirectories, records and sizes of the directories,
\* whether Continuation Areas count, the blocks of a path table and of the checksum tag.
TreeData == [subs |-> [d \in Dirs |-> SubDirs(d)], recs |-> [d \in Dirs |-> Records(d)],
             sizes |-> [d \in Dirs |-> CalcDirSize(d)], rr |-> opts.rockridge,
             table |-> DivUp(PathTableSize, BlockSize), tag |-> IF opts.md5 THEN 1 ELSE 0]

SumOver(f, S) == FoldFunctionOnSet(LAMBDA a, b : a + b, 0, f, S)

LEMMA TreeDataSame ==
  ASSUME nodes' = nodes
  PROVE  TreeData' = TreeData
<1>1. \A d : SubDirs(d)' = SubDirs(d)
  BY DEF SubDirs, nodes, FoldLeft, MapThenFoldSet
<1>2. \A d : CalcDirSize(d)' = CalcDirSize(d)
  BY DEF CalcDirSize, Records, SectionRecords, RecordLen, DirentLen, VersionLen, nodes,
         FoldLeft, MapThenFoldSet
<1>3. opts' = opts
  BY DEF nodes
<1>4. \A d : Records(d)' = Records(d)
  BY DEF Records, SectionRecords, nodes, FoldLeft, MapThenFoldSet
<1>5. PathTableSize' = PathTableSize
  <2> DEFINE f == [d \in Dirs |-> Even(8 + IdLen(d))]
  <2>1. f' = f
    BY DEF IdLen, nodes
  <2>2. PathTableSize = SumOver(f, Dirs)
    BY DEF PathTableSize, FoldFunction, SumOver, FoldFunctionOnSet
  <2>3. PathTableSize' = SumOver(f', Dirs)
    BY DEF PathTableSize, FoldFunction, SumOver, FoldFunctionOnSet, MapThenFoldSet
  <2> HIDE DEF f
  <2> QED  BY <2>1, <2>2, <2>3
<1> QED  BY <1>1, <1>2, <1>3, <1>4, <1>5 DEF TreeData

\* No directory has two parents, and the root has none.
IsForest(t) ==
  /\ \A d \in Dirs : /\ t.subs[d] \in Seq(Dirs) /\ IsInjective(t.subs[d])
                     /\ ~Contains(t.subs[d], Root)
  /\ \A p, q \in Dirs : \A n : Contains(t.subs[p], n) /\ Contains(t.subs[q], n) => p = q

LEMMA TreeIsForest ==
  ASSUME IsTree(kids)
  PROVE  IsForest(TreeData)
<1>1. ASSUME NEW d \in Dirs
      PROVE  /\ TreeData.subs[d] = SubDirs(d)
             /\ SubDirs(d) \in Seq(Dirs) /\ IsInjective(SubDirs(d))
             /\ \A x : Contains(SubDirs(d), x) <=> x \in Dirs /\ Contains(kids[d], x)
  <2>1. kids[d] \in Seq(Nodes) /\ IsInjective(kids[d])
    BY DEF IsTree
  <2>2. TreeData.subs[d] = SubDirs(d)
    BY DEF TreeData
  <2> QED  BY <2>1, <2>2, SubDirsAre
<1>2. \A d \in Dirs : ~Contains(kids[d], Root)
  BY DEF IsTree
<1>3. ASSUME NEW p \in Dirs, NEW q \in Dirs, NEW n \in Dirs,
             Contains(kids[p], n), Contains(kids[q], n)
      PROVE  p = q
  <2>1. n \in Nodes \ {Root}
    BY <1>2, <1>3 DEF Nodes
  <2>2. PICK x \in Dirs : \A d \in Dirs : Contains(kids[d], n) <=> d = x
    BY <2>1 DEF IsTree
  <2> QED  BY <1>3, <2>2
<1> QED  BY <1>1, <1>2, <1>3 DEF IsForest

\* The stack of the recursion behind the directory on top of it.
NextStack(t, s) == t.subs[Head(s)] \o Tail(s)

\* The block behind a directory and its Continuation Area.
After(t, p) ==
  p.block + DivUp(p.len, BlockSize) + (IF t.rr THEN DivUp(p.ce, BlockSize) ELSE 0)

IsPlanned(t, d, p) ==
  p.len = t.sizes[d].len /\ p.ce = t.sizes[d].ce /\ p.recs = t.sizes[d].recs

\* The directories in Vis are placed one behind the other from block s0 on, in the
\* order of the recursion: W[d] is the stack with d on top.  T is the stack which is
\* left, e the next block.
Laid(t, W, Vis, T, p, s0, e) ==
  /\ W \in [Dirs -> Seq(Dirs)] /\ Vis \subseteq Dirs
  /\ \/ Root \in Vis /\ W[Root] = <<Root>> /\ p[Root].block = s0
     \/ Vis = {} /\ T = <<Root>> /\ e = s0
  /\ \A d \in Vis :
       /\ W[d] # <<>> /\ Head(W[d]) = d /\ IsPlanned(t, d, p[d])
       /\ LET s == NextStack(t, W[d])
          IN  \/ s = T /\ After(t, p[d]) = e
              \/ s # <<>> /\ Head(s) \in Vis /\ W[Head(s)] = s
                 /\ p[Head(s)].block = After(t, p[d])

LEMMA LaidStart ==
  ASSUME Root \in Dirs, NEW t, NEW p, NEW s0
  PROVE  \E W : Laid(t, W, {}, <<Root>>, p, s0, s0)
<1> DEFINE W == [d \in Dirs |-> <<Root>>]
<1>1. <<Root>> \in Seq(Dirs)
  OBVIOUS
<1>2. W \in [Dirs -> Seq(Dirs)]
  BY <1>1
<1> HIDE DEF W
<1> QED  BY <1>2 DEF Laid

LEMMA LaidStep ==
  ASSUME NEW t, NEW W, NEW Vis, NEW T \in Seq(Dirs), NEW p, NEW s0, NEW e,
         Laid(t, W, Vis, T, p, s0, e), T # <<>>, NEW d \in Dirs, d = Head(T), d \notin Vis,
         NEW p1, IsPlanned(t, d, p1[d]), p1[d].block = e, \A x \in Dirs \ {d} : p1[x] = p[x]
  PROVE  \E V : Laid(t, V, Vis \cup {d}, NextStack(t, T), p1, s0, After(t, p1[d]))
<1> DEFINE V == [W EXCEPT ![d] = T]
<1>1. V \in [Dirs -> Seq(Dirs)] /\ V[d] = T /\ \A x \in Dirs \ {d} : V[x] = W[x]
  BY DEF Laid
<1> HIDE DEF V
<1>2. Vis \subseteq Dirs \ {d}
  BY DEF Laid
<1>3. Root \in Vis \cup {d} /\ V[Root] = <<Root>> /\ p1[Root].block = s0
  <2>1. CASE Root \in Vis /\ W[Root] = <<Root>> /\ p[Root].block = s0
    BY <1>1, <1>2, <2>1
  <2>2. CASE Vis = {} /\ T = <<Root>> /\ e = s0
    <3>1. d = Root
      BY <2>2
    <3> QED  BY <1>1, <2>2, <3>1
  <2> QED  BY <2>1, <2>2 DEF Laid
<1>4. ASSUME NEW x \in Vis \cup {d}
      PROVE  /\ V[x] # <<>> /\ Head(V[x]) = x /\ IsPlanned(t, x, p1[x])
             /\ LET s == NextStack(t, V[x])
                IN  \/ s = NextStack(t, T) /\ After(t, p1[x]) = After(t, p1[d])
                    \/ s # <<>> /\ Head(s) \in Vis \cup {d} /\ V[Head(s)] = s
                       /\ p1[Head(s)].block = After(t, p1[x])
  <2>1. CASE x = d
    BY <1>1, <2>1
  <2>2. CASE x # d
    <3>1. x \in Vis /\ V[x] = W[x] /\ p1[x] = p[x]
      BY <1>1, <1>2, <2>2
    <3>2. V[x] # <<>> /\ Head(V[x]) = x /\ IsPlanned(t, x, p1[x])
      BY <3>1 DEF Laid
    <3>3. PICK s : s = NextStack(t, W[x])
      OBVIOUS
    <3>4. CASE s = T /\ After(t, p[x]) = e
      <4>1. s # <<>> /\ Head(s) = d /\ V[d] = s
        BY <1>1, <3>4
      <4> QED  BY <3>1, <3>2, <3>3, <3>4, <4>1
    <3>5. CASE s # <<>> /\ Head(s) \in Vis /\ W[Head(s)] = s /\ p[Head(s)].block = After(t, p[x])
      <4>1. V[Head(s)] = s /\ p1[Head(s)] = p[Head(s)]
        BY <1>1, <1>2, <3>5
      <4> QED  BY <3>1, <3>2, <3>3, <3>5, <4>1
    <3> QED  BY <3>1, <3>3, <3>4, <3>5 DEF Laid
  <2> QED  BY <2>1, <2>2
<1>5. PICK U : U = Vis \cup {d} /\ U \subseteq Dirs
  BY <1>2
<1>6. PICK s1, e1 : s1 = NextStack(t, T) /\ e1 = After(t, p1[d])
  OBVIOUS
<1>7. Laid(t, V, U, s1, p1, s0, e1)
  BY <1>1, <1>3, <1>4, <1>5, <1>6, SMTT(30) DEF Laid
<1> QED  BY <1>5, <1>6, <1>7

\* The directories on the stack were not visited yet, and none is there twice.
Fresh(t, Vis, T) ==
  /\ T \in Seq(Dirs) /\ IsInjective(T) /\ \A n : Contains(T, n) => n \notin Vis
  /\ Vis \subseteq Dirs
  /\ \A n : n \in Vis \/ Contains(T, n) => n = Root \/ \E q \in Vis : Contains(t.subs[q], n)

LEMMA HeadAndTail ==
  ASSUME NEW S, NEW q \in Seq(S), q # <<>>
  PROVE  /\ Head(q) \in S /\ Tail(q) \in Seq(S)
         /\ \A n : Contains(q, n) <=> n = Head(q) \/ Contains(Tail(q), n)
         /\ IsInjective(q) => IsInjective(Tail(q)) /\ ~Contains(Tail(q), Head(q))
<1>1. PICK m \in Nat : Len(q) = m + 1 /\ DOMAIN q = 1 .. m + 1
  <2>1. Len(q) \in Nat /\ Len(q) # 0 /\ DOMAIN q = 1 .. Len(q)
    OBVIOUS
  <2>2. Len(q) - 1 \in Nat /\ (Len(q) - 1) + 1 = Len(q)
    BY <2>1
  <2> QED  BY <2>1, <2>2, ZenonT(30)
<1>2. PICK r \in Seq(S) : r = Tail(q)
  BY HeadTailProperties
<1>3. Len(r) = m /\ DOMAIN r = 1 .. m /\ \A k \in 1 .. m : r[k] = q[k + 1]
  BY <1>1, <1>2
<1>4. Head(q) = q[1] /\ 1 \in 1 .. m + 1 /\ q[1] \in S
  BY <1>1
<1>5. \A k \in 1 .. m : k + 1 \in 1 .. m + 1 /\ k + 1 # 1
  OBVIOUS
<1>6. ASSUME NEW n PROVE Contains(q, n) <=> n = q[1] \/ Contains(r, n)
  <2>1. ASSUME NEW k \in 1 .. m + 1, q[k] = n PROVE n = q[1] \/ Contains(r, n)
    <3>1. CASE k = 1
      BY <2>1, <3>1
    <3>2. CASE k # 1
      <4>1. k - 1 \in 1 .. m /\ (k - 1) + 1 = k
        BY <3>2
      <4> QED  BY <1>3, <2>1, <4>1 DEF Contains
    <3> QED  BY <3>1, <3>2
  <2>2. ASSUME NEW k \in 1 .. m, r[k] = n PROVE Contains(q, n)
    BY <1>1, <1>3, <1>5, <2>2 DEF Contains
  <2>3. Contains(q, q[1])
    BY <1>1, <1>4 DEF Contains
  <2> QED  BY <1>1, <1>3, <2>1, <2>2, <2>3 DEF Contains
<1>7. ASSUME IsInjective(q) PROVE IsInjective(r) /\ ~Contains(r, q[1])
  <2>1. ASSUME NEW a \in 1 .. m, NEW b \in 1 .. m, r[a] = r[b] PROVE a = b
    <3>2. q[a + 1] = q[b + 1] /\ a + 1 \in DOMAIN q /\ b + 1 \in DOMAIN q
      BY <1>1, <1>3, <1>5, <2>1
    <3>1. a + 1 = b + 1
      BY <1>7, <3>2 DEF IsInjective
    <3> QED  BY <3>1
  <2>2. \A k \in 1 .. m : r[k] # q[1]
    BY <1>1, <1>3, <1>4, <1>5, <1>7, SMTT(30) DEF IsInjective
  <2> QED  BY <1>3, <2>1, <2>2 DEF IsInjective, Contains
<1> QED  BY <1>2, <1>4, <1>6, <1>7

LEMMA ConcatNew ==
  ASSUME NEW S, NEW p \in Seq(S), NEW q \in Seq(S)
  PROVE  /\ p \o q \in Seq(S)
         /\ \A n : Contains(p \o q, n) <=> Contains(p, n) \/ Contains(q, n)
         /\ IsInjective(p) /\ IsInjective(q) /\ (\A n : ~(Contains(p, n) /\ Contains(q, n)))
              => IsInjective(p \o q)
<1>1. PICK l \in Nat : l = Len(p) /\ DOMAIN p = 1 .. l
  OBVIOUS
<1>2. PICK m \in Nat : m = Len(q) /\ DOMAIN q = 1 .. m
  OBVIOUS
<1>3. PICK r \in Seq(S) : r = p \o q
  BY ConcatProperties
<1>4. /\ Len(r) = l + m /\ DOMAIN r = 1 .. l + m
      /\ \A k \in 1 .. l : r[k] = p[k] /\ k \in 1 .. l + m
      /\ \A k \in 1 .. m : r[l + k] = q[k] /\ l + k \in 1 .. l + m
  <2>1. /\ Len(r) = l + m /\ \A k \in 1 .. l : r[k] = p[k]
        /\ \A k \in 1 .. m : r[l + k] = q[k]
    BY <1>1, <1>2, <1>3, ConcatIs
  <2> QED  BY <2>1, LenProperties
<1>5. \A k \in 1 .. l + m : k \in 1 .. l \/ (k - l \in 1 .. m /\ l + (k - l) = k)
  OBVIOUS
<1>6. ASSUME NEW n PROVE Contains(r, n) <=> Contains(p, n) \/ Contains(q, n)
  <2>1. ASSUME NEW k \in 1 .. l + m, r[k] = n PROVE Contains(p, n) \/ Contains(q, n)
    <3>1. CASE k \in 1 .. l
      BY <1>1, <1>4, <2>1, <3>1 DEF Contains
    <3>2. CASE ~(k \in 1 .. l)
      <4>1. PICK j \in 1 .. m : l + j = k
        BY <1>5, <3>2
      <4>2. q[j] = n
        BY <1>4, <2>1, <4>1
      <4> QED  BY <1>2, <4>2 DEF Contains
    <3> QED  BY <3>1, <3>2
  <2>2. ASSUME NEW k \in 1 .. l, p[k] = n PROVE Contains(r, n)
    BY <1>4, <2>2 DEF Contains
  <2>3. ASSUME NEW k \in 1 .. m, q[k] = n PROVE Contains(r, n)
    <3>1. r[l + k] = n /\ l + k \in 1 .. Len(r)
      BY <1>4, <2>3
    <3> QED  BY <3>1 DEF Contains
  <2> QED  BY <1>1, <1>2, <1>4, <2>1, <2>2, <2>3 DEF Contains
<1>7. ASSUME IsInjective(p), IsInjective(q), \A n : ~(Contains(p, n) /\ Contains(q, n)),
             NEW a \in 1 .. l + m, NEW b \in 1 .. l + m, r[a] = r[b]
      PROVE  a = b
  <2>1. \A x \in 1 .. l, z \in 1 .. m : p[x] # q[z]
    BY <1>1, <1>2, <1>7 DEF Contains
  <2>2. CASE a \in 1 .. l /\ b \in 1 .. l
    BY <1>1, <1>4, <1>7, <2>2 DEF IsInjective
  <2>3. CASE a \in 1 .. l /\ ~(b \in 1 .. l)
    <3>1. PICK z \in 1 .. m : l + z = b
      BY <1>5, <2>3
    <3>2. p[a] = q[z]
      BY <1>4, <1>7, <2>3, <3>1
    <3> QED  BY <2>1, <2>3, <3>2
  <2>4. CASE ~(a \in 1 .. l) /\ b \in 1 .. l
    <3>1. PICK z \in 1 .. m : l + z = a
      BY <1>5, <2>4
    <3>2. p[b] = q[z]
      BY <1>4, <1>7, <2>4, <3>1
    <3> QED  BY <2>1, <2>4, <3>2
  <2>5. CASE ~(a \in 1 .. l) /\ ~(b \in 1 .. l)
    <3>1. PICK x \in 1 .. m : x = a - l /\ r[a] = q[x]
      BY <1>4, <1>5, <2>5
    <3>2. PICK z \in 1 .. m : z = b - l /\ r[b] = q[z]
      BY <1>4, <1>5, <2>5
    <3>3. x = z
      BY <1>2, <1>7, <3>1, <3>2 DEF IsInjective
    <3> QED  BY <3>1, <3>2, <3>3
  <2> QED  BY <2>2, <2>3, <2>4, <2>5
<1> QED  BY <1>3, <1>4, <1>6, <1>7 DEF IsInjective

LEMMA FreshStep ==
  ASSUME NEW t, IsForest(t), NEW Vis, NEW T, Fresh(t, Vis, T), T # <<>>, NEW d, d = Head(T)
  PROVE  d \in Dirs /\ d \notin Vis /\ Fresh(t, Vis \cup {d}, NextStack(t, T))
<1>1. T \in Seq(Dirs) /\ IsInjective(T)
  BY DEF Fresh
<1>2. /\ d \in Dirs /\ Tail(T) \in Seq(Dirs) /\ IsInjective(Tail(T)) /\ ~Contains(Tail(T), d)
      /\ \A n : Contains(T, n) <=> n = d \/ Contains(Tail(T), n)
  BY <1>1, HeadAndTail
<1>3. d \notin Vis /\ Vis \cup {d} \subseteq Dirs
  BY <1>2 DEF Fresh
<1>4. PICK s \in Seq(Dirs) : s = t.subs[d] /\ IsInjective(s) /\ ~Contains(s, Root)
  BY <1>2 DEF IsForest
<1>5. ASSUME NEW n, Contains(s, n), n \in Vis \/ Contains(T, n)
      PROVE  FALSE
  <2>1. n # Root
    BY <1>4, <1>5
  <2>2. PICK q \in Vis : Contains(t.subs[q], n)
    BY <1>5, <2>1 DEF Fresh
  <2>3. q = d
    BY <1>2, <1>3, <1>4, <1>5, <2>2 DEF IsForest
  <2> QED  BY <1>3, <2>3
<1>6. PICK r : r = Tail(T)
  OBVIOUS
<1>7. PICK T1 : T1 = s \o r /\ T1 = NextStack(t, T)
  BY <1>4, <1>6 DEF NextStack
<1>8. /\ T1 \in Seq(Dirs) /\ IsInjective(T1)
      /\ \A n : Contains(T1, n) <=> Contains(s, n) \/ Contains(r, n)
  <2>1. r \in Seq(Dirs) /\ IsInjective(r) /\ \A n : ~(Contains(s, n) /\ Contains(r, n))
    BY <1>2, <1>5, <1>6
  <2>2. s \in Seq(Dirs) /\ IsInjective(s)
    BY <1>4
  <2>3. /\ s \o r \in Seq(Dirs)
        /\ \A n : Contains(s \o r, n) <=> Contains(s, n) \/ Contains(r, n)
        /\ IsInjective(s) /\ IsInjective(r) /\ (\A n : ~(Contains(s, n) /\ Contains(r, n)))
              => IsInjective(s \o r)
    BY ONLY <2>1, <2>2, ConcatNew
  <2> QED  BY <1>7, <2>1, <2>2, <2>3
<1>9. \A n : Contains(T1, n) => n \notin Vis \cup {d}
  BY <1>2, <1>5, <1>6, <1>8 DEF Fresh
<1>10. ASSUME NEW n, n \in Vis \cup {d} \/ Contains(T1, n)
       PROVE  n = Root \/ \E q \in Vis \cup {d} : Contains(t.subs[q], n)
  <2>1. CASE Contains(s, n)
    BY <1>4, <2>1
  <2>2. CASE ~Contains(s, n)
    <3>1. n \in Vis \/ Contains(T, n)
      BY <1>2, <1>6, <1>8, <1>10, <2>2
    <3> QED  BY <3>1 DEF Fresh
  <2> QED  BY <2>1, <2>2
<1>11. Fresh(t, Vis \cup {d}, T1)
  BY <1>3, <1>8, <1>9, <1>10 DEF Fresh
<1> QED  BY <1>2, <1>3, <1>7, <1>11

-----------------------------------------------------------------------------
(* The path tables.                                                         *)

\* No directory is cut off from the root.
IsConnected(t) ==
  \A S \in SUBSET (Dirs \ {Root}) :
    S # {} => \E n \in S : \E d \in Dirs \ S : Contains(t.subs[d], n)

LEMMA TreeIsConnected ==
  ASSUME IsTree(kids)
  PROVE  IsConnected(TreeData)
<1>1. SUFFICES ASSUME NEW S \in SUBSET (Dirs \ {Root}), S # {}
               PROVE  \E n \in S : \E d \in Dirs \ S : Contains(TreeData.subs[d], n)
  BY DEF IsConnected
<1>2. PICK n \in S, d \in Dirs \ S : Contains(kids[d], n)
  BY <1>1 DEF IsTree
<1>3. kids[d] \in Seq(Nodes) /\ IsInjective(kids[d]) /\ n \in Dirs
  BY DEF IsTree
<1>4. Contains(SubDirs(d), n) /\ TreeData.subs[d] = SubDirs(d)
  BY <1>2, <1>3, SubDirsAre DEF TreeData
<1> QED  BY <1>4

\* A list without repetitions that has the subdirectories of all its members and the
\* root has all directories.
LEMMA AllListed ==
  ASSUME IsFiniteSet(Dirs), NEW t, IsConnected(t), NEW q \in Seq(Dirs), NEW m \in Nat, m = Len(q),
         IsInjective(q), Contains(q, Root),
         \A i \in 1 .. m : \A x : Contains(t.subs[q[i]], x) => Contains(q, x)
  PROVE  Cardinality(Dirs) = m
<1> DEFINE S == {d \in Dirs : ~Contains(q, d)}
<1>1. S = {}
  <2>1. SUFFICES ASSUME S # {} PROVE FALSE
    OBVIOUS
  <2>2. S \in SUBSET (Dirs \ {Root})
    OBVIOUS
  <2>3. PICK n \in S, d \in Dirs \ S : Contains(t.subs[d], n)
    BY <2>1, <2>2 DEF IsConnected
  <2>4. PICK i \in 1 .. m : q[i] = d
    BY <2>3 DEF Contains
  <2> QED  BY <2>3, <2>4
<1>2. q \in [1 .. m -> Dirs]
  OBVIOUS
<1>3. \A d \in Dirs : \E i \in 1 .. m : q[i] = d
  BY <1>1 DEF Contains
<1>4. q \in Bijection(1 .. m, Dirs)
  BY <1>2, <1>3 DEF Bijection, Injection, Surjection
<1>5. ExistsBijection(1 .. m, Dirs)
  BY <1>4 DEF ExistsBijection
<1> QED  BY <1>5, FS_CountingElements

LEMMA AtMostAll ==
  ASSUME IsFiniteSet(Dirs), NEW q \in Seq(Dirs), NEW m \in Nat, m = Len(q), IsInjective(q)
  PROVE  Cardinality(Dirs) \in Nat /\ m =< Cardinality(Dirs)
<1>1. q \in Injection(1 .. m, Dirs)
  BY DEF Injection
<1>2. Cardinality(1 .. m) = m
  <2>1. 1 \in Int /\ m \in Int
    OBVIOUS
  <2>2. Cardinality(1 .. m) = IF 1 > m THEN 0 ELSE m - 1 + 1
    BY <2>1, FS_Interval
  <2> QED  BY <2>2
<1> QED  BY <1>1, <1>2, FS_Injection, FS_CardinalityType

\* q lists the root and the subdirectories of its first k members.  pa[j] is the place
\* of the parent of member j.
ListedUpTo(t, q, m, k, pa) ==
  /\ q \in Seq(Dirs) /\ m \in Nat /\ m = Len(q) /\ IsInjective(q)
  /\ m >= 1 /\ q[1] = Root /\ m >= k
  /\ \A j \in 2 .. m : /\ pa[j] \in 1 .. k /\ pa[j] < j
                       /\ Contains(t.subs[q[pa[j]]], q[j])
  /\ \A i, j \in 2 .. m : i < j => pa[i] =< pa[j]
  /\ \A i \in 1 .. k : \A x : Contains(t.subs[q[i]], x) => Contains(q, x)

LEMMA ListStep ==
  ASSUME NEW t, IsForest(t), NEW q, NEW m, NEW k \in Nat, NEW pa, ListedUpTo(t, q, m, k, pa),
         m >= k + 1
  PROVE  \E m1, pa1 : ListedUpTo(t, q \o t.subs[q[k + 1]], m1, k + 1, pa1)
<1>1. q \in Seq(Dirs) /\ m \in Nat /\ m = Len(q) /\ IsInjective(q) /\ DOMAIN q = 1 .. m
  BY DEF ListedUpTo
<1>2. k + 1 \in 1 .. m /\ q[k + 1] \in Dirs
  BY <1>1
<1>3. PICK s \in Seq(Dirs) : s = t.subs[q[k + 1]] /\ IsInjective(s) /\ ~Contains(s, Root)
  BY <1>2 DEF IsForest
<1>4. PICK l \in Nat : l = Len(s) /\ DOMAIN s = 1 .. l
  OBVIOUS
<1>5. \A n : ~(Contains(q, n) /\ Contains(s, n))
  <2>1. SUFFICES ASSUME NEW n, Contains(q, n), Contains(s, n) PROVE FALSE
    OBVIOUS
  <2>2. PICK j \in 1 .. m : q[j] = n
    BY <1>1, <2>1 DEF Contains
  <2>3. j # 1
    BY <1>3, <2>1, <2>2 DEF ListedUpTo
  <2>4. j \in 2 .. m
    BY <2>3
  <2>5. pa[j] \in 1 .. k /\ Contains(t.subs[q[pa[j]]], n)
    BY <2>2, <2>4 DEF ListedUpTo
  <2>6. pa[j] \in 1 .. m /\ q[pa[j]] \in Dirs
    BY <1>1, <1>2, <2>5
  <2>7. q[pa[j]] = q[k + 1]
    BY <1>2, <1>3, <2>1, <2>5, <2>6 DEF IsForest
  <2>8. pa[j] = k + 1
    BY <1>1, <1>2, <2>6, <2>7 DEF IsInjective
  <2> QED  BY <2>5, <2>8
<1>6. PICK r \in Seq(Dirs) : r = q \o s
  BY <1>1, ConcatProperties
<1>7. /\ Len(r) = m + l /\ \A i \in 1 .. m : r[i] = q[i]
      /\ \A i \in 1 .. l : r[m + i] = s[i]
  BY <1>1, <1>4, <1>6, ConcatIs
<1>8. IsInjective(r) /\ \A n : Contains(r, n) <=> Contains(q, n) \/ Contains(s, n)
  <2>1. /\ q \o s \in Seq(Dirs)
        /\ \A n : Contains(q \o s, n) <=> Contains(q, n) \/ Contains(s, n)
        /\ IsInjective(q) /\ IsInjective(s) /\ (\A n : ~(Contains(q, n) /\ Contains(s, n)))
              => IsInjective(q \o s)
    BY ONLY <1>1, <1>3, ConcatNew
  <2> QED  BY <1>1, <1>3, <1>5, <1>6, <2>1
<1> DEFINE pb == [j \in 1 .. m + l |-> IF j =< m THEN pa[j] ELSE k + 1]
<1>9. /\ \A j \in 2 .. m + l : pb[j] = IF j =< m THEN pa[j] ELSE k + 1
      /\ \A j \in 2 .. m + l : j =< m => j \in 2 .. m
  OBVIOUS
<1> HIDE DEF pb
<1>10. ASSUME NEW j \in 2 .. m + l
       PROVE  pb[j] \in 1 .. k + 1 /\ pb[j] < j /\ Contains(t.subs[r[pb[j]]], r[j])
  <2>1. CASE j =< m
    <3>1. j \in 2 .. m /\ j \in 1 .. m /\ pb[j] = pa[j]
      BY <1>9, <2>1
    <3>2. pa[j] \in 1 .. k /\ pa[j] < j /\ Contains(t.subs[q[pa[j]]], q[j])
      BY <3>1 DEF ListedUpTo
    <3>3. pa[j] \in 1 .. m /\ pa[j] \in 1 .. k + 1
      BY <1>1, <1>2, <3>2
    <3> QED  BY <1>7, <3>1, <3>2, <3>3
  <2>2. CASE ~(j =< m)
    <3>1. pb[j] = k + 1 /\ r[k + 1] = q[k + 1] /\ k + 1 < j
      BY <1>1, <1>2, <1>7, <1>9, <2>2
    <3>2. PICK i \in 1 .. l : m + i = j
      <4>1. j - m \in 1 .. l /\ m + (j - m) = j
        BY <1>1, <2>2
      <4> QED  BY <4>1
    <3>3. Contains(s, r[j])
      BY <1>4, <1>7, <3>2 DEF Contains
    <3> QED  BY <1>3, <3>1, <3>3
  <2> QED  BY <2>1, <2>2
<1>11. ASSUME NEW i \in 2 .. m + l, NEW j \in 2 .. m + l, i < j
       PROVE  pb[i] =< pb[j]
  <2>1. CASE j =< m
    <3>1. i \in 2 .. m /\ j \in 2 .. m /\ pb[i] = pa[i] /\ pb[j] = pa[j]
      BY <1>1, <1>9, <1>11, <2>1
    <3> QED  BY <1>11, <3>1 DEF ListedUpTo
  <2>2. CASE ~(j =< m)
    BY <1>9, <1>10, <2>2
  <2> QED  BY <2>1, <2>2
<1>12. ASSUME NEW i \in 1 .. k + 1, NEW x, Contains(t.subs[r[i]], x)
       PROVE  Contains(r, x)
  <2>1. i \in 1 .. m /\ r[i] = q[i]
    BY <1>1, <1>2, <1>7
  <2>2. CASE i = k + 1
    BY <1>3, <1>8, <1>12, <2>1, <2>2
  <2>3. CASE i # k + 1
    <3>1. i \in 1 .. k
      BY <2>3
    <3>2. Contains(q, x)
      BY <1>12, <2>1, <3>1 DEF ListedUpTo
    <3> QED  BY <1>8, <3>2
  <2> QED  BY <2>2, <2>3
<1>13. m + l \in Nat /\ m + l >= 1 /\ m + l >= k + 1 /\ r[1] = Root
  BY <1>1, <1>2, <1>7 DEF ListedUpTo
<1>14. ListedUpTo(t, r, m + l, k + 1, pb)
  BY <1>7, <1>8, <1>10, <1>11, <1>12, <1>13 DEF ListedUpTo
<1> QED  BY <1>3, <1>6, <1>14

\* write_path_tables() lists each directory once, its parent before, and in the order
\* of the parents.
LEMMA PathlistIs ==
  ASSUME TreeAssumption, IsTree(kids)
  PROVE  \E n \in Nat : \E pa : /\ n = Cardinality(Dirs) /\ n >= 1
                                /\ ListedUpTo(TreeData, Pathlist, n, n, pa)
<1>1. IsFiniteSet(Dirs) /\ Root \in Dirs
  BY DEF TreeAssumption
<1>2. PICK n \in Nat : n = Cardinality(Dirs)
  BY <1>1, FS_CardinalityType
<1>3. PICK t : t = TreeData /\ IsForest(t) /\ IsConnected(t)
  BY TreeIsForest, TreeIsConnected
<1> DEFINE c == [op |-> "list"]
           w == [k \in 1 .. n |-> k]
<1>4. PICK y : IsChain(c, <<Root>>, w, n, y) /\ ListFold(w) = y[n]
  <2>1. DOMAIN w = 1 .. n
    OBVIOUS
  <2> HIDE DEF w
  <2> QED  BY <2>1, ListChain
<1>5. Pathlist = y[n]
  BY <1>2, <1>4 DEF Pathlist, ListFold
<1>6. \A a, v : FoldStep(c, a, v) = a \o SubDirs(a[v])
  BY DEF FoldStep
<1> HIDE DEF c
<1> DEFINE P == {k \in 0 .. n : \E m, pa : ListedUpTo(t, y[k], m, k, pa)}
<1>7. 0 \in P
  <2>a. <<Root>> \in Seq(Dirs)
    BY <1>1
  <2>1. PICK q \in Seq(Dirs) : q = <<Root>>
    BY <2>a
  <2>2. Len(q) = 1 /\ DOMAIN q = {1} /\ q[1] = Root /\ 2 .. 1 = {} /\ 1 .. 0 = {}
    BY <2>1
  <2>3. IsInjective(q)
    BY <2>2 DEF IsInjective
  <2>4. ListedUpTo(t, q, 1, 0, <<>>)
    BY <2>2, <2>3 DEF ListedUpTo
  <2>5. y[0] = q /\ 0 \in 0 .. n
    BY <1>4, <2>1 DEF IsChain
  <2> QED  BY <2>4, <2>5
<1>8. ASSUME NEW k \in 0 .. n, NEW m, NEW pa, ListedUpTo(t, y[k], m, k, pa)
      PROVE  m \in Nat /\ m =< n /\ (k < n => m >= k + 1)
  <2>1. PICK q \in Seq(Dirs) : q = y[k] /\ m = Len(q) /\ IsInjective(q)
    BY <1>8 DEF ListedUpTo
  <2>2. m \in Nat /\ m >= k /\ m >= 1 /\ q[1] = Root
    BY <1>8, <2>1 DEF ListedUpTo
  <2>3. m =< n
    BY <1>1, <1>2, <2>1, <2>2, AtMostAll
  <2>4. ASSUME m = k PROVE m = n
    <3>1. Contains(q, Root)
      BY <2>1, <2>2 DEF Contains
    <3>2. \A i \in 1 .. m : \A x : Contains(t.subs[q[i]], x) => Contains(q, x)
      BY <1>8, <2>1, <2>4 DEF ListedUpTo
    <3> QED  BY <1>1, <1>2, <1>3, <2>1, <2>2, <3>1, <3>2, AllListed
  <2> QED  BY <2>2, <2>3, <2>4
<1>9. ASSUME NEW k \in 0 .. n - 1, k \in P PROVE k + 1 \in P
  <2>1. k + 1 \in 1 .. n /\ k + 1 \in 0 .. n /\ (k + 1) - 1 = k /\ k \in 0 .. n /\ k < n /\ k \in Nat
    OBVIOUS
  <2>2. PICK m, pa : ListedUpTo(t, y[k], m, k, pa)
    BY <1>9
  <2>3. m \in Nat /\ m >= k + 1
    BY <1>8, <2>1, <2>2
  <2>4. y[k + 1] = y[k] \o SubDirs(y[k][k + 1])
    <3>1. w[k + 1] = k + 1
      BY <2>1
    <3> HIDE DEF w
    <3> QED  BY <1>4, <1>6, <2>1, <3>1 DEF IsChain
  <2>5. y[k][k + 1] \in Dirs
    <3>1. PICK q \in Seq(Dirs) : q = y[k] /\ m = Len(q)
      BY <2>2 DEF ListedUpTo
    <3>2. k + 1 \in 1 .. m
      BY <2>1, <2>3
    <3> QED  BY <3>1, <3>2
  <2>6. t.subs[y[k][k + 1]] = SubDirs(y[k][k + 1])
    BY <1>3, <2>5 DEF TreeData
  <2>7. \E m1, pa1 : ListedUpTo(t, y[k] \o t.subs[y[k][k + 1]], m1, k + 1, pa1)
    BY <1>3, <2>1, <2>2, <2>3, ListStep
  <2> QED  BY <2>1, <2>4, <2>6, <2>7
<1>10. \A k \in 0 .. n - 1 : k \in P => k + 1 \in P
  BY <1>9
<1> HIDE DEF P, w
<1>11. \A k \in 0 .. n : k \in P
  BY <1>7, <1>10, UpTo
<1>12. n \in P
  BY <1>11
<1>13. PICK m, pa : ListedUpTo(t, y[n], m, n, pa)
  BY <1>12 DEF P
<1>14. m = n /\ n >= 1
  <2>1. m \in Nat /\ m =< n
    BY <1>8, <1>13
  <2>2. m >= n /\ m >= 1
    BY <1>13 DEF ListedUpTo
  <2> QED  BY <2>1, <2>2
<1> QED  BY <1>2, <1>3, <1>5, <1>13, <1>14

LEMMA MinIs ==
  ASSUME NEW s \in SUBSET Nat, NEW k \in s, \A j \in s : k =< j
  PROVE  Min(s) = k
<1>1. PICK m \in s : m = Min(s) /\ m =< k
  BY DEF Min
<1> QED  BY <1>1

LEMMA ParentIs ==
  ASSUME IsTree(kids), NEW p \in Dirs, NEW d, Contains(SubDirs(p), d)
  PROVE  Parent(d) = p
<1>1. kids[p] \in Seq(Nodes) /\ IsInjective(kids[p])
  BY DEF IsTree
<1>2. d \in Dirs /\ Contains(kids[p], d)
  BY <1>1, SubDirsAre
<1>3. d \in Nodes \ {Root}
  BY <1>2 DEF IsTree, Nodes
<1>4. PICK x \in Dirs : \A q \in Dirs : Contains(kids[q], d) <=> q = x
  BY <1>3 DEF IsTree
<1> QED  BY <1>2, <1>4 DEF Parent

EntryOf(list, pa, k) ==
  [dir |-> list[k], len |-> 8 + Even(IdLen(list[k]) % 256), parent |-> IF k = 1 THEN 1 ELSE pa[k]]

\* The search in write_path_table() finds the parent, from wherever it starts.
LEMMA PathRecordIs ==
  ASSUME IsTree(kids), NEW n \in Nat, NEW list, NEW pa, ListedUpTo(TreeData, list, n, n, pa),
         NEW k \in 1 .. n, NEW acc, k > 1 => acc[k - 1] = EntryOf(list, pa, k - 1)
  PROVE  PathRecord(list, acc, k) = EntryOf(list, pa, k)
<1> DEFINE from == IF k = 1 THEN 1 ELSE acc[k - 1].parent
           hits == {j \in from .. Len(list) : k = 1 \/ list[j] = Parent(list[k])}
<1>1. PathRecord(list, acc, k)
        = [dir |-> list[k], len |-> 8 + Even(IdLen(list[k]) % 256),
           parent |-> IF hits = {} THEN 0 ELSE Min(hits)]
  BY DEF PathRecord
<1>2. list \in Seq(Dirs) /\ Len(list) = n /\ IsInjective(list) /\ DOMAIN list = 1 .. n
  <2>1. list \in Seq(Dirs) /\ Len(list) = n /\ IsInjective(list)
    BY DEF ListedUpTo
  <2> QED  BY <2>1, LenProperties
<1>3. CASE k = 1
  <2>1. hits = 1 .. n
    BY <1>2, <1>3
  <2> HIDE DEF hits
  <2>2. 1 \in hits /\ \A j \in hits : 1 =< j
    BY <2>1
  <2>3. Min(hits) = 1
    BY <2>1, <2>2, MinIs
  <2> QED  BY <1>1, <1>3, <2>2, <2>3 DEF EntryOf
<1>4. CASE k # 1
  <2>1. k \in 2 .. n /\ k - 1 \in 1 .. n
    BY <1>4
  <2>2. PICK a \in Nat : a = pa[k] /\ a \in 1 .. n /\ Contains(TreeData.subs[list[a]], list[k])
    BY <2>1 DEF ListedUpTo
  <2>3. Parent(list[k]) = list[a]
    <3>1. list[a] \in Dirs
      BY <1>2, <2>2
    <3>2. Contains(SubDirs(list[a]), list[k])
      BY <2>2, <3>1 DEF TreeData
    <3> QED  BY <3>1, <3>2, ParentIs
  <2>4. from = IF k - 1 = 1 THEN 1 ELSE pa[k - 1]
    BY <1>4 DEF EntryOf
  <2>5. from \in 1 .. a
    <3>1. CASE k - 1 = 1
      BY <2>2, <2>4, <3>1
    <3>2. CASE k - 1 # 1
      <4>1. k - 1 \in 2 .. n /\ k - 1 < k
        BY <2>1, <3>2
      <4>2. pa[k - 1] \in 1 .. n /\ pa[k - 1] =< pa[k]
        BY <2>1, <4>1 DEF ListedUpTo
      <4> QED  BY <2>2, <2>4, <3>2, <4>2
    <3> QED  BY <3>1, <3>2
  <2> HIDE DEF from
  <2>6. hits = {a}
    <3>1. a \in from .. n /\ \A j \in from .. n : j \in 1 .. n
      BY <2>2, <2>5
    <3>2. \A j \in from .. n : list[j] = list[a] => j = a
      BY <1>2, <2>2, <3>1 DEF IsInjective
    <3> QED  BY <1>2, <1>4, <2>3, <3>1, <3>2
  <2> HIDE DEF hits
  <2>7. Min(hits) = a
    BY <2>6, MinIs
  <2> QED  BY <1>1, <1>4, <2>2, <2>6, <2>7 DEF EntryOf
<1> QED  BY <1>3, <1>4

LEMMA PathTableIs ==
  ASSUME IsTree(kids), NEW n \in Nat, NEW pa, ListedUpTo(TreeData, Pathlist, n, n, pa)
  PROVE  /\ IsList(PathTable) /\ Len(PathTable) = n
         /\ \A k \in 1 .. n : PathTable[k] = EntryOf(Pathlist, pa, k)
<1> DEFINE w == [k \in 1 .. n |-> k]
<1>1. PICK list : list = Pathlist
  OBVIOUS
<1>2. Len(list) = n
  BY <1>1 DEF ListedUpTo
<1> DEFINE c == [op |-> "table", list |-> list]
<1>3. PICK y : IsChain(c, <<>>, w, n, y) /\ TableFold(list, w) = y[n]
  <2>1. DOMAIN w = 1 .. n
    OBVIOUS
  <2> HIDE DEF w
  <2> QED  BY <2>1, TableChain
<1>4. PathTable = y[n]
  <2>1. PathTable = TableFold(Pathlist, [k \in 1 .. Len(Pathlist) |-> k])
    BY DEF PathTable, TableFold
  <2> QED  BY <1>1, <1>2, <1>3, <2>1
<1>5. \A a, v : FoldStep(c, a, v) = Append(a, PathRecord(list, a, v))
  BY DEF FoldStep
<1> HIDE DEF c
<1> DEFINE Good(k) == /\ IsList(y[k]) /\ Len(y[k]) = k
                      /\ \A j \in 1 .. k : y[k][j] = EntryOf(list, pa, j)
           P == {k \in 0 .. n : Good(k)}
<1>6. 0 \in P
  <2>1. PICK q : q = <<>>
    OBVIOUS
  <2>2. IsList(q) /\ Len(q) = 0 /\ 1 .. 0 = {}
    BY <2>1 DEF IsList
  <2>3. y[0] = q /\ 0 \in 0 .. n
    BY <1>3, <2>1 DEF IsChain
  <2> QED  BY <2>2, <2>3
<1>7. ASSUME NEW k \in 0 .. n - 1, k \in P PROVE k + 1 \in P
  <2>1. k + 1 \in 1 .. n /\ k + 1 \in 0 .. n /\ (k + 1) - 1 = k /\ k \in Nat
    OBVIOUS
  <2>2. y[k + 1] = Append(y[k], PathRecord(list, y[k], k + 1))
    <3>1. w[k + 1] = k + 1
      BY <2>1
    <3> HIDE DEF w
    <3> QED  BY <1>3, <1>5, <2>1, <3>1 DEF IsChain
  <2>3. PICK q : q = y[k] /\ IsList(q) /\ Len(q) = k /\ \A j \in 1 .. k : q[j] = EntryOf(list, pa, j)
    BY <1>7
  <2>4. PathRecord(list, q, k + 1) = EntryOf(list, pa, k + 1)
    <3>1. k + 1 > 1 => q[(k + 1) - 1] = EntryOf(list, pa, (k + 1) - 1)
      BY <2>1, <2>3
    <3> QED  BY <1>1, <2>1, <3>1, PathRecordIs
  <2>5. PICK p : p = EntryOf(list, pa, k + 1)
    OBVIOUS
  <2>6. PICK T : q \in Seq(T)
    BY <2>3 DEF IsList
  <2>7. q \in Seq(T \cup {p}) /\ p \in T \cup {p}
    BY <2>6
  <2>8. PICK r : r = Append(q, p)
    OBVIOUS
  <2>9. /\ r \in Seq(T \cup {p}) /\ Len(r) = k + 1 /\ r[k + 1] = p
        /\ \A j \in 1 .. k : r[j] = q[j]
    BY <2>1, <2>3, <2>7, <2>8
  <2>10. \A j \in 1 .. k + 1 : r[j] = EntryOf(list, pa, j)
    <3> TAKE j \in 1 .. k + 1
    <3>1. j = k + 1 \/ j \in 1 .. k
      OBVIOUS
    <3> QED  BY <2>3, <2>5, <2>9, <3>1
  <2>11. y[k + 1] = r
    BY <2>2, <2>3, <2>4, <2>5, <2>8
  <2> QED  BY <2>1, <2>9, <2>10, <2>11 DEF IsList
<1>8. \A k \in 0 .. n - 1 : k \in P => k + 1 \in P
  BY <1>7
<1> HIDE DEF P
<1>9. \A k \in 0 .. n : k \in P
  BY <1>6, <1>8, UpTo
<1>10. n \in P
  BY <1>9
<1> QED  BY <1>1, <1>4, <1>10 DEF P

\* h has the sum of f over each subset of 1..n, in whichever order it is made.
Sums(n, f, h) == /\ h \in [SUBSET (1 .. n) -> Nat]
                 /\ h[{}] = 0
                 /\ \A s \in SUBSET (1 .. n) : \A y \in s : h[s] = f[y] + h[s \ {y}]

LEMMA SumsGrow ==
  ASSUME NEW n \in Nat, NEW f, \A i \in 1 .. n + 1 : f[i] \in Nat, NEW h, Sums(n, f, h)
  PROVE  \E g : Sums(n + 1, f, g)
<1> DEFINE g == [s \in SUBSET (1 .. n + 1) |-> h[s \ {n + 1}] + (IF n + 1 \in s THEN f[n + 1] ELSE 0)]
<1>1. \A s \in SUBSET (1 .. n + 1) : s \ {n + 1} \in SUBSET (1 .. n) /\ h[s \ {n + 1}] \in Nat
  <2> TAKE s \in SUBSET (1 .. n + 1)
  <2>1. s \ {n + 1} \in SUBSET (1 .. n)
    OBVIOUS
  <2> QED  BY <2>1 DEF Sums
<1>2. f[n + 1] \in Nat
  OBVIOUS
<1>3. \A s \in SUBSET (1 .. n + 1) :
        g[s] = h[s \ {n + 1}] + (IF n + 1 \in s THEN f[n + 1] ELSE 0) /\ g[s] \in Nat
  BY <1>1, <1>2
<1>4. g = [s \in SUBSET (1 .. n + 1) |-> g[s]]
  OBVIOUS
<1> HIDE DEF g
<1>5. g \in [SUBSET (1 .. n + 1) -> Nat]
  BY <1>3, <1>4
<1>6. g[{}] = 0
  <2>1. PICK s \in SUBSET (1 .. n + 1) : s = {}
    OBVIOUS
  <2>2. s \ {n + 1} = {} /\ n + 1 \notin s
    BY <2>1
  <2>3. g[s] = h[{}] + 0
    BY <1>3, <2>2
  <2> QED  BY <2>1, <2>3 DEF Sums
<1>7. ASSUME NEW s \in SUBSET (1 .. n + 1), NEW y \in s
      PROVE  g[s] = f[y] + g[s \ {y}]
  <2>1. PICK r \in SUBSET (1 .. n + 1) : r = s \ {y}
    OBVIOUS
  <2>2. CASE y = n + 1
    <3>1. r \ {n + 1} = s \ {n + 1} /\ n + 1 \notin r /\ n + 1 \in s
      BY <2>1, <2>2
    <3>2. PICK v \in Nat : v = h[s \ {n + 1}]
      BY <1>1
    <3>3. g[s] = v + f[n + 1] /\ g[r] = v + 0
      BY <1>3, <3>1, <3>2
    <3> QED  BY <1>2, <2>1, <2>2, <3>3
  <2>3. CASE y # n + 1
    <3>1. PICK a \in SUBSET (1 .. n) : a = s \ {n + 1}
      BY <1>1
    <3>2. y \in a /\ r \ {n + 1} = a \ {y} /\ (n + 1 \in r <=> n + 1 \in s)
      BY <2>1, <2>3, <3>1
    <3>3. h[a] = f[y] + h[a \ {y}]
      BY <3>2 DEF Sums
    <3>4. PICK v \in Nat : v = h[a \ {y}]
      BY <1>1, <2>1, <3>2
    <3>5. PICK w \in Nat : w = IF n + 1 \in s THEN f[n + 1] ELSE 0
      BY <1>2
    <3>6. PICK u \in Nat : u = f[y]
      OBVIOUS
    <3>7. g[s] = (u + v) + w /\ g[r] = v + w
      BY <1>3, <3>1, <3>2, <3>3, <3>4, <3>5, <3>6
    <3> QED  BY <2>1, <3>6, <3>7
  <2> QED  BY <2>2, <2>3
<1> QED  BY <1>5, <1>6, <1>7, ZenonT(30) DEF Sums

LEMMA SumsExist ==
  ASSUME NEW n \in Nat, NEW f, \A i \in 1 .. n : f[i] \in Nat
  PROVE  \E h : Sums(n, f, h)
<1> DEFINE P == {k \in 0 .. n : \E h : Sums(k, f, h)}
<1>1. 0 \in P
  <2> DEFINE h == [s \in SUBSET (1 .. 0) |-> 0]
  <2>1. 1 .. 0 = {}
    OBVIOUS
  <2>2. Sums(0, f, h)
    BY <2>1 DEF Sums
  <2> QED  BY <2>2
<1>2. ASSUME NEW k \in 0 .. n - 1, k \in P PROVE k + 1 \in P
  <2>1. \A i \in 1 .. k + 1 : f[i] \in Nat
    OBVIOUS
  <2>2. \E h : Sums(k, f, h)
    BY <1>2
  <2>3. \E h : Sums(k + 1, f, h)
    BY <2>1, <2>2, SumsGrow
  <2> QED  BY <2>3
<1>3. \A k \in 0 .. n - 1 : k \in P => k + 1 \in P
  BY <1>2
<1> HIDE DEF P
<1>4. \A k \in 0 .. n : k \in P
  BY <1>1, <1>3, UpTo
<1>5. n \in P
  BY <1>4
<1> QED  BY <1>5 DEF P

AnyOf(s) == CHOOSE x \in s : TRUE

\* calc_path_table_size() adds the directories in some order.
IsSetFold(f, S, h) ==
  h = [s \in SUBSET S |-> IF s = {} THEN 0 ELSE f[AnyOf(s)] + h[s \ {AnyOf(s)}]]

\* list has the members of S, g their values under f.
ListsValues(n, list, S, f, g) ==
  /\ n \in Nat /\ list \in Bijection(1 .. n, S) /\ IsFiniteSet(S)
  /\ \A k \in 1 .. n : g[k] = f[list[k]]

LEMMA SetFoldIs ==
  ASSUME NEW n, NEW list, NEW S, NEW f, NEW g, ListsValues(n, list, S, f, g),
         NEW h, Sums(n, g, h)
  PROVE  SumOver(f, S) = h[1 .. n]
<1>1. SumOver(f, S) = (CHOOSE G : IsSetFold(f, S, G))[S]
  BY DEF SumOver, FoldFunctionOnSet, MapThenFoldSet, IsSetFold, AnyOf
<1>2. /\ \A k \in 1 .. n : list[k] \in S
      /\ \A i, j \in 1 .. n : list[i] = list[j] => i = j
      /\ \A x \in S : \E k \in 1 .. n : list[k] = x
  BY DEF ListsValues, Bijection, Injection, Surjection, IsInjective
<1>a. n \in Nat /\ IsFiniteSet(S) /\ \A k \in 1 .. n : g[k] = f[list[k]]
  BY DEF ListsValues
<1> DEFINE Places(s) == {k \in 1 .. n : list[k] \in s}
           F == [s \in SUBSET S |-> h[Places(s)]]
<1>3. \A s \in SUBSET S : F[s] = h[Places(s)]
  OBVIOUS
<1>4. ASSUME NEW s \in SUBSET S
      PROVE  F[s] = IF s = {} THEN 0 ELSE f[AnyOf(s)] + F[s \ {AnyOf(s)}]
  <2>1. CASE s = {}
    <3>1. Places(s) = {}
      BY <2>1
    <3> QED  BY <1>3, <2>1, <3>1 DEF Sums
  <2>2. CASE s # {}
    <3>1. PICK x \in s : x = AnyOf(s)
      BY <2>2 DEF AnyOf
    <3>2. PICK k \in 1 .. n : list[k] = x
      BY <1>2
    <3>3. Places(s \ {x}) = Places(s) \ {k} /\ k \in Places(s) /\ Places(s) \in SUBSET (1 .. n)
      BY <1>2, <3>2
    <3>4. h[Places(s)] = g[k] + h[Places(s) \ {k}]
      BY <3>3 DEF Sums
    <3>5. F[s \ {x}] = h[Places(s \ {x})]
      BY <1>3
    <3>6. F[s] = h[Places(s)] /\ g[k] = f[x]
      BY <1>3, <1>a, <3>2
    <3> HIDE DEF Places, F
    <3>7. F[s] = f[x] + F[s \ {x}]
      BY <3>3, <3>4, <3>5, <3>6
    <3> QED  BY <2>2, <3>1, <3>7
  <2> QED  BY <2>1, <2>2
<1>5. F = [s \in SUBSET S |-> F[s]]
  OBVIOUS
<1>6. F[S] = h[1 .. n]
  <2>1. Places(S) = 1 .. n
    BY <1>2
  <2> QED  BY <1>3, <2>1
<1> HIDE DEF F
<1>7. IsSetFold(f, S, F)
  BY <1>4, <1>5 DEF IsSetFold
<1>8. PICK G : G = (CHOOSE H : IsSetFold(f, S, H))
  OBVIOUS
<1>9. IsSetFold(f, S, G)
  BY <1>7, <1>8
<1>10. \A s \in SUBSET S : G[s] = F[s]
  <2> DEFINE T == {Cardinality(s) : s \in {s \in SUBSET S : G[s] # F[s]}}
  <2>1. \A s \in SUBSET S : IsFiniteSet(s) /\ Cardinality(s) \in Nat
    BY <1>a, FS_Subset, FS_CardinalityType
  <2>2. SUFFICES ASSUME T # {} PROVE FALSE
    OBVIOUS
  <2>3. T \subseteq Nat
    BY <2>1
  <2>4. PICK m \in T : \A y \in T : m =< y
    BY <2>2, <2>3, LeastNatural
  <2>5. PICK s \in SUBSET S : G[s] # F[s] /\ m = Cardinality(s)
    BY <2>4
  <2>6. s # {}
    BY <1>7, <1>9, <2>5 DEF IsSetFold
  <2>7. PICK x \in s : x = AnyOf(s)
    BY <2>6 DEF AnyOf
  <2>8. Cardinality(s \ {x}) = Cardinality(s) - 1
    BY <2>1, FS_RemoveElement
  <2>9. ~(m <= Cardinality(s \ {x}))
    BY <2>1, <2>5, <2>8
  <2>10. G[s \ {x}] = F[s \ {x}]
    BY <2>4, <2>9
  <2>11. G[s] = f[x] + G[s \ {x}]
    BY <1>9, <2>6, <2>7 DEF IsSetFold
  <2>12. F[s] = f[x] + F[s \ {x}]
    BY <1>7, <2>6, <2>7 DEF IsSetFold
  <2> QED  BY <2>5, <2>10, <2>11, <2>12
<1> QED  BY <1>1, <1>6, <1>8, <1>10

\* The path tables take what calc_path_table_size() counts.
LEMMA PathTableFits ==
  ASSUME TreeAssumption, IsTree(kids), \A n \in Nodes : IsNode(node[n])
  PROVE  /\ PathTableSize \in Nat
         /\ Total([k \in 1 .. Len(PathTable) |-> PathTable[k].len]) = PathTableSize
<1>a. PICK n \in Nat : \E pa : /\ n = Cardinality(Dirs) /\ n >= 1
                               /\ ListedUpTo(TreeData, Pathlist, n, n, pa)
  BY PathlistIs
<1>1. PICK pa : n = Cardinality(Dirs) /\ n >= 1 /\ ListedUpTo(TreeData, Pathlist, n, n, pa)
  BY <1>a
<1>2. IsFiniteSet(Dirs)
  BY DEF TreeAssumption
<1>3. Pathlist \in Bijection(1 .. n, Dirs)
  <2>1. PICK q \in Seq(Dirs) : q = Pathlist /\ Len(q) = n /\ IsInjective(q)
    BY <1>1 DEF ListedUpTo
  <2>2. q \in Injection(1 .. n, Dirs)
    BY <2>1 DEF Injection
  <2>3. Cardinality(1 .. n) = n
    <3>1. 1 \in Int /\ n \in Int
      OBVIOUS
    <3>2. Cardinality(1 .. n) = IF 1 > n THEN 0 ELSE n - 1 + 1
      BY <3>1, FS_Interval
    <3> QED  BY <3>2
  <2>4. q \in Surjection(1 .. n, Dirs)
    BY <1>1, <1>2, <2>2, <2>3, FS_Injection
  <2> QED  BY <2>1, <2>2, <2>4 DEF Bijection
<1> DEFINE f == [d \in Dirs |-> Even(8 + IdLen(d))]
           g == [k \in 1 .. n |-> f[Pathlist[k]]]
           w == [k \in 1 .. n |-> PathTable[k].len]
<1>4. ASSUME NEW d \in Dirs
      PROVE  f[d] = 8 + Even(IdLen(d) % 256) /\ f[d] \in Nat
  <2>1. PICK x \in 0 .. 255 : x = IdLen(d)
    <3>1. node[d].iso \in 0 .. 255 /\ 1 \in 0 .. 255
      BY DEF IsNode, Nodes
    <3> QED  BY <3>1 DEF IdLen
  <2>2. 8 + x + ((8 + x) % 2) = 8 + ((x % 256) + ((x % 256) % 2))
    OBVIOUS
  <2>3. f[d] = 8 + x + ((8 + x) % 2) /\ 8 + x + ((8 + x) % 2) \in Nat
    BY <2>1 DEF Even
  <2> QED  BY <2>1, <2>2, <2>3 DEF Even
<1>5. \A k \in 1 .. n : Pathlist[k] \in Dirs
  BY <1>3 DEF Bijection, Injection
<1>6. \A k \in 1 .. n : g[k] = f[Pathlist[k]] /\ g[k] \in Nat
  BY <1>4, <1>5
<1>7. \A k \in 1 .. n : w[k] = g[k]
  <2> TAKE k \in 1 .. n
  <2>1. PathTable[k] = EntryOf(Pathlist, pa, k)
    BY <1>1, PathTableIs
  <2> QED  BY <1>4, <1>5, <2>1 DEF EntryOf
<1>8. DOMAIN w = 1 .. n
  OBVIOUS
<1>9. Len(PathTable) = n
  BY <1>1, PathTableIs
<1>10. PathTableSize = SumOver(f, Dirs)
  BY DEF PathTableSize, FoldFunction, SumOver, FoldFunctionOnSet
<1>11. Total([k \in 1 .. Len(PathTable) |-> PathTable[k].len]) = Total(w)
  BY <1>9
<1> HIDE DEF f, g, w
<1>12. PICK h : Sums(n, g, h)
  BY <1>6, SumsExist
<1>13. PathTableSize = h[1 .. n]
  <2>1. ListsValues(n, Pathlist, Dirs, f, g)
    BY <1>2, <1>3, <1>6 DEF ListsValues
  <2>2. SumOver(f, Dirs) = h[1 .. n]
    BY <1>12, <2>1, SetFoldIs
  <2> QED  BY <1>10, <2>2
<1>14. PICK y : IsChain([op |-> "sum"], 0, w, n, y) /\ Total(w) = y[n]
  BY <1>8, TotalChain
<1>15. \A a, v : FoldStep([op |-> "sum"], a, v) = a + v
  BY DEF FoldStep
<1> DEFINE P == {k \in 0 .. n : y[k] = h[1 .. k]}
<1>16. 0 \in P
  <2>1. 1 .. 0 = {} /\ 0 \in 0 .. n
    OBVIOUS
  <2>2. y[0] = 0 /\ h[{}] = 0
    BY <1>12, <1>14 DEF IsChain, Sums
  <2> QED  BY <2>1, <2>2
<1>17. ASSUME NEW k \in 0 .. n - 1, k \in P PROVE k + 1 \in P
  <2>1. k + 1 \in 1 .. n /\ k + 1 \in 0 .. n /\ (k + 1) - 1 = k
    OBVIOUS
  <2>2. PICK s \in SUBSET (1 .. n) : s = 1 .. k + 1
    BY <2>1
  <2>3. k + 1 \in s /\ s \ {k + 1} = 1 .. k
    BY <2>2
  <2>4. h[s] = g[k + 1] + h[1 .. k]
    BY <1>12, <2>3 DEF Sums
  <2>5. y[k + 1] = y[k] + w[k + 1]
    BY <1>14, <1>15, <2>1 DEF IsChain
  <2>6. PICK u \in Nat : u = h[1 .. k]
    <3>1. 1 .. k \in SUBSET (1 .. n)
      BY <2>1
    <3> QED  BY <1>12, <3>1 DEF Sums
  <2>7. PICK v \in Nat : v = g[k + 1] /\ v = w[k + 1]
    BY <1>6, <1>7, <2>1
  <2>8. y[k] = u
    BY <1>17, <2>6
  <2> QED  BY <2>1, <2>2, <2>4, <2>5, <2>6, <2>7, <2>8
<1>18. \A k \in 0 .. n - 1 : k \in P => k + 1 \in P
  BY <1>17
<1> HIDE DEF P
<1>19. \A k \in 0 .. n : k \in P
  BY <1>16, <1>18, UpTo
<1>20. n \in P
  BY <1>19
<1>21. h[1 .. n] \in Nat
  BY <1>12 DEF Sums
<1> QED  BY <1>11, <1>13, <1>14, <1>20, <1>21 DEF P

-----------------------------------------------------------------------------
(* The records of a directory.                                              *)

\* Size and Continuation Area of d after each of its records, as they were predicted.
IsRun(t, d, y) ==
  /\ y[0].len = 0 /\ y[0].ce = 0
  /\ \A k \in 1 .. Len(t.recs[d]) : y[k] = AddRecord(y[k - 1], t.recs[d][k], t.sizes[d].recs[k])
  /\ t.sizes[d].len = RoundUpBlock(y[Len(t.recs[d])].len)
  /\ t.sizes[d].ce = y[Len(t.recs[d])].ce

\* Records of nodes which have a name of at most 255 bytes.
AreRecords(q) ==
  /\ q \in Seq([id : Nodes, type : 0 .. 2]) /\ Len(q) >= 2
  /\ q[1].type = 1 /\ q[2].type = 2 /\ \A k \in 3 .. Len(q) : q[k].type = 0

TreeInv == IsTree(kids) /\ \A n \in Nodes : IsNode(node[n])

LEMMA RunOfDirectory ==
  ASSUME TreeInv, NEW d \in Dirs
  PROVE  /\ TreeData.recs[d] = Records(d) /\ AreRecords(Records(d))
         /\ \E y : IsRun(TreeData, d, y)
<1>1. kids[d] \in Seq(Nodes) /\ \A n \in Nodes : node[n].sections \in Nat
  BY DEF TreeInv, IsTree, IsNode
<1>2. TreeData.recs[d] = Records(d) /\ TreeData.sizes[d] = CalcDirSize(d)
  BY DEF TreeData
<1>3. AreRecords(Records(d))
  BY <1>1, RecordsAre DEF AreRecords
<1>4. PICK n \in Nat : n = Len(Records(d))
  BY <1>3 DEF AreRecords
<1>5. PICK S : Records(d) \in Seq(S)
  BY <1>3 DEF AreRecords
<1>6. /\ CalcDirSize(d).len = RoundUpBlock(SizesOf(d)[n].len) /\ CalcDirSize(d).ce = SizesOf(d)[n].ce
      /\ \A k \in 1 .. n : CalcDirSize(d).recs[k] = Predicted(d, k)
  BY <1>4, <1>5, DirSizeIs
<1>7. /\ SizesOf(d)[0] = NoSize
      /\ \A k \in 1 .. n : SizesOf(d)[k] = AddRecord(SizesOf(d)[k - 1], Records(d)[k], Predicted(d, k))
  BY <1>4, <1>5, SizesAre
<1>8. NoSize.len = 0 /\ NoSize.ce = 0
  BY DEF NoSize
<1>9. IsRun(TreeData, d, SizesOf(d))
  BY <1>2, <1>4, <1>6, <1>7, <1>8 DEF IsRun
<1> QED  BY <1>2, <1>3, <1>9

SizeIs(size, q, f) == q \in Nat /\ f \in 0 .. BlockSize /\ size.len = q * BlockSize + f
LenIs(this, len)   == len \in 1 .. 254 /\ this.len = len

\* The bytes of record k fit where write_one_dir() puts them: it begins a new block
\* just where calc_dir_size() did.
LEMMA RecordFits ==
  ASSUME NEW size, NEW q, NEW f, SizeIs(size, q, f), NEW this, NEW len, LenIs(this, len),
         NEW r, r.type # 0 => f + len =< BlockSize
  PROVE  AddRecord(size, r, this).len
           = IF r.type = 0 /\ f + len > BlockSize THEN (q + 1) * BlockSize + len
                                                 ELSE q * BlockSize + (f + len)
<1>a. q \in Nat /\ f \in 0 .. BlockSize /\ size.len = q * BlockSize + f
  BY DEF SizeIs
<1>b. len \in 1 .. 254 /\ this.len = len
  BY DEF LenIs
<1> DEFINE remaining == BlockSize - (size.len % BlockSize)
<1>1. AddRecord(size, r, this).len
        = q * BlockSize + f + len + (IF r.type = 0 /\ len > remaining THEN remaining ELSE 0)
  BY <1>a, <1>b DEF AddRecord
<1>2. q * BlockSize \in Nat /\ (q + 1) * BlockSize = q * BlockSize + BlockSize
  BY <1>a, BlockIs
<1>3. CASE f = BlockSize
  <2>1. size.len = (q + 1) * BlockSize + 0 /\ 0 \in 0 .. BlockSize - 1
    BY <1>a, <1>b, <1>2, <1>3, BlockIs
  <2>a. PICK p \in Nat : p = q + 1
    BY <1>a
  <2>b. (p * BlockSize + 0) % BlockSize = 0
    BY <1>a, <2>1, BlocksIs
  <2>2. remaining = BlockSize
    BY <1>a, <2>1, <2>a, <2>b, BlockIs
  <2> HIDE DEF remaining
  <2>3. ~(len > remaining)
    BY <1>a, <1>b, <2>2, BlockIs
  <2>4. q * BlockSize + f + len + 0 = (q + 1) * BlockSize + len
    BY <1>a, <1>b, <1>2, <1>3, BlockIs
  <2>5. f + len > BlockSize
    BY <1>a, <1>b, <1>3, BlockIs
  <2>6. r.type = 0
    BY <1>a, <1>b, <2>5, BlockIs
  <2> QED  BY <1>1, <2>3, <2>4, <2>5, <2>6
<1>4. CASE f # BlockSize
  <2>1. f \in 0 .. BlockSize - 1
    BY <1>a, <1>4, BlockIs
  <2>2. remaining = BlockSize - f
    BY <1>a, <2>1, BlocksIs
  <2> HIDE DEF remaining
  <2>3. len > remaining <=> f + len > BlockSize
    BY <1>a, <1>b, <2>2, BlockIs
  <2>4. q * BlockSize + f + len + remaining = (q + 1) * BlockSize + len
    BY <1>a, <1>b, <1>2, <2>2, BlockIs
  <2>5. q * BlockSize + f + len + 0 = q * BlockSize + (f + len)
    BY <1>a, <1>b, <1>2, BlockIs
  <2> QED  BY <1>1, <2>3, <2>4, <2>5
<1> QED  BY <1>3, <1>4

\* write_one_dir() is at record k of d, which begins at block b.  It has written the
\* blocks before block m and has the bytes f of the next one in its buffer, c bytes of
\* Continuation Area are composed.
Writing(t, d, k, b, m, f, c) ==
  \E y, q : /\ IsRun(t, d, y) /\ q \in Nat /\ b + q = m
            /\ k \in 1 .. Len(t.recs[d]) + 1 /\ f \in 0 .. BlockSize
            /\ y[k - 1].len = q * BlockSize + f /\ y[k - 1].ce = c
            /\ (k = 1 <=> f = 0) /\ (k = 1 => q = 0)
            /\ k =< 3 => f =< 254 * (k - 1)

LEMMA WritingStart ==
  ASSUME NEW t, NEW d, NEW y, IsRun(t, d, y), Len(t.recs[d]) \in Nat, NEW b \in Int
  PROVE  Writing(t, d, 1, b, b, 0, 0)
<1>1. y[1 - 1].len = 0 * BlockSize + 0 /\ y[1 - 1].ce = 0 /\ 0 \in 0 .. BlockSize
  BY BlockIs DEF IsRun
<1>2. 1 \in 1 .. Len(t.recs[d]) + 1 /\ b + 0 = b
  OBVIOUS
<1>3. 0 =< 254 * (1 - 1)
  OBVIOUS
<1> QED  BY <1>1, <1>2, <1>3 DEF Writing

\* The next record, of len bytes and with ce bytes of Continuation Area.
LEMMA WritingStep ==
  ASSUME NEW t, NEW d, NEW k \in Nat, NEW b \in Int, NEW m \in Int, NEW f, NEW c \in Int,
         Writing(t, d, k, b, m, f, c), NEW n \in Nat, n = Len(t.recs[d]), k =< n,
         AreRecords(t.recs[d]), NEW r, r = t.recs[d][k], NEW len \in 1 .. 254, NEW ce \in Int,
         t.sizes[d].recs[k] = [len |-> len, ce |-> ce],
         NEW flush \in BOOLEAN, flush <=> r.type = 0 /\ f + len > BlockSize
  PROVE  Writing(t, d, k + 1, b, IF flush THEN m + 1 ELSE m, IF flush THEN len ELSE f + len, c + ce)
<1>a. len \in 1 .. 254 /\ k \in Nat /\ n \in Nat
  OBVIOUS
<1>1. PICK y, q : /\ IsRun(t, d, y) /\ q \in Nat /\ b + q = m
                  /\ k \in 1 .. n + 1 /\ f \in 0 .. BlockSize
                  /\ y[k - 1].len = q * BlockSize + f /\ y[k - 1].ce = c
                  /\ (k = 1 <=> f = 0) /\ (k = 1 => q = 0)
                  /\ (k =< 3 => f =< 254 * (k - 1))
  BY DEF Writing
<1>2. k \in 1 .. n /\ k + 1 \in 1 .. n + 1 /\ (k + 1) - 1 = k /\ k + 1 # 1
  <2>1. k \in 1 .. n + 1 /\ k =< n
    BY <1>1
  <2> QED  BY ONLY <1>a, <2>1
<1>3. y[k] = AddRecord(y[k - 1], r, [len |-> len, ce |-> ce])
  BY <1>1, <1>2 DEF IsRun
<1>4. y[k].ce = c + ce
  BY <1>1, <1>3 DEF AddRecord
<1>6. ASSUME r.type # 0 PROVE k =< 2 /\ f + len =< BlockSize /\ f + len =< 254 * k
  <2>1. k =< 2
    <3>1. SUFFICES ASSUME k \in 3 .. n PROVE FALSE
      BY <1>2
    <3> QED  BY <1>6, <3>1 DEF AreRecords
  <2>2. f =< 254 * (k - 1) /\ f \in Nat
    BY <1>1, <2>1, BlockIs
  <2>3. f + len =< 254 * k
    <3>1. CASE k = 1
      BY ONLY <1>a, <2>2, <3>1
    <3>2. CASE k = 2
      BY ONLY <1>a, <2>2, <3>2
    <3> QED  BY <1>2, <2>1, <3>1, <3>2
  <2>4. 254 * k =< 508
    BY <2>1
  <2> QED  BY <1>2, <2>1, <2>2, <2>3, <2>4, BlockIs, SMTT(30)
<1>7. f \in 0 .. BlockSize
  BY <1>1
<1>8. PICK v : v = y[k - 1] /\ SizeIs(v, q, f)
  BY <1>1 DEF SizeIs
<1>9. y[k].len = IF r.type = 0 /\ f + len > BlockSize THEN (q + 1) * BlockSize + len
                                             ELSE q * BlockSize + (f + len)
  <2>1. PICK u : u = [len |-> len, ce |-> ce] /\ LenIs(u, len)
    BY <1>a DEF LenIs
  <2>2. AddRecord(v, r, u).len
          = IF r.type = 0 /\ f + len > BlockSize THEN (q + 1) * BlockSize + len
                                        ELSE q * BlockSize + (f + len)
    <3>1. r.type # 0 => f + len =< BlockSize
      BY <1>6
    <3> QED  BY <1>8, <2>1, <3>1, RecordFits, SMTT(30)
  <2> QED  BY <1>3, <1>8, <2>1, <2>2
<1>10. k + 1 =< 3 => f + len =< 254 * ((k + 1) - 1)
  <2>1. SUFFICES ASSUME k =< 2 PROVE f + len =< 254 * k
    BY <1>2
  <2>2. f =< 254 * (k - 1) /\ f \in Nat
    BY <1>1, <1>7, <2>1, BlockIs
  <2>3. CASE k = 1
    BY ONLY <1>a, <2>2, <2>3
  <2>4. CASE k = 2
    BY ONLY <1>a, <2>2, <2>4
  <2> QED  BY <1>2, <2>1, <2>3, <2>4, SMTT(30)
<1>11. f \in Nat /\ len \in 0 .. BlockSize /\ len # 0 /\ f + len # 0
  <2>1. f \in Nat /\ len =< BlockSize /\ len \in Nat
    BY ONLY <1>a, <1>7, BlockIs
  <2> QED  BY ONLY <1>a, <2>1, BlockIs
<1>12. CASE flush
  <2>1. y[k].len = (q + 1) * BlockSize + len
    BY <1>9, <1>12
  <2>2. q + 1 \in Nat /\ b + (q + 1) = m + 1
    BY <1>1
  <2>3. k + 1 =< 3 => len =< 254 * ((k + 1) - 1)
    BY <1>10, <1>11
  <2>4. Writing(t, d, k + 1, b, m + 1, len, c + ce)
    BY <1>1, <1>2, <1>4, <1>11, <2>1, <2>2, <2>3 DEF Writing
  <2> QED  BY <1>12, <2>4
<1>13. CASE ~flush
  <2>1. y[k].len = q * BlockSize + (f + len) /\ f + len \in 0 .. BlockSize
    BY <1>6, <1>7, <1>9, <1>11, <1>13, BlockIs, SMTT(30)
  <2>2. Writing(t, d, k + 1, b, m, f + len, c + ce)
    BY <1>1, <1>2, <1>4, <1>10, <1>11, <2>1 DEF Writing
  <2> QED  BY <1>13, <2>2
<1> QED  BY <1>12, <1>13

LEMMA RecordsLen ==
  ASSUME NEW q, AreRecords(q)
  PROVE  Len(q) \in Nat /\ Len(q) >= 2
<1>1. PICK S : q \in Seq(S)
  BY DEF AreRecords
<1>2. Len(q) \in Nat
  BY <1>1
<1> QED  BY <1>2 DEF AreRecords

\* write_one_dir() at record k, with numbers in its counters.
AtRecord(t, d, k, b, m, f, c) ==
  k \in Nat /\ b \in Int /\ m \in Int /\ c \in Int /\ Writing(t, d, k, b, m, f, c)

\* Behind the last record there is the last block, partly filled.
LEMMA WritingEnd ==
  ASSUME NEW t, NEW d, NEW k, NEW b, NEW m, NEW f, NEW c, AtRecord(t, d, k, b, m, f, c),
         AreRecords(t.recs[d]), k > Len(t.recs[d])
  PROVE  b + DivUp(t.sizes[d].len, BlockSize) = m + 1 /\ t.sizes[d].ce = c
<1> USE DEF AtRecord
<1>a. PICK n \in Nat : n = Len(t.recs[d]) /\ n >= 2 /\ k > n
  BY RecordsLen
<1>1. PICK y, q : /\ IsRun(t, d, y) /\ q \in Nat /\ b + q = m
                  /\ k \in 1 .. n + 1 /\ f \in 0 .. BlockSize
                  /\ y[k - 1].len = q * BlockSize + f /\ y[k - 1].ce = c
                  /\ (k = 1 <=> f = 0)
  BY <1>a DEF Writing
<1>2. k = n + 1 /\ k - 1 = n /\ f \in 1 .. BlockSize
  <2>1. k \in Nat /\ n \in Nat /\ n >= 2 /\ k > n /\ k \in 1 .. n + 1
    BY <1>a, <1>1
  <2>2. k = n + 1 /\ k - 1 = n /\ k # 1
    BY ONLY <2>1
  <2>3. f \in 0 .. BlockSize /\ f # 0
    BY <1>1, <2>2
  <2> QED  BY ONLY <2>2, <2>3, BlockIs
<1>3. t.sizes[d].len = RoundUpBlock(q * BlockSize + f) /\ t.sizes[d].ce = c
  BY <1>a, <1>1, <1>2 DEF IsRun
<1>4. DivUp(q * BlockSize + f, BlockSize) = q + 1
  BY <1>1, <1>2, DivUpIs
<1>5. RoundUpBlock(q * BlockSize + f) = (q + 1) * BlockSize
  BY <1>4 DEF RoundUpBlock
<1>6. PICK p \in Nat : p = q + 1
  BY <1>1
<1>7. DivUp(p * BlockSize, BlockSize) = p
  BY DivUpWhole
<1> QED  BY <1>1, <1>3, <1>5, <1>6, <1>7, SMTT(30)

-----------------------------------------------------------------------------
(* The passes of compute_data_blocks() and of write_data().                 *)

LEMMA NoInfoOK == InfoOK(NoInfo)
<1> DEFINE q == <<>>
<1>1. DOMAIN q = 1 .. 0
  OBVIOUS
<1>2. PICK y : IsChain([op |-> "ca"], 0, q, 0, y) /\ FoldLeft(WriteCe, 0, q) = y[0]
  BY <1>1, CaChain
<1>3. CaSize(<<>>) = 0
  BY <1>2 DEF IsChain, CaSize
<1>4. <<>> \in Seq({}) /\ Len(<<>>) = 0
  OBVIOUS
<1>5. IsFields(<<>>)
  BY <1>4 DEF IsFields, IsList
<1> QED  BY <1>3, <1>4, <1>5 DEF InfoOK, NoInfo

LEMMA CeAreaIs ==
  ASSUME NEW i, InfoOK(i)
  PROVE  CeArea(i) = RoundUpBlock(i.ceLen)
<1>1. PICK S : i.ce \in Seq(S)
  BY DEF InfoOK, IsFields, IsList
<1>2. CeWritten(i.ce, Len(i.ce)) = i.ceLen
  BY <1>1, CaWhole DEF InfoOK
<1>3. i.ceLen \in Nat /\ RoundUpBlock(i.ceLen) \in Nat
  BY RoundUpIs DEF InfoOK
<1> QED  BY <1>2, <1>3 DEF CeArea

LEMMA UsedUpIs ==
  ASSUME TreeInv, NEW q, AreRecords(q), NEW k \in 1 .. Len(q)
  PROVE  UsedUp(q[k]) \in Nat /\ UsedUp(q[k]) >= 33
<1>1. q[k] \in [id : Nodes, type : 0 .. 2]
  <2>1. PICK S : S = [id : Nodes, type : 0 .. 2]
    OBVIOUS
  <2>2. q \in Seq(S)
    BY <2>1 DEF AreRecords
  <2>3. k \in 1 .. Len(q) => q[k] \in S
    BY ONLY <2>2
  <2> QED  BY <2>1, <2>3
<1>2. IsNode(node[q[k].id])
  BY <1>1 DEF TreeInv
<1>3. PICK n \in 0 .. 255 : n = node[q[k].id].iso
  BY <1>2 DEF IsNode
<1>4. PICK v \in 0 .. 2 : v = VersionLen(node[q[k].id])
  BY DEF VersionLen
<1>5. PICK w \in 0 .. 1 : w = IF n % 2 = 1 THEN 0 ELSE 1
  OBVIOUS
<1>6. UsedUp(q[k]) = IF q[k].type # 0 THEN 34 ELSE n + 33 + w + v
  BY <1>3, <1>4, <1>5 DEF UsedUp
<1> QED  BY <1>6

\* The tree which is planned from block s0 on, with stack T left and e the next block.
Scheduled(t, T, p, s0, e) == \E W, Vis : Laid(t, W, Vis, T, p, s0, e) /\ Fresh(t, Vis, T)
Placed(t, p, s0, e)       == \E W, Vis : Laid(t, W, Vis, <<>>, p, s0, e)

\* Where a tree begins and ends, if tb[h] tells the block of its L path table.
EndOf(t, tb, h)   == tb[h].l + 2 * t.table + (IF h = 1 THEN t.tag ELSE 0)
StartOf(t, tb, h) == IF h = 1 THEN Start ELSE EndOf(t, tb, 1)

LEMMA ScheduledStart ==
  ASSUME Root \in Dirs, NEW t, NEW p, NEW s0
  PROVE  Scheduled(t, <<Root>>, p, s0, s0)
<1>1. PICK W : Laid(t, W, {}, <<Root>>, p, s0, s0)
  BY LaidStart
<1>2. <<Root>> \in Seq(Dirs) /\ \A n : Contains(<<Root>>, n) <=> n = Root
  BY DEF Contains
<1>3. IsInjective(<<Root>>)
  BY DEF IsInjective
<1>4. Fresh(t, {}, <<Root>>)
  BY <1>2, <1>3 DEF Fresh
<1> QED  BY <1>1, <1>4 DEF Scheduled

LEMMA ScheduledStep ==
  ASSUME NEW t, IsForest(t), NEW T, NEW p, NEW s0, NEW e, Scheduled(t, T, p, s0, e), T # <<>>,
         NEW d, d = Head(T), NEW p1, IsPlanned(t, d, p1[d]), p1[d].block = e,
         \A x \in Dirs \ {d} : p1[x] = p[x]
  PROVE  d \in Dirs /\ Scheduled(t, NextStack(t, T), p1, s0, After(t, p1[d]))
<1>1. PICK W, Vis : Laid(t, W, Vis, T, p, s0, e) /\ Fresh(t, Vis, T)
  BY DEF Scheduled
<1>2. d \in Dirs /\ d \notin Vis /\ Fresh(t, Vis \cup {d}, NextStack(t, T))
  BY <1>1, FreshStep
<1>a. T \in Seq(Dirs)
  BY <1>1 DEF Fresh
<1>3. PICK V : Laid(t, V, Vis \cup {d}, NextStack(t, T), p1, s0, After(t, p1[d]))
  BY <1>1, <1>2, <1>a, LaidStep
<1> QED  BY <1>2, <1>3 DEF Scheduled

LEMMA ScheduledEnd ==
  ASSUME NEW t, NEW p, NEW s0, NEW e, Scheduled(t, <<>>, p, s0, e)
  PROVE  Placed(t, p, s0, e)
BY DEF Scheduled, Placed

\* Each directory has records, the sizes of which have been added up.
TreeOK(t) == \A d \in Dirs : AreRecords(t.recs[d]) /\ \E y : IsRun(t, d, y)

LEMMA TreeIsOK ==
  ASSUME TreeInv
  PROVE  TreeOK(TreeData)
BY RunOfDirectory DEF TreeOK

\* write_one_dir() is about to write record k of the directory on top of the stack T,
\* or write_dirs() is through with all of them.  m is the block which comes next, of
\* which f bytes wait in the buffer, c the bytes in the Continuation Area.
Recording(t, p, s0, e, T, k, m, f, c) ==
  \E W, Vis : /\ Laid(t, W, Vis, <<>>, p, s0, e)
              /\ \/ T = <<>> /\ k = 1 /\ f = 0 /\ c = 0 /\ m = e
                 \/ /\ T # <<>> /\ Head(T) \in Vis /\ W[Head(T)] = T
                    /\ p[Head(T)].block \in Int
                    /\ Writing(t, Head(T), k, p[Head(T)].block, m, f, c)

LEMMA RecordingStart ==
  ASSUME NEW t, TreeOK(t), NEW p, NEW s0 \in Int, NEW e, Placed(t, p, s0, e), Root \in Dirs
  PROVE  Recording(t, p, s0, e, <<Root>>, 1, s0, 0, 0)
<1>1. PICK W, Vis : Laid(t, W, Vis, <<>>, p, s0, e)
  BY DEF Placed
<1>2. Root \in Vis /\ W[Root] = <<Root>> /\ p[Root].block = s0
  BY <1>1 DEF Laid
<1>3. PICK y : IsRun(t, Root, y)
  BY DEF TreeOK
<1>4. Len(t.recs[Root]) \in Nat
  BY RecordsLen DEF TreeOK
<1>5. Writing(t, Root, 1, s0, s0, 0, 0)
  BY <1>3, <1>4, WritingStart
<1>6. <<Root>> # <<>> /\ Head(<<Root>>) = Root
  OBVIOUS
<1> QED  BY <1>1, <1>2, <1>5, <1>6 DEF Recording

\* What is on top of the stack.
LEMMA RecordingTop ==
  ASSUME NEW t, NEW p, NEW s0, NEW e, NEW T, NEW k, NEW m, NEW f, NEW c,
         Recording(t, p, s0, e, T, k, m, f, c), T # <<>>
  PROVE  /\ Head(T) \in Dirs /\ p[Head(T)].block \in Int /\ IsPlanned(t, Head(T), p[Head(T)])
         /\ Writing(t, Head(T), k, p[Head(T)].block, m, f, c)
<1>1. PICK W, Vis : /\ Laid(t, W, Vis, <<>>, p, s0, e) /\ Head(T) \in Vis
                    /\ p[Head(T)].block \in Int
                    /\ Writing(t, Head(T), k, p[Head(T)].block, m, f, c)
  BY DEF Recording
<1>2. Vis \subseteq Dirs /\ IsPlanned(t, Head(T), p[Head(T)])
  BY <1>1, SMTT(30) DEF Laid
<1> QED  BY <1>1, <1>2

\* The next record as it was predicted, and whether the buffer gets written before.
IsNext(t, d, k, f, len, ce, flush) ==
  /\ AreRecords(t.recs[d]) /\ k =< Len(t.recs[d])
  /\ len \in 1 .. 254 /\ ce \in Int /\ t.sizes[d].recs[k] = [len |-> len, ce |-> ce]
  /\ flush \in BOOLEAN /\ (flush <=> t.recs[d][k].type = 0 /\ f + len > BlockSize)

LEMMA AtRecordStep ==
  ASSUME NEW t, NEW d, NEW k, NEW b, NEW m, NEW f, NEW c, AtRecord(t, d, k, b, m, f, c),
         NEW len, NEW ce, NEW flush, IsNext(t, d, k, f, len, ce, flush)
  PROVE  Writing(t, d, k + 1, b, IF flush THEN m + 1 ELSE m, IF flush THEN len ELSE f + len, c + ce)
<1>1. PICK n \in Nat : n = Len(t.recs[d])
  BY RecordsLen DEF IsNext
<1>2. PICK r : r = t.recs[d][k]
  OBVIOUS
<1>3. k \in Nat /\ b \in Int /\ m \in Int /\ c \in Int /\ Writing(t, d, k, b, m, f, c)
  BY DEF AtRecord
<1>4. /\ AreRecords(t.recs[d]) /\ k =< n /\ n \in Nat
      /\ len \in 1 .. 254 /\ ce \in Int /\ t.sizes[d].recs[k] = [len |-> len, ce |-> ce]
      /\ flush \in BOOLEAN /\ (flush <=> r.type = 0 /\ f + len > BlockSize)
  BY <1>1, <1>2 DEF IsNext
<1> QED  BY ONLY <1>1, <1>2, <1>3, <1>4, WritingStep, ZenonT(150)

LEMMA RecordingStep ==
  ASSUME NEW t, TreeOK(t), NEW p, NEW s0, NEW e, NEW T, NEW k \in Nat, NEW m \in Int, NEW f,
         NEW c \in Int, Recording(t, p, s0, e, T, k, m, f, c), T # <<>>, NEW d, d = Head(T),
         NEW len, NEW ce, NEW flush, IsNext(t, d, k, f, len, ce, flush)
  PROVE  Recording(t, p, s0, e, T, k + 1, IF flush THEN m + 1 ELSE m,
                   IF flush THEN len ELSE f + len, c + ce)
<1>1. PICK W, Vis : /\ Laid(t, W, Vis, <<>>, p, s0, e) /\ d \in Vis /\ W[d] = T
                    /\ p[d].block \in Int /\ Writing(t, d, k, p[d].block, m, f, c)
  BY DEF Recording
<1>2. AtRecord(t, d, k, p[d].block, m, f, c)
  BY <1>1 DEF AtRecord
<1>3. Writing(t, d, k + 1, p[d].block, IF flush THEN m + 1 ELSE m,
              IF flush THEN len ELSE f + len, c + ce)
  BY <1>2, AtRecordStep
<1> QED  BY <1>1, <1>3 DEF Recording

LEMMA RecordingEnd ==
  ASSUME NEW t, TreeOK(t), NEW p, NEW s0, NEW e, NEW T, NEW k \in Nat, NEW m \in Int, NEW f,
         NEW c \in Nat, Recording(t, p, s0, e, T, k, m, f, c), T # <<>>, NEW d, d = Head(T),
         k > Len(t.recs[d])
  PROVE  /\ p[d].block + DivUp(p[d].len, BlockSize) = m + 1
         /\ Recording(t, p, s0, e, NextStack(t, T), 1,
                      m + 1 + (IF t.rr THEN DivUp(c, BlockSize) ELSE 0), 0, 0)
<1>1. PICK W, Vis : /\ Laid(t, W, Vis, <<>>, p, s0, e) /\ d \in Vis /\ W[d] = T
                    /\ p[d].block \in Int /\ Writing(t, d, k, p[d].block, m, f, c)
  BY DEF Recording
<1>2. Vis \subseteq Dirs /\ IsPlanned(t, d, p[d])
  BY <1>1 DEF Laid
<1>3. AreRecords(t.recs[d])
  BY <1>1, <1>2 DEF TreeOK
<1>4. PICK n \in Nat : n = Len(t.recs[d]) /\ n >= 2 /\ k > n
  BY <1>3, RecordsLen
<1>5. /\ p[d].block + DivUp(t.sizes[d].len, BlockSize) = m + 1
      /\ t.sizes[d].ce = c
  <2>1. AtRecord(t, d, k, p[d].block, m, f, c)
    BY <1>1 DEF AtRecord
  <2> QED  BY <1>3, <1>4, <2>1, WritingEnd
<1>6. p[d].len = t.sizes[d].len /\ p[d].ce = c
  BY <1>2, <1>5 DEF IsPlanned
<1> DEFINE s == NextStack(t, T)
           m1 == m + 1 + (IF t.rr THEN DivUp(c, BlockSize) ELSE 0)
<1>7. After(t, p[d]) = m1
  BY <1>5, <1>6 DEF After
<1>8. m1 \in Int
  <2>1. DivUp(c, BlockSize) \in Nat
    BY RoundUpIs
  <2>2. PICK x \in Nat : x = DivUp(c, BlockSize)
    BY <2>1
  <2>3. m1 = m + 1 + (IF t.rr THEN x ELSE 0)
    BY <2>2
  <2> HIDE DEF m1
  <2> QED  BY <2>3
<1>9. CASE s = <<>> /\ After(t, p[d]) = e
  <2>1. m1 = e
    BY <1>7, <1>9
  <2> QED  BY <1>1, <1>5, <1>6, <1>9, <2>1 DEF Recording
<1>10. CASE s # <<>> /\ Head(s) \in Vis /\ W[Head(s)] = s /\ p[Head(s)].block = After(t, p[d])
  <2>1. Head(s) \in Dirs /\ p[Head(s)].block = m1
    BY <1>2, <1>7, <1>10
  <2>2. PICK y : IsRun(t, Head(s), y)
    BY <2>1 DEF TreeOK
  <2>3. Len(t.recs[Head(s)]) \in Nat
    BY <2>1, RecordsLen DEF TreeOK
  <2>4. Writing(t, Head(s), 1, m1, m1, 0, 0)
    BY <1>8, <2>2, <2>3, WritingStart
  <2>5. Recording(t, p, s0, e, s, 1, m1, 0, 0)
    BY <1>1, <1>8, <1>10, <2>1, <2>4 DEF Recording
  <2> QED  BY <1>5, <1>6, <2>5
<1> QED
  BY <1>1, <1>9, <1>10 DEF Laid

-----------------------------------------------------------------------------
(* The inductive invariant.                                                 *)

\* plan and tables stay functions; the second half is for images with two trees.
ShapeInv ==
  /\ half \in 1 .. 2 /\ (half = 2 => opts.twin)
  /\ plan = [h \in 1 .. 2 |-> plan[h]] /\ tables = [h \in 1 .. 2 |-> tables[h]]
  /\ \A h \in 1 .. 2 : plan[h] = [d \in Dirs |-> plan[h][d]]

\* compute_data_blocks(): what calc_dir_pos() has placed, and what is left for it.
CalcInv ==
  pc = "calc" =>
    /\ rec = 1 /\ info = NoInfo /\ fill = 0 /\ bytesOut = 0 /\ lens = <<>>
    /\ Scheduled(TreeData, todo, plan[half], StartOf(TreeData, tables, half), cur)
    /\ half = 2 => Placed(TreeData, plan[1], Start, tables[1].l)

\* Both trees are placed, the second one behind the first.
PlacedInv ==
  /\ Placed(TreeData, plan[1], Start, tables[1].l)
  /\ opts.twin => Placed(TreeData, plan[2], EndOf(TreeData, tables, 1), tables[2].l)
  /\ treeEnd = EndOf(TreeData, tables, IF opts.twin THEN 2 ELSE 1)

\* n blocks are written, and the next bytes are those which calc_dir_size() and
\* calc_dir_pos() had in mind for block Start + n.
RecordingInv ==
  \E n \in Int :
    /\ bytesOut = n * BlockSize
    /\ Recording(TreeData, plan[half], StartOf(TreeData, tables, half), tables[half].l,
                 todo, rec, Start + n, fill, info.ceLen)

\* write_data() and write_one_dir().
WriteInv ==
  pc = "write" =>
    /\ PlacedInv /\ RecordingInv
    /\ InfoOK(info) /\ (~opts.rockridge => info = NoInfo)
    /\ rec \in Nat /\ IsList(lens) /\ Len(lens) = rec - 1

IInv == TreeInv /\ ShapeInv /\ CalcInv /\ WriteInv /\ TreeEndAsPredicted

LEMMA InitKeeps ==
  ASSUME Init
  PROVE  IInv
<1> USE TreeAssumption
<1>1. IsTree(kids)
  BY DEF Init
<1>2. \A n \in Nodes : IsNode(node[n])
  <2>1. PICK d \in [Dirs -> UNION {DirKinds[x] : x \in Dirs}],
             l \in [Leaves -> UNION {LeafKinds[x] : x \in Leaves}] :
          /\ \A x \in Dirs : d[x] \in DirKinds[x]
          /\ \A x \in Leaves : l[x] \in LeafKinds[x]
          /\ node = [n \in Dirs \cup Leaves |-> IF n \in Dirs THEN d[n] ELSE l[n]]
    BY DEF Init
  <2>2. ASSUME NEW n \in Nodes PROVE IsNode(node[n])
    <3>1. CASE n \in Dirs
      BY <2>1, <3>1
    <3>2. CASE n \in Leaves /\ n \notin Dirs
      BY <2>1, <3>2
    <3> QED  BY <3>1, <3>2 DEF Nodes
  <2> QED  BY <2>2
<1>3. TreeInv
  BY <1>1, <1>2 DEF TreeInv
<1>4. ShapeInv
  BY DEF Init, ShapeInv
<1>5. CalcInv
  <2>1. todo = <<Root>> /\ half = 1 /\ cur = Start
    BY DEF Init
  <2>2. Scheduled(TreeData, todo, plan[half], StartOf(TreeData, tables, half), cur)
    BY <2>1, ScheduledStart DEF StartOf
  <2> QED  BY <2>2 DEF Init, CalcInv
<1>6. WriteInv /\ TreeEndAsPredicted
  BY DEF Init, WriteInv, TreeEndAsPredicted
<1> QED  BY <1>3, <1>4, <1>5, <1>6 DEF IInv

LEMMA CalcDirPosKeeps ==
  ASSUME IInv, CalcDirPos
  PROVE  IInv'
<1> USE TreeAssumption
<1>1. PICK t : t = TreeData
  OBVIOUS
<1>2. nodes' = nodes /\ TreeData' = t
  BY <1>1, TreeDataSame DEF CalcDirPos
<1>3. TreeInv'
  BY <1>2 DEF IInv, TreeInv, nodes
<1>4. IsForest(t)
  BY <1>1, TreeIsForest DEF IInv, TreeInv
<1>5. /\ pc = "calc" /\ pc' = "calc" /\ half' = half /\ tables' = tables /\ todo # <<>>
      /\ rec' = rec /\ info' = info /\ fill' = fill /\ bytesOut' = bytesOut /\ lens' = lens
  BY DEF CalcDirPos, output
<1>6. PICK s0 : s0 = StartOf(t, tables, half)
  OBVIOUS
<1>7. Scheduled(t, todo, plan[half], s0, cur) /\ half \in 1 .. 2
  BY <1>1, <1>5, <1>6 DEF IInv, CalcInv, ShapeInv
<1>8. PICK d : d = Head(todo)
  OBVIOUS
<1>9. d \in Dirs
  <2>1. PICK W, Vis : Fresh(t, Vis, todo)
    BY <1>7 DEF Scheduled
  <2> QED  BY <1>4, <1>5, <1>8, <2>1, FreshStep
<1>10. PICK size : size = CalcDirSize(d)
  OBVIOUS
<1>11. PICK p : p = [block |-> cur, len |-> size.len, ce |-> size.ce, recs |-> size.recs]
  OBVIOUS
<1>12. /\ plan' = [plan EXCEPT ![half][d] = p] /\ todo' = SubDirs(d) \o Tail(todo)
       /\ cur' = cur + DivUp(size.len, BlockSize)
                     + (IF opts.rockridge THEN DivUp(size.ce, BlockSize) ELSE 0)
  BY <1>8, <1>10, <1>11 DEF CalcDirPos, PlaceDir
<1>13. /\ t.sizes[d] = size /\ t.subs[d] = SubDirs(d) /\ t.rr = opts.rockridge
  BY <1>1, <1>9, <1>10 DEF TreeData
<1>14. /\ plan'[half][d] = p /\ \A x \in Dirs \ {d} : plan'[half][x] = plan[half][x]
       /\ ShapeInv' /\ \A h \in 1 .. 2 : h # half => plan'[h] = plan[h]
  BY <1>2, <1>5, <1>7, <1>9, <1>12 DEF IInv, ShapeInv, nodes
<1>15. IsPlanned(t, d, p) /\ cur' = After(t, p) /\ p.block = cur
  BY <1>11, <1>12, <1>13 DEF IsPlanned, After
<1>16. todo' = NextStack(t, todo)
  BY <1>8, <1>12, <1>13 DEF NextStack
<1>17. Scheduled(t, todo', plan'[half], s0, cur')
  <2>1. PICK p1 : p1 = plan'[half]
    OBVIOUS
  <2>2. IsPlanned(t, d, p1[d]) /\ p1[d].block = cur /\ \A x \in Dirs \ {d} : p1[x] = plan[half][x]
    BY <1>14, <1>15, <2>1
  <2>3. Scheduled(t, NextStack(t, todo), p1, s0, After(t, p1[d]))
    BY <1>4, <1>5, <1>7, <1>8, <2>2, ScheduledStep
  <2> QED  BY <1>14, <1>15, <1>16, <2>1, <2>3
<1>18. CalcInv'
  <2>1. half = 2 => Placed(t, plan'[1], Start, tables[1].l)
    BY <1>1, <1>5, <1>14 DEF IInv, CalcInv
  <2> QED  BY <1>2, <1>5, <1>6, <1>17, <2>1 DEF IInv, CalcInv
<1>19. WriteInv' /\ TreeEndAsPredicted'
  BY <1>5 DEF WriteInv, TreeEndAsPredicted
<1> QED  BY <1>3, <1>14, <1>18, <1>19 DEF IInv

LEMMA CalcPathTablesKeeps ==
  ASSUME IInv, CalcPathTables
  PROVE  IInv'
<1> USE TreeAssumption
<1>1. PICK t : t = TreeData
  OBVIOUS
<1>2. nodes' = nodes /\ TreeData' = t
  BY <1>1, TreeDataSame DEF CalcPathTables
<1>3. TreeInv'
  BY <1>2 DEF IInv, TreeInv, nodes
<1>4. PICK e : e = cur + 2 * t.table + (IF half = 1 THEN t.tag ELSE 0)
  OBVIOUS
<1>5. /\ t.table = DivUp(PathTableSize, BlockSize) /\ t.tag = IF opts.md5 THEN 1 ELSE 0
  BY <1>1 DEF TreeData
<1>6. PICK blocks : blocks = t.table
  OBVIOUS
<1>7. /\ pc = "calc" /\ todo = <<>> /\ todo' = <<Root>> /\ plan' = plan /\ bytesOut' = bytesOut
      /\ tables' = [tables EXCEPT ![half] = [l |-> cur, m |-> cur + blocks]]
      /\ rec' = rec /\ info' = info /\ fill' = fill /\ lens' = lens
  BY <1>5, <1>6 DEF CalcPathTables, output
<1>8. cur' = e
  <2>1. cur' = cur + 2 * blocks + (IF half = 1 /\ opts.md5 THEN 1 ELSE 0)
    BY <1>5, <1>6 DEF CalcPathTables
  <2>2. (IF half = 1 /\ opts.md5 THEN 1 ELSE 0) = IF half = 1 THEN t.tag ELSE 0
    BY <1>5
  <2> QED  BY <1>4, <1>6, <2>1, <2>2
<1>9. /\ half \in 1 .. 2 /\ tables'[half].l = cur
      /\ \A h \in 1 .. 2 : h # half => tables'[h] = tables[h]
      /\ tables' = [h \in 1 .. 2 |-> tables'[h]]
  BY <1>7 DEF IInv, ShapeInv
<1>10. ShapeInv'
  BY <1>2, <1>7, <1>9 DEF IInv, ShapeInv, CalcPathTables, nodes
<1>11. Placed(t, plan[half], StartOf(t, tables, half), cur)
  BY <1>1, <1>7, ScheduledEnd DEF IInv, CalcInv
<1>12. rec = 1 /\ info = NoInfo /\ fill = 0 /\ bytesOut = 0 /\ lens = <<>>
  BY <1>7 DEF IInv, CalcInv
<1>13. TreeEndAsPredicted'
  BY <1>7 DEF CalcPathTables, TreeEndAsPredicted
<1>14. e = EndOf(t, tables', half)
  BY <1>4, <1>9 DEF EndOf
<1>15. CASE half = 1 /\ opts.twin
  <2>1. half' = 2 /\ pc' = "calc"
    BY <1>7, <1>15 DEF CalcPathTables
  <2>2. Placed(t, plan[1], Start, tables'[1].l)
    BY <1>9, <1>11, <1>15 DEF StartOf
  <2>3. StartOf(t, tables', 2) = cur'
    BY <1>8, <1>14, <1>15 DEF StartOf
  <2>4. Scheduled(t, todo', plan[2], StartOf(t, tables', 2), cur')
    BY <1>7, <2>3, ScheduledStart
  <2>5. CalcInv'
    BY <1>2, <1>7, <1>12, <2>1, <2>2, <2>4 DEF CalcInv
  <2>6. WriteInv'
    BY <2>1 DEF WriteInv
  <2> QED  BY <1>3, <1>10, <1>13, <2>5, <2>6 DEF IInv
<1>16. CASE ~(half = 1 /\ opts.twin)
  <2>1. half' = 1 /\ pc' = "write" /\ treeEnd' = cur'
    BY <1>16 DEF CalcPathTables
  <2>2. half = 1 <=> ~opts.twin
    BY <1>9, <1>16 DEF IInv, ShapeInv
  <2>3. Placed(t, plan[1], Start, tables'[1].l)
    <3>1. CASE half = 1
      BY <1>9, <1>11, <3>1 DEF StartOf
    <3>2. CASE half = 2
      BY <1>1, <1>7, <1>9, <3>2 DEF IInv, CalcInv
    <3> QED  BY <1>9, <3>1, <3>2
  <2>4. opts.twin => Placed(t, plan[2], EndOf(t, tables', 1), tables'[2].l)
    <3>1. SUFFICES ASSUME opts.twin PROVE Placed(t, plan[2], EndOf(t, tables', 1), tables'[2].l)
      OBVIOUS
    <3>2. half = 2 /\ tables'[1] = tables[1] /\ tables'[2].l = cur
      BY <1>9, <2>2, <3>1
    <3>3. StartOf(t, tables, half) = EndOf(t, tables', 1)
      BY <3>2 DEF StartOf, EndOf
    <3> QED  BY <1>11, <3>2, <3>3
  <2>5. treeEnd' = EndOf(t, tables', IF opts.twin THEN 2 ELSE 1)
    <3>1. half = IF opts.twin THEN 2 ELSE 1
      BY <1>9, <2>2
    <3> QED  BY <1>8, <1>14, <2>1, <3>1
  <2>6. opts' = opts
    BY <1>2 DEF nodes
  <2>7. PlacedInv'
    BY <1>2, <1>7, <2>3, <2>4, <2>5, <2>6 DEF PlacedInv
  <2>8. TreeOK(t)
    BY <1>1, TreeIsOK DEF IInv
  <2>9. Recording(t, plan[1], Start, tables'[1].l, <<Root>>, 1, Start, 0, 0)
    BY <2>3, <2>8, RecordingStart
  <2>10. StartOf(t, tables', 1) = Start /\ Start + 0 = Start /\ 0 = 0 * BlockSize
    BY BlockIs DEF StartOf
  <2>11. NoInfo.ceLen = 0
    BY DEF NoInfo
  <2>12. RecordingInv'
    <3>1. PICK n \in Int : n = 0
      OBVIOUS
    <3>2. bytesOut' = n * BlockSize /\ Start + n = Start
      BY <1>7, <1>12, <2>10, <3>1
    <3>3. Recording(t, plan'[half'], StartOf(t, tables', half'), tables'[half'].l,
                    todo', rec', Start + n, fill', info'.ceLen)
      BY <1>7, <1>12, <2>1, <2>9, <2>10, <2>11, <3>2
    <3> QED  BY <1>2, <3>2, <3>3 DEF RecordingInv
  <2>13. WriteInv'
    <3>1. IsList(<<>>) /\ Len(<<>>) = 0
      BY <<>> \in Seq({}) DEF IsList
    <3>2. InfoOK(info') /\ info' = NoInfo /\ rec' = 1 /\ lens' = <<>>
      BY <1>7, <1>12, NoInfoOK
    <3> QED  BY <2>7, <2>12, <3>1, <3>2 DEF WriteInv
  <2>14. CalcInv'
    BY <2>1 DEF CalcInv
  <2> QED  BY <1>3, <1>10, <1>13, <2>13, <2>14 DEF IInv
<1> QED  BY <1>15, <1>16

LEMMA WriteFailsKeeps ==
  ASSUME IInv, WriteFails
  PROVE  IInv'
<1>1. /\ nodes' = nodes /\ pc' = "aborted" /\ half' = half /\ plan' = plan /\ tables' = tables
  BY DEF WriteFails, sizes
<1>2. TreeInv' /\ ShapeInv'
  BY <1>1 DEF IInv, TreeInv, ShapeInv, nodes
<1> QED  BY <1>1, <1>2 DEF IInv, CalcInv, WriteInv, TreeEndAsPredicted

LEMMA WriteDirEndKeeps ==
  ASSUME IInv, WriteDirEnd
  PROVE  IInv'
<1>1. PICK t : t = TreeData
  OBVIOUS
<1>2. nodes' = nodes /\ TreeData' = t
  BY <1>1, TreeDataSame DEF WriteDirEnd
<1>3. /\ pc = "write" /\ pc' = "write" /\ half' = half /\ plan' = plan /\ tables' = tables
      /\ treeEnd' = treeEnd /\ todo # <<>> /\ opts' = opts
  BY DEF WriteDirEnd, sizes, nodes
<1>4. TreeInv' /\ ShapeInv'
  BY <1>2, <1>3 DEF IInv, TreeInv, ShapeInv, nodes
<1>5. PICK d, T : d = Head(todo) /\ T = todo
  OBVIOUS
<1>6. PICK p, s0, e : /\ p = plan[half] /\ s0 = StartOf(t, tables, half) /\ e = tables[half].l
  OBVIOUS
<1>7. PICK n \in Int : /\ bytesOut = n * BlockSize
                       /\ Recording(t, p, s0, e, T, rec, Start + n, fill, info.ceLen)
  BY <1>1, <1>3, <1>5, <1>6 DEF IInv, WriteInv, RecordingInv
<1>8. PICK c \in Nat : c = info.ceLen /\ InfoOK(info) /\ rec \in Nat
                       /\ (~opts.rockridge => c = 0)
  BY <1>3 DEF IInv, WriteInv, InfoOK, NoInfo
<1>9. PICK m \in Int : m = Start + n
  BY TreeAssumption
<1>10. d \in Dirs
  BY <1>3, <1>5, <1>7, RecordingTop
<1>11. t.recs[d] = Records(d) /\ t.subs[d] = SubDirs(d) /\ t.rr = opts.rockridge
  BY <1>1, <1>10 DEF TreeData
<1>12. rec > Len(t.recs[d]) /\ todo' = NextStack(t, T)
  BY <1>5, <1>11 DEF WriteDirEnd, NextStack
<1>13. TreeOK(t)
  BY <1>1, TreeIsOK DEF IInv
<1>14. PICK x \in Nat : x = DivUp(c, BlockSize) /\ RoundUpBlock(c) = x * BlockSize /\ (c = 0 => x = 0)
  <2>1. DivUp(c, BlockSize) \in Nat /\ RoundUpBlock(c) = DivUp(c, BlockSize) * BlockSize
    BY RoundUpIs
  <2>2. c = 0 => DivUp(c, BlockSize) = 0
    BY DivUpWhole, BlockIs, 0 * BlockSize = 0
  <2> QED  BY <2>1, <2>2
<1>15. Recording(t, p, s0, e, todo', 1, m + 1 + (IF t.rr THEN x ELSE 0), 0, 0)
  BY <1>3, <1>5, <1>7, <1>8, <1>9, <1>12, <1>13, <1>14, RecordingEnd
<1>16. m + 1 + (IF t.rr THEN x ELSE 0) = m + 1 + x
  BY <1>8, <1>11, <1>14
<1>17. bytesOut' = n * BlockSize + BlockSize + x * BlockSize
  <2>1. CeArea(info) = RoundUpBlock(c)
    BY <1>8, CeAreaIs
  <2>2. bytesOut' = bytesOut + BlockSize + (IF c > 0 THEN x * BlockSize ELSE 0)
    BY <1>8, <1>14, <2>1 DEF WriteDirEnd
  <2>3. c = 0 => x * BlockSize = 0
    BY <1>14, BlockIs
  <2>4. PICK z \in Nat : z = x * BlockSize
    BY BlockIs
  <2>5. bytesOut' = bytesOut + BlockSize + z
    BY <1>8, <2>2, <2>3, <2>4
  <2> QED  BY <1>7, <2>4, <2>5
<1>18. PICK n1 \in Int : n1 = n + 1 + x
  OBVIOUS
<1>19. bytesOut' = n1 * BlockSize /\ Start + n1 = m + 1 + x
  BY <1>9, <1>17, <1>18, BlockIs, TreeAssumption
<1>20. rec' = 1 /\ info' = NoInfo /\ fill' = 0 /\ lens' = <<>> /\ NoInfo.ceLen = 0
  BY DEF WriteDirEnd, NoInfo
<1>21. RecordingInv'
  <2>1. Recording(t, plan'[half'], StartOf(t, tables', half'), tables'[half'].l,
                  todo', rec', Start + n1, fill', info'.ceLen)
    BY <1>3, <1>6, <1>15, <1>16, <1>19, <1>20
  <2> QED  BY <1>2, <1>19, <2>1 DEF RecordingInv
<1>22. PlacedInv'
  BY <1>1, <1>2, <1>3 DEF IInv, WriteInv, PlacedInv
<1>23. WriteInv'
  <2>1. IsList(<<>>) /\ Len(<<>>) = 0
    BY <<>> \in Seq({}) DEF IsList
  <2> QED  BY <1>20, <1>21, <1>22, <2>1, NoInfoOK DEF WriteInv
<1> QED  BY <1>3, <1>4, <1>23 DEF IInv, CalcInv, TreeEndAsPredicted

LEMMA WritePathTablesKeeps ==
  ASSUME IInv, WritePathTables
  PROVE  IInv'
<1> USE TreeAssumption
<1>1. PICK t : t = TreeData
  OBVIOUS
<1>2. nodes' = nodes /\ TreeData' = t
  BY <1>1, TreeDataSame DEF WritePathTables
<1>3. /\ pc = "write" /\ plan' = plan /\ tables' = tables /\ todo = <<>> /\ opts' = opts
      /\ rec' = rec /\ info' = info /\ fill' = fill /\ lens' = lens
  BY <1>2 DEF WritePathTables, nodes
<1>4. TreeInv' /\ ShapeInv'
  BY <1>2, <1>3 DEF IInv, TreeInv, ShapeInv, WritePathTables, nodes
<1>5. PlacedInv /\ half \in 1 .. 2 /\ (half = 2 => opts.twin)
  BY <1>3 DEF IInv, WriteInv, ShapeInv
<1>6. PICK n \in Int : /\ bytesOut = n * BlockSize /\ Start + n = tables[half].l
                       /\ rec = 1 /\ fill = 0 /\ info.ceLen = 0
  <2>1. PICK n \in Int :
          /\ bytesOut = n * BlockSize
          /\ Recording(t, plan[half], StartOf(t, tables, half), tables[half].l,
                       <<>>, rec, Start + n, fill, info.ceLen)
    BY <1>1, <1>3 DEF IInv, WriteInv, RecordingInv
  <2>2. rec = 1 /\ fill = 0 /\ info.ceLen = 0 /\ Start + n = tables[half].l
    BY <2>1 DEF Recording
  <2> QED  BY <2>1, <2>2
<1>7. PICK x \in Nat : x = t.table /\ RoundUpBlock(PathTableSize) = x * BlockSize
  <2>1. PathTableSize \in Nat
    BY PathTableFits DEF IInv, TreeInv
  <2>2. DivUp(PathTableSize, BlockSize) \in Nat
        /\ RoundUpBlock(PathTableSize) = DivUp(PathTableSize, BlockSize) * BlockSize
    BY <2>1, RoundUpIs
  <2> QED  BY <1>1, <2>2 DEF TreeData
<1>8. PICK g \in 0 .. 1 : g = IF half = 1 THEN t.tag ELSE 0
  BY <1>1 DEF TreeData
<1>9. PICK n1 \in Int : n1 = n + 2 * x + g
  OBVIOUS
<1>10. bytesOut' = n1 * BlockSize
  <2>1. Total([k \in 1 .. Len(PathTable) |-> PathTable[k].len]) = PathTableSize
    BY PathTableFits DEF IInv, TreeInv
  <2>2. (IF half = 1 /\ opts.md5 THEN BlockSize ELSE 0) = g * BlockSize
    <3>1. g = IF half = 1 /\ opts.md5 THEN 1 ELSE 0
      BY <1>1, <1>8 DEF TreeData
    <3> QED  BY <3>1, BlockIs
  <2>3. bytesOut' = bytesOut + 2 * (x * BlockSize) + g * BlockSize
    BY <1>7, <2>1, <2>2 DEF WritePathTables
  <2> QED  BY <1>6, <1>9, <2>3, BlockIs
<1>11. Start + n1 = EndOf(t, tables, half)
  <2>1. tables[half].l + 2 * x + g = EndOf(t, tables, half)
    BY <1>7, <1>8 DEF EndOf
  <2> QED  BY <1>6, <1>9, <2>1
<1>12. CASE half = 1 /\ opts.twin
  <2>1. half' = 2 /\ todo' = <<Root>> /\ pc' = "write" /\ treeEnd' = treeEnd
    BY <1>3, <1>12 DEF WritePathTables
  <2>2. PlacedInv'
    BY <1>1, <1>2, <1>3, <1>5, <2>1 DEF PlacedInv
  <2>3. PICK s0 \in Int : s0 = Start + n1
    OBVIOUS
  <2>4. s0 = EndOf(t, tables, 1) /\ s0 = StartOf(t, tables, 2)
    BY <1>11, <1>12, <2>3 DEF StartOf
  <2>5. Placed(t, plan[2], s0, tables[2].l)
    BY <1>1, <1>5, <1>12, <2>4 DEF PlacedInv
  <2>6. TreeOK(t)
    BY <1>1, TreeIsOK DEF IInv
  <2>7. Recording(t, plan[2], s0, tables[2].l, <<Root>>, 1, s0, 0, 0)
    BY <2>5, <2>6, RecordingStart
  <2>8. Recording(t, plan'[half'], StartOf(t, tables', half'), tables'[half'].l,
                  todo', rec', Start + n1, fill', info'.ceLen)
    BY <1>3, <1>6, <2>1, <2>3, <2>4, <2>7
  <2>9. RecordingInv'
    BY <1>2, <1>10, <2>8 DEF RecordingInv
  <2>10. WriteInv'
    BY <1>3, <2>2, <2>9 DEF IInv, WriteInv
  <2> QED  BY <1>4, <2>1, <2>10 DEF IInv, CalcInv, TreeEndAsPredicted
<1>13. CASE ~(half = 1 /\ opts.twin)
  <2>1. pc' = "done" /\ treeEnd' = IF Start + bytesOut' \div BlockSize = treeEnd THEN treeEnd ELSE 1
    BY <1>13 DEF WritePathTables
  <2>2. half = IF opts.twin THEN 2 ELSE 1
    BY <1>5, <1>13
  <2>3. treeEnd = Start + n1
    BY <1>1, <1>5, <1>11, <2>2 DEF PlacedInv
  <2>4. bytesOut' \div BlockSize = n1
    BY <1>10, BlockIs
  <2>5. treeEnd' = Start + n1
    BY <2>1, <2>3, <2>4
  <2>6. Start * BlockSize + bytesOut' = treeEnd' * BlockSize
    BY <1>10, <2>5, BlockIs
  <2>7. TreeEndAsPredicted'
    BY <2>6 DEF TreeEndAsPredicted
  <2> QED  BY <1>4, <2>1, <2>7 DEF IInv, CalcInv, WriteInv
<1> QED  BY <1>12, <1>13

\* The fields of a record, composed by rrip_get_susp_fields().
LEMMA FieldsAreOK ==
  ASSUME TreeInv, NEW d, NEW q, AreRecords(q), NEW k \in 1 .. Len(q), InfoOK(info)
  PROVE  InfoOK(FieldsOf(d, q[k])) /\ (~opts.rockridge => FieldsOf(d, q[k]) = info)
<1>1. q[k].id \in Nodes
  <2>1. PICK S : S = [id : Nodes, type : 0 .. 2]
    OBVIOUS
  <2>2. q \in Seq(S)
    BY <2>1 DEF AreRecords
  <2>3. k \in 1 .. Len(q) => q[k] \in S
    BY ONLY <2>2
  <2> QED  BY <2>1, <2>3
<1>2. IsNode(node[q[k].id]) /\ UsedUp(q[k]) \in Nat
  BY <1>1, UsedUpIs DEF TreeInv
<1> QED  BY <1>2, ComposeOK DEF FieldsOf

LEMMA WriteRecordKeeps ==
  ASSUME IInv, WriteRecord, PredictionExact', RecordsFit'
  PROVE  IInv'
<1>1. PICK t : t = TreeData
  OBVIOUS
<1>2. nodes' = nodes /\ TreeData' = t
  BY <1>1, TreeDataSame DEF WriteRecord
<1>3. /\ pc = "write" /\ half' = half /\ plan' = plan /\ tables' = tables
      /\ treeEnd' = treeEnd /\ todo # <<>> /\ todo' = todo /\ opts' = opts
  BY DEF WriteRecord, sizes, nodes
<1>4. TreeInv' /\ ShapeInv'
  BY <1>2, <1>3 DEF IInv, TreeInv, ShapeInv, nodes
<1>5. PICK d : d = Head(todo)
  OBVIOUS
<1>6. PICK p, s0, e : /\ p = plan[half] /\ s0 = StartOf(t, tables, half) /\ e = tables[half].l
  OBVIOUS
<1>7. PICK n \in Int : /\ bytesOut = n * BlockSize
                       /\ Recording(t, p, s0, e, todo, rec, Start + n, fill, info.ceLen)
  BY <1>1, <1>3, <1>6 DEF IInv, WriteInv, RecordingInv
<1>8. /\ InfoOK(info) /\ rec \in Nat /\ IsList(lens) /\ Len(lens) = rec - 1
      /\ (~opts.rockridge => info = NoInfo)
  BY <1>3 DEF IInv, WriteInv
<1>9. PICK m \in Int : m = Start + n
  BY TreeAssumption
<1>10. d \in Dirs
  BY <1>3, <1>5, <1>7, RecordingTop
<1>11. t.recs[d] = Records(d) /\ AreRecords(Records(d))
  BY <1>1, <1>10, RunOfDirectory DEF IInv
<1>12. rec =< Len(Records(d))
  BY <1>5 DEF WriteRecord
<1>13. rec \in 1 .. Len(Records(d))
  <2>1. PICK W, Vis : Writing(t, d, rec, p[d].block, Start + n, fill, info.ceLen)
    BY <1>3, <1>5, <1>7, RecordingTop
  <2>2. rec >= 1
    BY <2>1 DEF Writing
  <2> QED  BY <1>8, <1>11, <1>12, <2>2, RecordsLen
<1>14. PICK r, i : r = Records(d)[rec] /\ i = FieldsOf(d, r)
  OBVIOUS
<1>15. InfoOK(i) /\ (~opts.rockridge => i = NoInfo)
  BY <1>8, <1>11, <1>13, <1>14, FieldsAreOK DEF IInv
<1>16. IF i.err THEN pc' = "aborted" ELSE PutRecord(r, i) /\ pc' = pc
  BY <1>5, <1>14 DEF WriteRecord
<1>17. CASE i.err
  BY <1>4, <1>16, <1>17 DEF IInv, CalcInv, WriteInv, TreeEndAsPredicted
<1>18. CASE ~i.err
  <2>1. PICK len, ce : len = UsedUp(r) + i.suf /\ ce = i.ceLen - info.ceLen
    OBVIOUS
  <2>2. PICK flush \in BOOLEAN : flush <=> r.type = 0 /\ fill + len > BlockSize
    OBVIOUS
  <2>3. /\ bytesOut'  = (IF flush THEN bytesOut + BlockSize ELSE bytesOut)
        /\ fill' = (IF flush THEN len ELSE fill + len)
        /\ lens' = Append(lens, [len |-> len, ce |-> ce])
        /\ info' = UpdateCeSizes(i) /\ rec' = rec + 1 /\ pc' = "write"
    BY <1>3, <1>16, <1>18, <2>1, <2>2 DEF PutRecord
  <2>4. IsList(lens') /\ Len(lens') = rec /\ lens'[rec] = [len |-> len, ce |-> ce]
    <3>1. PICK S : lens \in Seq(S)
      BY <1>8 DEF IsList
    <3>2. PICK V : V = S \cup {[len |-> len, ce |-> ce]}
      OBVIOUS
    <3>3. lens \in Seq(V) /\ [len |-> len, ce |-> ce] \in V
      BY <3>1, <3>2
    <3>4. /\ Append(lens, [len |-> len, ce |-> ce]) \in Seq(V)
          /\ Len(Append(lens, [len |-> len, ce |-> ce])) = Len(lens) + 1
          /\ Append(lens, [len |-> len, ce |-> ce])[Len(lens) + 1] = [len |-> len, ce |-> ce]
      BY <3>3
    <3> QED  BY <1>8, <2>3, <3>4 DEF IsList
  <2>5. rec \in 1 .. Len(lens')
    BY <1>13, <2>4
  <2>6. p[d].recs[rec] = [len |-> len, ce |-> ce]
    BY <1>3, <1>5, <1>6, <2>4, <2>5 DEF PredictionExact
  <2>7. len =< 254
    BY <2>4, <2>5 DEF RecordsFit
  <2>8. UsedUp(r) \in Nat /\ UsedUp(r) >= 33
    BY <1>11, <1>13, <1>14, UsedUpIs DEF IInv
  <2>9. len \in 1 .. 254 /\ ce \in Int /\ info.ceLen \in Int /\ info.ceLen + ce = i.ceLen
    <3>1. i.suf \in Nat /\ i.ceLen \in Nat /\ info.ceLen \in Nat
      BY <1>8, <1>15 DEF InfoOK
    <3>2. PICK u \in Nat : u = UsedUp(r) /\ u >= 33
      BY <2>8
    <3>3. PICK x, y, z \in Nat : x = i.suf /\ y = i.ceLen /\ z = info.ceLen
      BY <3>1
    <3>4. len = u + x /\ ce = y - z
      BY <2>1, <3>2, <3>3
    <3>a. u \in Nat /\ x \in Nat /\ y \in Nat /\ z \in Nat /\ u >= 33
      BY <3>2
    <3>5. len \in 1 .. 254 /\ ce \in Int /\ z + ce = y
      BY ONLY <2>7, <3>4, <3>a
    <3> QED  BY <3>3, <3>5
  <2>10. PICK c \in Int : c = info.ceLen
    BY <2>9
  <2>11. TreeOK(t)
    BY <1>1, TreeIsOK DEF IInv
  <2>12. Recording(t, p, s0, e, todo, rec + 1, IF flush THEN m + 1 ELSE m,
                   IF flush THEN len ELSE fill + len, c + ce)
    <3>1. Recording(t, p, s0, e, todo, rec, m, fill, c)
      BY <1>7, <1>9, <2>10
    <3>2. flush <=> t.recs[d][rec].type = 0 /\ fill + len > BlockSize
      BY <1>11, <1>14, <2>2
    <3>3. t.sizes[d].recs[rec] = [len |-> len, ce |-> ce]
      <4>1. IsPlanned(t, d, p[d])
        BY <1>3, <1>5, <3>1, RecordingTop
      <4> QED  BY <2>6, <4>1 DEF IsPlanned
    <3>4. IsNext(t, d, rec, fill, len, ce, flush)
      BY <1>11, <1>12, <2>9, <3>2, <3>3 DEF IsNext
    <3> QED  BY <1>3, <1>5, <1>8, <2>11, <3>1, <3>4, RecordingStep
  <2>13. InfoOK(info') /\ info'.ceLen = c + ce
    BY <1>15, <2>3, <2>9, <2>10, UpdateOK
  <2>14. ~opts.rockridge => info' = NoInfo
    <3>1. UpdateCeSizes(NoInfo) = NoInfo
      BY DEF UpdateCeSizes, NoInfo
    <3> QED  BY <1>15, <2>3, <3>1
  <2>15. PICK n1 \in Int : n1 = IF flush THEN n + 1 ELSE n
    OBVIOUS
  <2>16. bytesOut' = n1 * BlockSize /\ Start + n1 = IF flush THEN m + 1 ELSE m
    BY <1>7, <1>9, <2>3, <2>15, BlockIs, TreeAssumption
  <2>17. RecordingInv'
    <3>1. Recording(t, plan'[half'], StartOf(t, tables', half'), tables'[half'].l,
                    todo', rec', Start + n1, fill', info'.ceLen)
      BY <1>3, <1>6, <2>3, <2>12, <2>13, <2>16
    <3> QED  BY <1>2, <2>16, <3>1 DEF RecordingInv
  <2>18. PlacedInv'
    BY <1>1, <1>2, <1>3 DEF IInv, WriteInv, PlacedInv
  <2>19. WriteInv'
    BY <1>3, <1>8, <2>3, <2>4, <2>13, <2>14, <2>17, <2>18 DEF WriteInv
  <2> QED  BY <1>4, <2>3, <2>19 DEF IInv, CalcInv, TreeEndAsPredicted
<1> QED  BY <1>17, <1>18

\* Where the bytes go, as the readers of the image are told.
LEMMA InvGivesPlaces ==
  ASSUME IInv
  PROVE  WhereRecorded
<1> USE TreeAssumption
<1>1. SUFFICES ASSUME pc = "write" PROVE WhereRecorded
  BY DEF WhereRecorded
<1>2. PICK t : t = TreeData
  OBVIOUS
<1>3. PICK p, s0, e : /\ p = plan[half] /\ s0 = StartOf(t, tables, half) /\ e = tables[half].l
  OBVIOUS
<1>4. PICK n \in Int : /\ bytesOut = n * BlockSize
                       /\ Recording(t, p, s0, e, todo, rec, Start + n, fill, info.ceLen)
  BY <1>1, <1>2, <1>3 DEF IInv, WriteInv, RecordingInv
<1>5. PICK m \in Int : m = Start + n
  OBVIOUS
<1>6. PICK here : here = Start * BlockSize + bytesOut
  OBVIOUS
<1>7. here = m * BlockSize
  BY <1>4, <1>5, <1>6, BlockIs
<1>8. Recording(t, p, s0, e, todo, rec, m, fill, info.ceLen)
  BY <1>4, <1>5
<1>9. CASE todo = <<>>
  <2>1. m = tables[half].l
    BY <1>3, <1>8, <1>9 DEF Recording
  <2> QED  BY <1>6, <1>7, <1>9, <2>1 DEF WhereRecorded
<1>10. CASE todo # <<>>
  <2>1. PICK d : d = Head(todo)
    OBVIOUS
  <2>2. /\ d \in Dirs /\ p[d].block \in Int /\ IsPlanned(t, d, p[d])
        /\ Writing(t, d, rec, p[d].block, m, fill, info.ceLen)
    BY <1>8, <1>10, <2>1, RecordingTop
  <2>3. t.recs[d] = Records(d) /\ TreeOK(t)
    BY <1>2, <2>2, TreeIsOK DEF IInv, TreeData
  <2>4. rec = 1 => here = plan[half][d].block * BlockSize
    BY <1>3, <1>7, <2>2 DEF Writing
  <2>5. rec > Len(Records(d)) => here + BlockSize = CeBlock(d) * BlockSize
    <3>1. SUFFICES ASSUME rec > Len(Records(d))
                   PROVE  here + BlockSize = CeBlock(d) * BlockSize
      OBVIOUS
    <3>2. PICK c \in Nat : c = info.ceLen /\ rec \in Nat
      BY <1>1 DEF IInv, WriteInv, InfoOK
    <3>3. p[d].block + DivUp(p[d].len, BlockSize) = m + 1
      BY <1>8, <1>10, <2>1, <2>3, <3>1, <3>2, RecordingEnd
    <3>4. CeBlock(d) = m + 1
      BY <1>3, <3>3 DEF CeBlock
    <3> QED  BY <1>7, <3>4, BlockIs
  <2> QED  BY <1>6, <1>10, <2>1, <2>4, <2>5 DEF WhereRecorded
<1> QED  BY <1>9, <1>10

LEMMA PathTableHasParents ==
  ASSUME TreeInv
  PROVE  \A k \in 2 .. Len(PathTable) :
           /\ PathTable[k].parent \in 1 .. k - 1
           /\ PathTable[PathTable[k].parent].dir = Parent(PathTable[k].dir)
<1> USE TreeAssumption
<1>1. IsTree(kids)
  BY DEF TreeInv
<1>2. PICK n \in Nat : \E pa : ListedUpTo(TreeData, Pathlist, n, n, pa)
  BY <1>1, PathlistIs
<1>3. PICK pa : ListedUpTo(TreeData, Pathlist, n, n, pa)
  BY <1>2
<1>4. /\ Len(PathTable) = n
      /\ \A k \in 1 .. n : PathTable[k] = EntryOf(Pathlist, pa, k)
  BY <1>1, <1>3, PathTableIs
<1>5. PICK list : list = Pathlist /\ list \in Seq(Dirs) /\ n = Len(list)
  BY <1>3 DEF ListedUpTo
<1>6. ASSUME NEW k \in 2 .. n
      PROVE  /\ PathTable[k].parent \in 1 .. k - 1
             /\ PathTable[PathTable[k].parent].dir = Parent(PathTable[k].dir)
  <2>1. PICK j : j = pa[k] /\ j \in 1 .. n /\ j < k /\ Contains(TreeData.subs[list[j]], list[k])
    BY <1>3, <1>5 DEF ListedUpTo
  <2>2. k \in 1 .. n /\ k # 1 /\ j \in 1 .. k - 1
    BY <2>1
  <2>3. PathTable[k].parent = j /\ PathTable[k].dir = list[k] /\ PathTable[j].dir = list[j]
    <3>1. PathTable[k] = EntryOf(list, pa, k) /\ PathTable[j] = EntryOf(list, pa, j)
      BY <1>4, <1>5, <2>1, <2>2
    <3>2. EntryOf(list, pa, k).parent = j /\ EntryOf(list, pa, k).dir = list[k]
      BY <2>1, <2>2 DEF EntryOf
    <3>3. EntryOf(list, pa, j).dir = list[j]
      BY DEF EntryOf
    <3> QED  BY <3>1, <3>2, <3>3
  <2>4. list[j] \in Dirs
    BY <1>5, <2>1
  <2>5. Contains(SubDirs(list[j]), list[k])
    BY <2>1, <2>4 DEF TreeData
  <2>6. Parent(list[k]) = list[j]
    BY <1>1, <2>4, <2>5, ParentIs
  <2> QED  BY <2>2, <2>3, <2>6
<1> QED  BY <1>4, <1>6

TablesInv == TreeInv /\ PathTableSound

LEMMA TablesStep ==
  ASSUME TablesInv, [Next]_vars
  PROVE  TablesInv'
<1>1. nodes' = nodes
  BY DEF Next, vars, CalcDirPos, CalcPathTables, WriteFails, WriteRecord, WriteDirEnd,
         WritePathTables
<1>2. TreeInv' /\ \A d : Parent(d)' = Parent(d)
  BY <1>1 DEF TablesInv, TreeInv, nodes, Parent
<1>3. table' = table \/ table' = PathTable
  BY DEF Next, vars, output, CalcDirPos, CalcPathTables, WriteFails, WriteRecord, WriteDirEnd,
         WritePathTables
<1>4. \A k \in 2 .. Len(table') : /\ table'[k].parent \in 1 .. k - 1
                                  /\ table'[table'[k].parent].dir = Parent(table'[k].dir)
  BY <1>3, PathTableHasParents DEF TablesInv, PathTableSound
<1>5. PathTableSound'
  BY <1>1, <1>4 DEF PathTableSound, Parent, nodes
<1> QED  BY <1>2, <1>5 DEF TablesInv

\* Each entry of a path table tells the number of its parent directory, which comes before
\* it, whatever the tree: write_path_tables() lists the directories level by level, and the
\* search of write_path_table(), which goes on from the parent of the previous entry, does
\* not miss the parent.
THEOREM PathTablesSound == Spec => []PathTableSound
<1>1. Init => TablesInv
  BY InitKeeps DEF IInv, TablesInv, PathTableSound, Init
<1>2. TablesInv /\ [Next]_vars => TablesInv'
  BY TablesStep
<1>3. TablesInv => PathTableSound
  BY DEF TablesInv
<1> QED  BY <1>1, <1>2, <1>3, PTL DEF Spec

RecordsAsPredicted == PredictionExact /\ RecordsFit

LEMMA InvStep ==
  ASSUME IInv, [Next]_vars, RecordsAsPredicted'
  PROVE  IInv'
<1>1. CASE CalcDirPos
  BY <1>1, CalcDirPosKeeps
<1>2. CASE CalcPathTables
  BY <1>2, CalcPathTablesKeeps
<1>3. CASE WriteFails
  BY <1>3, WriteFailsKeeps
<1>4. CASE WriteRecord
  BY <1>4, WriteRecordKeeps DEF RecordsAsPredicted
<1>5. CASE WriteDirEnd
  BY <1>5, WriteDirEndKeeps
<1>6. CASE WritePathTables
  BY <1>6, WritePathTablesKeeps
<1>7. CASE vars' = vars
  <2>1. /\ nodes' = nodes /\ TreeData' = TreeData /\ pc' = pc /\ half' = half /\ todo' = todo
        /\ cur' = cur /\ plan' = plan /\ tables' = tables /\ treeEnd' = treeEnd
        /\ rec' = rec /\ info' = info /\ fill' = fill /\ bytesOut' = bytesOut /\ lens' = lens
        /\ opts' = opts /\ kids' = kids /\ node' = node
    BY <1>7, TreeDataSame DEF vars, nodes, sizes, output
  <2>2. TreeInv' /\ ShapeInv' /\ CalcInv' /\ TreeEndAsPredicted'
    BY <2>1 DEF IInv, TreeInv, ShapeInv, CalcInv, TreeEndAsPredicted
  <2>3. PlacedInv' <=> PlacedInv
    BY <2>1 DEF PlacedInv
  <2>4. RecordingInv' <=> RecordingInv
    BY <2>1 DEF RecordingInv
  <2>5. WriteInv'
    BY <2>1, <2>3, <2>4 DEF IInv, WriteInv
  <2> QED  BY <2>2, <2>5 DEF IInv
<1> QED  BY <1>1, <1>2, <1>3, <1>4, <1>5, <1>6, <1>7 DEF Next

\* If write_one_dir() composes each record as rrip_calc_len() has predicted it, and the
\* record fits, then the directories, their Continuation Areas and the path tables of both
\* trees are written to the blocks which calc_dir_pos() has told to directory records, CE
\* fields and volume descriptors, and the tree ends in the predicted block.  This does not
\* depend on the shape of the tree nor on the number of records.
THEOREM DirectoriesFound ==
  Spec /\ [](PredictionExact /\ RecordsFit) => [](DirectoriesReachable /\ TreeEndAsPredicted)
<1>1. Init => IInv
  BY InitKeeps
<1>2. IInv /\ [Next]_vars /\ RecordsAsPredicted' => IInv'
  BY InvStep
<1>3. IInv => WhereRecorded /\ TreeEndAsPredicted
  BY InvGivesPlaces DEF IInv
<1>4. Spec => []PathTableSound
  BY PathTablesSound
<1>5. WhereRecorded /\ TreeEndAsPredicted /\ PathTableSound
        => DirectoriesReachable /\ TreeEndAsPredicted
  BY DEF DirectoriesReachable
<1>6. RecordsAsPredicted <=> PredictionExact /\ RecordsFit
  BY DEF RecordsAsPredicted
<1> QED  BY <1>1, <1>2, <1>3, <1>4, <1>5, <1>6, PTL DEF Spec
=============================================================================
