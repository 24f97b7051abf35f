----------------------------- MODULE FileSrcProofs -----------------------------
(***************************************************************************)
(* Proofs about the data file writer: for any number of files, any sizes,  *)
(* any choice of write options and any failures while reading, the second  *)
(* pass writes what the first pass predicted.                              *)
(***************************************************************************)
EXTENDS FileSrc, FiniteSetTheorems, WellFoundedInduction, TLAPS

-----------------------------------------------------------------------------
(* Arithmetic.                                                              *)

LEMMA DivUpFacts ==
  ASSUME NEW a \in Nat, NEW d \in Nat \ {0}
  PROVE  DivUp(a, d) \in Nat /\ d * DivUp(a, d) >= a /\ d * DivUp(a, d) < a + d
BY DEF DivUp

\* The characterisation of the quotient rounded up.
LEMMA DivUpIs ==
  ASSUME NEW a \in Nat, NEW d \in Nat \ {0}, NEW q \in Nat, d * q >= a, d * q < a + d
  PROVE  DivUp(a, d) = q
<1>1. PICK p \in Nat : p = DivUp(a, d) /\ d * p >= a /\ d * p < a + d
  BY DivUpFacts
<1>2. ASSUME NEW m \in Nat, NEW n \in Nat, m < n PROVE d * m + d <= d * n
  <2>1. m + 1 <= n
    BY <1>2
  <2>2. d * (m + 1) <= d * n
    BY <2>1
  <2>3. d * (m + 1) = d * m + d
    OBVIOUS
  <2> QED  BY <2>2, <2>3
<1>3. ~(p < q)
  BY <1>1, <1>2
<1>4. ~(q < p)
  BY <1>1, <1>2
<1> QED  BY <1>1, <1>3, <1>4

LEMMA LenIs ==
  ASSUME NEW n \in Nat, NEW S, NEW f \in [1 .. n -> S]
  PROVE  Len(f) = n /\ f \in Seq(S)
OBVIOUS

LEMMA LeastNatural ==
  ASSUME NEW T, T \subseteq Nat, T # {}
  PROVE  \E x \in T : \A y \in T : x =< y
<1>1. PICK R : R = OpToRel(<, Nat)
  OBVIOUS
<1>2. IsWellFoundedOn(R, Nat)
  BY <1>1, NatLessThanWellFounded
<1>3. PICK x \in T : \A y \in T : ~(<<y, x>> \in R)
  BY <1>2, WFMin
<1>4. \A y \in T : ~(y < x)
  BY <1>1, <1>3 DEF OpToRel
<1> QED  BY <1>4

-----------------------------------------------------------------------------
(* Sums over functions, as the fold computes them.                          *)

Sum(fun) == FoldFunction(+, 0, fun)
Any(s) == CHOOSE x \in s : TRUE
IsSum(fun, h) ==
  h = [s \in SUBSET DOMAIN fun |-> IF s = {} THEN 0 ELSE fun[Any(s)] + h[s \ {Any(s)}]]

\* Whatever satisfies the equation of the fold gives its result.
LEMMA SumIs ==
  ASSUME NEW fun, IsFiniteSet(DOMAIN fun), NEW F, IsSum(fun, F)
  PROVE  Sum(fun) = F[DOMAIN fun]
<1> DEFINE D == DOMAIN fun
<1>1. Sum(fun) = (CHOOSE h : IsSum(fun, h))[D]
  BY DEF Sum, FoldFunction, FoldFunctionOnSet, MapThenFoldSet, IsSum, Any
<1>2. PICK G : G = (CHOOSE h : IsSum(fun, h))
  OBVIOUS
<1>3. IsSum(fun, G)
  BY <1>2
<1>4. \A s \in SUBSET D : F[s] = G[s]
  <2> DEFINE T == {Cardinality(s) : s \in {s \in SUBSET D : F[s] # G[s]}}
  <2>1. \A s \in SUBSET D : IsFiniteSet(s) /\ Cardinality(s) \in Nat
    BY FS_Subset, FS_CardinalityType
  <2>2. SUFFICES ASSUME T # {} PROVE FALSE
    OBVIOUS
  <2>3. T \subseteq Nat
    BY <2>1
  <2>4. PICK m \in T : \A y \in T : m =< y
    BY <2>2, <2>3, LeastNatural
  <2>5. PICK s \in SUBSET D : F[s] # G[s] /\ m = Cardinality(s)
    OBVIOUS
  <2>6. s # {}
    BY <1>3, <2>5 DEF IsSum
  <2>7. PICK x \in s : x = Any(s)
    BY <2>6 DEF Any
  <2>8. Cardinality(s \ {x}) = Cardinality(s) - 1
    BY <2>1, FS_RemoveElement
  <2>9. ~(m <= Cardinality(s \ {x}))
    BY <2>1, <2>5, <2>8
  <2>10. F[s \ {x}] = G[s \ {x}]
    BY <2>4, <2>9
  <2>11. F[s] = fun[x] + F[s \ {x}] /\ G[s] = fun[x] + G[s \ {x}]
    BY <1>3, <2>6, <2>7 DEF IsSum
  <2> QED  BY <2>5, <2>10, <2>11
<1> QED  BY <1>1, <1>2, <1>4

\* The sum over n sections of which all but the last have the same value.
LEMMA SectionSum ==
  ASSUME NEW n \in Nat \ {0}, NEW a \in Nat, NEW c \in Nat,
         NEW fun, fun = [e \in 1 .. n |-> IF e < n THEN a ELSE c]
  PROVE  Sum(fun) = a * (n - 1) + c
<1> DEFINE D == 1 .. n
           F == [s \in SUBSET D |-> a * Cardinality(s \ {n}) + IF n \in s THEN c ELSE 0]
<1>1. IsFiniteSet(D) /\ DOMAIN fun = D
  BY FS_Interval
<1>2. \A s \in SUBSET D : IsFiniteSet(s) /\ IsFiniteSet(s \ {n}) /\ Cardinality(s \ {n}) \in Nat
  <2> TAKE s \in SUBSET D
  <2>1. IsFiniteSet(s)
    BY <1>1, FS_Subset
  <2>2. IsFiniteSet(s \ {n})
    BY <2>1, FS_Subset
  <2> QED  BY <2>1, <2>2, FS_CardinalityType
<1>3. ASSUME NEW s \in SUBSET D, s # {}, NEW x \in s PROVE F[s] = fun[x] + F[s \ {x}]
  <2>1. CASE x = n
    <3>1. s \ {n} = (s \ {x}) \ {n} /\ n \notin s \ {x} /\ n \in s
      BY <2>1
    <3>2. PICK m \in Nat : m = Cardinality(s \ {n})
      BY <1>2
    <3>3. F[s] = a * m + c /\ F[s \ {x}] = a * m + 0
      BY <3>1, <3>2
    <3>4. fun[x] = c
      BY <2>1
    <3>5. a * m \in Nat
      BY <3>2
    <3> QED  BY <3>3, <3>4, <3>5
  <2>2. CASE x # n
    <3>1. (s \ {x}) \ {n} = (s \ {n}) \ {x} /\ x \in s \ {n}
      BY <2>2
    <3>2. Cardinality((s \ {n}) \ {x}) = Cardinality(s \ {n}) - 1
      BY <1>2, <3>1, FS_RemoveElement
    <3>3. PICK m \in Nat : m = Cardinality((s \ {x}) \ {n})
      BY <1>2
    <3>4. Cardinality(s \ {n}) = m + 1
      <4>1. PICK k \in Nat : k = Cardinality(s \ {n})
        BY <1>2
      <4>2. m = k - 1
        BY <3>1, <3>2, <3>3, <4>1
      <4> QED  BY <4>1, <4>2
    <3>5. PICK k \in Nat : k = IF n \in s THEN c ELSE 0
      OBVIOUS
    <3>6. F[s] = a * (m + 1) + k /\ F[s \ {x}] = a * m + k
      BY <2>2, <3>3, <3>4, <3>5
    <3>7. fun[x] = a
      BY <2>2
    <3>8. a * (m + 1) = a * m + a /\ a * m \in Nat
      OBVIOUS
    <3> QED  BY <3>6, <3>7, <3>8
  <2> QED  BY <2>1, <2>2
<1>4. F[{}] = 0
  <2>1. {} \ {n} = {} /\ n \notin {} /\ Cardinality({}) = 0
    BY FS_EmptySet
  <2> QED  BY <2>1
<1>5. IsSum(fun, F)
  <2>1. \A s \in SUBSET D : F[s] = IF s = {} THEN 0 ELSE fun[Any(s)] + F[s \ {Any(s)}]
    <3> HIDE DEF F
    <3> TAKE s \in SUBSET D
    <3>1. CASE s = {}
      BY <1>4, <3>1
    <3>2. CASE s # {}
      <4>1. PICK x \in s : x = Any(s)
        BY <3>2 DEF Any
      <4>2. F[s] = fun[x] + F[s \ {x}]
        BY <1>3, <3>2
      <4> QED  BY <3>2, <4>1, <4>2
    <3> QED  BY <3>1, <3>2
  <2>2. F = [s \in SUBSET D |-> F[s]]
    OBVIOUS
  <2> HIDE DEF F
  <2> QED  BY <1>1, <2>1, <2>2 DEF IsSum
<1>6. F[D] = a * (n - 1) + c
  <2>1. D \ {n} = 1 .. n - 1 /\ n \in D
    OBVIOUS
  <2>2. Cardinality(1 .. n - 1) = n - 1
    BY FS_Interval
  <2> QED  BY <2>1, <2>2
<1> HIDE DEF F
<1> QED  BY <1>1, <1>5, <1>6, SumIs

-----------------------------------------------------------------------------
(* The sections of a file.                                                  *)

LEMMA ExtentFacts ==
  /\ ExtentBlocks \in Nat \ {0} /\ ExtentSize = BlockSize * ExtentBlocks
  /\ DivUp(ExtentSize, BlockSize) = ExtentBlocks
  /\ ExtentSize =< MaxSection /\ MaxSection \in Nat
<1> USE BlockSizeAssumption, ExtentAssumption
<1>1. ExtentBlocks \in Nat \ {0} /\ ExtentSize = BlockSize * ExtentBlocks
  BY DEF ExtentBlocks
<1>2. DivUp(ExtentSize, BlockSize) = ExtentBlocks
  BY <1>1, DivUpIs
<1> QED  BY <1>1, <1>2

\* iso_file_src_create() makes as many sections as are needed: each fits into
\* 32 bits, and together they have the blocks of the file.
LastSize(z) == z - (NSections(z) - 1) * ExtentSize

LEMMA Parts ==
  ASSUME NEW z \in Nat
  PROVE  /\ NSections(z) \in Nat \ {0} /\ LastSize(z) \in Nat /\ LastSize(z) =< MaxSection
         /\ z > 0 => LastSize(z) > 0
         /\ z = 0 => NSections(z) = 1
         /\ (NSections(z) - 1) * ExtentBlocks + DivUp(LastSize(z), BlockSize) = DivUp(z, BlockSize)
<1> USE BlockSizeAssumption, ExtentAssumption
<1>a. PICK n, last : n = NSections(z) /\ last = LastSize(z) /\ last = z - (n - 1) * ExtentSize
  BY DEF LastSize
<1>0. ExtentSize \in Nat \ {0} /\ MaxSection \in Nat /\ MaxSection = ExtentSize + BlockSize - 1
  BY ExtentFacts
<1>1. CASE z > MaxSection
  <2>1. z - MaxSection \in Nat /\ n = DivUp(z - MaxSection, ExtentSize) + 1
    BY <1>a, <1>0, <1>1 DEF NSections
  <2>2. PICK q \in Nat : /\ q = n - 1 /\ n = q + 1
                         /\ ExtentSize * q >= z - MaxSection
                         /\ ExtentSize * q < z - MaxSection + ExtentSize
    <3>1. PICK m \in Nat : m = z - MaxSection
      BY <2>1
    <3>2. PICK q \in Nat : q = DivUp(m, ExtentSize)
      BY <1>0, DivUpFacts
    <3>3. ExtentSize * q >= m /\ ExtentSize * q < m + ExtentSize
      BY <1>0, <3>2, DivUpFacts
    <3> QED  BY <2>1, <3>1, <3>2, <3>3
  <2>3. PICK w \in Nat : w = ExtentSize * q /\ last = z - w
    BY <1>a, <1>0, <2>2
  <2>4. last \in Nat /\ last =< MaxSection /\ last >= BlockSize
    BY <1>0, <2>2, <2>3
  <2>5. PICK k \in Nat : /\ k = DivUp(last, BlockSize)
                         /\ BlockSize * k >= last /\ BlockSize * k < last + BlockSize
    BY <2>4, DivUpFacts
  <2>6. PICK eb \in Nat : eb = ExtentBlocks /\ ExtentSize = BlockSize * eb
    BY ExtentFacts
  <2>7. BlockSize * (q * eb + k) = w + BlockSize * k /\ q * eb + k \in Nat
    <3>1. ExtentSize * q = BlockSize * (q * eb)
      BY <2>6
    <3>2. q * eb \in Nat
      OBVIOUS
    <3>3. BlockSize * (q * eb + k) = BlockSize * (q * eb) + BlockSize * k
      BY <3>2
    <3> QED  BY <2>3, <3>1, <3>2, <3>3
  <2>8. PICK t \in Nat : t = q * eb + k
    BY <2>7
  <2>9. BlockSize * t >= z /\ BlockSize * t < z + BlockSize
    <3>1. PICK y \in Nat : y = BlockSize * k
      OBVIOUS
    <3>2. BlockSize * t = w + y /\ y >= last /\ y < last + BlockSize
      BY <2>5, <2>7, <2>8, <3>1
    <3> QED  BY <2>3, <2>4, <3>1, <3>2
  <2>10. DivUp(z, BlockSize) = t
    BY <2>9, DivUpIs
  <2>11. (n - 1) * ExtentBlocks + DivUp(last, BlockSize) = DivUp(z, BlockSize)
    <3>1. (n - 1) * ExtentBlocks = q * eb
      BY <2>2, <2>6
    <3> QED  BY <2>5, <2>8, <2>10, <3>1
  <2>12. n \in Nat \ {0} /\ z # 0 /\ last > 0
    BY <1>0, <1>1, <2>2, <2>4
  <2> QED  BY <1>a, <2>4, <2>11, <2>12
<1>2. CASE ~(z > MaxSection)
  <2>1. n = 1
    BY <1>a, <1>2 DEF NSections
  <2>2. (n - 1) * ExtentSize = 0 /\ (n - 1) * ExtentBlocks = 0
    BY <2>1, <1>0, ExtentFacts
  <2>3. last = z
    BY <1>a, <2>2
  <2>4. DivUp(z, BlockSize) \in Nat
    BY DivUpFacts
  <2> QED  BY <1>a, <1>0, <1>2, <2>1, <2>2, <2>3, <2>4
<1> QED  BY <1>1, <1>2

N(s) == NSections(stream[s].size)
SecSize(s, e) == IF e < N(s) THEN ExtentSize ELSE LastSize(stream[s].size)

Streams == [Sources -> [size : Sizes, old : BOOLEAN, boot : Boots]]

LEMMA SourceFacts ==
  ASSUME NEW s \in Sources, stream \in Streams
  PROVE  /\ N(s) \in Nat \ {0} /\ stream[s].size \in Nat /\ stream[s].size \in Sizes
         /\ Blocks(s) \in Nat
         /\ BlockSize * Blocks(s) >= stream[s].size
         /\ BlockSize * Blocks(s) < stream[s].size + BlockSize
         /\ stream[s].size = 0 => Blocks(s) = 0 /\ N(s) = 1
         /\ LastSize(stream[s].size) \in Nat
         /\ stream[s].size > 0 => LastSize(stream[s].size) > 0
         /\ \A e \in 1 .. N(s) : SecSize(s, e) \in 0 .. MaxSection
         /\ (N(s) - 1) * ExtentBlocks + DivUp(SecSize(s, N(s)), BlockSize) = Blocks(s)
<1>1. PICK z \in Nat : z = stream[s].size /\ z \in Sizes
  BY SizesAssumption DEF Streams
<1>2. PICK n : n = NSections(z) /\ n = N(s)
  BY <1>1 DEF N
<1>3. PICK last : last = LastSize(z)
  OBVIOUS
<1>4. /\ n \in Nat \ {0} /\ last \in Nat /\ last =< MaxSection
      /\ z > 0 => last > 0
      /\ z = 0 => n = 1
      /\ (n - 1) * ExtentBlocks + DivUp(last, BlockSize) = DivUp(z, BlockSize)
  BY <1>1, <1>2, <1>3, Parts
<1>5. Blocks(s) = DivUp(z, BlockSize)
  BY <1>1 DEF Blocks
<1>6. DivUp(z, BlockSize) \in Nat /\ BlockSize * DivUp(z, BlockSize) >= z
      /\ BlockSize * DivUp(z, BlockSize) < z + BlockSize
  BY BlockSizeAssumption, DivUpFacts
<1>7. z = 0 => DivUp(z, BlockSize) = 0
  BY BlockSizeAssumption, DivUpIs
<1>8. SecSize(s, N(s)) = last /\ \A e \in 1 .. N(s) : SecSize(s, e) \in {last, ExtentSize}
  BY <1>1, <1>2, <1>3, <1>4 DEF SecSize
<1>9. \A e \in 1 .. N(s) : SecSize(s, e) \in 0 .. MaxSection
  BY <1>4, <1>8, ExtentFacts, ExtentAssumption
<1> QED  BY <1>1, <1>2, <1>3, <1>4, <1>5, <1>6, <1>7, <1>8, <1>9

-----------------------------------------------------------------------------
(* The inductive invariant.                                                 *)

Base == IF opts.oldEmpty THEN 0 ELSE 1
\* Blocks among the files of the list, and in front of them.
Width(s) == IF s = efi THEN 0 ELSE Blocks(s)
EfiLen == IF efi = NoSource THEN 0 ELSE Blocks(efi)

IsSection == [block : Int, size : Int]
IsSrc == [noWrite : BOOLEAN, sections : Seq(IsSection), cx : Nat]
IsBlock == [of : Sources \union {NoSource}, blk : Nat, data : BOOLEAN]
Options == [oldEmpty : BOOLEAN, appendable : BOOLEAN, sort : BOOLEAN, md5 : Checksums]

Typed ==
  /\ opts \in Options /\ stream \in Streams
  /\ files \subseteq Sources /\ efi \in Sources \union {NoSource}
  /\ src \in [Sources -> IsSrc]
  /\ list \in Seq(Sources) /\ idx \in Nat /\ b \in Nat
  /\ out \in Seq(IsBlock)
  /\ md5 = [s \in Sources |-> md5[s]]
  /\ pc \in Pcs

\* What the first pass makes of a file of the list which begins at block `at`.
Planned(s, at) ==
  [e \in 1 .. N(s) |-> [block |-> IF stream[s].size = 0 THEN Empty ELSE at + (e - 1) * ExtentBlocks,
                        size  |-> SecSize(s, e)]]
\* The same when the addresses are absolute.
Final(s, at) ==
  [e \in 1 .. N(s) |-> [block |-> IF stream[s].size = 0
                                  THEN IF opts.oldEmpty THEN Start - 1 ELSE start
                                  ELSE at + (e - 1) * ExtentBlocks + start,
                        size  |-> SecSize(s, e)]]

\* The sections of all sources exist, the ones of the EFI partition are marked.
Unplaced(s) == /\ Len(src[s].sections) = N(s)
               /\ src[s].sections[1].block = IF s = efi THEN External ELSE 0
               /\ s = efi => ~src[s].noWrite

\* pos[i] is the place of the i-th file of the list: the files do not overlap.
Places(pos, m) ==
  /\ pos \in [1 .. m -> Nat] /\ pos[1] = Base
  /\ \A i, j \in 1 .. m : i < j => pos[i] + Width(list[i]) =< pos[j]
  /\ \A i \in 1 .. m - 1 : pos[i + 1] = pos[i] + Width(list[i])

Registering ==
  /\ efi = NoSource /\ list = <<>>
  /\ \A s \in files : Unplaced(s) /\ (src[s].noWrite => opts.appendable)

Listing ==
  /\ files = Sources /\ list = <<>>
  /\ \A s \in Sources : Unplaced(s) /\ (src[s].noWrite => opts.appendable)

ListSound ==
  /\ \A i, j \in DOMAIN list : i # j => list[i] # list[j]
  /\ efi # NoSource => \E i \in DOMAIN list : list[i] = efi

Placing(pos) ==
  /\ ListSound /\ idx \in 1 .. Len(list) + 1
  /\ Places(pos, idx) /\ blocks = pos[idx]
  /\ \A i \in DOMAIN list : i >= idx => Unplaced(list[i]) /\ ~src[list[i]].noWrite
  /\ \A i \in DOMAIN list : i < idx =>
       IF list[i] = efi
       THEN /\ src[efi].noWrite /\ Len(src[efi].sections) = N(efi)
            /\ \A e \in 1 .. N(efi) : src[efi].sections[e].size = SecSize(efi, e)
       ELSE ~src[list[i]].noWrite /\ src[list[i]].sections = Planned(list[i], pos[i])

\* The outcome of the first pass.
Layout(pos) ==
  /\ ListSound /\ Places(pos, Len(list) + 1) /\ blocks = pos[Len(list) + 1]
  /\ EfiBlocks = EfiLen /\ start = Start + EfiLen
  /\ \A i \in DOMAIN list : list[i] # efi =>
       ~src[list[i]].noWrite /\ src[list[i]].sections = Final(list[i], pos[i])
  /\ efi # NoSource =>
       /\ src[efi].noWrite
       /\ src[efi].sections = [e \in 1 .. N(efi) |-> [block |-> Start + (e - 1) * ExtentBlocks,
                                                      size |-> SecSize(efi, e)]]

\* Where the file idx begins, idx = 0 being the EFI partition.
Begin(pos) == IF idx = 0 THEN 0 ELSE EfiLen + pos[idx]
InFile == pc \in {"open", "data", "blank", "fill"}

Progress(pos) ==
  /\ idx \in 0 .. Len(list)
  /\ InFile => /\ IF idx = 0 THEN efi # NoSource ELSE list[idx] # efi
               /\ pc = "open" => Len(out) = Begin(pos)
               /\ pc # "open" => Len(out) = Begin(pos) + b /\ b =< Blocks(Cur)
  /\ pc = "zero" => idx = 0 /\ Len(out) = EfiLen
  /\ pc \in {"next", "done"} => Len(out) = EfiLen + pos[idx + 1]
  /\ pc = "done" => idx = Len(list)

\* What stands in the image so far.
Held(blk, s, k) == blk.of = s /\ blk.blk = k /\ (blk.data \/ s \in reported)
Contents(pos) ==
  /\ efi # NoSource =>
       \A k \in 0 .. Blocks(efi) - 1 : k + 1 =< Len(out) => Held(out[k + 1], efi, k)
  /\ ~opts.oldEmpty /\ EfiLen < Len(out) => out[EfiLen + 1] = ZeroBlock
  /\ \A i \in DOMAIN list : list[i] # efi =>
       \A k \in 0 .. Blocks(list[i]) - 1 :
         EfiLen + pos[i] + k + 1 =< Len(out) => Held(out[EfiLen + pos[i] + k + 1], list[i], k)

\* The checksum so far, and the ones of the files which are done.
Smaller(x, y) == IF x < y THEN x ELSE y
Done(i) == IF i = 0 THEN efi # NoSource /\ EfiLen > 0 /\ (InFile => idx # 0)
           ELSE list[i] # efi /\ (i < idx \/ (i = idx /\ ~InFile))
SumRight(i) == LET s == IF i = 0 THEN efi ELSE list[i]
               IN  src[s].cx > 0 /\ s \notin reported => md5[s] = <<stream[s].size, 0>>
Summed ==
  /\ pc = "data" /\ src[Cur].cx > 0 => digest = <<Smaller(b * BlockSize, stream[Cur].size), 0>>
  /\ pc \in {"blank", "fill"} => Cur \in reported
  /\ \A i \in 0 .. Len(list) : Done(i) => SumRight(i)

FirstPass == pc \in {"register", "list", "pre"}
Unwritten == idx = 0 /\ out = <<>> /\ reported = {}
SecondPass == pc \in {"zero", "next", "open", "data", "blank", "fill", "done"}

WriterInv ==
  /\ Typed
  /\ FirstPass => out = <<>> /\ reported = {}
  /\ pc = "register" => Registering
  /\ pc = "list" => Listing
  /\ pc = "pre" => \E pos : Placing(pos)
  /\ SecondPass => \E pos : Layout(pos) /\ Progress(pos) /\ Contents(pos) /\ Summed

-----------------------------------------------------------------------------
(* The first pass.                                                          *)

LEMMA WriterInvInit == Init => WriterInv
<1> SUFFICES ASSUME Init PROVE WriterInv
  OBVIOUS
<1>1. \A s \in Sources : src[s] = [noWrite |-> FALSE, sections |-> <<>>, cx |-> 0]
  BY DEF Init
<1>2. [noWrite |-> FALSE, sections |-> <<>>, cx |-> 0] \in IsSrc
  BY DEF IsSrc
<1>3. src \in [Sources -> IsSrc]
  BY <1>1, <1>2 DEF Init
<1>4. Typed
  BY <1>3 DEF Init, Typed, Options, Streams, Pcs
<1> QED  BY <1>4 DEF Init, WriterInv, Registering, FirstPass, SecondPass

LEMMA SectionsArePlanned ==
  ASSUME Typed, NEW s \in Sources, NEW at \in Nat, Len(src[s].sections) = N(s)
  PROVE  /\ Sections(s, at) = Planned(s, at)
         /\ Planned(s, at) \in Seq(IsSection) /\ Len(Planned(s, at)) = N(s)
<1>1. PICK n \in Nat \ {0} : n = N(s)
  BY SourceFacts DEF Typed
<1>2. PICK z \in Nat : z = stream[s].size
  BY SourceFacts DEF Typed
<1>3. PICK last \in Nat : /\ last = LastSize(z) /\ last = z - (n - 1) * ExtentSize
                          /\ z > 0 => last > 0
                          /\ z = 0 => n = 1
  <2>1. /\ LastSize(z) \in Nat /\ (z > 0 => LastSize(z) > 0) /\ (z = 0 => N(s) = 1)
    BY <1>2, SourceFacts DEF Typed
  <2> QED  BY <1>1, <1>2, <2>1 DEF LastSize, N
<1>4. z = 0 => last = 0
  <2>1. z = 0 => (n - 1) * ExtentSize = 0
    BY <1>3, ExtentAssumption
  <2> QED  BY <1>3, <2>1
<1>5. Sections(s, at) = [e \in 1 .. n |->
           IF e < n
             THEN [block |-> at + (e - 1) * ExtentBlocks, size |-> ExtentSize]
             ELSE [block |-> IF last <= 0 THEN Empty ELSE at + (e - 1) * ExtentBlocks,
                   size |-> last]]
  BY <1>1, <1>2, <1>3 DEF Sections
<1>6. Planned(s, at) = [e \in 1 .. n |-> [block |-> IF z = 0 THEN Empty ELSE at + (e - 1) * ExtentBlocks,
                                          size  |-> IF e < n THEN ExtentSize ELSE last]]
  BY <1>1, <1>2, <1>3 DEF Planned, SecSize
<1>7. Sections(s, at) = Planned(s, at)
  BY <1>3, <1>4, <1>5, <1>6
<1>8. ASSUME NEW e \in 1 .. n
      PROVE  [block |-> IF z = 0 THEN Empty ELSE at + (e - 1) * ExtentBlocks,
              size  |-> IF e < n THEN ExtentSize ELSE last] \in IsSection
  <2>1. (IF z = 0 THEN Empty ELSE at + (e - 1) * ExtentBlocks) \in Int
    <3>1. (e - 1) * ExtentBlocks \in Int
      BY ExtentFacts
    <3> QED  BY <3>1 DEF Empty
  <2>2. (IF e < n THEN ExtentSize ELSE last) \in Int
    BY ExtentAssumption
  <2> QED  BY <2>1, <2>2 DEF IsSection
<1>9. Planned(s, at) \in [1 .. n -> IsSection]
  BY <1>6, <1>8
<1> QED  BY <1>1, <1>7, <1>9, LenIs

LEMMA RegisterStep ==
  ASSUME WriterInv, NEW s \in Sources, FileSrcCreate(s)
  PROVE  WriterInv'
<1>1. pc = "register" /\ pc' = pc /\ Typed /\ Registering /\ out = <<>> /\ reported = {}
  BY DEF FileSrcCreate, WriterInv, FirstPass
<1>2. PICK cx \in Indices(s) :
        src' = [src EXCEPT ![s] =
           [noWrite  |-> OldSession(s),
            sections |-> [e \in 1 .. NSections(stream[s].size) |->
                            [block |-> 0, size |-> 0]],
            cx       |-> cx]]
  BY DEF FileSrcCreate
<1>3. cx \in Nat
  <2>1. IsFiniteSet(files) /\ IsFiniteSet({f \in files : src[f].cx > 0})
    <3>1. IsFiniteSet(files)
      BY <1>1, SourcesAssumption, FS_Subset DEF Typed
    <3> QED  BY <3>1, FS_Subset
  <2>2. Cardinality({f \in files : src[f].cx > 0}) \in Nat
    BY <2>1, FS_CardinalityType
  <2> QED  BY <1>2, <2>2 DEF Indices
<1>4. PICK secs : secs = [e \in 1 .. N(s) |-> [block |-> 0, size |-> 0]]
  OBVIOUS
<1>5. secs \in Seq(IsSection) /\ Len(secs) = N(s) /\ secs[1].block = 0
  <2>1. N(s) \in Nat \ {0}
    BY <1>1, SourceFacts DEF Typed
  <2>2. [block |-> 0, size |-> 0] \in IsSection
    BY DEF IsSection
  <2>3. secs \in [1 .. N(s) -> IsSection]
    BY <1>4, <2>2
  <2> QED  BY <1>4, <2>1, <2>3, LenIs
<1>6. OldSession(s) \in BOOLEAN /\ (OldSession(s) => opts.appendable)
  BY <1>1 DEF OldSession, Typed, Options, Streams
<1>7. PICK rec : rec = [noWrite |-> OldSession(s), sections |-> secs, cx |-> cx]
  OBVIOUS
<1>8. rec \in IsSrc /\ rec.sections = secs /\ rec.noWrite = OldSession(s)
  BY <1>3, <1>5, <1>6, <1>7 DEF IsSrc
<1>9. src' = [src EXCEPT ![s] = rec]
  BY <1>2, <1>4, <1>7 DEF N
<1>10. files' = files \cup {s} /\ UNCHANGED <<opts, stream, efi, list, blocks, start, idx, pc, writing>>
  BY DEF FileSrcCreate
<1>11. Typed'
  BY <1>1, <1>8, <1>9, <1>10 DEF Typed, writing
<1>12. \A f \in files' : Unplaced(f)' /\ (src'[f].noWrite => opts'.appendable)
  <2> TAKE f \in files'
  <2>1. f \in Sources /\ efi = NoSource /\ f # efi
    BY <1>1, <1>10, SourcesAssumption DEF Typed, Registering
  <2>2. CASE f = s
    BY <1>1, <1>5, <1>6, <1>8, <1>9, <1>10, <2>1, <2>2 DEF Typed, Unplaced, N
  <2>3. CASE f # s
    BY <1>1, <1>9, <1>10, <2>1, <2>3 DEF Typed, Unplaced, N, Registering
  <2> QED  BY <2>2, <2>3
<1> QED
  BY <1>1, <1>10, <1>11, <1>12 DEF WriterInv, Registering, FirstPass, SecondPass, writing

LEMMA ClaimStep ==
  ASSUME WriterInv, ElToritoCreate
  PROVE  WriterInv'
<1>1. pc = "register" /\ pc' = "list" /\ Typed /\ Registering /\ out = <<>> /\ reported = {} /\ files = Sources
  BY DEF ElToritoCreate, WriterInv, FirstPass
<1>2. UNCHANGED <<opts, stream, files, list, blocks, start, idx, writing>>
  BY DEF ElToritoCreate
<1>3. PICK again : again = [s \in Sources |-> IF stream[s].boot = "patch"
                                              THEN [src[s] EXCEPT !.noWrite = FALSE] ELSE src[s]]
  OBVIOUS
<1>4. ASSUME NEW s \in Sources
      PROVE  /\ again[s] \in IsSrc /\ again[s].sections = src[s].sections
             /\ again[s].noWrite => src[s].noWrite
  <2>1. PICK r \in IsSrc : r = src[s]
    BY <1>1 DEF Typed
  <2>2. again[s] = r \/ again[s] = [r EXCEPT !.noWrite = FALSE]
    BY <1>3, <2>1
  <2> QED  BY <2>1, <2>2 DEF IsSrc
<1>5. /\ efi' = NoSource /\ src' = again
      \/ \E s \in Sources : /\ ~again[s].noWrite /\ efi' = s
                            /\ src' = [again EXCEPT ![s].sections[1].block = External]
  BY <1>3 DEF ElToritoCreate
<1>6. CASE efi' = NoSource /\ src' = again
  <2>1. Typed'
    BY <1>1, <1>2, <1>3, <1>4, <1>6 DEF Typed, Pcs, writing
  <2>2. \A s \in Sources : Unplaced(s)' /\ (src'[s].noWrite => opts'.appendable)
    <3> TAKE s \in Sources
    <3>1. Unplaced(s) /\ s # efi /\ s # efi' /\ (src[s].noWrite => opts.appendable)
      BY <1>1, <1>6, SourcesAssumption DEF Registering
    <3> QED  BY <1>2, <1>4, <1>6, <3>1 DEF Unplaced, N
  <2> QED  BY <1>1, <1>2, <2>1, <2>2 DEF WriterInv, Listing, Registering, FirstPass, SecondPass, writing
<1>7. ASSUME NEW s \in Sources, ~again[s].noWrite, efi' = s,
             src' = [again EXCEPT ![s].sections[1].block = External]
      PROVE  WriterInv'
  <2>1. PICK r \in IsSrc : r = again[s]
    BY <1>4
  <2>2. PICK n \in Nat \ {0} : n = N(s)
    BY <1>1, SourceFacts DEF Typed
  <2>3. r.sections \in Seq(IsSection) /\ Len(r.sections) = n
    BY <1>1, <1>4, <2>1, <2>2 DEF IsSrc, Registering, Unplaced
  <2>4. PICK old \in Seq(IsSection) : old = r.sections /\ Len(old) = n
    BY <2>3
  <2>5. PICK secs : secs = [old EXCEPT ![1].block = External]
    OBVIOUS
  <2>6. secs \in Seq(IsSection) /\ Len(secs) = n /\ secs[1].block = External
    <3>1. PICK x \in IsSection : x = old[1]
      BY <2>4
    <3>2. [x EXCEPT !.block = External] \in IsSection /\ [x EXCEPT !.block = External].block = External
      BY DEF IsSection, External
    <3>3. secs = [old EXCEPT ![1] = [x EXCEPT !.block = External]]
      BY <2>5, <3>1
    <3>4. 1 \in 1 .. Len(old)
      BY <2>4
    <3> QED  BY <2>4, <3>2, <3>3, <3>4
  <2>7. PICK rec : rec = [r EXCEPT !.sections = secs]
    OBVIOUS
  <2>8. rec \in IsSrc /\ rec.sections = secs /\ rec.noWrite = r.noWrite
    BY <2>6, <2>7 DEF IsSrc
  <2>9. src' = [again EXCEPT ![s] = rec]
    BY <1>7, <2>1, <2>4, <2>5, <2>7
  <2>10. Typed'
    <3>1. src' \in [Sources -> IsSrc]
      BY <1>3, <1>4, <2>8, <2>9
    <3> QED  BY <1>1, <1>2, <1>7, <3>1 DEF Typed, Pcs, writing
  <2>11. ASSUME NEW f \in Sources PROVE Unplaced(f)' /\ (src'[f].noWrite => opts'.appendable)
    <3>1. Unplaced(f) /\ f # efi /\ (src[f].noWrite => opts.appendable)
      BY <1>1, SourcesAssumption DEF Registering
    <3>a. N(f)' = N(f)
      BY <1>2 DEF N
    <3>2. CASE f = s
      <4>1. src'[f] = rec
        BY <1>3, <2>9, <3>2
      <4>2. Len(src'[f].sections) = N(f)' /\ src'[f].sections[1].block = External /\ ~src'[f].noWrite
        BY <1>7, <2>1, <2>2, <2>6, <2>8, <3>2, <3>a, <4>1
      <4> QED  BY <1>7, <3>2, <4>2 DEF Unplaced
    <3>3. CASE f # s
      <4>1. src'[f] = again[f]
        BY <1>3, <2>9, <3>3
      <4>2. again[f].sections = src[f].sections /\ (again[f].noWrite => src[f].noWrite)
        BY <1>4
      <4>3. f # efi'
        BY <1>7, <3>3
      <4> QED  BY <1>2, <3>1, <3>a, <4>1, <4>2, <4>3 DEF Unplaced
    <3> QED  BY <3>2, <3>3
  <2> QED  BY <1>1, <1>2, <2>10, <2>11 DEF WriterInv, Listing, Registering, FirstPass, SecondPass, writing
<1> QED  BY <1>5, <1>6, <1>7

LEMMA ListStep ==
  ASSUME WriterInv, PreCompute
  PROVE  WriterInv'
<1>1. pc = "list" /\ pc' = "pre" /\ Typed /\ Listing /\ out = <<>> /\ reported = {}
  BY DEF PreCompute, WriterInv, FirstPass
<1>2. UNCHANGED <<opts, stream, files, src, efi, start, writing>> /\ idx' = 1 /\ blocks' = Base
  BY DEF PreCompute, Base
<1>3. PICK l \in Lists : IsList(l) /\ list' = l
  BY DEF PreCompute
<1>4. PICK n \in Nat : l \in [1 .. n -> Sources]
  <2>1. IsFiniteSet(Sources) /\ Cardinality(Sources) \in Nat
    BY SourcesAssumption, FS_CardinalityType
  <2> QED  BY <1>3, <2>1 DEF Lists
<1>5. l \in Seq(Sources) /\ DOMAIN l = 1 .. Len(l) /\ Len(l) \in Nat
  BY <1>4, LenIs
<1>6. Typed'
  BY <1>1, <1>2, <1>3, <1>5 DEF Typed, Pcs, writing
<1>7. \A i \in DOMAIN l : l[i] \in Sources /\ ~src[l[i]].noWrite
  <2> TAKE i \in DOMAIN l
  <2>1. l[i] \in {s \in files : opts.appendable => ~src[s].noWrite}
    BY <1>3 DEF IsList
  <2> QED  BY <1>1, <1>4, <2>1 DEF Listing
<1>8. ListSound'
  <2>1. \A i, j \in DOMAIN l : i # j => l[i] # l[j]
    BY <1>3 DEF IsList
  <2>2. efi # NoSource => \E i \in DOMAIN l : l[i] = efi
    <3> SUFFICES ASSUME efi # NoSource PROVE \E i \in DOMAIN l : l[i] = efi
      OBVIOUS
    <3>1. efi \in Sources /\ ~src[efi].noWrite /\ efi \in files
      BY <1>1 DEF Typed, Listing, Unplaced
    <3>2. efi \in {l[i] : i \in DOMAIN l}
      BY <1>3, <3>1 DEF IsList
    <3> QED  BY <3>2
  <2> QED  BY <1>2, <1>3, <2>1, <2>2 DEF ListSound
<1>9. PICK pos : pos = [i \in 1 .. 1 |-> Base]
  OBVIOUS
<1>10. Base \in Nat /\ Base' = Base
  BY <1>2 DEF Base
<1>11. Places(pos, 1)'
  BY <1>9, <1>10 DEF Places
<1>12. Placing(pos)'
  <2>1. \A i \in DOMAIN l : Unplaced(l[i])' /\ ~src'[l[i]].noWrite
    BY <1>1, <1>2, <1>7 DEF Unplaced, N, Listing
  <2>2. blocks' = pos[1]
    BY <1>2, <1>9
  <2> QED  BY <1>2, <1>3, <1>5, <1>8, <1>11, <2>1, <2>2 DEF Placing
<1> QED  BY <1>1, <1>2, <1>6, <1>12 DEF WriterInv, FirstPass, SecondPass, writing

LEMMA PlaceStep ==
  ASSUME WriterInv, PreComputeFile
  PROVE  WriterInv'
<1>1. pc = "pre" /\ pc' = pc /\ Typed /\ out = <<>> /\ reported = {} /\ idx <= Len(list)
  BY DEF PreComputeFile, WriterInv, FirstPass
<1>2. UNCHANGED <<opts, stream, files, efi, list, start, pc, writing>> /\ idx' = idx + 1
  BY DEF PreComputeFile
<1>3. PICK pos : Placing(pos)
  BY <1>1 DEF WriterInv
<1>4. PICK s \in Sources : s = list[idx]
  BY <1>1, <1>3 DEF Typed, Placing
<1>5. /\ Len(list) \in Nat /\ DOMAIN list = 1 .. Len(list) /\ idx \in DOMAIN list /\ idx \in Nat \ {0}
      /\ \A i \in DOMAIN list : list[i] \in Sources
  BY <1>1, <1>3 DEF Typed, Placing
<1>6. Unplaced(s) /\ ~src[s].noWrite /\ ListSound
  BY <1>1, <1>3, <1>4, <1>5 DEF Placing
<1>7. IsExternal(s) <=> s = efi
  BY <1>6 DEF IsExternal, Unplaced, External
<1>8. PICK at \in Nat : at = blocks /\ at = pos[idx]
  BY <1>3, <1>5 DEF Placing, Places
<1>9. /\ Sections(s, at) = Planned(s, at) /\ Planned(s, at) \in Seq(IsSection)
      /\ Len(Planned(s, at)) = N(s)
  BY <1>1, <1>6, SectionsArePlanned DEF Unplaced
<1>10. PICK r \in IsSrc : r = src[s]
  BY <1>1 DEF Typed
<1>11. PICK rec \in IsSrc :
         /\ src' = [src EXCEPT ![s] = rec]
         /\ IF s = efi THEN /\ rec.noWrite /\ Len(rec.sections) = N(s)
                            /\ \A e \in 1 .. N(s) : rec.sections[e].size = SecSize(s, e)
            ELSE ~rec.noWrite /\ rec.sections = Planned(s, at)
  <2>1. CASE s = efi
    <3>1. src' = [src EXCEPT ![s].sections = [Sections(s, blocks) EXCEPT ![1].block = External],
                             ![s].noWrite = TRUE]
      BY <1>4, <1>7, <2>1 DEF PreComputeFile
    <3>2. PICK n \in Nat \ {0} : n = N(s)
      BY <1>1, SourceFacts DEF Typed
    <3>3. PICK p \in Seq(IsSection) : p = Planned(s, at) /\ Len(p) = n
      BY <1>9, <3>2
    <3>4. PICK secs : secs = [p EXCEPT ![1].block = External]
      OBVIOUS
    <3>5. /\ secs \in Seq(IsSection) /\ Len(secs) = n
          /\ \A e \in 1 .. n : secs[e].size = p[e].size
      <4>1. PICK x \in IsSection : x = p[1]
        BY <3>3
      <4>2. /\ [x EXCEPT !.block = External] \in IsSection
            /\ [x EXCEPT !.block = External].size = x.size
        <5>1. PICK m \in Int : m = External
          BY DEF External
        <5> QED  BY <5>1 DEF IsSection
      <4>3. secs = [p EXCEPT ![1] = [x EXCEPT !.block = External]]
        BY <3>4, <4>1
      <4>4. 1 \in 1 .. Len(p)
        BY <3>3
      <4> QED  BY <3>3, <4>1, <4>2, <4>3, <4>4
    <3>6. PICK rec : rec = [r EXCEPT !.sections = secs, !.noWrite = TRUE]
      OBVIOUS
    <3>7. rec \in IsSrc /\ rec.noWrite /\ rec.sections = secs
      BY <3>5, <3>6 DEF IsSrc
    <3>8. \A e \in 1 .. n : p[e].size = SecSize(s, e)
      BY <3>2, <3>3 DEF Planned
    <3>9. src' = [src EXCEPT ![s] = rec]
      <4>1. secs = [Sections(s, blocks) EXCEPT ![1].block = External]
        BY <1>8, <1>9, <3>3, <3>4
      <4>2. src' = [src EXCEPT ![s].sections = secs, ![s].noWrite = TRUE]
        BY <3>1, <4>1
      <4> QED  BY <1>1, <1>10, <3>6, <4>2 DEF Typed
    <3>10. IF s = efi THEN /\ rec.noWrite /\ Len(rec.sections) = N(s)
                           /\ \A e \in 1 .. N(s) : rec.sections[e].size = SecSize(s, e)
           ELSE ~rec.noWrite /\ rec.sections = Planned(s, at)
      <4>1. \A e \in 1 .. n : rec.sections[e].size = SecSize(s, e)
        BY <3>5, <3>7, <3>8
      <4> QED  BY <2>1, <3>2, <3>5, <3>7, <4>1
    <3> QED  BY <3>7, <3>9, <3>10, Zenon
  <2>2. CASE s # efi
    <3>1. src' = [src EXCEPT ![s].sections = Sections(s, blocks)]
      BY <1>4, <1>7, <2>2 DEF PreComputeFile
    <3>2. PICK p \in Seq(IsSection) : p = Planned(s, at)
      BY <1>9
    <3>3. PICK rec : rec = [r EXCEPT !.sections = p]
      OBVIOUS
    <3>4. rec \in IsSrc /\ rec.noWrite = r.noWrite /\ rec.sections = p
      BY <3>3 DEF IsSrc
    <3>5. src' = [src EXCEPT ![s] = rec]
      BY <1>1, <1>8, <1>9, <1>10, <3>1, <3>2, <3>3 DEF Typed
    <3> QED  BY <1>6, <1>10, <2>2, <3>2, <3>4, <3>5
  <2> QED  BY <2>1, <2>2
<1>12. blocks' = at + Width(s) /\ Width(s) \in Nat
  <2>1. Blocks(s) \in Nat
    BY <1>1, SourceFacts DEF Typed
  <2> QED  BY <1>4, <1>7, <1>8, <2>1 DEF PreComputeFile, Width
<1>13. Typed'
  <2>1. src' \in [Sources -> IsSrc]
    BY <1>1, <1>11 DEF Typed
  <2> QED  BY <1>1, <1>2, <2>1 DEF Typed, writing
<1>14. /\ \A f : Width(f)' = Width(f) /\ N(f)' = N(f)
       /\ \A f, e : SecSize(f, e)' = SecSize(f, e)
       /\ \A f, a : Planned(f, a)' = Planned(f, a)
       /\ Base' = Base
  BY <1>2 DEF Width, Blocks, N, SecSize, Planned, Base
<1>15. PICK p2 : p2 = [i \in 1 .. idx + 1 |-> IF i = idx + 1 THEN at + Width(s) ELSE pos[i]]
  OBVIOUS
<1>16. Places(pos, idx)
  BY <1>3 DEF Placing
<1>17. Places(p2, idx)'
  <2>1. p2 \in [1 .. idx + 1 -> Nat] /\ p2[1] = Base /\ p2[idx] = at /\ p2[idx + 1] = at + Width(s)
    BY <1>5, <1>8, <1>12, <1>15, <1>16 DEF Places
  <2>2. \A i \in 1 .. idx : p2[i] = pos[i]
    BY <1>5, <1>15
  <2>3. \A i, j \in 1 .. idx + 1 : i < j => p2[i] + Width(list[i]) =< p2[j]
    <3> TAKE i, j \in 1 .. idx + 1
    <3>1. ASSUME i < j PROVE p2[i] + Width(list[i]) =< p2[j]
      <4>1. list[i] \in Sources /\ i \in 1 .. idx
        BY <1>5, <3>1
      <4>2. PICK w \in Nat : w = Width(list[i])
        <5>1. Blocks(list[i]) \in Nat
          BY <1>1, <4>1, SourceFacts DEF Typed
        <5> QED  BY <5>1 DEF Width
      <4>3. CASE j <= idx
        BY <1>16, <2>2, <3>1, <4>1, <4>3 DEF Places
      <4>4. CASE j = idx + 1 /\ i = idx
        BY <1>4, <2>1, <4>4
      <4>5. CASE j = idx + 1 /\ i < idx
        <5>1. pos[i] + w =< at
          BY <1>5, <1>8, <1>16, <4>1, <4>2, <4>5 DEF Places
        <5>2. p2[i] = pos[i] /\ pos[i] \in Nat /\ p2[j] = at + Width(s)
          BY <1>16, <2>1, <2>2, <4>1, <4>5 DEF Places
        <5> QED  BY <1>12, <4>2, <5>1, <5>2
      <4> QED  BY <1>5, <3>1, <4>3, <4>4, <4>5
    <3> QED  BY <3>1
  <2>4. \A i \in 1 .. idx : p2[i + 1] = p2[i] + Width(list[i])
    <3> TAKE i \in 1 .. idx
    <3>1. CASE i = idx
      BY <1>4, <2>1, <3>1
    <3>2. CASE i # idx
      <4>1. i \in 1 .. idx - 1 /\ i + 1 \in 1 .. idx
        BY <1>5, <3>2
      <4>2. pos[i + 1] = pos[i] + Width(list[i])
        BY <1>16, <4>1 DEF Places
      <4> QED  BY <2>2, <4>1, <4>2
    <3> QED  BY <3>1, <3>2
  <2>5. (idx + 1) - 1 = idx
    BY <1>5
  <2>6. \A i : Width(list[i])' = Width(list[i])
    BY <1>2 DEF Width, Blocks
  <2> QED  BY <1>2, <1>14, <2>1, <2>3, <2>4, <2>5, <2>6 DEF Places
<1>18. Placing(p2)'
  <2>1. ListSound' /\ idx' \in 1 .. Len(list') + 1
    BY <1>1, <1>2, <1>5, <1>6 DEF ListSound
  <2>2. blocks' = p2[idx']
    BY <1>2, <1>5, <1>12, <1>15
  <2>3. ASSUME NEW i \in DOMAIN list', i >= idx' PROVE Unplaced(list[i])' /\ ~src'[list'[i]].noWrite
    <3>1. i \in DOMAIN list /\ i >= idx /\ i # idx /\ list'[i] = list[i] /\ list[i] \in Sources
      BY <1>2, <1>5, <2>3
    <3>2. list[i] # s
      BY <1>4, <1>5, <1>6, <3>1 DEF ListSound
    <3>3. Unplaced(list[i]) /\ ~src[list[i]].noWrite
      BY <1>3, <3>1 DEF Placing
    <3>4. src'[list[i]] = src[list[i]]
      BY <1>1, <1>11, <3>1, <3>2 DEF Typed
    <3> QED  BY <1>2, <3>1, <3>3, <3>4 DEF Unplaced, N
  <2>4. ASSUME NEW i \in DOMAIN list', i < idx'
        PROVE  IF list'[i] = efi'
               THEN /\ src'[efi'].noWrite /\ Len(src'[efi'].sections) = N(efi)'
                    /\ \A e \in 1 .. N(efi)' : src'[efi'].sections[e].size = SecSize(efi, e)'
               ELSE ~src'[list'[i]].noWrite /\ src'[list'[i]].sections = Planned(list[i], p2[i])'
    <3>1. i \in DOMAIN list /\ list' = list /\ list[i] \in Sources /\ efi' = efi
      BY <1>2, <1>5, <2>4
    <3>2. CASE i = idx
      <4>1. src'[s] = rec
        BY <1>1, <1>11 DEF Typed
      <4>2. p2[i] = at
        BY <1>5, <1>8, <1>15, <3>2
      <4> QED  BY <1>2, <1>4, <1>11, <1>14, <3>1, <3>2, <4>1, <4>2
    <3>3. CASE i < idx
      <4>1. list[i] # s
        BY <1>4, <1>5, <1>6, <3>1, <3>3 DEF ListSound
      <4>2. src'[list[i]] = src[list[i]]
        BY <1>1, <1>11, <3>1, <4>1 DEF Typed
      <4>3. p2[i] = pos[i]
        BY <1>5, <1>15, <3>1, <3>3
      <4>4. IF list[i] = efi
            THEN /\ src[efi].noWrite /\ Len(src[efi].sections) = N(efi)
                 /\ \A e \in 1 .. N(efi) : src[efi].sections[e].size = SecSize(efi, e)
            ELSE ~src[list[i]].noWrite /\ src[list[i]].sections = Planned(list[i], pos[i])
        BY <1>3, <3>1, <3>3 DEF Placing
      <4> QED  BY <1>2, <1>14, <3>1, <4>2, <4>3, <4>4
    <3> QED  BY <1>2, <1>5, <2>4, <3>1, <3>2, <3>3
  <2> QED  BY <1>2, <1>17, <2>1, <2>2, <2>3, <2>4 DEF Placing
<1> QED  BY <1>1, <1>2, <1>13, <1>18 DEF WriterInv, FirstPass, SecondPass, writing

\* efi_boot_part_size, summed up over the sections, is the size of the file.
EfiSized ==
  efi # NoSource => /\ Len(src[efi].sections) = N(efi)
                    /\ \A e \in 1 .. N(efi) : src[efi].sections[e].size = SecSize(efi, e)

LEMMA EfiBlocksAreItsBlocks == Typed /\ EfiSized => EfiBlocks = EfiLen
<1> SUFFICES ASSUME Typed, EfiSized, efi # NoSource PROVE EfiBlocks = Blocks(efi)
  BY DEF EfiBlocks, EfiLen
<1>1. efi \in Sources
  BY DEF Typed
<1>2. PICK n \in Nat \ {0} : n = N(efi)
  BY <1>1, SourceFacts DEF Typed
<1>3. PICK last \in Nat : last = LastSize(stream[efi].size)
  BY <1>1, SourceFacts DEF Typed
<1>4. PICK fun : fun = [e \in 1 .. Len(src[efi].sections) |-> DivUp(src[efi].sections[e].size, BlockSize)]
  OBVIOUS
<1>5. EfiBlocks = Sum(fun)
  BY <1>4 DEF EfiBlocks, Sum
<1>6. DivUp(last, BlockSize) \in Nat /\ DivUp(ExtentSize, BlockSize) = ExtentBlocks /\ ExtentBlocks \in Nat
  BY DivUpFacts, BlockSizeAssumption, ExtentFacts
<1>7. fun = [e \in 1 .. n |-> IF e < n THEN ExtentBlocks ELSE DivUp(last, BlockSize)]
  <2>1. fun = [e \in 1 .. n |-> DivUp(SecSize(efi, e), BlockSize)]
    BY <1>2, <1>4 DEF EfiSized
  <2>2. \A e \in 1 .. n : SecSize(efi, e) = IF e < n THEN ExtentSize ELSE last
    BY <1>2, <1>3 DEF SecSize
  <2> QED  BY <1>6, <2>1, <2>2
<1>8. Sum(fun) = ExtentBlocks * (n - 1) + DivUp(last, BlockSize)
  BY <1>6, <1>7, SectionSum
<1>9. (n - 1) * ExtentBlocks + DivUp(last, BlockSize) = Blocks(efi)
  <2>1. SecSize(efi, N(efi)) = last
    BY <1>2, <1>3 DEF SecSize
  <2> QED  BY <1>1, <1>2, <2>1, SourceFacts DEF Typed
<1>10. ExtentBlocks * (n - 1) = (n - 1) * ExtentBlocks
  BY <1>6
<1> QED  BY <1>5, <1>8, <1>9, <1>10

LEMMA ComputeStep ==
  ASSUME WriterInv, ComputeDataBlocks
  PROVE  WriterInv'
<1>1. pc = "pre" /\ Typed /\ out = <<>> /\ reported = {} /\ idx > Len(list)
  BY DEF ComputeDataBlocks, WriterInv, FirstPass
<1>2. /\ UNCHANGED <<opts, stream, files, efi, list, blocks, writing>> /\ idx' = 0
      /\ start' = Start + EfiBlocks /\ pc' = IF EfiBlocks = 0 THEN "zero" ELSE "open"
  BY DEF ComputeDataBlocks
<1>3. PICK pos : Placing(pos)
  BY <1>1 DEF WriterInv
<1>4. /\ Len(list) \in Nat /\ DOMAIN list = 1 .. Len(list) /\ idx = Len(list) + 1 /\ ListSound
      /\ \A i \in DOMAIN list : list[i] \in Sources
      /\ Places(pos, Len(list) + 1) /\ blocks = pos[Len(list) + 1]
      /\ \A i \in DOMAIN list : i < idx
  BY <1>1, <1>3 DEF Typed, Placing
<1>5. \A i \in DOMAIN list :
        IF list[i] = efi
        THEN /\ src[efi].noWrite /\ Len(src[efi].sections) = N(efi)
             /\ \A e \in 1 .. N(efi) : src[efi].sections[e].size = SecSize(efi, e)
        ELSE ~src[list[i]].noWrite /\ src[list[i]].sections = Planned(list[i], pos[i])
  BY <1>3, <1>4 DEF Placing
<1>6. efi # NoSource => src[efi].noWrite
  BY <1>4, <1>5 DEF ListSound
<1>7. EfiSized
  BY <1>4, <1>5 DEF ListSound, EfiSized
<1>8. EfiBlocks = EfiLen
  BY <1>1, <1>7, EfiBlocksAreItsBlocks
<1>9. PICK len \in Nat : len = EfiLen /\ len = EfiBlocks /\ (efi = NoSource => len = 0)
  <2>1. efi # NoSource => efi \in Sources /\ Blocks(efi) \in Nat
    BY <1>1, SourceFacts DEF Typed
  <2> QED  BY <1>8, <2>1 DEF EfiLen
<1>10. PICK cur \in Nat : cur = Start + len /\ start' = cur
  BY <1>2, <1>9, StartAssumption
<1>11. /\ \A f : N(f)' = N(f)
       /\ \A f, e : SecSize(f, e)' = SecSize(f, e)
       /\ Base' = Base /\ EfiLen' = EfiLen
  BY <1>2 DEF Blocks, N, SecSize, Base, EfiLen
<1>12. src' = [s \in Sources |->
                 IF s = efi THEN [src[s] EXCEPT !.sections = EfiSections]
                 ELSE IF src[s].noWrite \/ \A i \in DOMAIN list : list[i] # s
                   THEN src[s]
                   ELSE [src[s] EXCEPT !.sections = Absolute(s, cur)]]
  BY <1>9, <1>10 DEF ComputeDataBlocks
<1>13. ASSUME efi # NoSource
       PROVE  /\ src'[efi].noWrite /\ src'[efi] \in IsSrc
              /\ src'[efi].sections = [e \in 1 .. N(efi) |-> [block |-> Start + (e - 1) * ExtentBlocks,
                                                             size |-> SecSize(efi, e)]]
  <2>1. efi \in Sources
    BY <1>1, <1>13 DEF Typed
  <2>2. PICK r \in IsSrc : r = src[efi]
    BY <1>1, <2>1 DEF Typed
  <2>3. PICK n \in Nat \ {0} : n = N(efi)
    BY <1>1, <2>1, SourceFacts DEF Typed
  <2>4. PICK old \in Seq(IsSection) : old = r.sections /\ Len(old) = n
    BY <1>7, <1>13, <2>2, <2>3 DEF IsSrc, EfiSized
  <2>5. PICK secs : secs = EfiSections
    OBVIOUS
  <2>6. secs = [e \in 1 .. n |-> [old[e] EXCEPT !.block = Start + (e - 1) * ExtentBlocks]]
    BY <2>2, <2>4, <2>5, ExtentFacts DEF EfiSections
  <2>7. \A e \in 1 .. n : old[e] \in IsSection /\ old[e].size = SecSize(efi, e)
    BY <1>7, <1>13, <2>2, <2>3, <2>4 DEF EfiSized
  <2>8. \A x \in IsSection, a \in Int : [x EXCEPT !.block = a] = [block |-> a, size |-> x.size]
    BY DEF IsSection
  <2>9. \A e \in 1 .. n : Start + (e - 1) * ExtentBlocks \in Int
    <3> TAKE e \in 1 .. n
    <3>1. (e - 1) * ExtentBlocks \in Int
      BY ExtentFacts
    <3> QED  BY <3>1, StartAssumption
  <2>10. secs = [e \in 1 .. n |-> [block |-> Start + (e - 1) * ExtentBlocks, size |-> SecSize(efi, e)]]
    <3>1. \A e \in 1 .. n : [old[e] EXCEPT !.block = Start + (e - 1) * ExtentBlocks]
                            = [block |-> Start + (e - 1) * ExtentBlocks, size |-> SecSize(efi, e)]
      BY <2>7, <2>8, <2>9
    <3> QED  BY <2>6, <3>1
  <2>11. secs \in Seq(IsSection)
    <3>1. \A e \in 1 .. n : [block |-> Start + (e - 1) * ExtentBlocks, size |-> SecSize(efi, e)] \in IsSection
      <4> TAKE e \in 1 .. n
      <4>1. SecSize(efi, e) \in Int
        BY <2>7 DEF IsSection
      <4> QED  BY <2>9, <4>1 DEF IsSection
    <3>2. secs \in [1 .. n -> IsSection]
      BY <2>10, <3>1
    <3> QED  BY <3>2, LenIs
  <2>12. PICK rec : rec = [r EXCEPT !.sections = secs]
    OBVIOUS
  <2>13. rec \in IsSrc /\ rec.noWrite = r.noWrite /\ rec.sections = secs
    BY <2>11, <2>12 DEF IsSrc
  <2>14. src'[efi] = rec
    BY <1>12, <2>1, <2>2, <2>5, <2>12
  <2> QED  BY <1>6, <1>13, <2>2, <2>3, <2>10, <2>13, <2>14
<1>14. ASSUME NEW i \in DOMAIN list, list[i] # efi
       PROVE  /\ ~src'[list[i]].noWrite /\ src'[list[i]] \in IsSrc
              /\ src'[list[i]].sections = Final(list[i], pos[i])'
  <2>1. PICK s \in Sources : s = list[i] /\ s # efi
    BY <1>4, <1>14
  <2>2. PICK r \in IsSrc : r = src[s]
    BY <1>1 DEF Typed
  <2>3. PICK n \in Nat \ {0} : n = N(s)
    BY <1>1, SourceFacts DEF Typed
  <2>4. PICK z \in Nat : z = stream[s].size /\ z = stream'[s].size
    BY <1>1, <1>2, SourceFacts DEF Typed
  <2>5. PICK at \in Nat : at = pos[i]
    BY <1>4 DEF Places
  <2>6. ~r.noWrite /\ r.sections = Planned(s, at)
    BY <1>5, <1>14, <2>1, <2>2, <2>5
  <2>7. PICK empty \in Int : empty = IF opts.oldEmpty THEN Start - 1 ELSE cur
    BY StartAssumption
  <2>8. ASSUME NEW e \in 1 .. n
        PROVE  /\ Planned(s, at)[e] = [block |-> IF z = 0 THEN -1 ELSE at + (e - 1) * ExtentBlocks,
                                       size |-> SecSize(s, e)]
               /\ SecSize(s, e) \in Int
               /\ at + (e - 1) * ExtentBlocks \in Nat
    <3>1. SecSize(s, e) \in Int
      <4>1. MaxSection \in Nat
        BY ExtentFacts
      <4> QED  BY <1>1, <2>3, <4>1, SourceFacts DEF Typed
    <3>2. (e - 1) * ExtentBlocks \in Nat
      BY ExtentFacts
    <3> QED  BY <2>3, <2>4, <3>1, <3>2 DEF Planned, Empty
  <2>9. \A a : \A x, y \in Int : [[block |-> x, size |-> y] EXCEPT !.block = a] = [block |-> a, size |-> y]
    OBVIOUS
  <2>10. PICK secs : secs = Absolute(s, cur)
    OBVIOUS
  <2>11. secs = [e \in 1 .. n |-> [block |-> IF z = 0 THEN empty ELSE at + (e - 1) * ExtentBlocks + cur,
                                   size |-> SecSize(s, e)]]
    <3>1. Len(src[s].sections) = n
      BY <1>1, <2>2, <2>3, <2>6 DEF Planned
    <3>2. secs = [e \in 1 .. n |->
                   [Planned(s, at)[e] EXCEPT !.block = IF @ = -1 THEN empty ELSE @ + cur]]
      BY <2>2, <2>6, <2>7, <2>10, <3>1 DEF Absolute, Empty
    <3>3. ASSUME NEW e \in 1 .. n
          PROVE  [Planned(s, at)[e] EXCEPT !.block = IF @ = -1 THEN empty ELSE @ + cur]
                 = [block |-> IF z = 0 THEN empty ELSE at + (e - 1) * ExtentBlocks + cur, size |-> SecSize(s, e)]
      <4>1. PICK a \in Nat, y \in Int : a = at + (e - 1) * ExtentBlocks /\ y = SecSize(s, e)
        BY <2>8
      <4>2. Planned(s, at)[e] = [block |-> IF z = 0 THEN -1 ELSE a, size |-> y]
        BY <2>8, <4>1
      <4>3. [[block |-> IF z = 0 THEN -1 ELSE a, size |-> y] EXCEPT !.block = IF @ = -1 THEN empty ELSE @ + cur]
            = [block |-> IF z = 0 THEN empty ELSE a + cur, size |-> y]
        <5>1. CASE z = 0
          BY <5>1
        <5>2. CASE z # 0
          BY <5>2
        <5> QED  BY <5>1, <5>2
      <4> QED  BY <4>1, <4>2, <4>3
    <3> QED  BY <3>2, <3>3
  <2>12. secs = Final(s, at)'
    BY <1>2, <1>10, <1>11, <2>3, <2>4, <2>7, <2>11 DEF Final
  <2>13. secs \in Seq(IsSection)
    <3>1. ASSUME NEW e \in 1 .. n
          PROVE  [block |-> IF z = 0 THEN empty ELSE at + (e - 1) * ExtentBlocks + cur, size |-> SecSize(s, e)]
                 \in IsSection
      <4>1. (IF z = 0 THEN empty ELSE at + (e - 1) * ExtentBlocks + cur) \in Int
        <5>1. PICK a \in Nat : a = at + (e - 1) * ExtentBlocks
          BY <2>8
        <5>2. a + cur \in Int
          OBVIOUS
        <5> QED  BY <5>1, <5>2
      <4> QED  BY <2>8, <4>1 DEF IsSection
    <3>2. secs \in [1 .. n -> IsSection]
      BY <2>11, <3>1
    <3> QED  BY <3>2, LenIs
  <2>14. PICK rec : rec = [r EXCEPT !.sections = secs]
    OBVIOUS
  <2>15. rec \in IsSrc /\ rec.noWrite = r.noWrite /\ rec.sections = secs
    BY <2>13, <2>14 DEF IsSrc
  <2>16. src'[s] = rec
    BY <1>12, <2>1, <2>2, <2>6, <2>10, <2>14
  <2>17. Final(s, at)' = Final(list[i], pos[i])'
    BY <1>2, <2>1, <2>5 DEF Final
  <2> QED  BY <2>1, <2>6, <2>12, <2>15, <2>16, <2>17
<1>15. src' \in [Sources -> IsSrc]
  <2>1. ASSUME NEW s \in Sources PROVE src'[s] \in IsSrc
    <3>1. CASE s = efi
      BY <1>13, <3>1, SourcesAssumption
    <3>2. CASE s # efi /\ \E i \in DOMAIN list : list[i] = s
      BY <1>14, <3>2
    <3>3. CASE s # efi /\ \A i \in DOMAIN list : list[i] # s
      BY <1>1, <1>12, <3>3 DEF Typed
    <3> QED  BY <3>1, <3>2, <3>3
  <2> QED  BY <1>12, <2>1
<1>16. Typed'
  <2>1. pc' \in Pcs
    BY <1>2 DEF Pcs
  <2> QED  BY <1>1, <1>2, <1>15, <2>1 DEF Typed, writing
<1>17. (EfiBlocks = EfiLen)'
  <2>1. EfiSized'
    <3> SUFFICES ASSUME efi' # NoSource
                 PROVE  /\ Len(src'[efi'].sections) = N(efi)'
                        /\ \A e \in 1 .. N(efi)' : src'[efi'].sections[e].size = SecSize(efi, e)'
      BY DEF EfiSized
    <3>1. efi' = efi /\ efi \in Sources /\ N(efi) \in Nat
      BY <1>1, <1>2, SourceFacts DEF Typed
    <3> QED  BY <1>11, <1>13, <3>1
  <2> QED  BY <1>16, <2>1, EfiBlocksAreItsBlocks, PTL
<1>18. Layout(pos)'
  <2>1. ListSound'
    BY <1>2, <1>4 DEF ListSound
  <2>2. Places(pos, Len(list) + 1)'
    <3>1. \A i : Width(list[i])' = Width(list[i])
      BY <1>2 DEF Width, Blocks
    <3> QED  BY <1>2, <1>4, <1>11, <3>1 DEF Places
  <2>3. start' = Start + EfiLen'
    BY <1>9, <1>10, <1>11
  <2>4. \A i \in DOMAIN list' : list'[i] # efi' =>
          ~src'[list'[i]].noWrite /\ src'[list'[i]].sections = Final(list[i], pos[i])'
    BY <1>2, <1>14
  <2>5. efi' # NoSource =>
         /\ src'[efi'].noWrite
         /\ src'[efi'].sections = [e \in 1 .. N(efi)' |-> [block |-> Start + (e - 1) * ExtentBlocks,
                                                        size |-> SecSize(efi, e)']]
    BY <1>2, <1>11, <1>13
  <2> QED  BY <1>2, <1>4, <1>17, <2>1, <2>2, <2>3, <2>4, <2>5 DEF Layout
<1>19. out' = <<>> /\ reported' = {} /\ Len(out') = 0
  BY <1>1, <1>2 DEF writing
<1>20. Progress(pos)'
  <2>1. CASE EfiBlocks = 0
    <3>1. pc' = "zero" /\ idx' = 0 /\ EfiLen' = 0 /\ Len(out') = 0
      BY <1>2, <1>9, <1>11, <1>19, <2>1
    <3> QED  BY <1>2, <1>4, <3>1 DEF Progress, InFile
  <2>2. CASE EfiBlocks # 0
    BY <1>2, <1>4, <1>9, <1>11, <1>19, <2>2 DEF Progress, InFile, Begin
  <2> QED  BY <2>1, <2>2
<1>21. Contents(pos)'
  <2>1. \A i \in DOMAIN list : pos[i] \in Nat
    BY <1>4 DEF Places
  <2>2. EfiLen' = len /\ Len(out') = 0 /\ list' = list
    BY <1>2, <1>9, <1>11, <1>19
  <2>5. efi' # NoSource =>
       \A k \in 0 .. Blocks(efi)' - 1 : k + 1 =< Len(out') => Held(out[k + 1], efi, k)'
    BY <2>2
  <2>6. \A i \in DOMAIN list' : list'[i] # efi' =>
          \A k \in 0 .. Blocks(list[i])' - 1 :
            EfiLen' + pos[i] + k + 1 =< Len(out') => Held(out[EfiLen + pos[i] + k + 1], list[i], k)'
    <3> TAKE i \in DOMAIN list'
    <3>1. PICK a \in Nat : a = pos[i]
      BY <2>1, <2>2
    <3> SUFFICES ASSUME NEW k \in 0 .. Blocks(list[i])' - 1 PROVE ~(len + a + k + 1 =< 0)
      BY <2>2, <3>1
    <3> QED  OBVIOUS
  <2> QED  BY <2>2, <2>5, <2>6 DEF Contents
<1>22. Summed'
  <2>1. \A i \in 0 .. Len(list') : ~Done(i)'
    <3>1. CASE EfiBlocks = 0
      <4>0. idx' = 0 /\ pc' = "zero" /\ EfiLen' = 0
        BY <1>2, <1>9, <1>11, <3>1
      <4>1. idx' = 0 /\ pc' = "zero" /\ ~(EfiLen' > 0)
        BY <4>0
      <4>2. \A i \in Nat : ~(i < 0 \/ (i = 0 /\ i # 0))
        OBVIOUS
      <4> QED  BY <1>2, <1>4, <4>1, <4>2 DEF Done
    <3>2. CASE EfiBlocks # 0
      BY <1>2, <1>4, <1>9, <1>11, <3>2 DEF Done, InFile
    <3> QED  BY <3>1, <3>2
  <2> QED  BY <1>2, <2>1 DEF Summed
<1> QED  BY <1>2, <1>16, <1>18, <1>19, <1>20, <1>21, <1>22 DEF WriterInv, FirstPass, SecondPass

-----------------------------------------------------------------------------
(* The second pass.                                                         *)

LEMMA LayoutKept ==
  ASSUME NEW pos, Typed, Layout(pos), Typed', UNCHANGED <<opts, stream, layout>>
  PROVE  Layout(pos)'
<1> USE DEF layout
<1>1. (EfiBlocks = EfiLen)'
  <2>1. EfiSized'
    <3> SUFFICES ASSUME efi # NoSource
                 PROVE  /\ Len(src'[efi'].sections) = N(efi)'
                        /\ \A e \in 1 .. N(efi)' : src'[efi'].sections[e].size = SecSize(efi, e)'
      BY DEF EfiSized
    <3>1. N(efi) \in Nat
      BY SourceFacts DEF Typed
    <3>2. N(efi)' = N(efi) /\ \A e : SecSize(efi, e)' = SecSize(efi, e)
      BY DEF N, SecSize
    <3>3. Len(src[efi].sections) = N(efi) /\ \A e \in 1 .. N(efi) : src[efi].sections[e].size = SecSize(efi, e)
      BY <3>1 DEF Layout
    <3> QED  BY <3>2, <3>3
  <2> QED  BY <2>1, EfiBlocksAreItsBlocks, PTL
<1>2. /\ EfiLen' = EfiLen /\ Base' = Base
      /\ \A s : Width(s)' = Width(s) /\ N(s)' = N(s) /\ Blocks(s)' = Blocks(s)
      /\ \A s, e : SecSize(s, e)' = SecSize(s, e)
      /\ \A s, a : Final(s, a)' = Final(s, a)
  BY DEF EfiLen, Blocks, Base, Width, N, SecSize, Final
<1>3. ListSound' = ListSound
  BY DEF ListSound
<1>4. Places(pos, Len(list) + 1) => Places(pos, Len(list) + 1)'
  <2>1. \A i : Width(list[i])' = Width(list[i])
    BY DEF Width, Blocks
  <2> QED  BY <1>2, <2>1 DEF Places
<1>5. \A i : Final(list[i], pos[i])' = Final(list[i], pos[i])
  BY DEF Final, N, SecSize
<1>6. N(efi)' = N(efi) /\ \A e : SecSize(efi, e)' = SecSize(efi, e)
  BY DEF N, SecSize
<1> QED  BY <1>1, <1>2, <1>3, <1>4, <1>5, <1>6 DEF Layout

LEMMA SecondPassFacts ==
  ASSUME Typed, NEW pos, Layout(pos), Progress(pos)
  PROVE  /\ Len(list) \in Nat /\ DOMAIN list = 1 .. Len(list) /\ idx \in 0 .. Len(list)
         /\ \A i \in 1 .. Len(list) : list[i] \in Sources /\ Blocks(list[i]) \in Nat
         /\ \A i \in 1 .. Len(list) + 1 : pos[i] \in Nat /\ pos[i] >= Base
         /\ Base \in {0, 1} /\ EfiLen \in Nat
         /\ efi # NoSource => efi \in Sources /\ EfiLen = Blocks(efi)
         /\ InFile => Cur \in Sources /\ Blocks(Cur) \in Nat /\ Begin(pos) \in Nat
         /\ Len(out) \in Nat /\ b \in Nat
<1>1. Len(list) \in Nat /\ DOMAIN list = 1 .. Len(list) /\ idx \in 0 .. Len(list) /\ Len(out) \in Nat /\ b \in Nat
  BY DEF Typed, Progress
<1>2. \A i \in 1 .. Len(list) : list[i] \in Sources /\ Blocks(list[i]) \in Nat
  <2>1. \A i \in 1 .. Len(list) : list[i] \in Sources
    BY DEF Typed
  <2> QED  BY <2>1, SourceFacts DEF Typed
<1>3. efi # NoSource => efi \in Sources /\ Blocks(efi) \in Nat /\ EfiLen = Blocks(efi)
  BY SourceFacts DEF Typed, EfiLen
<1>4. EfiLen \in Nat /\ Base \in {0, 1}
  BY <1>3 DEF EfiLen, Base
<1>5. \A i \in 1 .. Len(list) + 1 : pos[i] \in Nat /\ pos[i] >= Base
  <2> TAKE i \in 1 .. Len(list) + 1
  <2>1. pos[i] \in Nat /\ pos[1] = Base
    BY DEF Layout, Places
  <2>2. CASE i = 1
    BY <1>4, <2>1, <2>2
  <2>3. CASE i # 1
    <3>1. 1 \in 1 .. Len(list) + 1 /\ 1 < i /\ 1 \in 1 .. Len(list)
      BY <1>1, <2>3
    <3>2. pos[1] + Width(list[1]) =< pos[i]
      BY <3>1 DEF Layout, Places
    <3>3. Width(list[1]) \in Nat
      BY <1>2, <3>1 DEF Width
    <3> QED  BY <1>4, <2>1, <3>2, <3>3
  <2> QED  BY <2>2, <2>3
<1>6. InFile => Cur \in Sources /\ Blocks(Cur) \in Nat /\ Begin(pos) \in Nat
  <2>1. CASE idx = 0
    BY <1>3, <2>1 DEF Progress, Cur, Begin
  <2>2. CASE idx # 0
    <3>1. idx \in 1 .. Len(list) /\ Cur = list[idx] /\ Begin(pos) = EfiLen + pos[idx]
      BY <1>1, <2>2 DEF Cur, Begin
    <3> QED  BY <1>1, <1>2, <1>4, <1>5, <3>1
  <2> QED  BY <2>1, <2>2
<1> QED  BY <1>1, <1>2, <1>3, <1>4, <1>5, <1>6

LEMMA ContentsKept ==
  ASSUME NEW pos, Contents(pos), UNCHANGED <<opts, stream, layout, out>>, reported \subseteq reported'
  PROVE  Contents(pos)'
<1>1. \A x, s, k : Held(x, s, k) => x.of = s /\ x.blk = k /\ (x.data \/ s \in reported')
  BY DEF Held
<1>2. /\ opts' = opts /\ efi' = efi /\ list' = list /\ out' = out /\ EfiLen' = EfiLen
      /\ \A s : Blocks(s)' = Blocks(s)
  BY DEF layout, Blocks, EfiLen
<1>3. \A x, s, k : Held(x, s, k) => Held(x, s, k)'
  BY <1>1 DEF Held
<1>4. ASSUME efi # NoSource, NEW k \in 0 .. Blocks(efi) - 1, k + 1 =< Len(out)
      PROVE  Held(out[k + 1], efi, k)'
  BY <1>2, <1>3, <1>4 DEF Contents
<1>5. ASSUME NEW i \in DOMAIN list, list[i] # efi, NEW k \in 0 .. Blocks(list[i]) - 1,
             EfiLen + pos[i] + k + 1 =< Len(out)
      PROVE  Held(out[EfiLen + pos[i] + k + 1], list[i], k)'
  BY <1>2, <1>3, <1>5 DEF Contents
<1> QED  BY <1>2, <1>4, <1>5 DEF Contents

\* A block of the current file gets to its place and to no other one.
LEMMA ContentsAppend ==
  ASSUME Typed, NEW pos, Layout(pos), Progress(pos), Contents(pos),
         UNCHANGED <<opts, stream, layout, reported>>,
         pc \in {"data", "blank", "fill"}, b < Blocks(Cur),
         NEW ok \in BOOLEAN, ok \/ Cur \in reported, out' = Append(out, Block(Cur, b, ok))
  PROVE  Contents(pos)'
<1> DEFINE new == out'
<1>0. PICK L \in Nat : L = Len(out)
  BY SecondPassFacts
<1>1. InFile /\ L = Begin(pos) + b
  BY <1>0 DEF Progress, InFile
<1>2. /\ L = Len(out) /\ Len(new) = L + 1 /\ new[L + 1] = Block(Cur, b, ok)
      /\ \A j \in 1 .. L : new[j] = out[j]
  BY <1>0 DEF Typed
<1>3. Held(Block(Cur, b, ok), Cur, b)
  BY DEF Held, Block
<1>4. PICK len \in Nat : len = EfiLen
  BY SecondPassFacts
<1>5. /\ opts' = opts /\ efi' = efi /\ list' = list /\ reported' = reported /\ EfiLen' = len
      /\ \A s : Blocks(s)' = Blocks(s)
      /\ \A x, s, k : Held(x, s, k)' <=> Held(x, s, k)
  BY <1>4 DEF layout, Blocks, EfiLen, Held
<1>6. ASSUME efi # NoSource, NEW k \in 0 .. Blocks(efi) - 1, k + 1 =< Len(new)
      PROVE  Held(new[k + 1], efi, k)
  <2>1. Blocks(efi) = len /\ len \in Nat /\ k \in Nat /\ k < len
    BY <1>4, <1>6, SecondPassFacts
  <2>2. CASE k + 1 =< L
    <3>1. k + 1 \in 1 .. L
      BY <1>2, <2>1, <2>2
    <3> QED  BY <1>2, <1>6, <2>2, <3>1 DEF Contents
  <2>3. CASE k = L
    <3>1. idx = 0
      <4> SUFFICES ASSUME idx # 0 PROVE FALSE
        OBVIOUS
      <4>1. PICK q \in Nat, c \in Nat : q = pos[idx] /\ c = b
        <5>1. idx \in 1 .. Len(list) + 1
          BY SecondPassFacts
        <5> QED  BY <5>1, SecondPassFacts
      <4>2. L = len + q + c
        BY <1>1, <1>4, <4>1 DEF Begin
      <4> QED  BY <2>1, <2>3, <4>2
    <3>2. b = k /\ Cur = efi
      BY <1>1, <2>3, <3>1, SecondPassFacts DEF Begin, Cur
    <3> QED  BY <1>2, <1>3, <2>3, <3>2
  <2> QED  BY <1>2, <1>6, <2>1, <2>2, <2>3
<1>7. ASSUME ~opts.oldEmpty, len < Len(new) PROVE new[len + 1] = ZeroBlock
  <2>1. CASE len < L
    <3>1. len + 1 \in 1 .. L
      BY <1>2, <2>1
    <3> QED  BY <1>2, <1>4, <1>7, <2>1, <3>1 DEF Contents
  <2>2. CASE len = L
    <3>1. CASE idx = 0
      BY <1>1, <1>4, <2>2, <3>1, SecondPassFacts DEF Begin, Cur, Progress, InFile
    <3>2. CASE idx # 0
      <4>1. PICK q \in Nat, c \in Nat : q = pos[idx] /\ c = b /\ q > 0
        <5>1. idx \in 1 .. Len(list) + 1
          BY <3>2, SecondPassFacts
        <5>2. Base = 1
          BY <1>7 DEF Base
        <5>3. pos[idx] \in Nat /\ pos[idx] >= 1 /\ b \in Nat
          BY <5>1, <5>2, SecondPassFacts
        <5> QED  BY <5>3
      <4>2. L = len + q + c
        BY <1>1, <1>4, <3>2, <4>1 DEF Begin
      <4>3. FALSE
        BY <2>2, <4>1, <4>2
      <4> QED  BY <4>3
    <3> QED  BY <3>1, <3>2
  <2> QED  BY <1>2, <1>7, <2>1, <2>2
<1>8. ASSUME NEW i \in DOMAIN list, list[i] # efi, NEW k \in 0 .. Blocks(list[i]) - 1,
             len + pos[i] + k + 1 =< Len(new)
      PROVE  Held(new[len + pos[i] + k + 1], list[i], k)
  <2>1. /\ i \in 1 .. Len(list) /\ Blocks(list[i]) \in Nat /\ k \in Nat /\ k < Blocks(list[i])
        /\ Len(list) \in Nat
    BY <1>8, SecondPassFacts
  <2>2. PICK p \in Nat : p = pos[i]
    BY <2>1, SecondPassFacts
  <2>3. CASE len + p + k + 1 =< L
    <3>1. len + p + k + 1 \in 1 .. L
      BY <1>2, <2>1, <2>3
    <3> QED  BY <1>2, <1>4, <1>8, <2>2, <2>3, <3>1 DEF Contents
  <2>4. CASE len + p + k = L
    <3>1. idx # 0
      <4> SUFFICES ASSUME idx = 0 PROVE FALSE
        OBVIOUS
      <4>1. L = b /\ b < len /\ b \in Nat
        BY <1>1, <1>4, SecondPassFacts DEF Begin, Cur, Progress, InFile
      <4> QED  BY <2>1, <2>4, <4>1
    <3>2. PICK q \in Nat, c \in Nat : q = pos[idx] /\ c = b /\ p + k = q + c /\ Cur = list[idx] /\ list[idx] # efi
      <4>1. PICK q \in Nat, c \in Nat : q = pos[idx] /\ c = b
        <5>1. idx \in 1 .. Len(list) + 1
          BY <3>1, SecondPassFacts
        <5> QED  BY <5>1, SecondPassFacts
      <4>2. L = len + q + c /\ Cur = list[idx]
        BY <1>1, <1>4, <3>1, <4>1 DEF Begin, Cur
      <4>3. list[idx] # efi
        BY <1>1, <3>1 DEF Progress
      <4>4. p + k = q + c
        BY <2>1, <2>4, <4>2
      <4> QED  BY <4>1, <4>2, <4>3, <4>4
    <3>3. idx \in 1 .. Len(list) /\ idx \in Nat /\ c < Blocks(list[idx]) /\ Blocks(list[idx]) \in Nat
      BY <1>1, <3>1, <3>2, SecondPassFacts
    <3>4. Width(list[i]) = Blocks(list[i]) /\ Width(list[idx]) = Blocks(list[idx])
      BY <1>8, <3>2 DEF Width
    <3>5. ~(i < idx)
      <4>1. i < idx => pos[i] + Width(list[i]) =< pos[idx]
        BY <2>1, <3>3 DEF Layout, Places
      <4>2. PICK w \in Nat : w = Width(list[i]) /\ k < w
        BY <2>1, <3>4
      <4>3. i < idx => p + w =< q
        BY <2>2, <3>2, <4>1, <4>2
      <4>4. p + k = q + c /\ k \in Nat
        BY <2>1, <3>2
      <4>5. ~(p + w =< q)
        BY <4>2, <4>4
      <4> QED  BY <4>3, <4>5
    <3>6. ~(idx < i)
      <4>1. idx < i => pos[idx] + Width(list[idx]) =< pos[i]
        BY <2>1, <3>3 DEF Layout, Places
      <4>2. PICK w \in Nat : w = Width(list[idx]) /\ c < w
        BY <3>3, <3>4
      <4>3. idx < i => q + w =< p
        BY <2>2, <3>2, <4>1, <4>2
      <4>4. p + k = q + c /\ k \in Nat
        BY <2>1, <3>2
      <4>5. ~(q + w =< p)
        BY <4>2, <4>4
      <4> QED  BY <4>3, <4>5
    <3>7. i = idx
      BY <2>1, <3>3, <3>5, <3>6
    <3>8. k = b /\ list[i] = Cur
      <4>1. p = q /\ p + k = q + c /\ k \in Nat
        BY <2>1, <2>2, <3>2, <3>7
      <4>2. k = c
        BY <4>1
      <4> QED  BY <3>2, <3>7, <4>2
    <3>9. new[len + p + k + 1] = new[L + 1]
      BY <2>4
    <3> QED  BY <1>2, <1>3, <2>2, <3>8, <3>9
  <2>5. len + p + k + 1 =< L \/ len + p + k = L
    <3>1. len + p + k + 1 =< L + 1
      BY <1>2, <1>8, <2>2
    <3> QED  BY <1>2, <2>1, <3>1
  <2> QED  BY <2>3, <2>4, <2>5
<1> HIDE DEF new
<1>9. new = out'
  BY DEF new
<1> QED  BY <1>4, <1>5, <1>6, <1>7, <1>8, <1>9 DEF Contents

\* A state of the second pass, and the steps that lead to another one.
Writing(pos) == Typed /\ SecondPass /\ Layout(pos) /\ Progress(pos) /\ Contents(pos) /\ Summed
Frame == UNCHANGED <<opts, stream, layout>>

LEMMA FrameFacts ==
  ASSUME Frame
  PROVE  /\ opts' = opts /\ stream' = stream /\ files' = files /\ src' = src /\ efi' = efi
         /\ list' = list /\ blocks' = blocks /\ start' = start
         /\ EfiLen' = EfiLen /\ Base' = Base /\ \A s : Blocks(s)' = Blocks(s)
BY DEF Frame, layout, EfiLen, Base, Blocks

LEMMA SecondPassStep ==
  ASSUME NEW pos, Writing(pos), Frame, Typed',
         pc' = "aborted" \/ (SecondPass' /\ Progress(pos)' /\ Contents(pos)' /\ Summed')
  PROVE  WriterInv'
<1>1. CASE pc' = "aborted"
  BY <1>1 DEF WriterInv, FirstPass, SecondPass
<1>2. CASE SecondPass' /\ Progress(pos)' /\ Contents(pos)' /\ Summed'
  <2>1. Layout(pos)'
    BY LayoutKept DEF Writing, Frame
  <2> QED  BY <1>2, <2>1 DEF WriterInv, FirstPass, SecondPass
<1> QED  BY <1>1, <1>2

LEMMA SumsKept ==
  ASSUME Frame, UNCHANGED md5, reported \subseteq reported', Summed,
         \A i \in 0 .. Len(list) : Done(i)' => Done(i)
  PROVE  \A i \in 0 .. Len(list') : Done(i)' => SumRight(i)'
<1>1. list' = list /\ efi' = efi /\ src' = src /\ stream' = stream
  BY FrameFacts
<1>2. \A i : SumRight(i) => SumRight(i)'
  BY <1>1 DEF SumRight
<1> QED  BY <1>1, <1>2 DEF Summed

LEMMA WriteFailsStep ==
  ASSUME NEW pos, Writing(pos), WriteFails
  PROVE  WriterInv'
<1>1. Frame /\ UNCHANGED <<idx, b, out, md5>> /\ pc' = "aborted"
  BY DEF WriteFails, Frame, writing
<1>2. Typed'
  BY <1>1, FrameFacts DEF Writing, Typed, Pcs
<1> QED  BY <1>1, <1>2, SecondPassStep

LEMMA AllWrittenStep ==
  ASSUME NEW pos, Writing(pos), AllWritten
  PROVE  WriterInv'
<1>1. /\ Frame /\ UNCHANGED <<idx, b, out, digest, md5, reported>> /\ pc = "next" /\ pc' = "done"
      /\ idx = Len(list)
  BY DEF AllWritten, Frame, writing
<1>2. Typed'
  BY <1>1, FrameFacts DEF Writing, Typed, Pcs
<1>3. Progress(pos)'
  BY <1>1, FrameFacts DEF Writing, Progress, InFile
<1>4. Contents(pos)'
  BY <1>1, ContentsKept DEF Writing, Frame
<1>5. Summed'
  <2>1. \A i \in 0 .. Len(list) : Done(i)' => Done(i)
    BY <1>1, FrameFacts DEF Done, InFile
  <2>2. \A i \in 0 .. Len(list') : Done(i)' => SumRight(i)'
    BY <1>1, <2>1, SumsKept DEF Writing
  <2> QED  BY <1>1, <2>2 DEF Summed
<1> QED  BY <1>1, <1>2, <1>3, <1>4, <1>5, SecondPassStep DEF SecondPass

LEMMA NextFileStep ==
  ASSUME NEW pos, Writing(pos), NextFile
  PROVE  WriterInv'
<1>1. /\ Frame /\ UNCHANGED <<b, out, digest, md5, reported>> /\ pc = "next" /\ idx' = idx + 1
      /\ idx < Len(list) /\ pc' = IF src[list[idx + 1]].noWrite THEN "next" ELSE "open"
  BY DEF NextFile, Frame, writing
<1>2. PICK i \in 1 .. Len(list) : i = idx + 1
  BY <1>1, SecondPassFacts DEF Writing
<1>3. i \in Nat /\ Len(list) \in Nat /\ idx \in Nat /\ idx' = i /\ i # 0 /\ DOMAIN list = 1 .. Len(list)
  BY <1>1, <1>2, SecondPassFacts DEF Writing
<1>4. pc' \in {"next", "open"} /\ (pc' = "next" <=> list[i] = efi)
  <2>1. list[i] = efi => efi # NoSource
    BY <1>2, SecondPassFacts, SourcesAssumption DEF Writing
  <2>2. src[list[i]].noWrite <=> list[i] = efi
    BY <1>2, <1>3, <2>1 DEF Writing, Layout
  <2> QED  BY <1>1, <1>2, <2>2
<1>5. Typed'
  BY <1>1, <1>3, <1>4, FrameFacts DEF Writing, Typed, Pcs
<1>6. Len(out) = EfiLen + pos[i]
  BY <1>1, <1>2 DEF Writing, Progress
<1>7. Progress(pos)'
  <2>1. CASE pc' = "open"
    <3>1. Len(out') = Begin(pos)' /\ list'[idx'] # efi'
      BY <1>1, <1>3, <1>4, <1>6, <2>1, FrameFacts DEF Begin
    <3>2. idx' \in 0 .. Len(list')
      BY <1>1, <1>3, FrameFacts
    <3> QED  BY <1>3, <2>1, <3>1, <3>2 DEF Progress
  <2>2. CASE pc' = "next"
    <3>1. pos[i + 1] = pos[i] + Width(list[i]) /\ Width(list[i]) = 0
      BY <1>3, <1>4, <2>2 DEF Writing, Layout, Places, Width
    <3>2. PICK p \in Nat : p = pos[i]
      BY <1>2, <1>3, SecondPassFacts DEF Writing
    <3>3. Len(out') = EfiLen' + pos[idx' + 1]
      BY <1>1, <1>3, <1>6, <3>1, <3>2, FrameFacts
    <3>4. idx' \in 0 .. Len(list')
      BY <1>1, <1>3, FrameFacts
    <3> QED  BY <2>2, <3>3, <3>4 DEF Progress, InFile
  <2> QED  BY <1>4, <2>1, <2>2
<1>8. Contents(pos)'
  BY <1>1, ContentsKept DEF Writing, Frame
<1>9. Summed'
  <2>1. \A j \in 0 .. Len(list) : Done(j)' => Done(j)
    <3>a. SUFFICES ASSUME NEW j \in 0 .. Len(list), Done(j)' PROVE Done(j)
      OBVIOUS
    <3>1. CASE j = 0
      BY <1>1, <3>a, <3>1, FrameFacts DEF Done, InFile
    <3>2. CASE j # 0
      <4>1. list[j] # efi /\ (j < i \/ (j = i /\ pc' = "next"))
        <5>1. ~InFile' => pc' = "next"
          BY <1>4 DEF InFile
        <5>2. list'[j] # efi' /\ (j < idx' \/ (j = idx' /\ ~InFile'))
          BY <3>a, <3>2 DEF Done
        <5> QED  BY <1>1, <1>3, <5>1, <5>2, FrameFacts
      <4>2. j < i
        BY <1>4, <4>1
      <4>3. j < idx \/ j = idx
        BY <1>2, <1>3, <4>2
      <4> QED  BY <1>1, <3>2, <4>1, <4>3 DEF Done, InFile
    <3> QED  BY <3>1, <3>2
  <2>2. \A j \in 0 .. Len(list') : Done(j)' => SumRight(j)'
    BY <1>1, <2>1, SumsKept DEF Writing
  <2> QED  BY <1>4, <2>2 DEF Summed
<1> QED  BY <1>1, <1>4, <1>5, <1>7, <1>8, <1>9, SecondPassStep DEF SecondPass

LEMMA ZeroBlockStep ==
  ASSUME NEW pos, Writing(pos), WriteZeroBlock
  PROVE  WriterInv'
<1>1. /\ Frame /\ UNCHANGED <<b, digest, md5, reported>> /\ pc = "zero" /\ pc' = "next" /\ idx' = 0
      /\ out' = IF opts.oldEmpty THEN out ELSE Append(out, ZeroBlock)
  BY DEF WriteZeroBlock, Frame
<1>2. idx = 0 /\ Len(out) = EfiLen
  BY <1>1 DEF Writing, Progress
<1>3. PICK len \in Nat : len = EfiLen
  BY SecondPassFacts DEF Writing
<1>4. out \in Seq(IsBlock) /\ ZeroBlock \in IsBlock
  BY DEF Writing, Typed, ZeroBlock, IsBlock
<1>5. Typed'
  <2>1. out' \in Seq(IsBlock)
    BY <1>1, <1>4
  <2> QED  BY <1>1, <2>1, FrameFacts DEF Writing, Typed, Pcs
<1>6. pos[1] = Base
  BY SecondPassFacts DEF Writing, Layout, Places
<1>7. Len(out') = len + Base
  <2>1. CASE opts.oldEmpty
    BY <1>1, <1>2, <1>3, <2>1 DEF Base
  <2>2. CASE ~opts.oldEmpty
    BY <1>1, <1>2, <1>3, <1>4, <2>2 DEF Base
  <2> QED  BY <2>1, <2>2
<1>8. Progress(pos)'
  <2>1. Len(out') = EfiLen' + pos[idx' + 1] /\ idx' \in 0 .. Len(list')
    BY <1>1, <1>3, <1>6, <1>7, FrameFacts, SecondPassFacts DEF Writing
  <2> QED  BY <1>1, <2>1 DEF Progress, InFile
<1>9. Contents(pos)'
  <2>1. CASE opts.oldEmpty
    BY <1>1, <2>1, ContentsKept DEF Writing, Frame
  <2>2. CASE ~opts.oldEmpty
    <3>1. /\ Len(out') = len + 1 /\ out'[len + 1] = ZeroBlock
          /\ \A j \in 1 .. len : out'[j] = out[j]
      BY <1>1, <1>2, <1>3, <1>4, <2>2
    <3>3. ASSUME efi # NoSource, NEW k \in 0 .. Blocks(efi) - 1
          PROVE  Held(out[k + 1], efi, k)'
      <4>1. Blocks(efi) = len /\ k + 1 \in 1 .. len
        BY <1>3, <3>3, SecondPassFacts DEF Writing
      <4>2. Held(out[k + 1], efi, k)
        BY <1>2, <1>3, <3>3, <4>1 DEF Writing, Contents
      <4>3. out'[k + 1] = out[k + 1]
        BY <3>1, <4>1
      <4> QED  BY <1>1, <4>2, <4>3, FrameFacts DEF Held
    <3>4. ASSUME NEW i \in 1 .. Len(list), NEW k \in Nat
          PROVE  ~(len + pos[i] + k + 1 =< len + 1)
      <4>1. PICK p \in Nat : p = pos[i] /\ p >= 1
        <5>1. i \in 1 .. Len(list) + 1
          BY SecondPassFacts DEF Writing
        <5>2. Base = 1
          BY <2>2 DEF Base
        <5> QED  BY <5>1, <5>2, SecondPassFacts DEF Writing
      <4> QED  BY <4>1
    <3>5. /\ efi' = efi /\ list' = list /\ EfiLen' = len /\ Len(out') = len + 1
          /\ \A s : Blocks(s)' = Blocks(s)
      BY <1>3, <3>1, FrameFacts, <1>1
    <3>6. DOMAIN list = 1 .. Len(list) /\ \A i \in DOMAIN list : Blocks(list[i]) \in Nat
      BY SecondPassFacts DEF Writing
    <3> QED  BY <3>1, <3>3, <3>4, <3>5, <3>6 DEF Contents
  <2> QED  BY <2>1, <2>2
<1>10. Summed'
  <2>1. \A i \in 0 .. Len(list) : Done(i)' => Done(i)
    <3>1. Done(0)' => Done(0)
      BY <1>1, FrameFacts DEF Done, InFile
    <3>2. ASSUME NEW i \in 0 .. Len(list), i # 0 PROVE ~Done(i)'
      <4>1. ~(i < 0 \/ i = 0)
        BY <3>2
      <4> QED  BY <1>1, <3>2, <4>1 DEF Done
    <3> QED  BY <3>1, <3>2
  <2>2. \A i \in 0 .. Len(list') : Done(i)' => SumRight(i)'
    BY <1>1, <2>1, SumsKept DEF Writing
  <2> QED  BY <1>1, <2>2 DEF Summed
<1> QED  BY <1>1, <1>5, <1>8, <1>9, <1>10, SecondPassStep DEF SecondPass

\* The stream is opened or not, or reading it fails: nothing is written, only
\* the state of the file changes, and what failed gets reported.
LEMMA OpenStep ==
  ASSUME NEW pos, Writing(pos), OpenOk \/ OpenFails \/ ReadFails
  PROVE  WriterInv'
<1>1. /\ Frame /\ UNCHANGED <<idx, out, md5>>
      /\ reported' = reported \/ reported' = reported \union {Cur}
      /\ pc \in {"open", "data"} /\ pc' \in {"data", "blank", "fill", "aborted"}
      /\ pc' \in {"blank", "fill"} => Cur \in reported'
  BY DEF OpenOk, OpenFails, ReadFails, Report, Frame
<1>2. b' \in Nat /\ InFile /\ Cur' = Cur /\ Begin(pos)' = Begin(pos)
  BY <1>1, FrameFacts DEF OpenOk, OpenFails, ReadFails, Writing, Typed, InFile, Cur, Begin
<1>3. Len(out) = Begin(pos) + b' /\ b' =< Blocks(Cur)
  <2>1. CASE pc = "open"
    <3>1. b' = 0 /\ Len(out) = Begin(pos) /\ Begin(pos) \in Nat /\ Blocks(Cur) \in Nat
      BY <1>2, <2>1, SecondPassFacts DEF OpenOk, OpenFails, ReadFails, Writing, Progress
    <3> QED  BY <3>1
  <2>2. CASE pc = "data"
    <3>1. b' = b
      BY <2>2 DEF OpenOk, OpenFails, ReadFails
    <3> QED  BY <1>2, <2>2, <3>1 DEF Writing, Progress
  <2> QED  BY <1>1, <2>1, <2>2
<1>4. Typed'
  BY <1>1, <1>2, FrameFacts DEF Writing, Typed, Pcs
<1>5. CASE pc' = "aborted"
  BY <1>1, <1>4, <1>5, SecondPassStep
<1>6. CASE pc' # "aborted"
  <2>1. Blocks(Cur)' = Blocks(Cur)
    BY <1>1, <1>2, FrameFacts DEF Blocks
  <2>2. Progress(pos)'
    <3>1. IF idx' = 0 THEN efi' # NoSource ELSE list'[idx'] # efi'
      BY <1>1, <1>2, FrameFacts DEF Writing, Progress
    <3>2. Len(out') = Begin(pos)' + b' /\ b' =< Blocks(Cur)' /\ idx' \in 0 .. Len(list')
      BY <1>1, <1>2, <1>3, <2>1, FrameFacts DEF Writing, Progress
    <3> QED  BY <1>1, <3>1, <3>2 DEF Progress
  <2>3. Contents(pos)'
    BY <1>1, ContentsKept DEF Writing, Frame
  <2>4. Summed'
    <3>1. \A i \in 0 .. Len(list) : Done(i)' => Done(i)
      BY <1>1, <1>6, FrameFacts DEF Done, InFile
    <3>2. \A i \in 0 .. Len(list') : Done(i)' => SumRight(i)'
      BY <1>1, <3>1, SumsKept DEF Writing
    <3>3. pc' = "data" => digest' = <<Smaller(b' * BlockSize, stream'[Cur'].size), 0>>
      <4>1. pc' = "data" => b' = 0 /\ digest' = <<0, 0>>
        BY DEF OpenOk, OpenFails, ReadFails, Report
      <4>2. PICK z \in Nat : z = stream[Cur].size
        BY <1>2, SecondPassFacts, SourceFacts DEF Writing, Typed
      <4>3. Smaller(0 * BlockSize, z) = 0
        BY BlockSizeAssumption DEF Smaller
      <4> QED  BY <1>1, <1>2, <4>1, <4>2, <4>3, FrameFacts
    <3>4. pc' \in {"blank", "fill"} => Cur' \in reported'
      BY <1>1, <1>2
    <3> QED  BY <3>2, <3>3, <3>4 DEF Summed
  <2> QED  BY <1>1, <1>4, <1>6, <2>2, <2>3, <2>4, SecondPassStep DEF SecondPass
<1> QED  BY <1>5, <1>6

\* The bytes that a block adds to the checksum; the unsigned difference of
\* iso_filesrc_write_data() does not wrap around as long as blocks are missing.
LEMMA BlockOfDigest ==
  ASSUME stream \in Streams, NEW s \in Sources, NEW n \in Nat, n < Blocks(s)
  PROVE  Smaller(n * BlockSize, stream[s].size) + Md5Len(s, n)
           = Smaller((n + 1) * BlockSize, stream[s].size)
<1>1. PICK z \in Sizes : z = stream[s].size
  BY SourceFacts
<1>2. z \in Nat /\ z < Word /\ Word \in Nat
  <2>1. z + 2 * BlockSize < Word /\ z \in Nat /\ Word \in Nat
    BY WordAssumption, SizesAssumption
  <2> QED  BY <2>1, BlockSizeAssumption
<1>3. PICK B \in Nat \ {0} : B = BlockSize
  BY BlockSizeAssumption
<1>4. PICK m \in Nat : m = Blocks(s) /\ B * m < z + B
  BY <1>1, <1>3, SourceFacts
<1>5. PICK w \in Nat : w = n * B
  OBVIOUS
<1>6. (n + 1) * B = w + B
  BY <1>5
<1>7. w < z
  <2>1. (n + 1) * B =< m * B
    <3>1. PICK d \in Nat : m = n + 1 + d
      <4>1. m - (n + 1) \in Nat /\ m = n + 1 + (m - (n + 1))
        BY <1>4
      <4> QED  BY <4>1
    <3>2. m * B = (n + 1) * B + d * B /\ d * B \in Nat
      BY <3>1
    <3> QED  BY <1>5, <1>6, <3>2
  <2>2. PICK y \in Nat : y = B * m /\ y = m * B
    OBVIOUS
  <2>3. w + B =< y /\ y < z + B
    BY <1>4, <1>6, <2>1, <2>2
  <2> QED  BY <1>2, <2>3
<1>8. PICK rest \in Nat : rest = z - w /\ rest < Word
  BY <1>2, <1>7
<1>9. rest % Word = rest
  BY <1>2, <1>8
<1>10. Md5Len(s, n) = IF rest > B THEN B ELSE rest
  <2>1. stream[s].size - n * BlockSize = rest
    BY <1>1, <1>3, <1>5, <1>8
  <2> QED  BY <1>3, <1>9, <2>1 DEF Md5Len
<1> QED  BY <1>1, <1>2, <1>3, <1>5, <1>6, <1>7, <1>8, <1>10 DEF Smaller

LEMMA BlockStep ==
  ASSUME NEW pos, Writing(pos), BlankBlock \/ ReadBlock \/ FillBlock
  PROVE  WriterInv'
<1>1. /\ Frame /\ UNCHANGED <<idx, pc, md5, reported>>
      /\ pc \in {"data", "blank", "fill"} /\ b < Blocks(Cur) /\ b' = b + 1
  BY DEF BlankBlock, ReadBlock, FillBlock, Frame
<1>2. PICK ok \in BOOLEAN : out' = Append(out, Block(Cur, b, ok)) /\ (ok \/ pc \in {"blank", "fill"})
  BY DEF BlankBlock, ReadBlock, FillBlock
<1>3. ok \/ Cur \in reported
  BY <1>2 DEF Writing, Summed
<1>4. /\ Cur \in Sources /\ Blocks(Cur) \in Nat /\ Begin(pos) \in Nat /\ b \in Nat /\ InFile
      /\ Len(out) \in Nat /\ Len(out) = Begin(pos) + b
  BY <1>1, SecondPassFacts DEF Writing, InFile, Progress
<1>5. Cur' = Cur /\ Begin(pos)' = Begin(pos) /\ Blocks(Cur)' = Blocks(Cur)
  BY <1>1, FrameFacts DEF Cur, Begin, Blocks
<1>6. out \in Seq(IsBlock) /\ Block(Cur, b, ok) \in IsBlock
  BY <1>4 DEF Writing, Typed, Block, IsBlock
<1>7. Typed'
  <2>1. out' \in Seq(IsBlock) /\ b' \in Nat
    BY <1>1, <1>2, <1>4, <1>6
  <2> QED  BY <1>1, <2>1, FrameFacts DEF Writing, Typed
<1>8. Progress(pos)'
  <2>1. Len(out') = Begin(pos)' + b' /\ b' =< Blocks(Cur)'
    BY <1>1, <1>2, <1>4, <1>5, <1>6
  <2>2. IF idx' = 0 THEN efi' # NoSource ELSE list'[idx'] # efi'
    BY <1>1, <1>4, FrameFacts DEF Writing, Progress
  <2>3. idx' \in 0 .. Len(list')
    BY <1>1, FrameFacts DEF Writing, Progress
  <2> QED  BY <1>1, <2>1, <2>2, <2>3 DEF Progress
<1>9. Contents(pos)'
  BY <1>1, <1>2, <1>3, ContentsAppend DEF Writing, Frame
<1>10. Summed'
  <2>1. \A i \in 0 .. Len(list') : Done(i)' => SumRight(i)'
    <3>1. \A i \in 0 .. Len(list) : Done(i)' => Done(i)
      BY <1>1, FrameFacts DEF Done, InFile
    <3> QED  BY <1>1, <3>1, SumsKept DEF Writing
  <2>2. pc' \in {"blank", "fill"} => Cur' \in reported'
    BY <1>1, <1>5 DEF Writing, Summed
  <2>3. ASSUME pc' = "data", src'[Cur'].cx > 0
        PROVE  digest' = <<Smaller(b' * BlockSize, stream'[Cur'].size), 0>>
    <3>1. pc = "data" /\ src[Cur].cx > 0
      BY <1>1, <1>5, <2>3, FrameFacts
    <3>2. PICK x : x = Smaller(b * BlockSize, stream[Cur].size)
      OBVIOUS
    <3>3. digest = <<x, 0>>
      BY <3>1, <3>2 DEF Writing, Summed
    <3>4. PICK c \in Nat : c = src[Cur].cx
      BY <1>4 DEF Writing, Typed, IsSrc
    <3>5. digest' = <<x + Md5Len(Cur, b), 0>>
      BY <3>1, <3>3, <3>4 DEF BlankBlock, ReadBlock, FillBlock, Digested
    <3>6. x + Md5Len(Cur, b) = Smaller((b + 1) * BlockSize, stream[Cur].size)
      BY <1>1, <1>4, <3>2, BlockOfDigest DEF Writing, Typed
    <3> QED  BY <1>1, <1>5, <3>5, <3>6, FrameFacts
  <2> QED  BY <2>1, <2>2, <2>3 DEF Summed
<1> QED  BY <1>1, <1>7, <1>8, <1>9, <1>10, SecondPassStep DEF Writing, SecondPass

\* All blocks of the file are written: its checksum is right or it was reported.
LEMMA FileEndStep ==
  ASSUME NEW pos, Writing(pos), BlankEnds \/ FileEnds
  PROVE  WriterInv'
<1>1. /\ Frame /\ UNCHANGED <<idx, b, out>> /\ reported \subseteq reported'
      /\ pc \in {"data", "blank", "fill"} /\ b = Blocks(Cur) /\ pc' \in {AfterFile, "aborted"}
  BY DEF BlankEnds, FileEnds, Report, Frame, writing
<1>2. /\ Cur \in Sources /\ Blocks(Cur) \in Nat /\ InFile /\ Len(out) = Begin(pos) + Blocks(Cur)
      /\ idx \in 0 .. Len(list) /\ Len(list) \in Nat /\ EfiLen \in Nat
      /\ IF idx = 0 THEN efi # NoSource ELSE list[idx] # efi
  BY <1>1, SecondPassFacts DEF Writing, InFile, Progress
<1>3. md5' = md5 \/ md5' = [md5 EXCEPT ![Cur] = digest]
  BY DEF BlankEnds, FileEnds, writing
<1>4. md5' = [s \in Sources |-> md5'[s]] /\ DOMAIN md5 = Sources
  <2>1. md5 = [s \in Sources |-> md5[s]]
    BY DEF Writing, Typed
  <2> QED  BY <1>3, <2>1
<1>5. AfterFile \in {"zero", "next"} /\ (AfterFile = "zero" <=> idx = 0)
  BY DEF AfterFile
<1>7. Typed'
  <2>1. pc' \in Pcs
    BY <1>1, <1>5 DEF Pcs
  <2> QED  BY <1>1, <1>4, <2>1, FrameFacts DEF Writing, Typed
<1>8. CASE pc' = "aborted"
  BY <1>1, <1>7, <1>8, SecondPassStep
<1>9. CASE pc' = AfterFile
  <2>1. Progress(pos)'
    <3>1. CASE idx = 0
      <4>1. Len(out) = EfiLen
        BY <1>2, <3>1, SecondPassFacts DEF Writing, Begin, Cur
      <4> QED  BY <1>1, <1>2, <1>5, <1>9, <3>1, <4>1, FrameFacts DEF Progress, InFile
    <3>2. CASE idx # 0
      <4>1. idx \in 1 .. Len(list) /\ Cur = list[idx] /\ Width(list[idx]) = Blocks(list[idx])
        BY <1>2, <3>2 DEF Cur, Width
      <4>2. pos[idx + 1] = pos[idx] + Blocks(Cur)
        BY <1>2, <4>1 DEF Writing, Layout, Places
      <4>3. pos[idx] \in Nat
        BY <1>2, <4>1, SecondPassFacts DEF Writing
      <4>4. Len(out) = EfiLen + pos[idx + 1]
        BY <1>2, <3>2, <4>2, <4>3 DEF Begin
      <4> QED  BY <1>1, <1>2, <1>5, <1>9, <3>2, <4>4, FrameFacts DEF Progress, InFile
    <3> QED  BY <3>1, <3>2
  <2>2. Contents(pos)'
    BY <1>1, ContentsKept DEF Writing, Frame
  <2>3. ASSUME src[Cur].cx > 0, Cur \notin reported'
        PROVE  md5'[Cur] = <<stream[Cur].size, 0>>
    <3>1. pc = "data" /\ FileEnds
      BY <1>1, <2>3 DEF BlankEnds, FileEnds, Writing, Summed
    <3>2. md5' = [md5 EXCEPT ![Cur] = digest]
      BY <1>5, <1>9, <2>3, <3>1 DEF FileEnds
    <3>3. digest = <<Smaller(b * BlockSize, stream[Cur].size), 0>>
      BY <2>3, <3>1 DEF Writing, Summed
    <3>4. PICK z \in Nat, m \in Nat : z = stream[Cur].size /\ m = Blocks(Cur) /\ BlockSize * m >= z
      BY <1>2, SourceFacts DEF Writing, Typed
    <3>5. m * BlockSize = BlockSize * m
      BY BlockSizeAssumption
    <3>6. Smaller(m * BlockSize, z) = z
      BY <3>4, <3>5, BlockSizeAssumption DEF Smaller
    <3> QED  BY <1>1, <1>2, <1>4, <3>2, <3>3, <3>4, <3>6
  <2>4. ASSUME NEW i \in 0 .. Len(list), Done(i)' PROVE SumRight(i)'
    <3>1. PICK s : s = IF i = 0 THEN efi ELSE list[i]
      OBVIOUS
    <3>2. SUFFICES ASSUME src[s].cx > 0, s \notin reported' PROVE md5'[s] = <<stream[s].size, 0>>
      BY <1>1, <3>1, FrameFacts DEF SumRight
    <3>3. CASE s = Cur
      BY <2>3, <3>2, <3>3
    <3>4. CASE s # Cur
      <4>1. i # idx
        BY <3>1, <3>4 DEF Cur
      <4>2. Done(i)
        BY <1>1, <1>2, <2>4, <4>1, FrameFacts DEF Done
      <4>3. md5'[s] = md5[s]
        <5>1. s \in Sources
          BY <3>1, <4>2, SecondPassFacts DEF Writing, Done
        <5> QED  BY <1>3, <1>4, <3>4, <5>1
      <4>4. s \notin reported
        BY <1>1, <3>2
      <4> QED  BY <3>1, <3>2, <4>2, <4>3, <4>4 DEF Writing, Summed, SumRight
    <3> QED  BY <3>3, <3>4
  <2>5. Summed'
    <3>1. pc' \notin {"data", "blank", "fill"}
      BY <1>5, <1>9
    <3> QED  BY <1>1, <2>4, <3>1, FrameFacts DEF Summed
  <2> QED  BY <1>1, <1>5, <1>7, <1>9, <2>1, <2>2, <2>5, SecondPassStep DEF SecondPass
<1> QED  BY <1>1, <1>8, <1>9

LEMMA StutterStep ==
  ASSUME WriterInv, UNCHANGED vars
  PROVE  WriterInv'
<1>1. /\ Frame /\ UNCHANGED <<idx, b, out, digest, md5, reported, pc>>
  BY DEF vars, Frame, writing
<1>2. Typed'
  BY <1>1, FrameFacts DEF WriterInv, Typed
<1>3. CASE SecondPass
  <2>1. PICK pos : Writing(pos)
    BY <1>3 DEF WriterInv, Writing
  <2>2. Progress(pos)'
    <3>1. Cur' = Cur /\ Begin(pos)' = Begin(pos) /\ (InFile' <=> InFile)
      BY <1>1, FrameFacts DEF Cur, Begin, InFile
    <3>2. Blocks(Cur)' = Blocks(Cur)
      BY <1>1, <3>1, FrameFacts DEF Blocks
    <3> QED  BY <1>1, <2>1, <3>1, <3>2, FrameFacts DEF Writing, Progress
  <2>3. Contents(pos)'
    BY <1>1, <2>1, ContentsKept DEF Writing, Frame
  <2>4. Summed'
    <3>1. \A i \in 0 .. Len(list) : Done(i)' => Done(i)
      BY <1>1, FrameFacts DEF Done, InFile
    <3>2. \A i \in 0 .. Len(list') : Done(i)' => SumRight(i)'
      BY <1>1, <2>1, <3>1, SumsKept DEF Writing
    <3>3. Cur' = Cur
      BY <1>1, FrameFacts DEF Cur
    <3> QED  BY <1>1, <2>1, <3>2, <3>3, FrameFacts DEF Writing, Summed
  <2> QED  BY <1>1, <1>2, <1>3, <2>1, <2>2, <2>3, <2>4, SecondPassStep DEF SecondPass
<1>4. CASE ~SecondPass
  <2>1. \A s : N(s)' = N(s) /\ Width(s)' = Width(s)
    BY <1>1, FrameFacts DEF N, Width
  <2>2. \A s, e : SecSize(s, e)' = SecSize(s, e)
    BY <1>1, <2>1, FrameFacts DEF SecSize
  <2>3. \A s : Unplaced(s)' <=> Unplaced(s)
    BY <1>1, <2>1, FrameFacts DEF Unplaced
  <2>4. ASSUME NEW pos, pc = "pre", Placing(pos) PROVE Placing(pos)'
    <3>1. ListSound' /\ idx' \in 1 .. Len(list') + 1 /\ blocks' = pos[idx']
      BY <1>1, <2>4, FrameFacts DEF Placing, ListSound
    <3>2. Places(pos, idx)'
      <4>1. \A i : Width(list[i])' = Width(list[i])
        BY <1>1, FrameFacts DEF Width
      <4> QED  BY <1>1, <2>4, <4>1, FrameFacts DEF Placing, Places
    <3>3. \A i \in DOMAIN list' : i >= idx' => Unplaced(list[i])' /\ ~src'[list'[i]].noWrite
      <4>1. \A i : Unplaced(list[i])' <=> Unplaced(list[i])
        BY <1>1, FrameFacts DEF Unplaced, N
      <4> QED  BY <1>1, <2>4, <4>1, FrameFacts DEF Placing
    <3>4. ASSUME NEW i \in DOMAIN list, i < idx
          PROVE  IF list[i] = efi
                 THEN /\ src[efi].noWrite /\ Len(src[efi].sections) = N(efi)'
                      /\ \A e \in 1 .. N(efi)' : src[efi].sections[e].size = SecSize(efi, e)'
                 ELSE ~src[list[i]].noWrite /\ src[list[i]].sections = Planned(list[i], pos[i])'
      <4>1. N(efi)' = N(efi) /\ \A e : SecSize(efi, e)' = SecSize(efi, e)
        BY <1>1, FrameFacts DEF N, SecSize
      <4>2. Planned(list[i], pos[i])' = Planned(list[i], pos[i])
        BY <1>1, FrameFacts DEF Planned, N, SecSize
      <4> QED  BY <2>4, <3>4, <4>1, <4>2 DEF Placing
    <3> QED  BY <1>1, <3>1, <3>2, <3>3, <3>4, FrameFacts DEF Placing
  <2>5. Registering => Registering'
    BY <1>1, <2>3, FrameFacts DEF Registering
  <2>6. Listing => Listing'
    BY <1>1, <2>3, FrameFacts DEF Listing
  <2> QED  BY <1>1, <1>2, <1>4, <2>4, <2>5, <2>6 DEF WriterInv, FirstPass, SecondPass
<1> QED  BY <1>3, <1>4

LEMMA WriterInvNext ==
  ASSUME WriterInv, [Next]_vars
  PROVE  WriterInv'
<1>1. ASSUME NEW s \in Sources, FileSrcCreate(s) PROVE WriterInv'
  BY <1>1, RegisterStep
<1>2. CASE ElToritoCreate
  BY <1>2, ClaimStep
<1>3. CASE PreCompute
  BY <1>3, ListStep
<1>4. CASE PreComputeFile
  BY <1>4, PlaceStep
<1>5. CASE ComputeDataBlocks
  BY <1>5, ComputeStep
<1>6. CASE \/ WriteFails \/ WriteZeroBlock \/ NextFile \/ AllWritten \/ OpenOk \/ OpenFails
           \/ BlankBlock \/ BlankEnds \/ ReadBlock \/ ReadFails \/ FillBlock \/ FileEnds
  <2>1. pc \in {"zero", "next", "open", "data", "blank", "fill"}
    BY <1>6 DEF WriteFails, WriteZeroBlock, NextFile, AllWritten, OpenOk, OpenFails,
                BlankBlock, BlankEnds, ReadBlock, ReadFails, FillBlock, FileEnds
  <2>2. PICK pos : Writing(pos)
    BY <2>1 DEF WriterInv, Writing, SecondPass
  <2>3. CASE WriteFails
    BY <2>2, <2>3, WriteFailsStep
  <2>4. CASE WriteZeroBlock
    BY <2>2, <2>4, ZeroBlockStep
  <2>5. CASE NextFile
    BY <2>2, <2>5, NextFileStep
  <2>6. CASE AllWritten
    BY <2>2, <2>6, AllWrittenStep
  <2>7. CASE OpenOk \/ OpenFails \/ ReadFails
    BY <2>2, <2>7, OpenStep
  <2>8. CASE BlankBlock \/ ReadBlock \/ FillBlock
    BY <2>2, <2>8, BlockStep
  <2>9. CASE BlankEnds \/ FileEnds
    BY <2>2, <2>9, FileEndStep
  <2> QED  BY <1>6, <2>3, <2>4, <2>5, <2>6, <2>7, <2>8, <2>9
<1>7. CASE UNCHANGED vars
  BY <1>7, StutterStep
<1> QED  BY <1>1, <1>2, <1>3, <1>4, <1>5, <1>6, <1>7 DEF Next

-----------------------------------------------------------------------------
(* What the properties follow from.                                         *)

LEMMA SectionBlock ==
  ASSUME stream \in Streams, NEW s \in Sources, NEW e \in 1 .. N(s),
         NEW k \in 0 .. DivUp(SecSize(s, e), BlockSize) - 1
  PROVE  (e - 1) * ExtentBlocks + k \in 0 .. Blocks(s) - 1 /\ stream[s].size > 0
<1>1. PICK n \in Nat \ {0}, B \in Nat, x \in Nat \ {0} : n = N(s) /\ B = Blocks(s) /\ x = ExtentBlocks
  BY SourceFacts, ExtentFacts
<1>2. PICK d \in Nat : d = DivUp(SecSize(s, e), BlockSize)
  <2>1. PICK z \in Nat : z = SecSize(s, e)
    BY SourceFacts, ExtentFacts
  <2>2. DivUp(z, BlockSize) \in Nat
    BY DivUpFacts, BlockSizeAssumption
  <2> QED  BY <2>1, <2>2
<1>3. PICK last \in Nat : last = DivUp(SecSize(s, n), BlockSize) /\ (n - 1) * x + last = B
  <2>1. SecSize(s, n) \in Nat
    BY <1>1, SourceFacts, ExtentFacts
  <2> QED  BY <1>1, <2>1, SourceFacts, DivUpFacts, BlockSizeAssumption
<1>4. e \in Nat \ {0} /\ e =< n /\ k \in Nat /\ k < d
  BY <1>1, <1>2
<1>5. CASE e = n
  <2>1. d = last /\ (e - 1) * x = (n - 1) * x
    BY <1>2, <1>3, <1>5
  <2>2. (e - 1) * x + k \in Nat /\ (e - 1) * x + k < B
    <3>1. PICK w \in Nat : w = (n - 1) * x
      BY <1>1
    <3> QED  BY <1>3, <1>4, <2>1, <3>1
  <2>3. stream[s].size > 0
    <3>1. B > 0
      BY <1>1, <2>2
    <3> QED  BY <1>1, <3>1, SourceFacts
  <2> QED  BY <1>1, <2>2, <2>3
<1>6. CASE e # n
  <2>1. d = x
    <3>1. SecSize(s, e) = ExtentSize
      BY <1>1, <1>4, <1>6 DEF SecSize
    <3> QED  BY <1>1, <1>2, <3>1, ExtentFacts
  <2>2. PICK m \in Nat : n = e + 1 + m
    <3>1. n - (e + 1) \in Nat /\ n = e + 1 + (n - (e + 1))
      BY <1>4, <1>6
    <3> QED  BY <3>1
  <2>3. (n - 1) * x = (e - 1) * x + x + m * x /\ m * x \in Nat /\ (e - 1) * x \in Nat
    <3>1. PICK c \in Nat : e = c + 1
      <4>1. e - 1 \in Nat /\ e = e - 1 + 1
        BY <1>4
      <4> QED  BY <4>1
    <3>2. (n - 1) * x = (c + 1 + m) * x /\ (e - 1) * x = c * x
      BY <2>2, <3>1
    <3>3. (c + 1 + m) * x = c * x + x + m * x
      OBVIOUS
    <3> QED  BY <3>2, <3>3
  <2>4. PICK u \in Nat, w \in Nat : u = (e - 1) * x /\ w = m * x /\ u + x + w + last = B
    BY <1>3, <2>3
  <2>5. u + k < B /\ u + k \in Nat
    BY <1>4, <2>1, <2>4
  <2>6. stream[s].size > 0
    <3>1. B > 0
      BY <1>1, <2>4
    <3> QED  BY <1>1, <3>1, <1>6, SourceFacts
  <2> QED  BY <1>1, <2>4, <2>5, <2>6
<1> QED  BY <1>5, <1>6

\* Where the blocks of a file stand when all is done, and what is recorded of it.
Stands(s, o) ==
  /\ o + Blocks(s) =< Len(out)
  /\ \A k \in 0 .. Blocks(s) - 1 : Held(out[o + k + 1], s, k)
  /\ Len(src[s].sections) = N(s)
  /\ \A e \in 1 .. N(s) :
       /\ src[s].sections[e].size = SecSize(s, e)
       /\ stream[s].size > 0 => src[s].sections[e].block = Start + o + (e - 1) * ExtentBlocks
  /\ src[s].cx > 0 /\ s \notin reported => md5[s] = <<stream[s].size, 0>>

LEMMA WrittenStands ==
  ASSUME WriterInv, pc = "done", NEW s \in Sources, Written(s)
  PROVE  \E o \in Nat : Stands(s, o)
<1>1. PICK pos : Writing(pos)
  BY DEF WriterInv, Writing, SecondPass
<1>2. /\ idx = Len(list) /\ Len(list) \in Nat /\ DOMAIN list = 1 .. Len(list)
      /\ Len(out) = EfiLen + pos[Len(list) + 1] /\ EfiLen \in Nat /\ Len(out) \in Nat
      /\ ~InFile
  BY <1>1, SecondPassFacts DEF Writing, Progress, InFile
<1>3. PICK L \in Nat, q \in Nat : L = EfiLen /\ q = pos[Len(list) + 1] /\ Len(out) = L + q
  <2>1. Len(list) + 1 \in 1 .. Len(list) + 1
    BY <1>2
  <2> QED  BY <1>1, <1>2, <2>1, SecondPassFacts DEF Writing
<1>4. PICK n \in Nat \ {0}, B \in Nat : n = N(s) /\ B = Blocks(s)
  BY <1>1, SourceFacts DEF Writing, Typed
<1>5. CASE s = efi /\ EfiBlocks > 0
  <2>1. s # NoSource /\ L = B /\ EfiLen > 0
    BY <1>1, <1>3, <1>4, <1>5, SourcesAssumption DEF EfiLen, Writing, Layout
  <2>2. \A k \in 0 .. B - 1 : Held(out[0 + k + 1], s, k)
    <3> TAKE k \in 0 .. B - 1
    <3>1. k + 1 =< Len(out) /\ 0 + k + 1 = k + 1
      BY <1>3, <2>1
    <3> QED  BY <1>1, <1>4, <1>5, <2>1, <3>1 DEF Writing, Contents
  <2>3. src[s].sections = [e \in 1 .. n |-> [block |-> Start + (e - 1) * ExtentBlocks, size |-> SecSize(s, e)]]
    BY <1>1, <1>4, <1>5, <2>1 DEF Writing, Layout
  <2>4. \A e \in 1 .. n : Start + (e - 1) * ExtentBlocks = Start + 0 + (e - 1) * ExtentBlocks
    BY StartAssumption, ExtentFacts
  <2>5. src[s].cx > 0 /\ s \notin reported => md5[s] = <<stream[s].size, 0>>
    <3>1. Done(0) /\ 0 \in 0 .. Len(list)
      BY <1>2, <1>5, <2>1 DEF Done
    <3> QED  BY <1>1, <1>5, <3>1 DEF Writing, Summed, SumRight
  <2>6. 0 + Blocks(s) =< Len(out)
    BY <1>3, <1>4, <2>1
  <2>7. /\ Len(src[s].sections) = N(s)
        /\ \A e \in 1 .. N(s) : /\ src[s].sections[e].size = SecSize(s, e)
                               /\ src[s].sections[e].block = Start + 0 + (e - 1) * ExtentBlocks
    BY <1>4, <2>3, <2>4
  <2>8. Stands(s, 0)
    BY <1>4, <2>2, <2>5, <2>6, <2>7 DEF Stands
  <2> QED  BY <2>8
<1>6. CASE \E i \in DOMAIN list : list[i] = s /\ ~src[s].noWrite
  <2>1. PICK i \in 1 .. Len(list) : list[i] = s /\ ~src[s].noWrite
    BY <1>2, <1>6
  <2>2. s # efi
    BY <1>1, <2>1, SourcesAssumption DEF Writing, Layout
  <2>3. PICK p \in Nat : p = pos[i]
    <3>1. i \in 1 .. Len(list) + 1
      BY <1>2
    <3> QED  BY <1>1, <3>1, SecondPassFacts DEF Writing
  <2>4. p + B =< q
    <3>1. Len(list) + 1 \in 1 .. Len(list) + 1 /\ i \in 1 .. Len(list) + 1 /\ i < Len(list) + 1
      BY <1>2
    <3>2. pos[i] + Width(list[i]) =< pos[Len(list) + 1]
      BY <1>1, <3>1 DEF Writing, Layout, Places
    <3> QED  BY <1>3, <1>4, <2>1, <2>2, <2>3, <3>2 DEF Width
  <2>5. PICK o \in Nat : o = L + p
    OBVIOUS
  <2>6. \A k \in 0 .. B - 1 : Held(out[o + k + 1], s, k)
    <3> TAKE k \in 0 .. B - 1
    <3>a. k \in Nat /\ k < B
      OBVIOUS
    <3>b. o + k + 1 =< L + q
      BY <2>4, <2>5, <3>a
    <3>1. o + k + 1 =< Len(out) /\ EfiLen + pos[i] + k + 1 = o + k + 1
      BY <1>3, <2>3, <2>5, <3>b
    <3> QED  BY <1>1, <1>2, <1>4, <2>1, <2>2, <3>1 DEF Writing, Contents
  <2>7. src[s].sections = Final(s, p)
    BY <1>1, <1>2, <2>1, <2>2, <2>3 DEF Writing, Layout
  <2>8. /\ Len(src[s].sections) = N(s)
        /\ \A e \in 1 .. N(s) :
             /\ src[s].sections[e].size = SecSize(s, e)
             /\ stream[s].size > 0 => src[s].sections[e].block = p + (e - 1) * ExtentBlocks + start
    <3>1. PICK z \in Nat : z = stream[s].size
      BY <1>1, SourceFacts DEF Writing, Typed
    <3>2. src[s].sections = [e \in 1 .. n |->
              [block |-> IF z = 0 THEN IF opts.oldEmpty THEN Start - 1 ELSE start
                         ELSE p + (e - 1) * ExtentBlocks + start,
               size  |-> SecSize(s, e)]]
      BY <1>4, <2>7, <3>1 DEF Final
    <3> QED  BY <1>4, <3>1, <3>2
  <2>9. \A e \in 1 .. N(s) : p + (e - 1) * ExtentBlocks + start = Start + o + (e - 1) * ExtentBlocks
    <3> TAKE e \in 1 .. N(s)
    <3>1. start = Start + L
      BY <1>1, <1>3 DEF Writing, Layout
    <3>2. PICK x \in Nat : x = (e - 1) * ExtentBlocks
      BY <1>4, ExtentFacts
    <3> QED  BY <2>5, <3>1, <3>2, StartAssumption
  <2>10. src[s].cx > 0 /\ s \notin reported => md5[s] = <<stream[s].size, 0>>
    <3>1. i \in 0 .. Len(list) /\ i # 0 /\ (i < idx \/ i = idx)
      BY <1>2
    <3>2. Done(i)
      BY <1>2, <2>1, <2>2, <3>1 DEF Done
    <3> QED  BY <1>1, <2>1, <3>1, <3>2 DEF Writing, Summed, SumRight
  <2>11. o + Blocks(s) =< Len(out)
    BY <1>3, <1>4, <2>4, <2>5
  <2>12. Stands(s, o)
    BY <1>4, <2>6, <2>8, <2>9, <2>10, <2>11 DEF Stands
  <2> QED  BY <2>12
<1> QED  BY <1>5, <1>6 DEF Written

LEMMA InvDataWhereRecorded == WriterInv => DataWhereRecorded
<1> SUFFICES ASSUME WriterInv, pc = "done", NEW s \in Sources, Written(s),
                    NEW e \in 1 .. Len(src[s].sections)
             PROVE  SectionHolds(s, e)
  BY DEF DataWhereRecorded
<1>1. PICK o \in Nat : Stands(s, o)
  BY WrittenStands
<1>2. stream \in Streams /\ out \in Seq(IsBlock) /\ Len(out) \in Nat /\ DOMAIN out = 1 .. Len(out)
  BY DEF WriterInv, Typed
<1>3. e \in 1 .. N(s) /\ src[s].sections[e].size = SecSize(s, e)
  BY <1>1 DEF Stands
<1>4. SUFFICES ASSUME NEW k \in 0 .. DivUp(SecSize(s, e), BlockSize) - 1
               PROVE  /\ src[s].sections[e].block + k - Start + 1 \in DOMAIN out
                      /\ At(src[s].sections[e].block + k).of = s
                      /\ At(src[s].sections[e].block + k).blk = (e - 1) * ExtentBlocks + k
  BY <1>3 DEF SectionHolds
<1>5. (e - 1) * ExtentBlocks + k \in 0 .. Blocks(s) - 1 /\ stream[s].size > 0
  BY <1>2, <1>3, SectionBlock
<1>6. PICK x \in Nat : x = (e - 1) * ExtentBlocks
  <2>1. e - 1 \in Nat
    BY <1>2, <1>3, SourceFacts
  <2> QED  BY <2>1, ExtentFacts
<1>7. PICK B \in Nat : B = Blocks(s)
  BY <1>2, SourceFacts
<1>8. PICK n \in Nat : n = k
  <2>1. PICK z \in Nat : z = SecSize(s, e)
    BY <1>2, <1>3, SourceFacts, ExtentFacts
  <2>2. DivUp(z, BlockSize) \in Nat
    BY DivUpFacts, BlockSizeAssumption
  <2> QED  BY <2>1, <2>2
<1>9. PICK j \in Nat : j = x + n /\ j < B
  <2>1. x + n \in 0 .. B - 1
    BY <1>5, <1>6, <1>7, <1>8
  <2> QED  BY <2>1
<1>10. PICK a \in Nat : a = Start
  BY StartAssumption
<1>11. src[s].sections[e].block = a + o + x
  BY <1>1, <1>3, <1>5, <1>6, <1>10 DEF Stands
<1>12. src[s].sections[e].block + k - Start + 1 = o + j + 1
  <2>1. a + o + x + n - a + 1 = o + j + 1
    BY <1>9
  <2> QED  BY <1>8, <1>10, <1>11, <2>1
<1>13. o + j + 1 \in 1 .. Len(out)
  <2>1. o + B =< Len(out)
    BY <1>1, <1>7 DEF Stands
  <2> QED  BY <1>2, <1>9, <2>1
<1>14. Held(out[o + j + 1], s, j)
  <2>1. j \in 0 .. Blocks(s) - 1
    BY <1>7, <1>9
  <2> QED  BY <1>1, <2>1 DEF Stands
<1>15. j = (e - 1) * ExtentBlocks + k
  BY <1>6, <1>8, <1>9
<1>16. At(src[s].sections[e].block + k) = out[o + j + 1]
  <2>1. PICK w \in Nat : w = src[s].sections[e].block + k /\ w = a + o + x + n
    BY <1>8, <1>11
  <2>2. w - Start + 1 = o + j + 1
    BY <1>9, <1>10, <2>1
  <2>3. At(w) = out[o + j + 1]
    BY <2>2 DEF At
  <2> QED  BY <2>1, <2>3
<1>17. out[o + j + 1].of = s /\ out[o + j + 1].blk = j
  BY <1>14 DEF Held
<1>18. src[s].sections[e].block + k - Start + 1 \in DOMAIN out
  BY <1>2, <1>12, <1>13
<1> QED  BY <1>15, <1>16, <1>17, <1>18

LEMMA InvEmptyFileHarmless == WriterInv => EmptyFileHarmless
<1> SUFFICES ASSUME WriterInv, pc = "done", ~opts.oldEmpty, NEW s \in Sources,
                    Written(s), s # efi, stream[s].size = 0
             PROVE  /\ src[s].sections[1].block - Start + 1 \in DOMAIN out
                    /\ At(src[s].sections[1].block) = ZeroBlock
  BY DEF EmptyFileHarmless
<1>1. PICK pos : Writing(pos)
  BY DEF WriterInv, Writing, SecondPass
<1>2. PICK i \in DOMAIN list : list[i] = s
  BY DEF Written
<1>3. N(s) = 1 /\ src[s].sections = Final(s, pos[i])
  BY <1>1, <1>2, SourceFacts DEF Writing, Typed, Layout
<1>4. src[s].sections[1].block = start
  BY <1>3 DEF Final
<1>5. PICK len \in Nat, a \in Nat : len = EfiLen /\ a = Start /\ start = a + len
  BY <1>1, SecondPassFacts, StartAssumption DEF Writing, Layout
<1>6. len < Len(out) /\ Len(out) \in Nat
  <2>1. Len(list) \in Nat /\ Len(out) = len + pos[Len(list) + 1]
    BY <1>1, <1>5, SecondPassFacts DEF Writing, Progress
  <2>2. Len(list) + 1 \in 1 .. Len(list) + 1
    BY <2>1
  <2>3. PICK q \in Nat : q = pos[Len(list) + 1] /\ q >= Base
    BY <1>1, <2>2, SecondPassFacts DEF Writing
  <2> QED  BY <2>1, <2>3 DEF Base
<1>7. out[len + 1] = ZeroBlock
  BY <1>1, <1>5, <1>6 DEF Writing, Contents
<1>8. src[s].sections[1].block - Start + 1 = len + 1
  BY <1>4, <1>5
<1>9. DOMAIN out = 1 .. Len(out)
  BY <1>1 DEF Writing, Typed
<1> QED  BY <1>6, <1>7, <1>8, <1>9 DEF At

LEMMA InvSectionsCoverFile == WriterInv => SectionsCoverFile
<1> SUFFICES ASSUME WriterInv, pc = "done", NEW s \in Sources, Written(s)
             PROVE  /\ FoldFunction(+, 0, [e \in DOMAIN src[s].sections |->
                                              src[s].sections[e].size]) = stream[s].size
                    /\ \A e \in 1 .. Len(src[s].sections) :
                          src[s].sections[e].size \in 0 .. MaxSection
  BY DEF SectionsCoverFile
<1>1. PICK o \in Nat : Stands(s, o)
  BY WrittenStands
<1>2. stream \in Streams /\ src[s].sections \in Seq(IsSection)
  BY DEF WriterInv, Typed, IsSrc
<1>3. PICK n \in Nat \ {0}, last \in Nat, z \in Nat :
        n = N(s) /\ last = LastSize(stream[s].size) /\ z = stream[s].size
  BY <1>2, SourceFacts
<1>4. PICK x \in Nat : x = ExtentSize
  BY ExtentAssumption
<1>5. DOMAIN src[s].sections = 1 .. n /\ \A e \in 1 .. n : src[s].sections[e].size = SecSize(s, e)
  BY <1>1, <1>2, <1>3 DEF Stands
<1>6. PICK fun : fun = [e \in DOMAIN src[s].sections |-> src[s].sections[e].size]
  OBVIOUS
<1>7. fun = [e \in 1 .. n |-> IF e < n THEN x ELSE last]
  <2>1. fun = [e \in 1 .. n |-> SecSize(s, e)]
    BY <1>5, <1>6
  <2>2. \A e \in 1 .. n : SecSize(s, e) = IF e < n THEN x ELSE last
    BY <1>3, <1>4 DEF SecSize
  <2>3. [e \in 1 .. n |-> SecSize(s, e)] = [e \in 1 .. n |-> IF e < n THEN x ELSE last]
    BY <2>2
  <2> QED  BY <2>1, <2>3
<1>8. Sum(fun) = x * (n - 1) + last
  BY ZenonT(30), <1>7, SectionSum
<1>9. x * (n - 1) + last = z
  <2>1. last = z - (n - 1) * x
    BY <1>3, <1>4 DEF LastSize, N
  <2>2. PICK w \in Nat : w = (n - 1) * x /\ w = x * (n - 1)
    OBVIOUS
  <2> QED  BY <2>1, <2>2
<1>10. FoldFunction(+, 0, [e \in DOMAIN src[s].sections |-> src[s].sections[e].size]) = z
  BY <1>6, <1>8, <1>9 DEF Sum
<1>11. \A e \in 1 .. Len(src[s].sections) : src[s].sections[e].size \in 0 .. MaxSection
  BY <1>1, <1>2, SourceFacts DEF Stands
<1> QED  BY <1>3, <1>10, <1>11

LEMMA InvMd5WrongOnlyIfReported == WriterInv => Md5WrongOnlyIfReported
<1> SUFFICES ASSUME WriterInv, pc = "done", NEW s \in Sources, Written(s),
                    src[s].cx > 0, s \notin reported
             PROVE  Md5IsOfWritten(s)
  BY DEF Md5WrongOnlyIfReported
<1>1. PICK o \in Nat : Stands(s, o)
  BY WrittenStands
<1>2. /\ stream \in Streams /\ Len(out) \in Nat /\ DOMAIN out = 1 .. Len(out)
  BY DEF WriterInv, Typed
<1>3. PICK z \in Nat, m \in Nat, B \in Nat \ {0} :
        z = stream[s].size /\ m = Blocks(s) /\ B = BlockSize /\ B * m >= z
  BY <1>2, SourceFacts, BlockSizeAssumption
<1> DEFINE whole == {i \in DOMAIN out : out[i].of = s /\ out[i].data}
<1>4. o + 1 .. o + m \subseteq whole
  <2> SUFFICES ASSUME NEW i \in o + 1 .. o + m PROVE i \in whole
    OBVIOUS
  <2>1. PICK k \in 0 .. m - 1 : i = o + k + 1
    <3>1. i - (o + 1) \in 0 .. m - 1 /\ i = o + (i - (o + 1)) + 1
      OBVIOUS
    <3> QED  BY <3>1
  <2>2. i \in 1 .. Len(out)
    BY <1>1, <1>2, <1>3 DEF Stands
  <2>3. Held(out[i], s, k)
    BY <1>1, <1>3, <2>1 DEF Stands
  <2> QED  BY <1>2, <2>2, <2>3 DEF Held
<1>5. PICK c \in Nat : c = Cardinality(whole) /\ m =< c
  <2>1. IsFiniteSet(DOMAIN out) /\ IsFiniteSet(o + 1 .. o + m)
    BY <1>2, FS_Interval
  <2>2. IsFiniteSet(whole)
    BY <2>1, FS_Subset
  <2>3. Cardinality(o + 1 .. o + m) = m
    <3>1. PICK l \in Int, h \in Int : l = o + 1 /\ h = o + m
      OBVIOUS
    <3>2. Cardinality(l .. h) = IF l > h THEN 0 ELSE h - l + 1
      BY FS_Interval
    <3> QED  BY <3>1, <3>2
  <2>4. Cardinality(o + 1 .. o + m) =< Cardinality(whole)
    BY <1>4, <2>2, FS_Subset
  <2> QED  BY <2>2, <2>3, <2>4, FS_CardinalityType
<1>6. PICK n \in Nat : n = c * B /\ n >= z
  <2>1. PICK d \in Nat : c = m + d
    <3>1. c - m \in Nat /\ c = m + (c - m)
      BY <1>5
    <3> QED  BY <3>1
  <2>2. c * B = B * m + d * B /\ d * B \in Nat /\ B * m \in Nat
    BY <2>1
  <2>3. PICK u \in Nat, w \in Nat : u = B * m /\ w = d * B /\ c * B = u + w
    BY <2>2
  <2> QED  BY <1>3, <2>3
<1>7. DataBytes(s) = z
  <2>1. Cardinality(whole) * BlockSize = n
    BY <1>3, <1>5, <1>6
  <2>2. DataBytes(s) = IF n > z THEN z ELSE n
    BY <1>3, <2>1 DEF DataBytes
  <2> QED  BY <1>6, <2>2
<1>8. md5[s] = <<z, 0>>
  BY <1>1, <1>3 DEF Stands
<1> QED  BY <1>3, <1>7, <1>8 DEF Md5IsOfWritten

LEMMA InvBlocksAsPredicted == WriterInv => BlocksAsPredicted
<1> SUFFICES ASSUME WriterInv, pc = "done" PROVE Len(out) = EfiBlocks + blocks
  BY DEF BlocksAsPredicted
<1>1. PICK pos : Writing(pos)
  BY DEF WriterInv, Writing, SecondPass
<1> QED  BY <1>1 DEF Writing, Layout, Progress

-----------------------------------------------------------------------------
(* The theorems.                                                            *)

\* The strengthened invariant of both passes.  ecma119_image_new() places the
\* files one after the other; the generator thread writes just the predicted
\* number of blocks for each, at its place, whatever fails meanwhile.
THEOREM WriterInvariant == Spec => []WriterInv
<1>1. Init => WriterInv
  BY WriterInvInit
<1>2. WriterInv /\ [Next]_vars => WriterInv'
  BY WriterInvNext
<1> QED  BY <1>1, <1>2, PTL DEF Spec

\* The section addresses recorded by filesrc_writer_compute_data_blocks() lead to
\* the data of the file, whatever iso_filesrc_write_data() met; the sections
\* have all its bytes; an empty file has a block of zeros or points before all
\* data.
THEOREM SectionsLeadToTheirData == Spec => []SectionsSound
<1>1. WriterInv => SectionsSound
  BY InvDataWhereRecorded, InvEmptyFileHarmless, InvSectionsCoverFile DEF SectionsSound
<1> QED  BY <1>1, WriterInvariant, PTL

\* filesrc_writer_write_data() and partprepend_writer_write_data() write as many
\* blocks as filesrc_writer_pre_compute() counted, so that what follows the
\* files in the image stands where it was announced.
THEOREM BlocksWrittenAsCounted == Spec => []BlocksAsPredicted
<1>1. WriterInv => BlocksAsPredicted
  BY InvBlocksAsPredicted
<1> QED  BY <1>1, WriterInvariant, PTL

\* A file whose MD5 in the checksum buffer is not the one of its blocks in the
\* image went through iso_report_errfile().
THEOREM ChecksumRightUnlessReported == Spec => []Md5WrongOnlyIfReported
<1>1. WriterInv => Md5WrongOnlyIfReported
  BY InvMd5WrongOnlyIfReported
<1> QED  BY <1>1, WriterInvariant, PTL
=============================================================================
