--------------------------- MODULE SessionMd5Proofs ---------------------------
(***************************************************************************)
(* Proofs about the MD5s of files over sessions, for any tree, any hard    *)
(* links in it, any sequence of write runs and any options.                *)
(***************************************************************************)
EXTENDS SessionMd5, WellFoundedInduction, TLAPS

Steps == {"idle", "index", "computed", "written", "transplanted", "error",
          "lateError"}
WriteOptions == [appendable : BOOLEAN, willCancel : BOOLEAN,
                 md5 : {"off", "session", "files"}]
Runs == [step : Steps, number : Nat, astray : BOOLEAN, opts : WriteOptions,
         next : Nat \ {0}, counter : Nat, index : [Contents -> Int],
         buffer : Seq(Int), before : [Files -> Int], cxBefore : [Files -> Int]]
Nodes == [cx : Int, savedCx : Int, md5 : Int]

Typed ==
  /\ file \in [Files -> Nodes]
  /\ array \in Seq(Int)
  /\ run \in Runs
  /\ run.step \in {"written", "transplanted", "error", "lateError"}
       => ~run.opts.willCancel   \* the thread of a size run is not started

\* The xinfo of a file is the MD5 of its content.
OwnMd5 ==
  \A f \in Files : file[f].md5 # None => file[f].md5 = Content[f] /\ f \in Checked

\* Element i of the array in effect is the MD5 of f.
InArray(f, i) == i \in 1 .. Len(array) /\ array[i] = Content[f]

\* The attribute still, or again, belongs to the array in effect.
Settled == run.step \in {"idle", "transplanted"} \/ run.opts.willCancel

SavedSound ==
  /\ \A f \in Files :
       file[f].savedCx # None => f \in Old /\ InArray(f, file[f].savedCx)
  /\ Settled => \A f \in Files : file[f].savedCx \in {None, file[f].cx}
  /\ run.step \in {"transplanted", "lateError"} =>
       \A f \in Files : file[f].savedCx = None

AttributeSound ==
  Settled => \A f \in Files : file[f].cx > 0 => InArray(f, file[f].cx)

\* Files with the same content have the same index or none.
LinksAgree ==
  \A f, g \in Files : Content[f] = Content[g] =>
    /\ file[f].savedCx # None => file[g].savedCx = file[f].savedCx
    /\ Settled /\ file[f].cx > 0 => file[g].cx = file[f].cx

Running == run.step \in {"index", "computed", "written"}

\* Each content which has a checksum index has one of its own.
Indices ==
  /\ \A c \in Contents : run.index[c] \in {None} \cup 0 .. run.counter
  /\ \A c, d \in Contents : run.index[c] = run.index[d] /\ run.index[c] > 0 => c = d
  /\ run.opts.md5 # "files" \/ run.opts.willCancel => run.counter = 0
  /\ run.step # "index" => run.next > NumFiles

\* What the files have got so far: the index of their content, or none.
Assigned ==
  /\ \A f \in Files : run.next > f =>
       /\ run.index[Content[f]] # None
       /\ run.index[Content[f]] > 0 => file[f].cx = run.index[Content[f]]
       /\ run.opts.md5 = "files" /\ ~run.opts.willCancel /\ run.index[Content[f]] = 0
            => NoWrite(f)
  /\ \A c \in Contents : run.index[c] # None =>
       \E f \in Files : run.next > f /\ Content[f] = c
  /\ run.opts.appendable /\ run.opts.md5 # "off" /\ ~run.opts.willCancel =>
       \A f \in Files : run.next =< f \/ run.index[Content[f]] =< 0 => file[f].cx =< 0

HasMd5(f) == file[f].md5 # None \/ file[f].savedCx # None

\* An index was given because data get written or because of an old MD5.
Justified ==
  run.step = "index" =>
    \A c \in Contents : run.index[c] > 0 =>
      \E g \in Files : /\ Content[g] = c /\ run.next > g
                       /\ (NoWrite(g) => HasMd5(g))

\* The emerging array.
BufferLength ==
  ~run.opts.willCancel /\ run.step \in {"computed", "written"} =>
    IF run.opts.md5 = "off" THEN run.buffer = NoArray
    ELSE Len(run.buffer) = run.counter + (IF run.step = "written" THEN 1 ELSE 0)

Buffer ==
  ~run.opts.willCancel /\ run.opts.md5 # "off" =>
    \A f \in Files : LET i == run.index[Content[f]]
                     IN  /\ run.step = "computed" /\ NoWrite(f) /\ i > 0
                              => run.buffer[i] = Content[f]
                         /\ run.step = "written" /\ i > 0
                              => run.buffer[i] = Content[f]

\* What was known before the run is not forgotten, and no other index is recorded.
Remembered ==
  /\ Running \/ run.step = "error" =>
       \A f \in Files : file[f].savedCx \in {None, run.cxBefore[f]}
  /\ (Running \/ run.step = "error") /\ run.opts.appendable /\ run.opts.md5 # "off" =>
       \A f \in Old : run.cxBefore[f] > 0 => file[f].savedCx = run.cxBefore[f]
  /\ Running /\ run.opts.md5 = "files" /\ ~run.opts.willCancel /\ LinksUnchecked =>
       \A f \in Files : NoWrite(f) /\ run.before[f] # None =>
         /\ run.index[Content[f]] # 0
         /\ run.step = "index" => HasMd5(f)

SessionInv ==
  /\ Typed /\ OwnMd5
  /\ Running => Indices /\ Assigned /\ BufferLength
  /\ ~run.astray => /\ SavedSound /\ AttributeSound /\ LinksAgree /\ Remembered
                    /\ Running => Justified /\ Buffer

-----------------------------------------------------------------------------
(* The initial state.                                                      *)

LEMMA LeastNatural ==
  ASSUME NEW T, T \subseteq Nat, T # {}
  PROVE  \E x \in T : \A y \in T : x =< y
<1>1. PICK R : R = OpToRel(<, Nat)
  OBVIOUS
<1>2. IsWellFoundedOn(R, Nat)
  BY <1>1, NatLessThanWellFounded
<1>3. PICK x \in T : \A y \in T : ~(<<y, x>> \in R)
  BY <1>2, WFMin
<1>4. \A y \in T : ~(y < x)
  BY <1>1, <1>3 DEF OpToRel
<1> QED  BY <1>4

\* The maximum of a bounded set is one of its elements.
LEMMA MaxIn ==
  ASSUME NEW n \in Nat, NEW S \in SUBSET (0 .. n), S # {}
  PROVE  Max(S) \in S /\ \A y \in S : Max(S) >= y
<1>1. PICK T : T = {n - x : x \in S}
  OBVIOUS
<1>2. T \subseteq Nat /\ T # {}
  <2>1. \A x \in S : n - x \in Nat
    OBVIOUS
  <2> QED  BY <1>1, <2>1
<1>3. PICK t \in T : \A y \in T : t =< y
  BY <1>2, LeastNatural
<1>4. PICK x \in S : t = n - x
  BY <1>1, <1>3
<1>5. \A y \in S : x >= y
  <2> SUFFICES ASSUME NEW y \in S PROVE x >= y
    OBVIOUS
  <2>1. n - x =< n - y
    BY <1>1, <1>3, <1>4
  <2> QED  BY <2>1
<1> QED  BY <1>4, <1>5 DEF Max

LEMMA LenIs ==
  ASSUME NEW n \in Nat, NEW S, NEW f \in [1 .. n -> S]
  PROVE  Len(f) = n /\ f \in Seq(S)
OBVIOUS

LEMMA ContentFacts ==
  /\ \A f \in Files : Content[f] \in Contents /\ Content[f] \in Nat \ {0}
  /\ Files \subseteq Nat /\ Old \subseteq Files
  /\ \A c \in Contents : \E f \in Files : Content[f] = c
BY FileAssumption DEF Files, Contents

\* The contents are bounded, as there are finitely many files.
LEMMA ContentBound == \E m \in Nat : \A c \in Contents : c =< m
<1> DEFINE Bounded(n) == \E m \in Nat : \A f \in 1 .. n : Content[f] =< m
           T == {n \in 0 .. NumFiles : ~Bounded(n)}
<1>1. ASSUME T # {} PROVE FALSE
  <2>1. PICK n \in T : \A k \in T : n =< k
    <3>1. T \subseteq Nat
      OBVIOUS
    <3> QED  BY <1>1, <3>1, LeastNatural
  <2>2. n # 0
    <3>1. Bounded(0)
      OBVIOUS
    <3> QED  BY <2>1, <3>1
  <2>3. Bounded(n - 1)
    <3>1. n - 1 \in 0 .. NumFiles /\ ~(n =< n - 1)
      BY <2>1, <2>2, FileAssumption
    <3>2. n - 1 \notin T
      BY <2>1, <3>1
    <3> QED  BY <3>1, <3>2
  <2>4. PICK m \in Nat : \A f \in 1 .. n - 1 : Content[f] =< m
    BY <2>3
  <2>5. n \in Files /\ Content[n] \in Nat
    BY <2>1, <2>2, FileAssumption, ContentFacts DEF Files
  <2>6. m + Content[n] \in Nat
    BY <2>5
  <2>7. \A f \in 1 .. n : Content[f] =< m + Content[n]
    <3> SUFFICES ASSUME NEW f \in 1 .. n PROVE Content[f] =< m + Content[n]
      OBVIOUS
    <3>1. f \in Files /\ Content[f] \in Nat
      BY <2>1, FileAssumption, ContentFacts DEF Files
    <3>2. CASE f = n
      BY <2>5, <3>2
    <3>3. CASE f \in 1 .. n - 1
      BY <2>4, <2>5, <3>1, <3>3
    <3> QED  BY <2>1, <3>2, <3>3
  <2>8. Bounded(n)
    BY <2>6, <2>7
  <2> QED  BY <2>1, <2>8
<1>2. Bounded(NumFiles)
  BY <1>1, FileAssumption
<1> QED  BY <1>2, ContentFacts DEF Contents, Files

LEMMA NoRunTyped == NoRun \in Runs
BY FileAssumption, ContentFacts DEF NoRun, Runs, Steps, WriteOptions, NoArray, None

LEMMA InvInit == Init => SessionInv
<1> SUFFICES ASSUME Init PROVE SessionInv
  OBVIOUS
<1> USE ContentFacts
<1>1. PICK known \in SUBSET {Content[f] : f \in Old}, loaded \in BOOLEAN :
        /\ file = [f \in Files |->
                     [cx |-> IF Content[f] \in known THEN Content[f] ELSE None,
                      savedCx |-> None, md5 |-> None]]
        /\ array = IF ~loaded THEN NoArray
                   ELSE [i \in 1 .. Max(Contents \cup {1}) + 1 |->
                           IF i > Max(Contents \cup {1}) THEN ArrayMd5 ELSE i]
        /\ run = [NoRun EXCEPT !.astray = ~loaded /\ known # {}]
  BY DEF Init
<1>2. PICK m \in Nat : m = Max(Contents \cup {1}) /\ \A c \in Contents : c =< m
  <2>1. PICK n \in Nat : \A c \in Contents : c =< n
    BY ContentBound
  <2>2. Contents \cup {1} \in SUBSET (0 .. n + 1)
    <3>1. \A c \in Contents : c \in Nat
      BY DEF Contents
    <3> QED  BY <2>1, <3>1
  <2>3. /\ Max(Contents \cup {1}) \in Contents \cup {1}
        /\ \A c \in Contents \cup {1} : Max(Contents \cup {1}) >= c
    <3>1. PICK k \in Nat : k = n + 1
      OBVIOUS
    <3>2. PICK S : S = Contents \cup {1}
      OBVIOUS
    <3>3. S \in SUBSET (0 .. k) /\ S # {}
      BY <2>2, <3>1, <3>2
    <3>4. Max(S) \in S /\ \A c \in S : Max(S) >= c
      BY <3>3, MaxIn
    <3> QED  BY <3>2, <3>4
  <2> QED  BY <2>2, <2>3
<1>3. /\ file \in [Files -> Nodes]
      /\ \A f \in Files : /\ file[f].cx = IF Content[f] \in known THEN Content[f] ELSE None
                          /\ file[f].savedCx = None /\ file[f].md5 = None
  BY <1>1 DEF Nodes, None
<1>4. array \in Seq(Int)
  <2>1. CASE loaded
    <3>1. array = [i \in 1 .. m + 1 |-> IF i > m THEN ArrayMd5 ELSE i]
      BY <1>1, <1>2, <2>1
    <3>2. array \in [1 .. m + 1 -> Int]
      BY <3>1 DEF ArrayMd5
    <3> QED  BY <3>2
  <2>2. CASE ~loaded
    BY <1>1, <2>2 DEF NoArray
  <2> QED  BY <2>1, <2>2
<1>5. /\ run \in Runs /\ run.step = "idle"
      /\ run.astray = (~loaded /\ known # {})
  BY <1>1, NoRunTyped DEF NoRun, Runs
<1>6. ASSUME ~run.astray, NEW f \in Files, file[f].cx > 0
      PROVE  InArray(f, file[f].cx)
  <2>1. Content[f] \in known /\ file[f].cx = Content[f]
    BY <1>3, <1>6 DEF None
  <2>2. loaded
    BY <1>5, <1>6, <2>1
  <2>3. array = [i \in 1 .. m + 1 |-> IF i > m THEN ArrayMd5 ELSE i]
    BY <1>1, <1>2, <2>2
  <2>4. Content[f] \in 1 .. m
    BY <1>2
  <2> QED  BY <2>1, <2>3, <2>4 DEF InArray
<1>7. ~run.astray => SavedSound /\ AttributeSound /\ LinksAgree
  BY <1>3, <1>5, <1>6 DEF SavedSound, AttributeSound, LinksAgree
<1>8. Typed /\ OwnMd5 /\ ~Running /\ Remembered
  BY <1>3, <1>4, <1>5 DEF Typed, OwnMd5, Running, Remembered
<1> QED  BY <1>7, <1>8 DEF SessionInv

-----------------------------------------------------------------------------
(* The steps between the runs, and those which end a run.                  *)

\* All of the run but its step and its mark stays.
SameRun ==
  /\ run'.number = run.number /\ run'.opts = run.opts /\ run'.next = run.next
  /\ run'.counter = run.counter /\ run'.index = run.index
  /\ run'.before = run.before /\ run'.cxBefore = run.cxBefore

LEMMA MovedTo ==
  ASSUME NEW s \in Steps, NEW a \in BOOLEAN, Typed,
         \/ run' = [run EXCEPT !.step = s] /\ a = run.astray
         \/ run' = [run EXCEPT !.step = s, !.astray = a]
  PROVE  /\ run' \in Runs /\ run'.step = s /\ run'.astray = a
         /\ SameRun /\ run'.buffer = run.buffer
<1>1. PICK r \in Runs : r = run
  BY DEF Typed
<1>2. CASE run' = [run EXCEPT !.step = s] /\ a = run.astray
  <2>1. run' = [r EXCEPT !.step = s]
    BY <1>1, <1>2
  <2> QED  BY <1>1, <1>2, <2>1 DEF Runs, SameRun
<1>3. CASE run' = [run EXCEPT !.step = s, !.astray = a]
  <2>1. run' = [r EXCEPT !.step = s, !.astray = a]
    BY <1>1, <1>3
  <2> QED  BY <1>1, <2>1 DEF Runs, SameRun
<1> QED  BY <1>2, <1>3

LEMMA MakeMd5Step ==
  ASSUME SessionInv, NEW f \in Checked, MakeMd5(f)
  PROVE  SessionInv'
<1>1. PICK F \in [Files -> Nodes] : F = file
  BY DEF SessionInv, Typed
<1>2. f \in Files /\ Content[f] \in Int
  BY FileAssumption, ContentFacts
<1>3. file' = [F EXCEPT ![f].md5 = Content[f]]
  BY <1>1 DEF MakeMd5
<1>4. /\ file' \in [Files -> Nodes]
      /\ \A g \in Files : /\ file'[g].cx = F[g].cx /\ file'[g].savedCx = F[g].savedCx
                          /\ file'[g].md5 = IF g = f THEN Content[f] ELSE F[g].md5
  BY <1>2, <1>3 DEF Nodes
<1>5. run' = run /\ array' = array /\ run.step = "idle"
  BY DEF MakeMd5, Idle
<1>6. Typed' /\ OwnMd5' /\ ~Running' /\ Remembered'
  BY <1>1, <1>4, <1>5 DEF SessionInv, Typed, OwnMd5, Running, Remembered
<1>7. ASSUME ~run.astray
      PROVE  SavedSound' /\ AttributeSound' /\ LinksAgree'
  BY <1>1, <1>4, <1>5, <1>7
     DEF SessionInv, SavedSound, AttributeSound, LinksAgree, Settled, InArray
<1> QED  BY <1>5, <1>6, <1>7 DEF SessionInv

LEMMA SizeRunEndsStep ==
  ASSUME SessionInv, SizeRunEnds
  PROVE  SessionInv'
<1>1. /\ run' \in Runs /\ run'.step = "idle" /\ run'.astray = run.astray
      /\ SameRun
  <2>1. Typed /\ run.astray \in BOOLEAN
    BY DEF SessionInv, Typed, Runs
  <2>2. run' = [run EXCEPT !.step = "idle"]
    BY DEF SizeRunEnds
  <2> QED  BY <2>1, <2>2, MovedTo DEF Steps
<1>2. file' = file /\ array' = array /\ run.opts.willCancel /\ run.step = "computed"
  BY DEF SizeRunEnds
<1>3. Typed' /\ OwnMd5' /\ ~Running' /\ Remembered'
  BY <1>1, <1>2 DEF SessionInv, Typed, OwnMd5, Running, Remembered, SameRun
<1>4. ASSUME ~run.astray
      PROVE  SavedSound' /\ AttributeSound' /\ LinksAgree'
  BY <1>1, <1>2, <1>4
     DEF SessionInv, SavedSound, AttributeSound, LinksAgree, Settled, InArray, SameRun
<1> QED  BY <1>1, <1>3, <1>4 DEF SessionInv

LEMMA FinishStep ==
  ASSUME SessionInv, FinishOk \/ FinishFails
  PROVE  SessionInv'
<1>1. PICK s \in {"idle", "lateError"} : run' = [run EXCEPT !.step = s]
  BY DEF FinishOk, FinishFails, Step
<1>2. /\ run' \in Runs /\ run'.step = s /\ run'.astray = run.astray
      /\ SameRun
  <2>1. Typed /\ run.astray \in BOOLEAN /\ s \in Steps
    BY DEF SessionInv, Typed, Runs, Steps
  <2> QED  BY <1>1, <2>1, MovedTo
<1>3. file' = file /\ array' = array /\ run.step = "transplanted"
  BY DEF FinishOk, FinishFails, Step
<1>4. Typed' /\ OwnMd5' /\ ~Running' /\ Remembered'
  BY <1>2, <1>3 DEF SessionInv, Typed, OwnMd5, Running, Remembered, SameRun
<1>5. ASSUME ~run.astray
      PROVE  SavedSound' /\ AttributeSound' /\ LinksAgree'
  BY <1>2, <1>3, <1>5
     DEF SessionInv, SavedSound, AttributeSound, LinksAgree, Settled, InArray, SameRun
<1> QED  BY <1>2, <1>4, <1>5 DEF SessionInv

LEMMA RestoreEffect ==
  ASSUME Typed, Restore
  PROVE  /\ file' \in [Files -> Nodes]
         /\ \A g \in Files : /\ file'[g].cx = file[g].savedCx /\ file'[g].savedCx = None
                             /\ file'[g].md5 = file[g].md5
<1>0. PICK F \in [Files -> Nodes] : F = file
  BY DEF Typed
<1>1. file' = [g \in Files |-> [F[g] EXCEPT !.cx = F[g].savedCx, !.savedCx = None]]
  BY <1>0 DEF Restore
<1>2. ASSUME NEW n \in Nodes, NEW i \in Int
      PROVE  [n EXCEPT !.cx = i, !.savedCx = None]
             = [cx |-> i, savedCx |-> None, md5 |-> n.md5]
  <2>1. PICK m \in Nodes : m = [n EXCEPT !.cx = i]
    BY DEF Nodes
  <2>2. [n EXCEPT !.cx = i, !.savedCx = None] = [m EXCEPT !.savedCx = None]
    BY <2>1
  <2>3. m.cx = i /\ m.md5 = n.md5
    BY <2>1 DEF Nodes
  <2>4. ASSUME NEW k \in Int
        PROVE  [m EXCEPT !.savedCx = k] = [cx |-> m.cx, savedCx |-> k, md5 |-> m.md5]
    BY DEF Nodes
  <2>5. None \in Int
    BY DEF None
  <2> QED  BY <2>2, <2>3, <2>4, <2>5
<1>3. \A g \in Files : file'[g] = [cx |-> F[g].savedCx, savedCx |-> None, md5 |-> F[g].md5]
  <2> SUFFICES ASSUME NEW g \in Files
               PROVE  file'[g] = [cx |-> F[g].savedCx, savedCx |-> None, md5 |-> F[g].md5]
    OBVIOUS
  <2>1. F[g] \in Nodes /\ F[g].savedCx \in Int
    BY DEF Nodes
  <2> QED  BY <1>1, <1>2, <2>1
<1>4. file' \in [Files -> Nodes]
  <2>1. \A g \in Files : F[g].savedCx \in Int /\ F[g].md5 \in Int
    BY DEF Nodes
  <2>2. file' = [g \in Files |-> file'[g]]
    BY <1>1
  <2> QED  BY <1>3, <2>1, <2>2 DEF Nodes, None
<1> QED  BY <1>0, <1>3, <1>4

LEMMA RestoreStep ==
  ASSUME SessionInv, Restore
  PROVE  SessionInv'
<1>1. /\ run' \in Runs /\ run'.step = "idle" /\ run'.astray = run.astray
      /\ SameRun
  <2>1. Typed /\ run.astray \in BOOLEAN
    BY DEF SessionInv, Typed, Runs
  <2>2. run' = [run EXCEPT !.step = "idle"]
    BY DEF Restore
  <2> QED  BY <2>1, <2>2, MovedTo DEF Steps
<1>2. PICK F \in [Files -> Nodes] : F = file
  BY DEF SessionInv, Typed
<1>3. /\ file' \in [Files -> Nodes]
      /\ \A g \in Files : /\ file'[g].cx = F[g].savedCx /\ file'[g].savedCx = None
                          /\ file'[g].md5 = F[g].md5
  BY <1>2, RestoreEffect DEF SessionInv
<1>4. array' = array
  BY DEF Restore
<1>5. Typed' /\ OwnMd5' /\ ~Running' /\ Remembered'
  BY <1>1, <1>2, <1>3, <1>4 DEF SessionInv, Typed, OwnMd5, Running, Remembered, SameRun
<1>6. ASSUME ~run.astray
      PROVE  SavedSound' /\ AttributeSound' /\ LinksAgree'
  <2>1. \A g \in Files : file'[g].cx > 0 =>
          /\ file'[g].cx = F[g].savedCx /\ F[g].savedCx # None
          /\ InArray(g, F[g].savedCx)
    BY <1>2, <1>3, <1>6 DEF SessionInv, SavedSound, None
  <2>2. SavedSound' /\ AttributeSound'
    BY <1>1, <1>3, <1>4, <2>1 DEF SavedSound, AttributeSound, InArray
  <2>3. LinksAgree'
    BY <1>2, <1>3, <1>6, <2>1 DEF SessionInv, LinksAgree
  <2> QED  BY <2>2, <2>3
<1> QED  BY <1>1, <1>5, <1>6 DEF SessionInv

-----------------------------------------------------------------------------
(* Failures, and the end of writing.                                       *)

LEMMA CreateFailsStep ==
  ASSUME SessionInv, CreateFails
  PROVE  SessionInv'
<1>1. PICK a \in BOOLEAN : a = (run.astray \/ ~run.opts.willCancel)
  OBVIOUS
<1>2. /\ run' \in Runs /\ run'.step = "idle" /\ run'.astray = a /\ SameRun
  <2>1. run' = [run EXCEPT !.step = "idle", !.astray = a]
    BY <1>1 DEF CreateFails
  <2>2. Typed
    BY DEF SessionInv
  <2> QED  BY <2>1, <2>2, MovedTo DEF Steps
<1>3. file' = file /\ array' = array /\ run.step \in {"index", "computed"}
  BY DEF CreateFails
<1>4. Typed' /\ OwnMd5' /\ ~Running' /\ Remembered'
  BY <1>2, <1>3 DEF SessionInv, Typed, OwnMd5, Running, Remembered, SameRun
<1>5. ASSUME ~a
      PROVE  SavedSound' /\ AttributeSound' /\ LinksAgree'
  <2>1. ~run.astray /\ run.opts.willCancel
    BY <1>1, <1>5
  <2> QED  BY <1>2, <1>3, <2>1
     DEF SessionInv, SavedSound, AttributeSound, LinksAgree, Settled, InArray, SameRun
<1> QED  BY <1>2, <1>4, <1>5 DEF SessionInv

LEMMA WriteFailsStep ==
  ASSUME SessionInv, WriteFails
  PROVE  SessionInv'
<1>1. /\ run' \in Runs /\ run'.step = "error" /\ run'.astray = run.astray
      /\ SameRun
  <2>1. Typed /\ run.astray \in BOOLEAN
    BY DEF SessionInv, Typed, Runs
  <2>2. run' = [run EXCEPT !.step = "error"]
    BY DEF WriteFails, Step
  <2> QED  BY <2>1, <2>2, MovedTo DEF Steps
<1>2. /\ file' = file /\ array' = array /\ ~run.opts.willCancel
      /\ run.step = "computed"
  BY DEF WriteFails, Step
<1>3. Typed' /\ OwnMd5' /\ ~Running'
  BY <1>1, <1>2 DEF SessionInv, Typed, OwnMd5, Running, SameRun
<1>4. ASSUME ~run.astray
      PROVE  SavedSound' /\ AttributeSound' /\ LinksAgree' /\ Remembered'
  BY <1>1, <1>2, <1>4
     DEF SessionInv, SavedSound, AttributeSound, LinksAgree, Remembered, Running,
         Settled, InArray, SameRun
<1> QED  BY <1>1, <1>3, <1>4 DEF SessionInv

\* All files have their index when the array is made.
LEMMA AllAssigned ==
  ASSUME Typed, Indices, Assigned, run.next > NumFiles, NEW f \in Files,
         file[f].cx \in 1 .. run.counter
  PROVE  file[f].cx = run.index[Content[f]]
<1>1. run.next > f /\ Content[f] \in Contents
  BY FileAssumption, ContentFacts DEF Files, Typed, Runs
<1>2. run.index[Content[f]] \in 0 .. run.counter /\ run.counter \in Nat
  BY <1>1 DEF Typed, Runs, Indices, Assigned, None
<1>3. CASE run.index[Content[f]] > 0
  BY <1>1, <1>3 DEF Assigned
<1>4. CASE run.index[Content[f]] = 0
  <2>1. run.opts.md5 = "files" /\ ~run.opts.willCancel
    BY <1>2 DEF Indices
  <2>2. run.opts.appendable
    BY <1>1, <1>4, <2>1 DEF Assigned, NoWrite
  <2>3. file[f].cx =< 0
    BY <1>4, <2>1, <2>2 DEF Assigned
  <2> QED  BY <1>2, <2>3 DEF Typed, Nodes
<1> QED  BY <1>2, <1>3, <1>4

LEMMA TransplantStep ==
  ASSUME SessionInv, Transplant
  PROVE  SessionInv'
<1>1. PICK a \in BOOLEAN : a = (run.astray \/ \E f \in Files : file[f].cx > run.counter)
  OBVIOUS
<1>2. /\ run' \in Runs /\ run'.step = "transplanted" /\ run'.astray = a /\ SameRun
  <2>1. run' = [run EXCEPT !.step = "transplanted", !.astray = a]
    BY <1>1 DEF Transplant
  <2>2. Typed
    BY DEF SessionInv
  <2> QED  BY <2>1, <2>2, MovedTo DEF Steps
<1>3. PICK F \in [Files -> Nodes] : F = file
  BY DEF SessionInv, Typed
<1>4. /\ file' \in [Files -> Nodes]
      /\ \A g \in Files : /\ file'[g].cx = F[g].cx /\ file'[g].savedCx = None
                          /\ file'[g].md5 = F[g].md5
  <2>1. file' = [g \in Files |-> [F[g] EXCEPT !.savedCx = None]]
    BY <1>3 DEF Transplant
  <2> QED  BY <2>1 DEF Nodes, None
<1>5. array' = run.buffer /\ run.step = "written" /\ array' \in Seq(Int)
  BY DEF Transplant, SessionInv, Typed, Runs
<1>6. Typed' /\ OwnMd5' /\ ~Running' /\ Remembered'
  BY <1>2, <1>3, <1>4, <1>5 DEF SessionInv, Typed, OwnMd5, Running, Remembered, SameRun
<1>7. ASSUME ~a, ~run.opts.willCancel
      PROVE  SavedSound' /\ AttributeSound' /\ LinksAgree'
  <2>1. /\ ~run.astray /\ \A f \in Files : ~(file[f].cx > run.counter)
        /\ Typed /\ Indices /\ Assigned /\ Buffer /\ BufferLength
        /\ run.next > NumFiles
    BY <1>1, <1>5, <1>7 DEF SessionInv, Running, Indices
  <2>2. \A f \in Files : file[f].cx > 0 =>
          file[f].cx \in 1 .. run.counter /\ file[f].cx = run.index[Content[f]]
    <3> SUFFICES ASSUME NEW f \in Files, file[f].cx > 0
                 PROVE  file[f].cx \in 1 .. run.counter /\ file[f].cx = run.index[Content[f]]
      OBVIOUS
    <3>1. file[f].cx \in 1 .. run.counter
      BY <2>1 DEF Typed, Nodes, Runs
    <3> QED  BY <2>1, <3>1, AllAssigned
  <2>3. \A f \in Files : file[f].cx > 0 =>
          file[f].cx \in 1 .. Len(run.buffer) /\ run.buffer[file[f].cx] = Content[f]
    <3> SUFFICES ASSUME NEW f \in Files, file[f].cx > 0
                 PROVE  /\ file[f].cx \in 1 .. Len(run.buffer)
                        /\ run.buffer[file[f].cx] = Content[f]
      OBVIOUS
    <3>1. PICK k \in Nat, i \in Int : k = run.counter /\ i = file[f].cx
      BY <2>1 DEF Typed, Runs, Nodes
    <3>2. i \in 1 .. k /\ i = run.index[Content[f]]
      BY <2>2, <3>1
    <3>3. run.opts.md5 # "off"
      BY <2>1, <3>1, <3>2 DEF Indices
    <3>4. Len(run.buffer) = k + 1 /\ run.buffer[i] = Content[f]
      BY <1>5, <1>7, <2>1, <3>1, <3>2, <3>3 DEF Buffer, BufferLength
    <3> QED  BY <3>1, <3>2, <3>4
  <2>4. SavedSound' /\ AttributeSound'
    BY <1>2, <1>3, <1>4, <1>5, <2>3 DEF SavedSound, AttributeSound, InArray
  <2>5. LinksAgree'
    <3> SUFFICES ASSUME NEW f \in Files, NEW g \in Files, Content[f] = Content[g],
                        file[f].cx > 0
                 PROVE  file[g].cx = file[f].cx
      BY <1>3, <1>4 DEF LinksAgree
    <3>1. file[f].cx = run.index[Content[g]]
      BY <2>2
    <3>2. run.next > g
      BY <2>1, FileAssumption DEF Files, Typed, Runs
    <3>3. run.index[Content[g]] > 0
      BY <3>1
    <3> QED  BY <2>1, <3>1, <3>2, <3>3 DEF Assigned
  <2> QED  BY <2>4, <2>5
<1>8. ~run.opts.willCancel
  BY <1>5 DEF SessionInv, Typed
<1> QED  BY <1>2, <1>6, <1>7, <1>8 DEF SessionInv

-----------------------------------------------------------------------------
(* The start of a run.                                                     *)

\* What checksum_prepare_nodes() does to a file.
LEMMA PrepareEffect ==
  ASSUME Typed, NEW f \in Files, NEW opts \in WriteOptions,
         NEW n, n = Prepare(f, opts)
  PROVE  /\ n \in Nodes /\ n.md5 = file[f].md5
         /\ n.savedCx = IF f \in Old /\ file[f].cx > 0 /\ file[f].savedCx = None
                        THEN file[f].cx ELSE file[f].savedCx
         /\ opts.willCancel => n.cx = file[f].cx
         /\ ~opts.willCancel => n.cx =< 0
<1>1. PICK o \in Nodes : o = file[f]
  BY DEF Typed
<1>2. PICK noMd5 \in BOOLEAN :
        noMd5 = (f \in Old /\ \/ o.cx = 0
                              \/ o.md5 = None /\ (o.cx = None \/ array = NoArray))
  OBVIOUS
<1>3. PICK delete \in BOOLEAN :
        delete = (f \in Old /\ o.md5 = None /\ o.cx # None /\ array = NoArray)
  OBVIOUS
<1>4. PICK s \in Int : s = IF f \in Old /\ o.cx > 0 /\ o.savedCx = None THEN o.cx ELSE o.savedCx
  BY DEF Nodes
<1>5. PICK x \in Int : x = IF opts.willCancel THEN o.cx
                          ELSE IF delete THEN None ELSE IF noMd5 THEN o.cx ELSE 0
  BY DEF Nodes, None
<1>6. n = [o EXCEPT !.savedCx = s, !.cx = x]
  BY <1>1, <1>2, <1>3, <1>4, <1>5 DEF Prepare
<1>7. PICK p \in Nodes : p = [o EXCEPT !.savedCx = s]
  BY DEF Nodes
<1>8. n = [p EXCEPT !.cx = x]
  BY <1>6, <1>7
<1>9. n \in Nodes /\ n.cx = x /\ n.savedCx = p.savedCx /\ n.md5 = p.md5
  BY <1>8 DEF Nodes
<1>10. p.savedCx = s /\ p.md5 = o.md5
  BY <1>7 DEF Nodes
<1>11. ~opts.willCancel => x =< 0
  BY <1>2, <1>3, <1>5 DEF None
<1> QED  BY <1>1, <1>4, <1>5, <1>9, <1>10, <1>11

LEMMA ImageNewStep ==
  ASSUME SessionInv, NEW opts \in Options, ImageNew(opts)
  PROVE  SessionInv'
<1> USE ContentFacts
<1>1. opts \in WriteOptions /\ Typed
  BY FileAssumption DEF WriteOptions, SessionInv
<1>2. /\ run' \in Runs /\ run'.step = "index" /\ run'.opts = opts
      /\ run'.astray = run.astray /\ run'.next = 1 /\ run'.counter = 0
      /\ run'.index = [c \in Contents |-> None]
      /\ run'.before = [f \in Files |-> GetMd5(f)]
      /\ run'.cxBefore = [f \in Files |-> file[f].cx]
  <2>1. PICK n \in Nat, a \in BOOLEAN : n = run.number + 1 /\ a = run.astray
    BY <1>1 DEF Typed, Runs
  <2>2. PICK b \in [Files -> Int] : b = [f \in Files |-> GetMd5(f)]
    <3>1. \A f \in Files : GetMd5(f) \in Int
      BY <1>1 DEF Typed, Nodes, GetMd5, None
    <3> QED  BY <3>1
  <2>3. PICK x \in [Files -> Int] : x = [f \in Files |-> file[f].cx]
    BY <1>1 DEF Typed, Nodes
  <2>4. run' = [NoRun EXCEPT !.step = "index", !.opts = opts, !.number = n,
                            !.astray = a, !.before = b, !.cxBefore = x]
    BY <2>1, <2>2, <2>3 DEF ImageNew
  <2>5. run' = [step |-> "index", number |-> n, astray |-> a, opts |-> opts,
                next |-> 1, counter |-> 0, index |-> [c \in Contents |-> None],
                buffer |-> NoArray, before |-> b, cxBefore |-> x]
    BY <2>4 DEF NoRun
  <2>6. [c \in Contents |-> None] \in [Contents -> Int] /\ NoArray \in Seq(Int)
    BY DEF None, NoArray
  <2>7. run' \in Runs
    BY <1>1, <2>5, <2>6 DEF Runs, Steps
  <2> QED  BY <2>1, <2>2, <2>3, <2>5, <2>7
<1>3. array' = array /\ run.step = "idle"
  BY DEF ImageNew, Idle
<1>4. PICK F \in [Files -> Nodes] : F = file
  BY <1>1 DEF Typed
<1>5. PICK prepared \in BOOLEAN : prepared = (opts.md5 # "off" /\ opts.appendable)
  OBVIOUS
<1>6. /\ file' \in [Files -> Nodes]
      /\ \A f \in Files :
           /\ file'[f].md5 = F[f].md5
           /\ ~prepared => file'[f].savedCx = F[f].savedCx
           /\ prepared => file'[f].savedCx = IF f \in Old /\ F[f].cx > 0 /\ F[f].savedCx = None
                                             THEN F[f].cx ELSE F[f].savedCx
           /\ ~prepared \/ opts.willCancel => file'[f].cx = F[f].cx
           /\ prepared /\ ~opts.willCancel => file'[f].cx =< 0
  <2>1. CASE prepared
    <3>1. file' = [f \in Files |-> Prepare(f, opts)]
      BY <1>5, <2>1 DEF ImageNew
    <3>2. ASSUME NEW f \in Files
          PROVE  /\ file'[f] \in Nodes /\ file'[f].md5 = F[f].md5
                 /\ file'[f].savedCx = IF f \in Old /\ F[f].cx > 0 /\ F[f].savedCx = None
                                       THEN F[f].cx ELSE F[f].savedCx
                 /\ opts.willCancel => file'[f].cx = F[f].cx
                 /\ ~opts.willCancel => file'[f].cx =< 0
      <4>1. PICK n : n = Prepare(f, opts)
        OBVIOUS
      <4>2. file'[f] = n
        BY <3>1, <4>1
      <4> QED  BY <1>1, <1>4, <4>1, <4>2, PrepareEffect
    <3> QED  BY <2>1, <3>1, <3>2
  <2>2. CASE ~prepared
    <3>1. file' = F
      BY <1>4, <1>5, <2>2 DEF ImageNew
    <3> QED  BY <2>2, <3>1
  <2> QED  BY <2>1, <2>2
<1>7. Typed' /\ OwnMd5'
  BY <1>2, <1>3, <1>4, <1>6 DEF SessionInv, Typed, OwnMd5
<1>8. Indices' /\ Assigned' /\ BufferLength'
  <2>1. Indices'
    BY <1>2 DEF Indices, None
  <2>2. \A f \in Files : ~(run'.next > f)
    BY <1>2 DEF Files
  <2>3. \A c \in Contents : run'.index[c] = None
    BY <1>2
  <2>4. opts.appendable /\ opts.md5 # "off" /\ ~opts.willCancel =>
          \A f \in Files : file'[f].cx =< 0
    BY <1>5, <1>6
  <2>5. Assigned'
    BY <1>2, <2>2, <2>3, <2>4 DEF Assigned
  <2>6. BufferLength'
    BY <1>2 DEF BufferLength
  <2> QED  BY <2>1, <2>5, <2>6
<1>9. ASSUME ~run.astray
      PROVE  /\ SavedSound' /\ AttributeSound' /\ LinksAgree' /\ Remembered'
             /\ Justified' /\ Buffer'
  <2>1. \A f \in Files :
          /\ F[f].savedCx \in {None, F[f].cx}
          /\ F[f].savedCx # None => f \in Old /\ InArray(f, F[f].savedCx)
          /\ F[f].cx > 0 => InArray(f, F[f].cx)
    BY <1>3, <1>4, <1>9 DEF SessionInv, SavedSound, AttributeSound, Settled
  <2>2. SavedSound'
    <3>1. \A f \in Files : file'[f].savedCx \in {F[f].savedCx, F[f].cx}
                           /\ (file'[f].savedCx # F[f].savedCx => f \in Old /\ F[f].cx > 0)
      BY <1>6
    <3>2. ASSUME NEW f \in Files, file'[f].savedCx # None
          PROVE  f \in Old /\ InArray(f, file'[f].savedCx)
      BY <2>1, <3>1, <3>2
    <3>3. ASSUME opts.willCancel, NEW f \in Files
          PROVE  file'[f].savedCx \in {None, file'[f].cx}
      BY <1>6, <2>1, <3>1, <3>3
    <3> QED  BY <1>2, <1>3, <3>2, <3>3 DEF SavedSound, Settled, InArray
  <2>3. AttributeSound'
    BY <1>2, <1>3, <1>5, <1>6, <2>1 DEF AttributeSound, Settled, InArray
  <2>4. LinksAgree'
    <3> SUFFICES ASSUME NEW f \in Files, NEW g \in Files, Content[f] = Content[g]
                 PROVE  /\ file'[f].savedCx # None => file'[g].savedCx = file'[f].savedCx
                        /\ Settled' /\ file'[f].cx > 0 => file'[g].cx = file'[f].cx
      BY DEF LinksAgree
    <3>1. /\ F[f].savedCx # None => F[g].savedCx = F[f].savedCx
          /\ F[f].cx > 0 => F[g].cx = F[f].cx
          /\ F[g].savedCx # None => F[f].savedCx = F[g].savedCx
      BY <1>3, <1>4, <1>9 DEF SessionInv, LinksAgree, Settled
    <3>2. f \in Old <=> g \in Old
      BY FileAssumption
    <3>3. file'[f].savedCx # None => file'[g].savedCx = file'[f].savedCx
      BY <1>6, <2>1, <3>1, <3>2
    <3>4. Settled' /\ file'[f].cx > 0 => file'[g].cx = file'[f].cx
      BY <1>2, <1>6, <3>1 DEF Settled
    <3> QED  BY <3>3, <3>4
  <2>5. Remembered'
    <3>1. opts.appendable /\ opts.md5 # "off" =>
            \A f \in Old : run'.cxBefore[f] > 0 => file'[f].savedCx = run'.cxBefore[f]
      <4> SUFFICES ASSUME opts.appendable, opts.md5 # "off", NEW f \in Old,
                          run'.cxBefore[f] > 0
                   PROVE  file'[f].savedCx = run'.cxBefore[f]
        OBVIOUS
      <4>1. f \in Files /\ prepared
        BY <1>5
      <4>2. run'.cxBefore[f] = F[f].cx
        BY <1>2, <1>4, <4>1
      <4> QED  BY <1>6, <2>1, <4>1, <4>2
    <3>2. \A f \in Files : run'.index[Content[f]] # 0
      <4>1. \A c \in Contents : run'.index[c] = None
        BY <1>2
      <4> QED  BY <4>1 DEF None
    <3>3. ASSUME NEW f \in Files, NoWrite(f)', run'.before[f] # None,
                 opts.md5 = "files"
          PROVE  HasMd5(f)'
      <4>1. f \in Old /\ prepared
        BY <1>2, <1>5, <3>3 DEF NoWrite
      <4>2. run'.before[f] = GetMd5(f)
        BY <1>2
      <4>3. F[f].md5 # None \/ F[f].cx \in 1 .. Len(array)
        BY <1>4, <3>3, <4>2 DEF GetMd5
      <4>4. CASE F[f].md5 # None
        BY <1>6, <4>4 DEF HasMd5
      <4>5. CASE F[f].cx \in 1 .. Len(array)
        <5>1. F[f].cx > 0 /\ F[f].cx # None
          BY <4>5 DEF None
        <5>2. file'[f].savedCx # None
          BY <1>6, <4>1, <5>1
        <5> QED  BY <5>2 DEF HasMd5
      <4> QED  BY <4>3, <4>4, <4>5
    <3>4. \A f \in Files : file'[f].savedCx \in {None, run'.cxBefore[f]}
      <4>1. \A f \in Files : run'.cxBefore[f] = F[f].cx
        BY <1>2, <1>4
      <4>2. \A f \in Files : file'[f].savedCx \in {F[f].savedCx, F[f].cx}
        BY <1>6
      <4> QED  BY <2>1, <4>1, <4>2
    <3> QED  BY <1>2, <3>1, <3>2, <3>3, <3>4 DEF Remembered
  <2>6. Justified' /\ Buffer'
    BY <1>2 DEF Justified, Buffer, None
  <2> QED  BY <2>2, <2>3, <2>4, <2>5, <2>6
<1> QED  BY <1>2, <1>7, <1>8, <1>9 DEF SessionInv

-----------------------------------------------------------------------------
(* The indices of the files.                                               *)

\* Whether data get written depends on the content only.
LEMMA NoWriteByContent ==
  ASSUME NEW f \in Files, NEW g \in Files, Content[f] = Content[g]
  PROVE  NoWrite(f) <=> NoWrite(g)
BY FileAssumption DEF NoWrite

LEMMA FileSrcCreateStep ==
  ASSUME SessionInv, FileSrcCreate
  PROVE  SessionInv'
<1> USE ContentFacts
<1>1. /\ Typed /\ run.step = "index" /\ run.next =< NumFiles
      /\ array' = array /\ Indices /\ Assigned
  BY DEF FileSrcCreate, SessionInv, Running
<1>2. PICK r \in Runs : r = run
  BY <1>1 DEF Typed
<1>3. PICK F \in [Files -> Nodes] : F = file
  BY <1>1 DEF Typed
<1>4. PICK f \in Files : f = r.next
  BY <1>1, <1>2, FileAssumption DEF Files, Runs
<1>5. PICK c \in Contents : c = Content[f]
  OBVIOUS
<1>6. r.index[c] \in {None} \cup 0 .. r.counter /\ r.counter \in Nat
  BY <1>1, <1>2 DEF Indices, Runs
<1>7. PICK fresh \in BOOLEAN : fresh = (r.index[c] = None /\ GetsIndex(f))
  OBVIOUS
<1>8. PICK idx \in Nat : idx = IF r.index[c] # None THEN r.index[c]
                             ELSE IF GetsIndex(f) THEN r.counter + 1 ELSE 0
  BY <1>6
<1>9. /\ r.index[c] # None => idx = r.index[c] /\ idx =< r.counter
      /\ fresh => r.index[c] = None /\ idx = r.counter + 1
      /\ r.index[c] = None /\ ~fresh => idx = 0 /\ ~GetsIndex(f)
      /\ fresh => r.opts.md5 = "files" /\ ~r.opts.willCancel
      /\ idx > 0 => ~r.opts.willCancel
  <2>1. fresh => r.opts.md5 = "files" /\ ~r.opts.willCancel
    BY <1>2, <1>7 DEF GetsIndex
  <2>2. r.opts.willCancel => r.counter = 0
    BY <1>1, <1>2 DEF Indices
  <2>3. r.index[c] # None => idx = r.index[c] /\ idx =< r.counter
    BY <1>6, <1>8 DEF None
  <2>4. fresh => r.index[c] = None /\ idx = r.counter + 1
    BY <1>7, <1>8
  <2>5. r.index[c] = None /\ ~fresh => idx = 0 /\ ~GetsIndex(f)
    BY <1>7, <1>8
  <2> QED  BY <1>6, <2>1, <2>2, <2>3, <2>4, <2>5
<1>10. /\ run' \in Runs /\ run'.step = "index" /\ run'.opts = r.opts
       /\ run'.astray = r.astray /\ run'.next = f + 1
       /\ run'.counter = (IF fresh THEN r.counter + 1 ELSE r.counter)
       /\ run'.index = [r.index EXCEPT ![c] = idx]
       /\ run'.before = r.before /\ run'.cxBefore = r.cxBefore
  <2>1. run' = [r EXCEPT !.next = @ + 1, !.index[c] = idx,
                         !.counter = IF idx > @ THEN idx ELSE @]
    BY <1>2, <1>4, <1>5, <1>8 DEF FileSrcCreate
  <2>2. r.next \in Nat /\ r.counter \in Nat /\ r.index \in [Contents -> Int]
    BY DEF Runs
  <2>3. PICK n \in Nat \ {0} : n = r.next + 1
    BY <2>2
  <2>4. PICK k \in Nat : k = IF idx > r.counter THEN idx ELSE r.counter
    BY <2>2
  <2>5. PICK x \in [Contents -> Int] : x = [r.index EXCEPT ![c] = idx]
    <3>1. \A h \in [Contents -> Int] : [h EXCEPT ![c] = idx] \in [Contents -> Int]
      OBVIOUS
    <3> QED  BY <2>2, <3>1
  <2>6. run' = [r EXCEPT !.next = n, !.index = x, !.counter = k]
    BY <2>1, <2>3, <2>4, <2>5
  <2>7. /\ run' \in Runs /\ run'.step = r.step /\ run'.opts = r.opts
        /\ run'.astray = r.astray /\ run'.next = n /\ run'.counter = k /\ run'.index = x
        /\ run'.before = r.before /\ run'.cxBefore = r.cxBefore
    BY <2>6 DEF Runs
  <2>8. k = IF fresh THEN r.counter + 1 ELSE r.counter
    BY <1>6, <1>8, <1>9, <2>4
  <2> QED  BY <1>1, <1>2, <1>4, <2>3, <2>5, <2>7, <2>8
<1>11. \A d \in Contents : run'.index[d] = IF d = c THEN idx ELSE r.index[d]
  <2>1. PICK h \in [Contents -> Int] : h = r.index
    BY DEF Runs
  <2>2. run'.index = [h EXCEPT ![c] = idx]
    BY <1>10, <2>1
  <2> QED  BY <2>1, <2>2
<1>12. /\ file' \in [Files -> Nodes]
       /\ \A g \in Files : /\ file'[g].savedCx = F[g].savedCx /\ file'[g].md5 = F[g].md5
                           /\ file'[g].cx = IF g = f /\ idx > 0 THEN idx ELSE F[g].cx
  <2>1. file' = [F EXCEPT ![f].cx = IF idx > 0 /\ ~run.opts.willCancel THEN idx ELSE @]
    BY <1>2, <1>3, <1>4, <1>5, <1>8 DEF FileSrcCreate
  <2>2. file' = [F EXCEPT ![f].cx = IF idx > 0 THEN idx ELSE @]
    BY <1>2, <1>9, <2>1
  <2> QED  BY <2>2 DEF Nodes
<1>13. Typed' /\ OwnMd5'
  BY <1>1, <1>3, <1>10, <1>12 DEF SessionInv, Typed, OwnMd5
<1>14. \A g \in Files : r.next > g => r.index[Content[g]] # None
  BY <1>1, <1>2 DEF Assigned
<1>15. Indices'
  <2>1. \A d \in Contents : run'.index[d] \in {None} \cup 0 .. run'.counter
    <3> SUFFICES ASSUME NEW d \in Contents
                 PROVE  run'.index[d] \in {None} \cup 0 .. run'.counter
      OBVIOUS
    <3>1. r.index[d] \in {None} \cup 0 .. r.counter
      BY <1>1, <1>2 DEF Indices
    <3>2. idx \in 0 .. run'.counter
      BY <1>6, <1>9, <1>10
    <3> QED  BY <1>6, <1>10, <1>11, <3>1, <3>2
  <2>2. ASSUME NEW d \in Contents, NEW e \in Contents,
               run'.index[d] = run'.index[e], run'.index[d] > 0
        PROVE  d = e
    <3>1. /\ r.index[d] = r.index[e] /\ r.index[d] > 0 => d = e
          /\ r.index[d] \in {None} \cup 0 .. r.counter
          /\ r.index[e] \in {None} \cup 0 .. r.counter
      BY <1>1, <1>2 DEF Indices
    <3>2. CASE ~fresh
      <4>1. idx > 0 => idx = r.index[c]
        BY <1>9, <3>2
      <4>2. r.index[d] = run'.index[d] /\ r.index[e] = run'.index[e]
        BY <1>11, <2>2, <4>1
      <4> QED  BY <2>2, <3>1, <4>2
    <3>3. CASE fresh
      BY <1>6, <1>9, <1>11, <2>2, <3>1, <3>3 DEF None
    <3> QED  BY <3>2, <3>3
  <2>3. run'.opts.md5 # "files" \/ run'.opts.willCancel => run'.counter = 0
    BY <1>1, <1>2, <1>9, <1>10 DEF Indices
  <2> QED  BY <1>10, <2>1, <2>2, <2>3 DEF Indices
<1>16. \A g \in Files : f + 1 > g <=> g = f \/ r.next > g
  <2> SUFFICES ASSUME NEW g \in Files PROVE f + 1 > g <=> g = f \/ f > g
    BY <1>4
  <2>1. f \in Nat /\ g \in Nat
    OBVIOUS
  <2> QED  BY <2>1
<1>17. \A g \in Files : r.next > g /\ Content[g] = c =>
         ~fresh /\ r.index[c] # None /\ idx = r.index[c]
  BY <1>9, <1>14
<1>18. \A d \in Contents : r.index[d] # None =>
         \E g \in Files : r.next > g /\ Content[g] = d
  BY <1>1, <1>2 DEF Assigned
<1>19. Assigned'
  <2>1. ASSUME NEW g \in Files, run'.next > g
        PROVE  /\ run'.index[Content[g]] # None
               /\ run'.index[Content[g]] > 0 => file'[g].cx = run'.index[Content[g]]
               /\ run'.opts.md5 = "files" /\ ~run'.opts.willCancel
                    /\ run'.index[Content[g]] = 0 => NoWrite(g)'
    <3>1. NoWrite(g)' <=> NoWrite(g)
      BY <1>2, <1>10 DEF NoWrite
    <3>2. CASE g = f
      <4>1. run'.index[Content[g]] = idx
        BY <1>5, <1>11, <3>2
      <4>2. idx > 0 => file'[g].cx = idx
        BY <1>12, <3>2
      <4>3. ASSUME r.opts.md5 = "files", ~r.opts.willCancel, idx = 0
            PROVE  NoWrite(f)
        <5>1. CASE r.index[c] = None
          <6>1. ~GetsIndex(f)
            BY <1>6, <1>9, <4>3, <5>1
          <6> QED  BY <1>2, <4>3, <6>1 DEF GetsIndex
        <5>2. CASE r.index[c] # None
          <6>1. PICK h \in Files : r.next > h /\ Content[h] = c
            BY <1>18, <5>2
          <6>2. r.index[Content[h]] = 0
            BY <1>9, <4>3, <5>2, <6>1
          <6>3. NoWrite(h)
            BY <1>1, <1>2, <4>3, <6>1, <6>2 DEF Assigned
          <6> QED  BY <1>5, <6>1, <6>3, NoWriteByContent
        <5> QED  BY <5>1, <5>2
      <4>4. idx # None
        BY DEF None
      <4> QED  BY <1>10, <3>1, <3>2, <4>1, <4>2, <4>3, <4>4
    <3>3. CASE r.next > g /\ g # f
      <4>1. /\ r.index[Content[g]] # None
            /\ r.index[Content[g]] > 0 => F[g].cx = r.index[Content[g]]
            /\ r.opts.md5 = "files" /\ ~r.opts.willCancel /\ r.index[Content[g]] = 0
                 => NoWrite(g)
        BY <1>1, <1>2, <1>3, <3>3 DEF Assigned
      <4>2. run'.index[Content[g]] = r.index[Content[g]]
        BY <1>11, <1>17, <3>3
      <4>3. file'[g].cx = F[g].cx
        BY <1>12, <3>3
      <4> QED  BY <1>10, <3>1, <4>1, <4>2, <4>3
    <3> QED  BY <1>10, <1>16, <2>1, <3>2, <3>3
  <2>2. ASSUME NEW d \in Contents, run'.index[d] # None
        PROVE  \E g \in Files : run'.next > g /\ Content[g] = d
    <3>1. CASE d = c
      BY <1>5, <1>10, <1>16, <3>1
    <3>2. CASE d # c
      <4>1. r.index[d] # None
        BY <1>11, <2>2, <3>2
      <4>2. PICK g \in Files : r.next > g /\ Content[g] = d
        BY <1>18, <4>1
      <4> QED  BY <1>10, <1>16, <4>2
    <3> QED  BY <3>1, <3>2
  <2>3. ASSUME r.opts.appendable, r.opts.md5 # "off", ~r.opts.willCancel,
               NEW g \in Files, run'.next =< g \/ run'.index[Content[g]] =< 0
        PROVE  file'[g].cx =< 0
    <3>1. r.next =< g \/ r.index[Content[g]] =< 0 => F[g].cx =< 0
      BY <1>1, <1>2, <1>3, <2>3 DEF Assigned
    <3>2. r.next \in Nat /\ g \in Nat
      BY <1>4
    <3>3. CASE g = f
      <4>1. idx =< 0
        BY <1>5, <1>10, <1>11, <2>3, <3>2, <3>3
      <4> QED  BY <1>4, <1>12, <3>1, <3>2, <3>3, <4>1
    <3>4. CASE g # f /\ r.next =< g
      BY <1>12, <3>1, <3>4
    <3>5. CASE g # f /\ ~(r.next =< g)
      <4>1. run'.index[Content[g]] =< 0
        BY <1>4, <1>10, <2>3, <3>2, <3>5
      <4>2. r.index[Content[g]] = run'.index[Content[g]]
        BY <1>11, <1>17, <3>2, <3>5
      <4> QED  BY <1>12, <3>1, <3>5, <4>1, <4>2
    <3> QED  BY <3>3, <3>4, <3>5
  <2> QED  BY <1>10, <2>1, <2>2, <2>3 DEF Assigned
<1>20. ASSUME ~r.astray
       PROVE  /\ SavedSound' /\ AttributeSound' /\ LinksAgree' /\ Remembered'
              /\ Justified' /\ Buffer'
  <2>1. SavedSound /\ AttributeSound /\ LinksAgree /\ Remembered /\ Justified
    BY <1>1, <1>2, <1>20 DEF SessionInv, Running
  <2>2. Settled' <=> r.opts.willCancel
    BY <1>10 DEF Settled
  <2>3. r.opts.willCancel => Settled /\ \A g \in Files : file'[g].cx = F[g].cx
    BY <1>2, <1>9, <1>12 DEF Settled
  <2>4. \A g \in Files : NoWrite(g)' <=> NoWrite(g)
    BY <1>2, <1>10 DEF NoWrite
  <2>5. \A g \in Files : HasMd5(g)' <=> HasMd5(g)
    BY <1>3, <1>12 DEF HasMd5
  <2>6. SavedSound' /\ AttributeSound' /\ LinksAgree'
    <3>1. SavedSound'
      BY <1>1, <1>3, <1>10, <1>12, <2>1, <2>2, <2>3 DEF SavedSound, InArray
    <3>2. AttributeSound'
      BY <1>1, <1>3, <2>1, <2>2, <2>3 DEF AttributeSound, InArray
    <3>3. LinksAgree'
      BY <1>3, <1>12, <2>1, <2>2, <2>3 DEF LinksAgree
    <3> QED  BY <3>1, <3>2, <3>3
  <2>7. Justified'
    <3> SUFFICES ASSUME NEW d \in Contents, run'.index[d] > 0
                 PROVE  \E g \in Files : /\ Content[g] = d /\ run'.next > g
                                         /\ (NoWrite(g)' => HasMd5(g)')
      BY DEF Justified
    <3>1. CASE d = c /\ fresh
      <4>1. NoWrite(f) => HasMd5(f)
        BY <1>7, <3>1 DEF GetsIndex, HasMd5
      <4> QED  BY <1>5, <1>10, <1>16, <2>4, <2>5, <3>1, <4>1
    <3>2. CASE ~(d = c /\ fresh)
      <4>1. r.index[d] > 0
        <5>1. CASE d = c
          BY <1>9, <1>11, <3>2, <5>1
        <5>2. CASE d # c
          BY <1>11, <5>2
        <5> QED  BY <5>1, <5>2
      <4>2. PICK g \in Files : Content[g] = d /\ r.next > g /\ (NoWrite(g) => HasMd5(g))
        BY <1>1, <1>2, <2>1, <4>1 DEF Justified
      <4> QED  BY <1>10, <1>16, <2>4, <2>5, <4>2
    <3> QED  BY <3>1, <3>2
  <2>8. Remembered'
    <3>1. ASSUME r.opts.md5 = "files", ~r.opts.willCancel, LinksUnchecked,
                 NEW g \in Files, NoWrite(g), r.before[g] # None
          PROVE  run'.index[Content[g]] # 0 /\ HasMd5(g)
      <4>1. r.index[Content[g]] # 0 /\ HasMd5(g)
        BY <1>1, <1>2, <2>1, <3>1 DEF Remembered, Running
      <4>2. CASE Content[g] # c
        BY <1>11, <4>1, <4>2
      <4>3. CASE Content[g] = c /\ idx # 0
        BY <1>11, <4>1, <4>3
      <4>4. CASE Content[g] = c /\ idx = 0
        <5>1. ~GetsIndex(f)
          BY <1>6, <1>9, <4>1, <4>4
        <5>2. NoWrite(f) /\ ~HasMd5(f)
          BY <1>2, <3>1, <5>1 DEF GetsIndex, HasMd5
        <5>3. CASE F[g].md5 # None
          <6>1. g \in Checked
            BY <1>3, <5>3 DEF SessionInv, OwnMd5
          <6>2. g \in Old
            BY <3>1 DEF NoWrite
          <6>3. f = g
            BY <1>5, <3>1, <4>4, <6>1, <6>2 DEF LinksUnchecked
          <6> QED  BY <4>1, <5>2, <6>3
        <5>4. CASE F[g].savedCx # None
          <6>1. F[f].savedCx # None
            BY <1>3, <1>5, <2>1, <4>4, <5>4 DEF LinksAgree
          <6> QED  BY <1>3, <5>2, <6>1 DEF HasMd5
        <5> QED  BY <1>3, <4>1, <5>3, <5>4 DEF HasMd5
      <4> QED  BY <4>2, <4>3, <4>4
    <3>2. r.opts.appendable /\ r.opts.md5 # "off" =>
            \A g \in Old : r.cxBefore[g] > 0 => file'[g].savedCx = r.cxBefore[g]
      BY <1>1, <1>2, <1>3, <1>12, <2>1 DEF Remembered, Running
    <3>3. \A g \in Files : file'[g].savedCx \in {None, run'.cxBefore[g]}
      BY <1>1, <1>2, <1>3, <1>10, <1>12, <2>1 DEF Remembered, Running
    <3> QED  BY <1>10, <2>4, <2>5, <3>1, <3>2, <3>3 DEF Remembered
  <2>9. Buffer'
    BY <1>10 DEF Buffer
  <2> QED  BY <2>6, <2>7, <2>8, <2>9
<1>21. BufferLength'
  BY <1>10 DEF BufferLength
<1> QED  BY <1>2, <1>10, <1>13, <1>15, <1>19, <1>20, <1>21 DEF SessionInv

-----------------------------------------------------------------------------
(* The new array.                                                          *)

LEMMA MaxFile ==
  ASSUME NEW S \in SUBSET Files, S # {}
  PROVE  Max(S) \in S
<1>1. S \in SUBSET (0 .. NumFiles) /\ NumFiles \in Nat
  BY FileAssumption DEF Files
<1> QED  BY <1>1, MaxIn

LEMMA OldMd5Is ==
  ASSUME Typed, OwnMd5, NEW f \in Files
  PROVE  /\ OldMd5(f) \in Int
         /\ SavedSound => OldMd5(f) \in {None, Content[f]}
         /\ SavedSound /\ NoWrite(f) /\ HasMd5(f) => OldMd5(f) = Content[f]
<1>1. file[f] \in Nodes /\ \A i \in 1 .. Len(array) : array[i] \in Int
  BY DEF Typed
<1>2. None \in Int /\ file[f].md5 \in Int
  BY <1>1 DEF None, Nodes
<1>3. OldMd5(f) \in Int
  BY <1>1, <1>2 DEF OldMd5
<1>4. file[f].md5 # None => file[f].md5 = Content[f]
  BY DEF OwnMd5
<1>5. SavedSound /\ file[f].savedCx # None =>
        file[f].savedCx \in 1 .. Len(array) /\ array[file[f].savedCx] = Content[f]
  BY DEF SavedSound, InArray
<1>6. file[f].savedCx \in 1 .. Len(array) => file[f].savedCx # None
  BY DEF None
<1> QED  BY <1>3, <1>4, <1>5, <1>6 DEF OldMd5, HasMd5

LEMMA CopyOldNodesStep ==
  ASSUME SessionInv, CopyOldNodes
  PROVE  SessionInv'
<1> USE ContentFacts
<1> DEFINE from(i) == {f \in Files : OldMd5(f) # None /\ file[f].cx = i}
<1>1. /\ Typed /\ OwnMd5 /\ run.step = "index" /\ run.next > NumFiles
      /\ array' = array /\ Indices /\ Assigned
  BY DEF CopyOldNodes, SessionInv, Running
<1>2. PICK r \in Runs : r = run
  BY <1>1 DEF Typed
<1>3. PICK F \in [Files -> Nodes] : F = file
  BY <1>1 DEF Typed
<1>4. PICK b \in Seq(Int) :
        /\ b = IF r.opts.md5 = "off" THEN NoArray
               ELSE [i \in 1 .. r.counter |->
                       IF from(i) = {} THEN ZeroMd5 ELSE OldMd5(Max(from(i)))]
        /\ r.opts.md5 # "off" => Len(b) = r.counter
  <2>1. r.counter \in Nat
    BY DEF Runs
  <2>2. \A i \in 1 .. r.counter : from(i) # {} => OldMd5(Max(from(i))) \in Int
    <3> SUFFICES ASSUME NEW i \in 1 .. r.counter, from(i) # {}
                 PROVE  OldMd5(Max(from(i))) \in Int
      OBVIOUS
    <3>1. Max(from(i)) \in Files
      BY MaxFile
    <3> QED  BY <1>1, <3>1, OldMd5Is
  <2>3. PICK h \in [1 .. r.counter -> Int] :
          h = [i \in 1 .. r.counter |->
                 IF from(i) = {} THEN ZeroMd5 ELSE OldMd5(Max(from(i)))]
    <3> DEFINE el(i) == IF from(i) = {} THEN ZeroMd5 ELSE OldMd5(Max(from(i)))
    <3>1. \A i \in 1 .. r.counter : el(i) \in Int
      BY <2>2 DEF ZeroMd5
    <3> HIDE DEF el
    <3>2. [i \in 1 .. r.counter |-> el(i)] \in [1 .. r.counter -> Int]
      BY <3>1
    <3> QED  BY <3>2 DEF el
  <2>4. h \in Seq(Int) /\ Len(h) = r.counter
    BY <2>1, LenIs
  <2>5. NoArray \in Seq(Int)
    BY DEF NoArray
  <2>6. CASE r.opts.md5 = "off"
    BY <2>5, <2>6
  <2>7. CASE r.opts.md5 # "off"
    BY <2>3, <2>4, <2>7
  <2> QED  BY <2>6, <2>7
<1>5. /\ run' \in Runs /\ run'.step = "computed" /\ run'.astray = r.astray
      /\ SameRun /\ run'.buffer = b
  <2>1. run' = [r EXCEPT !.step = "computed", !.buffer = b]
    BY <1>2, <1>4 DEF CopyOldNodes
  <2> QED  BY <1>2, <2>1 DEF Runs, Steps, SameRun
<1>6. /\ file' \in [Files -> Nodes]
      /\ \A f \in Files : /\ file'[f].cx = F[f].cx /\ file'[f].savedCx = F[f].savedCx
                          /\ file'[f].md5 \in {F[f].md5, None}
  <2>1. PICK active : active = (run.opts.md5 # "off" /\ ~run.opts.willCancel)
    OBVIOUS
  <2>2. PICK gone : gone = {f \in Files : active /\ OldMd5(f) # None}
    OBVIOUS
  <2>3. file' = [f \in Files |-> [F[f] EXCEPT !.md5 = IF f \in gone THEN None ELSE @]]
    BY <1>3, <2>1, <2>2 DEF CopyOldNodes
  <2>4. ASSUME NEW f \in Files
        PROVE  /\ file'[f] \in Nodes
               /\ file'[f].cx = F[f].cx /\ file'[f].savedCx = F[f].savedCx
               /\ file'[f].md5 \in {F[f].md5, None}
    <3>1. PICK n \in Nodes : n = F[f]
      OBVIOUS
    <3>2. PICK x \in {n.md5, None} : file'[f] = [n EXCEPT !.md5 = x]
      BY <2>3, <3>1
    <3>3. x \in Int
      BY DEF Nodes, None
    <3>4. PICK m \in Nodes : m = [n EXCEPT !.md5 = x]
      BY <3>3 DEF Nodes
    <3>5. m.cx = n.cx /\ m.savedCx = n.savedCx /\ m.md5 = x
      BY <3>3, <3>4 DEF Nodes
    <3> QED  BY <3>1, <3>2, <3>4, <3>5
  <2>5. file' \in [Files -> Nodes]
    BY <2>3, <2>4
  <2> QED  BY <2>4, <2>5
<1>7. Typed' /\ OwnMd5'
  BY <1>1, <1>3, <1>5, <1>6 DEF Typed, OwnMd5
<1>8. Indices' /\ Assigned' /\ BufferLength'
  <2>1. \A f \in Files : NoWrite(f)' <=> NoWrite(f)
    BY <1>5 DEF NoWrite, SameRun
  <2>2. Indices' /\ Assigned'
    BY <1>1, <1>3, <1>5, <1>6, <2>1 DEF Indices, Assigned, SameRun
  <2>3. r.counter + 0 = r.counter
    BY DEF Runs
  <2>4. BufferLength'
    BY <1>2, <1>4, <1>5, <2>3 DEF BufferLength, SameRun
  <2> QED  BY <2>2, <2>4
<1>9. ASSUME ~r.astray
      PROVE  /\ SavedSound' /\ AttributeSound' /\ LinksAgree' /\ Remembered'
             /\ Justified' /\ Buffer'
  <2>1. SavedSound /\ AttributeSound /\ LinksAgree /\ Remembered /\ Justified
    BY <1>1, <1>2, <1>9 DEF SessionInv, Running
  <2>2. SavedSound' /\ AttributeSound' /\ LinksAgree'
    <3>1. Settled' <=> r.opts.willCancel
      BY <1>2, <1>5 DEF Settled, SameRun
    <3>2. r.opts.willCancel => Settled
      BY <1>2 DEF Settled
    <3> QED  BY <1>1, <1>3, <1>5, <1>6, <2>1, <3>1, <3>2
             DEF SavedSound, AttributeSound, LinksAgree, InArray
  <2>3. Remembered'
    <3>1. \A f \in Files : NoWrite(f)' <=> NoWrite(f)
      BY <1>5 DEF NoWrite, SameRun
    <3>2. \A f \in Files : file'[f].savedCx \in {None, run'.cxBefore[f]}
      BY <1>1, <1>3, <1>5, <1>6, <2>1 DEF Remembered, Running, SameRun
    <3>3. r.opts.appendable /\ r.opts.md5 # "off" =>
            \A f \in Old : r.cxBefore[f] > 0 => file'[f].savedCx = r.cxBefore[f]
      BY <1>1, <1>2, <1>3, <1>6, <2>1, ContentFacts DEF Remembered, Running
    <3>4. r.opts.md5 = "files" /\ ~r.opts.willCancel /\ LinksUnchecked =>
            \A f \in Files : NoWrite(f) /\ r.before[f] # None =>
              r.index[Content[f]] # 0
      BY <1>1, <1>2, <2>1 DEF Remembered, Running
    <3>5. /\ run'.opts = r.opts /\ run'.cxBefore = r.cxBefore /\ run'.before = r.before
          /\ run'.index = r.index /\ run'.step = "computed"
      <4>1. run'.step = "computed"
        BY <1>5
      <4>2. /\ run'.opts = run.opts /\ run'.cxBefore = run.cxBefore
            /\ run'.before = run.before /\ run'.index = run.index
        BY <1>5 DEF SameRun
      <4> QED  BY <1>2, <4>1, <4>2
    <3>6. \A f \in Files : file'[f].savedCx \in {None, r.cxBefore[f]}
      BY <3>2, <3>5
    <3>7. /\ r.opts.appendable /\ r.opts.md5 # "off" =>
               \A f \in Old : run'.cxBefore[f] > 0 => file'[f].savedCx = run'.cxBefore[f]
          /\ r.opts.md5 = "files" /\ ~r.opts.willCancel /\ LinksUnchecked =>
               \A f \in Files : NoWrite(f)' /\ run'.before[f] # None =>
                 /\ run'.index[Content[f]] # 0
                 /\ run'.step = "index" => HasMd5(f)'
      <4>1. "computed" # "index"
        OBVIOUS
      <4> QED  BY <3>1, <3>3, <3>4, <3>5, <4>1
    <3> QED  BY <3>2, <3>5, <3>7 DEF Remembered
  <2>4. Justified'
    BY <1>5 DEF Justified
  <2>5. Buffer'
    <3>1. ASSUME ~r.opts.willCancel, r.opts.md5 # "off", NEW f \in Files, NoWrite(f),
                 r.index[Content[f]] > 0
          PROVE  b[r.index[Content[f]]] = Content[f]
      <4>1. PICK i : i = r.index[Content[f]]
        OBVIOUS
      <4>2. i \in 1 .. r.counter
        <5>1. i \in {None} \cup 0 .. r.counter /\ i > 0
          BY <1>1, <1>2, <3>1, <4>1 DEF Indices
        <5>2. r.counter \in Nat
          BY DEF Runs
        <5> QED  BY <5>1, <5>2 DEF None
      <4>3. from(i) # {}
        <5>1. PICK g \in Files : /\ Content[g] = Content[f] /\ r.next > g
                                /\ (NoWrite(g) => HasMd5(g))
          BY <1>1, <1>2, <2>1, <3>1 DEF Justified
        <5>2. OldMd5(g) = Content[g]
          BY <1>1, <2>1, <3>1, <5>1, NoWriteByContent, OldMd5Is
        <5>3. file[g].cx = i
          BY <1>1, <1>2, <3>1, <4>1, <5>1 DEF Assigned
        <5>4. OldMd5(g) # None
          BY <5>2 DEF None
        <5> QED  BY <5>3, <5>4
      <4>4. PICK h \in Files : h = Max(from(i)) /\ OldMd5(h) # None /\ file[h].cx = i
        <5>1. Max(from(i)) \in from(i)
          BY <4>3, MaxFile
        <5> QED  BY <5>1
      <4>5. OldMd5(h) = Content[h]
        BY <1>1, <2>1, <4>4, OldMd5Is
      <4>6. r.index[Content[h]] = i
        BY <1>1, <1>2, <4>2, <4>4, AllAssigned
      <4>7. Content[h] = Content[f]
        BY <1>1, <1>2, <3>1, <4>1, <4>6 DEF Indices
      <4> QED  BY <1>4, <3>1, <4>1, <4>2, <4>3, <4>4, <4>5, <4>7
    <3>2. \A f \in Files : NoWrite(f)' <=> NoWrite(f)
      BY <1>5 DEF NoWrite, SameRun
    <3> QED  BY <1>2, <1>5, <3>1, <3>2 DEF Buffer, SameRun
  <2> QED  BY <2>2, <2>3, <2>4, <2>5
<1> QED  BY <1>2, <1>5, <1>7, <1>8, <1>9 DEF SessionInv

LEMMA WriteDataStep ==
  ASSUME SessionInv, WriteData
  PROVE  SessionInv'
<1> USE ContentFacts
<1> DEFINE of(i) == {f \in Files : run.index[Content[f]] = i /\ ~NoWrite(f)}
<1>1. /\ Typed /\ OwnMd5 /\ run.step = "computed" /\ run.next > NumFiles
      /\ ~run.opts.willCancel
      /\ file' = file /\ array' = array /\ Indices /\ Assigned /\ BufferLength
  BY DEF WriteData, SessionInv, Running, Indices
<1>2. PICK r \in Runs : r = run
  BY <1>1 DEF Typed
<1>3. r.counter \in Nat /\ r.buffer \in Seq(Int)
  BY DEF Runs
<1>4. ASSUME r.opts.md5 # "off"
      PROVE  \E h \in [1 .. r.counter -> Int] :
               h = [i \in 1 .. r.counter |->
                      IF of(i) = {} THEN r.buffer[i] ELSE Content[Max(of(i))]]
  <2> DEFINE el(i) == IF of(i) = {} THEN r.buffer[i] ELSE Content[Max(of(i))]
  <2>1. ASSUME NEW i \in 1 .. r.counter
        PROVE  el(i) \in Int
    <3>1. Len(r.buffer) = r.counter
      BY <1>1, <1>2, <1>3, <1>4 DEF BufferLength
    <3>2. r.buffer[i] \in Int
      BY <1>3, <3>1
    <3>3. CASE of(i) = {}
      BY <3>2, <3>3
    <3>4. CASE of(i) # {}
      <4>1. Max(of(i)) \in of(i)
        BY <3>4, MaxFile
      <4>2. PICK h \in Files : h = Max(of(i))
        BY <4>1
      <4>3. Content[h] \in Int
        OBVIOUS
      <4> QED  BY <3>4, <4>2, <4>3
    <3> QED  BY <3>3, <3>4
  <2> HIDE DEF el
  <2>2. [i \in 1 .. r.counter |-> el(i)] \in [1 .. r.counter -> Int]
    BY <2>1
  <2> QED  BY <2>2 DEF el
<1>5. PICK b \in Seq(Int) :
        /\ r.opts.md5 = "off" => b = NoArray
        /\ r.opts.md5 # "off" =>
             /\ Len(b) = r.counter + 1
             /\ \A i \in 1 .. r.counter :
                  b[i] = IF of(i) = {} THEN r.buffer[i] ELSE Content[Max(of(i))]
        /\ b = IF r.opts.md5 = "off" THEN NoArray
               ELSE Append([i \in 1 .. r.counter |->
                      IF of(i) = {} THEN r.buffer[i] ELSE Content[Max(of(i))]], ArrayMd5)
  <2>1. CASE r.opts.md5 = "off"
    <3>1. NoArray \in Seq(Int)
      BY DEF NoArray
    <3> QED  BY <2>1, <3>1
  <2>2. CASE r.opts.md5 # "off"
    <3>1. PICK h \in [1 .. r.counter -> Int] :
            h = [i \in 1 .. r.counter |->
                   IF of(i) = {} THEN r.buffer[i] ELSE Content[Max(of(i))]]
      BY <1>4, <2>2
    <3>2. h \in Seq(Int) /\ Len(h) = r.counter
      BY <1>3, LenIs
    <3>3. PICK a \in Int : a = ArrayMd5
      BY DEF ArrayMd5
    <3>4. /\ Append(h, a) \in Seq(Int) /\ Len(Append(h, a)) = r.counter + 1
          /\ \A i \in 1 .. r.counter : Append(h, a)[i] = h[i]
      BY <3>2
    <3> QED  BY <2>2, <3>1, <3>3, <3>4
  <2> QED  BY <2>1, <2>2
<1>6. /\ run' \in Runs /\ run'.step = "written" /\ run'.astray = r.astray
      /\ SameRun /\ run'.buffer = b
  <2>1. run' = [r EXCEPT !.step = "written", !.buffer = b]
    BY <1>2, <1>5 DEF WriteData
  <2> QED  BY <1>2, <2>1 DEF Runs, Steps, SameRun
<1>7. Typed' /\ OwnMd5'
  BY <1>1, <1>6 DEF Typed, OwnMd5, SameRun
<1>8. Indices' /\ Assigned' /\ BufferLength'
  <2>1. \A f \in Files : NoWrite(f)' <=> NoWrite(f)
    BY <1>6 DEF NoWrite, SameRun
  <2>2. Indices' /\ Assigned'
    BY <1>1, <1>6, <2>1 DEF Indices, Assigned, SameRun
  <2>3. BufferLength'
    BY <1>2, <1>5, <1>6 DEF BufferLength, SameRun
  <2> QED  BY <2>2, <2>3
<1>9. ASSUME ~r.astray
      PROVE  /\ SavedSound' /\ AttributeSound' /\ LinksAgree' /\ Remembered'
             /\ Justified' /\ Buffer'
  <2>1. SavedSound /\ AttributeSound /\ LinksAgree /\ Remembered /\ Buffer
    BY <1>1, <1>2, <1>9 DEF SessionInv, Running
  <2>2. SavedSound' /\ AttributeSound' /\ LinksAgree'
    BY <1>1, <1>6, <2>1
       DEF SavedSound, AttributeSound, LinksAgree, InArray, Settled, SameRun
  <2>3. Remembered'
    <3>1. \A f \in Files : NoWrite(f)' <=> NoWrite(f)
      BY <1>6 DEF NoWrite, SameRun
    <3> QED  BY <1>1, <1>6, <2>1, <3>1 DEF Remembered, Running, SameRun
  <2>4. Justified'
    BY <1>6 DEF Justified
  <2>5. Buffer'
    <3>1. ASSUME r.opts.md5 # "off", NEW f \in Files, r.index[Content[f]] > 0
          PROVE  b[r.index[Content[f]]] = Content[f]
      <4>1. PICK i : i = r.index[Content[f]]
        OBVIOUS
      <4>2. i \in 1 .. r.counter
        <5>1. i \in {None} \cup 0 .. r.counter /\ i > 0
          BY <1>1, <1>2, <3>1, <4>1 DEF Indices
        <5>2. r.counter \in Nat
          BY DEF Runs
        <5> QED  BY <5>1, <5>2 DEF None
      <4>3. CASE of(i) = {}
        <5>1. NoWrite(f)
          BY <1>2, <4>1, <4>3
        <5>2. r.buffer[i] = Content[f]
          BY <1>1, <1>2, <2>1, <3>1, <4>1, <5>1 DEF Buffer
        <5> QED  BY <1>5, <3>1, <4>1, <4>2, <4>3, <5>2
      <4>4. CASE of(i) # {}
        <5>1. PICK h \in Files : h = Max(of(i)) /\ run.index[Content[h]] = i
          <6>1. Max(of(i)) \in of(i)
            BY <4>4, MaxFile
          <6> QED  BY <6>1
        <5>2. Content[h] = Content[f]
          BY <1>1, <1>2, <3>1, <4>1, <5>1 DEF Indices
        <5> QED  BY <1>5, <3>1, <4>1, <4>2, <4>4, <5>1, <5>2
      <4> QED  BY <4>3, <4>4
    <3> QED  BY <1>2, <1>6, <3>1 DEF Buffer, SameRun
  <2> QED  BY <2>2, <2>3, <2>4, <2>5
<1> QED  BY <1>2, <1>6, <1>7, <1>8, <1>9 DEF SessionInv

-----------------------------------------------------------------------------
(* All steps.                                                              *)

LEMMA StutterStep ==
  ASSUME SessionInv, UNCHANGED vars
  PROVE  SessionInv'
<1>1. file' = file /\ array' = array /\ run' = run
  BY DEF vars
<1>2. Typed' /\ OwnMd5' /\ (Running' <=> Running)
  BY <1>1 DEF SessionInv, Typed, OwnMd5, Running
<1>3. \A f \in Files : NoWrite(f)' <=> NoWrite(f)
  BY <1>1 DEF NoWrite
<1>4. Running => Indices' /\ Assigned' /\ BufferLength'
  BY <1>1, <1>3 DEF SessionInv, Indices, Assigned, BufferLength
<1>5. ~run.astray => SavedSound' /\ AttributeSound' /\ LinksAgree'
  BY <1>1 DEF SessionInv, SavedSound, AttributeSound, LinksAgree, Settled, InArray
<1>6. ~run.astray => Remembered'
  BY <1>1, <1>2, <1>3 DEF SessionInv, Remembered, HasMd5
<1>7. ~run.astray /\ Running => Justified' /\ Buffer'
  BY <1>1, <1>3 DEF SessionInv, Justified, Buffer, HasMd5
<1> QED  BY <1>1, <1>2, <1>4, <1>5, <1>6, <1>7 DEF SessionInv

LEMMA SessionInvNext == SessionInv /\ [Next]_vars => SessionInv'
<1> SUFFICES ASSUME SessionInv, [Next]_vars PROVE SessionInv'
  OBVIOUS
<1>1. CASE \E f \in Checked : MakeMd5(f)
  BY <1>1, MakeMd5Step
<1>2. CASE \E opts \in Options : ImageNew(opts)
  BY <1>2, ImageNewStep
<1>3. CASE FileSrcCreate
  BY <1>3, FileSrcCreateStep
<1>4. CASE CopyOldNodes
  BY <1>4, CopyOldNodesStep
<1>5. CASE CreateFails
  BY <1>5, CreateFailsStep
<1>6. CASE SizeRunEnds
  BY <1>6, SizeRunEndsStep
<1>7. CASE WriteData
  BY <1>7, WriteDataStep
<1>8. CASE WriteFails
  BY <1>8, WriteFailsStep
<1>9. CASE Transplant
  BY <1>9, TransplantStep
<1>10. CASE FinishOk \/ FinishFails
  BY <1>10, FinishStep
<1>11. CASE Restore
  BY <1>11, RestoreStep
<1>12. CASE UNCHANGED vars
  BY <1>12, StutterStep
<1> QED  BY <1>1, <1>2, <1>3, <1>4, <1>5, <1>6, <1>7, <1>8, <1>9, <1>10, <1>11, <1>12
         DEF Next

LEMMA SessionInvariant == Spec => []SessionInv
<1>1. Init => SessionInv
  BY InvInit
<1>2. SessionInv /\ [Next]_vars => SessionInv'
  BY SessionInvNext
<1> QED  BY <1>1, <1>2, PTL DEF Spec

\* What iso_file_get_md5() returns between the runs is the MD5 of that file, for
\* any sequence of runs with any options, as long as no indices went astray.
THEOREM FilesKeepTheirMd5 == Spec => []Md5Sound
<1>1. SessionInv => Md5Sound
  <2> SUFFICES ASSUME SessionInv, Idle, ~run.astray, NEW f \in Files PROVE Sound(f)
    BY DEF Md5Sound
  <2>1. file[f].md5 # None => file[f].md5 = Content[f]
    BY DEF SessionInv, OwnMd5
  <2>2. file[f].cx > 0 => InArray(f, file[f].cx)
    BY DEF SessionInv, AttributeSound, Settled, Idle
  <2>3. file[f].cx \in 1 .. Len(array) => file[f].cx > 0
    OBVIOUS
  <2> QED  BY <2>1, <2>2, <2>3 DEF Sound, GetMd5, InArray
<1> QED  BY <1>1, SessionInvariant, PTL

\* A run with MD5s of files gives one to each file it writes and keeps those of
\* the files which stay.  A failed run of any kind leaves no index of its own:
\* each file has its old index or none.  Old files certainly get their old index
\* back only if it was recorded, i.e. by a run with MD5s of an appendable image,
\* which fails before its array is in effect.
THEOREM KnownMd5sStay == ASSUME LinksUnchecked PROVE Spec => Md5Kept
<1>1. SessionInv /\ [Next]_vars =>
        [Transplant /\ run.opts.md5 = "files" /\ ~run.astray =>
           \A f \in Files : ~NoWrite(f) \/ run.before[f] # None
              => GetMd5(f)' = Content[f]]_vars
  <2> SUFFICES ASSUME SessionInv, Transplant, run.opts.md5 = "files", ~run.astray,
                      NEW f \in Files, ~NoWrite(f) \/ run.before[f] # None
               PROVE  GetMd5(f)' = Content[f]
    OBVIOUS
  <2>1. /\ Typed /\ OwnMd5 /\ Indices /\ Assigned /\ BufferLength /\ Buffer
        /\ Remembered /\ run.step = "written" /\ ~run.opts.willCancel
        /\ run.next > NumFiles
    BY DEF SessionInv, Transplant, Running, Typed, Indices
  <2>2. /\ array' = run.buffer
        /\ file'[f].md5 = file[f].md5 /\ file'[f].cx = file[f].cx
    <3>1. PICK F \in [Files -> Nodes] : F = file
      BY <2>1 DEF Typed
    <3>2. file' = [g \in Files |-> [F[g] EXCEPT !.savedCx = None]]
      BY <3>1 DEF Transplant
    <3>3. file'[f].md5 = F[f].md5 /\ file'[f].cx = F[f].cx
      BY <3>2 DEF Nodes
    <3> QED  BY <3>1, <3>3 DEF Transplant
  <2>3. PICK i \in Int, k \in Nat : i = run.index[Content[f]] /\ k = run.counter
    BY <2>1, ContentFacts DEF Typed, Runs
  <2>4. run.next > f
    BY <2>1, FileAssumption DEF Files, Typed, Runs
  <2>5. i \in 1 .. k
    <3>1. i # None /\ i \in {None} \cup 0 .. k
      BY <2>1, <2>3, <2>4, ContentFacts DEF Assigned, Indices
    <3>2. i = 0 => NoWrite(f)
      BY <2>1, <2>3, <2>4 DEF Assigned
    <3>3. NoWrite(f) => i # 0
      BY <2>1, <2>3 DEF Remembered, Running
    <3> QED  BY <3>1, <3>2, <3>3
  <2>6. file[f].cx = i
    BY <2>1, <2>3, <2>4, <2>5 DEF Assigned
  <2>7. Len(run.buffer) = k + 1 /\ run.buffer[i] = Content[f]
    BY <2>1, <2>3, <2>5 DEF BufferLength, Buffer
  <2>8. file[f].md5 # None => file[f].md5 = Content[f]
    BY <2>1 DEF OwnMd5
  <2>9. i \in 1 .. Len(run.buffer)
    BY <2>5, <2>7
  <2> QED  BY <2>2, <2>6, <2>7, <2>8, <2>9 DEF GetMd5
<1>2. SessionInv /\ [Next]_vars =>
        [Restore /\ ~run.astray =>
           /\ \A f \in Files : file'[f].cx \in {None, run.cxBefore[f]}
           /\ run.step = "error" /\ run.opts.appendable /\ run.opts.md5 # "off" =>
                \A f \in Old : run.cxBefore[f] > 0 =>
                  file'[f].cx = run.cxBefore[f]]_vars
  <2> SUFFICES ASSUME SessionInv, Restore, ~run.astray
               PROVE  /\ \A f \in Files : file'[f].cx \in {None, run.cxBefore[f]}
                      /\ run.step = "error" /\ run.opts.appendable
                           /\ run.opts.md5 # "off" =>
                           \A f \in Old : run.cxBefore[f] > 0 =>
                             file'[f].cx = run.cxBefore[f]
    OBVIOUS
  <2>1. /\ \A f \in Files : file'[f].cx = file[f].savedCx
        /\ run.step \in {"error", "lateError"} /\ SavedSound /\ Remembered
    BY RestoreEffect DEF SessionInv, Restore
  <2>2. \A f \in Files : file[f].savedCx \in {None, run.cxBefore[f]}
    <3>1. CASE run.step = "error"
      BY <2>1, <3>1 DEF Remembered
    <3>2. CASE run.step = "lateError"
      BY <2>1, <3>2 DEF SavedSound
    <3> QED  BY <2>1, <3>1, <3>2
  <2>3. ASSUME run.step = "error", run.opts.appendable, run.opts.md5 # "off",
               NEW f \in Old, run.cxBefore[f] > 0
        PROVE  file'[f].cx = run.cxBefore[f]
    BY <2>1, <2>3, ContentFacts DEF Remembered
  <2> QED  BY <2>1, <2>2, <2>3
<1> QED  BY <1>1, <1>2, SessionInvariant, PTL
         DEF Md5Kept, Md5Propagated, CancelRestoresIndex, Spec
=============================================================================
