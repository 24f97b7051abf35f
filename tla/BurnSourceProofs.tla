-------------------------- MODULE BurnSourceProofs --------------------------
(***************************************************************************)
(* Proofs about the life of a burn_source, for any number of sources, any  *)
(* options, image size and fifo size.                                      *)
(***************************************************************************)
EXTENDS BurnSource, FiniteSetTheorems, TLAPS

\* Steps of the program before a thread can exist, and steps of the thread
\* in which it works on the nodes of the image.
Preparing == Creating \ {"mark"}
OnNodes   == {"begin", "write", "transplanted", "closed", "error", "restore"}

Live == {s \in Sources : target[s].mem = "live"}

\* The types without the size of imageRefs, which is part of Counts.
Typed ==
  /\ owned \in BOOLEAN /\ imageRefs \in Int /\ genRunning \in BOOLEAN
  /\ app \in [Sources -> Creating \cup {"none", "open", "cancel", "canceled",
                                       "free", "drop", "gone"}]
  /\ thr \in [Sources -> OnNodes \cup {"none", "release", "releaseFailed",
                                       "verify", "exit"}]
  /\ target \in [Sources -> Targets]

\* The references of one target, and whether it is valid.
Counted(s) ==
  /\ target[s].refcount = (IF ProgramHolds(s) THEN 1 ELSE 0)
                  + (IF ThreadWorks(s) /\ thr[s] # "verify" THEN 1 ELSE 0)
  /\ target[s].mem = "live" <=> target[s].refcount > 0

\* The thread exists only between pthread_create() and pthread_join(): a source
\* that can be freed without join has no thread at work.
Joinable(s) ==
  /\ app[s] \in Preparing \cup {"none"} => thr[s] = "none"
  /\ app[s] \in {"canceled", "drop", "gone"} => ~ThreadWorks(s)
  /\ app[s] \in {"open", "cancel", "free"} /\ ThreadWorks(s)
       => target[s].wthreadIsRunning
  /\ app[s] \in Creating \cup {"open"} => target[s].rend = 0

\* One generation at a time works on the nodes.
OneGeneration ==
  /\ \A s \in Sources : thr[s] \in OnNodes => genRunning
  /\ \A r, s \in Sources : r # s =>
       /\ ~(app[r] \in Creating /\ app[s] \in Creating)
       /\ ~(thr[r] \in OnNodes /\ thr[s] \in OnNodes)
       /\ ~(app[r] \in Preparing /\ thr[s] \in OnNodes)

ImageCounted == imageRefs = Cardinality(Live) + (IF owned THEN 1 ELSE 0)

\* The account of blocks on the way from prediction to comparison.
Predicted(s) ==
  /\ target[s].report = "none"
  /\ app[s] \in {"layout", "head1", "head2", "start", "mark", "open", "cancel",
                 "canceled", "free", "drop"} => target[s].totalSize = ImageBlocks
  /\ thr[s] = "write" => target[s].bytesWritten =< ImageBlocks
  /\ thr[s] \in {"transplanted", "closed", "release", "verify"}
       => target[s].bytesWritten = ImageBlocks

FillBounded == \A s \in Sources : target[s].fill =< Cap(s)

LifeInv ==
  /\ Typed /\ OneGeneration /\ ImageCounted /\ FillBounded
  /\ \A s \in Sources : Counted(s) /\ Joinable(s)
SizeInv == LifeInv /\ \A s \in Sources : Predicted(s)

-----------------------------------------------------------------------------
(* Types.                                                                  *)

\* One step of the program or of the generator thread at source s.
SourceStep(s) == Create(s) \/ Generate(s) \/ Consume(s)

LEMMA InitLife == Init => SizeInv
<1> SUFFICES ASSUME Init PROVE SizeInv
  OBVIOUS
<1> USE DEF Init
<1>1. Typed
  <2>1. NoTarget("none") \in Targets
    BY DEF NoTarget, Targets
  <2>2. target \in [Sources -> Targets]
    BY <2>1
  <2>3. app \in [Sources -> {"none"}] /\ thr \in [Sources -> {"none"}]
    OBVIOUS
  <2>4. owned \in BOOLEAN /\ genRunning \in BOOLEAN
    BY Zenon
  <2>5. imageRefs \in Int
    OBVIOUS
  <2> QED  BY <2>2, <2>3, <2>4, <2>5 DEF Typed
<1> USE DEF NoTarget
<1>2. Live = {} /\ Cardinality({}) = 0
  BY FS_EmptySet DEF Live
<1>3. ImageCounted
  BY <1>2 DEF ImageCounted
<1>4. OneGeneration
  BY DEF OneGeneration, OnNodes, Creating, Preparing
<1>5. FillBounded
  BY BlockAssumption DEF FillBounded, Cap
<1>6. \A s \in Sources : Counted(s) /\ Joinable(s) /\ Predicted(s)
  BY DEF Counted, Joinable, Predicted, ProgramHolds, ThreadWorks, Creating, Preparing
<1> QED  BY <1>1, <1>3, <1>4, <1>5, <1>6 DEF SizeInv, LifeInv

-----------------------------------------------------------------------------
(* What the actions do, field by field.                                    *)

\* A step at source s leaves the other sources alone.
Moves(s, a, h) ==
  /\ app' = [app EXCEPT ![s] = a] /\ thr' = [thr EXCEPT ![s] = h]
  /\ target' \in [Sources -> Targets]
  /\ \A r \in Sources \ {s} : target'[r] = target[r]

SameRefs(s)  == /\ target'[s].mem = target[s].mem
                /\ target'[s].refcount = target[s].refcount
SameEnds(s)  == /\ target'[s].rend = target[s].rend
                /\ target'[s].wthreadIsRunning = target[s].wthreadIsRunning
SameSizes(s) == /\ target'[s].bytesWritten = target[s].bytesWritten
                /\ target'[s].totalSize = target[s].totalSize
                /\ target'[s].report = target[s].report
SameFill(s)  == /\ target'[s].fill = target[s].fill
                /\ target'[s].fifoSize = target[s].fifoSize
SameTarget(s) == SameRefs(s) /\ SameEnds(s) /\ SameSizes(s) /\ SameFill(s)

\* Steps which do not change the target.
LEMMA Unchanged ==
  ASSUME Typed, NEW s \in Sources, NEW a, NEW h, UNCHANGED target,
         app' = [app EXCEPT ![s] = a], thr' = [thr EXCEPT ![s] = h]
  PROVE  Moves(s, a, h) /\ SameTarget(s)
  BY DEF Typed, Moves, SameTarget, SameRefs, SameEnds, SameSizes, SameFill

LEMMA RefcountEffect ==
  ASSUME Typed, NEW s \in Sources, NEW a, NEW h, NEW n \in Nat,
         app' = [app EXCEPT ![s] = a], thr' = [thr EXCEPT ![s] = h],
         target' = [target EXCEPT ![s].refcount = n]
  PROVE  /\ Moves(s, a, h) /\ SameEnds(s) /\ SameSizes(s) /\ SameFill(s)
         /\ target'[s].refcount = n /\ target'[s].mem = target[s].mem
<1>1. PICK t \in Targets : t = target[s]
  BY DEF Typed
<1>2. PICK u : u = [t EXCEPT !.refcount = n]
  OBVIOUS
<1>3. /\ u \in Targets /\ u.refcount = n /\ u.mem = t.mem /\ u.rend = t.rend
     /\ u.wthreadIsRunning = t.wthreadIsRunning /\ u.bytesWritten = t.bytesWritten
     /\ u.totalSize = t.totalSize /\ u.report = t.report /\ u.fill = t.fill
     /\ u.fifoSize = t.fifoSize
  BY <1>2 DEF Targets
<1>4. target' = [target EXCEPT ![s] = u]
  BY <1>1, <1>2
<1>5. Moves(s, a, h) /\ target'[s] = u
  BY <1>3, <1>4 DEF Typed, Moves
<1> QED  BY <1>1, <1>3, <1>5 DEF SameEnds, SameSizes, SameFill

LEMMA TotalEffect ==
  ASSUME Typed, NEW s \in Sources, NEW a, NEW h, NEW n \in Nat,
         app' = [app EXCEPT ![s] = a], thr' = [thr EXCEPT ![s] = h],
         target' = [target EXCEPT ![s].totalSize = n]
  PROVE  /\ Moves(s, a, h) /\ SameRefs(s) /\ SameEnds(s) /\ SameFill(s)
         /\ target'[s].totalSize = n
         /\ target'[s].bytesWritten = target[s].bytesWritten
         /\ target'[s].report = target[s].report
<1>1. PICK t \in Targets : t = target[s]
  BY DEF Typed
<1>2. PICK u : u = [t EXCEPT !.totalSize = n]
  OBVIOUS
<1>3. /\ u \in Targets /\ u.totalSize = n /\ u.mem = t.mem /\ u.refcount = t.refcount
     /\ u.rend = t.rend /\ u.wthreadIsRunning = t.wthreadIsRunning
     /\ u.bytesWritten = t.bytesWritten /\ u.report = t.report /\ u.fill = t.fill
     /\ u.fifoSize = t.fifoSize
  BY <1>2 DEF Targets
<1>4. target' = [target EXCEPT ![s] = u]
  BY <1>1, <1>2
<1>5. Moves(s, a, h) /\ target'[s] = u
  BY <1>3, <1>4 DEF Typed, Moves
<1> QED  BY <1>1, <1>3, <1>5 DEF SameRefs, SameEnds, SameFill

LEMMA BytesEffect ==
  ASSUME Typed, NEW s \in Sources, NEW a, NEW h, NEW n \in Nat,
         app' = [app EXCEPT ![s] = a], thr' = [thr EXCEPT ![s] = h],
         target' = [target EXCEPT ![s].bytesWritten = n]
  PROVE  /\ Moves(s, a, h) /\ SameRefs(s) /\ SameEnds(s) /\ SameFill(s)
         /\ target'[s].bytesWritten = n /\ target'[s].totalSize = target[s].totalSize
         /\ target'[s].report = target[s].report
<1>1. PICK t \in Targets : t = target[s]
  BY DEF Typed
<1>2. PICK u : u = [t EXCEPT !.bytesWritten = n]
  OBVIOUS
<1>3. /\ u \in Targets /\ u.bytesWritten = n /\ u.mem = t.mem /\ u.refcount = t.refcount
     /\ u.rend = t.rend /\ u.wthreadIsRunning = t.wthreadIsRunning
     /\ u.totalSize = t.totalSize /\ u.report = t.report /\ u.fill = t.fill
     /\ u.fifoSize = t.fifoSize
  BY <1>2 DEF Targets
<1>4. target' = [target EXCEPT ![s] = u]
  BY <1>1, <1>2
<1>5. Moves(s, a, h) /\ target'[s] = u
  BY <1>3, <1>4 DEF Typed, Moves
<1> QED  BY <1>1, <1>3, <1>5 DEF SameRefs, SameEnds, SameFill

LEMMA FillEffect ==
  ASSUME Typed, NEW s \in Sources, NEW a, NEW h, NEW n \in Nat,
         app' = [app EXCEPT ![s] = a], thr' = [thr EXCEPT ![s] = h],
         target' = [target EXCEPT ![s].fill = n]
  PROVE  /\ Moves(s, a, h) /\ SameRefs(s) /\ SameEnds(s) /\ SameSizes(s)
         /\ target'[s].fill = n /\ target'[s].fifoSize = target[s].fifoSize
<1>1. PICK t \in Targets : t = target[s]
  BY DEF Typed
<1>2. PICK u : u = [t EXCEPT !.fill = n]
  OBVIOUS
<1>3. /\ u \in Targets /\ u.fill = n /\ u.mem = t.mem /\ u.refcount = t.refcount
     /\ u.rend = t.rend /\ u.wthreadIsRunning = t.wthreadIsRunning
     /\ u.bytesWritten = t.bytesWritten /\ u.totalSize = t.totalSize
     /\ u.report = t.report /\ u.fifoSize = t.fifoSize
  BY <1>2 DEF Targets
<1>4. target' = [target EXCEPT ![s] = u]
  BY <1>1, <1>2
<1>5. Moves(s, a, h) /\ target'[s] = u
  BY <1>3, <1>4 DEF Typed, Moves
<1> QED  BY <1>1, <1>3, <1>5 DEF SameRefs, SameEnds, SameSizes

LEMMA ReportEffect ==
  ASSUME Typed, NEW s \in Sources, NEW a, NEW h, NEW n \in {"none", "ISO overwrite", "damaged"},
         app' = [app EXCEPT ![s] = a], thr' = [thr EXCEPT ![s] = h],
         target' = [target EXCEPT ![s].report = n]
  PROVE  /\ Moves(s, a, h) /\ SameRefs(s) /\ SameEnds(s) /\ SameFill(s)
         /\ target'[s].report = n /\ target'[s].bytesWritten = target[s].bytesWritten
         /\ target'[s].totalSize = target[s].totalSize
<1>1. PICK t \in Targets : t = target[s]
  BY DEF Typed
<1>2. PICK u : u = [t EXCEPT !.report = n]
  OBVIOUS
<1>3. /\ u \in Targets /\ u.report = n /\ u.mem = t.mem /\ u.refcount = t.refcount
     /\ u.rend = t.rend /\ u.wthreadIsRunning = t.wthreadIsRunning
     /\ u.bytesWritten = t.bytesWritten /\ u.totalSize = t.totalSize /\ u.fill = t.fill
     /\ u.fifoSize = t.fifoSize
  BY <1>2 DEF Targets
<1>4. target' = [target EXCEPT ![s] = u]
  BY <1>1, <1>2
<1>5. Moves(s, a, h) /\ target'[s] = u
  BY <1>3, <1>4 DEF Typed, Moves
<1> QED  BY <1>1, <1>3, <1>5 DEF SameRefs, SameEnds, SameFill

LEMMA WendEffect ==
  ASSUME Typed, NEW s \in Sources, NEW a, NEW h, NEW n \in {0, 1, 2},
         app' = [app EXCEPT ![s] = a], thr' = [thr EXCEPT ![s] = h],
         target' = [target EXCEPT ![s].wend = n]
  PROVE  /\ Moves(s, a, h) /\ SameRefs(s) /\ SameEnds(s) /\ SameSizes(s) /\ SameFill(s)
<1>1. PICK t \in Targets : t = target[s]
  BY DEF Typed
<1>2. PICK u : u = [t EXCEPT !.wend = n]
  OBVIOUS
<1> n \in 0 .. 2
  OBVIOUS
<1>3. /\ u \in Targets /\ u.mem = t.mem /\ u.refcount = t.refcount /\ u.rend = t.rend
     /\ u.wthreadIsRunning = t.wthreadIsRunning /\ u.bytesWritten = t.bytesWritten
     /\ u.totalSize = t.totalSize /\ u.report = t.report /\ u.fill = t.fill
     /\ u.fifoSize = t.fifoSize
  BY <1>2 DEF Targets
<1>4. target' = [target EXCEPT ![s] = u]
  BY <1>1, <1>2
<1>5. Moves(s, a, h) /\ target'[s] = u
  BY <1>3, <1>4 DEF Typed, Moves
<1> QED  BY <1>1, <1>3, <1>5 DEF SameRefs, SameEnds, SameSizes, SameFill

LEMMA RendEffect ==
  ASSUME Typed, NEW s \in Sources, NEW a, NEW h, NEW n \in {0, 1, 2},
         app' = [app EXCEPT ![s] = a], thr' = [thr EXCEPT ![s] = h],
         target' = [target EXCEPT ![s].rend = n]
  PROVE  /\ Moves(s, a, h) /\ SameRefs(s) /\ SameSizes(s) /\ SameFill(s)
         /\ target'[s].rend = n
         /\ target'[s].wthreadIsRunning = target[s].wthreadIsRunning
<1>1. PICK t \in Targets : t = target[s]
  BY DEF Typed
<1>2. PICK u : u = [t EXCEPT !.rend = n]
  OBVIOUS
<1> n \in 0 .. 2
  OBVIOUS
<1>3. /\ u \in Targets /\ u.rend = n /\ u.mem = t.mem /\ u.refcount = t.refcount
     /\ u.wthreadIsRunning = t.wthreadIsRunning /\ u.bytesWritten = t.bytesWritten
     /\ u.totalSize = t.totalSize /\ u.report = t.report /\ u.fill = t.fill
     /\ u.fifoSize = t.fifoSize
  BY <1>2 DEF Targets
<1>4. target' = [target EXCEPT ![s] = u]
  BY <1>1, <1>2
<1>5. Moves(s, a, h) /\ target'[s] = u
  BY <1>3, <1>4 DEF Typed, Moves
<1> QED  BY <1>1, <1>3, <1>5 DEF SameRefs, SameSizes, SameFill

LEMMA RunningEffect ==
  ASSUME Typed, NEW s \in Sources, NEW a, NEW h, NEW n \in BOOLEAN,
         app' = [app EXCEPT ![s] = a], thr' = [thr EXCEPT ![s] = h],
         target' = [target EXCEPT ![s].wthreadIsRunning = n]
  PROVE  /\ Moves(s, a, h) /\ SameRefs(s) /\ SameSizes(s) /\ SameFill(s)
         /\ target'[s].wthreadIsRunning = n /\ target'[s].rend = target[s].rend
<1>1. PICK t \in Targets : t = target[s]
  BY DEF Typed
<1>2. PICK u : u = [t EXCEPT !.wthreadIsRunning = n]
  OBVIOUS
<1>3. /\ u \in Targets /\ u.wthreadIsRunning = n /\ u.mem = t.mem
     /\ u.refcount = t.refcount /\ u.rend = t.rend /\ u.bytesWritten = t.bytesWritten
     /\ u.totalSize = t.totalSize /\ u.report = t.report /\ u.fill = t.fill
     /\ u.fifoSize = t.fifoSize
  BY <1>2 DEF Targets
<1>4. target' = [target EXCEPT ![s] = u]
  BY <1>1, <1>2
<1>5. Moves(s, a, h) /\ target'[s] = u
  BY <1>3, <1>4 DEF Typed, Moves
<1> QED  BY <1>1, <1>3, <1>5 DEF SameRefs, SameSizes, SameFill

LEMMA WriteEffect ==
  ASSUME Typed, NEW s \in Sources, UNCHANGED <<app, thr>>,
         target' = [target EXCEPT ![s].fill = @ + 1, ![s].bytesWritten = @ + 1]
  PROVE  /\ Moves(s, app[s], thr[s]) /\ SameRefs(s) /\ SameEnds(s)
         /\ target'[s].fill = target[s].fill + 1
         /\ target'[s].fifoSize = target[s].fifoSize
         /\ target'[s].bytesWritten = target[s].bytesWritten + 1
         /\ target'[s].totalSize = target[s].totalSize
         /\ target'[s].report = target[s].report
<1>1. PICK f \in [Sources -> Targets] : f = target
  BY DEF Typed
<1>2. PICK g : g = target'
  OBVIOUS
<1>3. PICK t \in Targets : t = f[s]
  OBVIOUS
<1>4. PICK m \in Nat, n \in Nat : m = t.fill + 1 /\ n = t.bytesWritten + 1
  <2>1. t.fill \in Nat /\ t.bytesWritten \in Nat
    BY DEF Targets
  <2> QED  BY <2>1
<1>5. PICK u : u = [t EXCEPT !.fill = m, !.bytesWritten = n]
  OBVIOUS
<1>6. /\ u \in Targets /\ u.fill = m /\ u.bytesWritten = n
      /\ u.mem = t.mem /\ u.refcount = t.refcount
      /\ u.rend = t.rend /\ u.wthreadIsRunning = t.wthreadIsRunning
      /\ u.fifoSize = t.fifoSize /\ u.totalSize = t.totalSize /\ u.report = t.report
  BY <1>5 DEF Targets
<1>7. g = [f EXCEPT ![s] = u]
  BY <1>1, <1>2, <1>3, <1>4, <1>5 DEF Targets
<1>8. /\ g \in [Sources -> Targets] /\ g[s] = u
      /\ \A r \in Sources \ {s} : g[r] = f[r]
  BY <1>6, <1>7
<1> QED
  BY <1>1, <1>2, <1>3, <1>4, <1>6, <1>8 DEF Typed, Moves, SameRefs, SameEnds

\* A new target.
LEMMA NewEffect ==
  ASSUME Typed, NEW s \in Sources, NEW opts \in Options, ImageNew(s, opts)
  PROVE  /\ Moves(s, "new", thr[s]) /\ target'[s].mem = "live" /\ target'[s].refcount = 1
         /\ target'[s].rend = 0 /\ target'[s].report = "none" /\ target'[s].fill = 0
<1>1. PICK o \in [fifoSize : Nat, overwrite : BOOLEAN, willCancel : BOOLEAN] : o = opts
  BY BlockAssumption
<1>2. PICK u : u = [NoTarget("live") EXCEPT !.refcount = 1, !.fifoSize = o.fifoSize,
                      !.overwrite = o.overwrite, !.willCancel = o.willCancel]
  OBVIOUS
<1>3. /\ u \in Targets /\ u.mem = "live" /\ u.refcount = 1
      /\ u.rend = 0 /\ u.report = "none" /\ u.fill = 0
  <2>1. u = [mem |-> "live", refcount |-> 1, wthreadIsRunning |-> FALSE,
             fifoSize |-> o.fifoSize, overwrite |-> o.overwrite,
             willCancel |-> o.willCancel, fill |-> 0, wend |-> 0, rend |-> 0,
             bytesWritten |-> 0, totalSize |-> 0, report |-> "none"]
    BY <1>2 DEF NoTarget
  <2> QED  BY <2>1 DEF Targets
<1>4. target' = [target EXCEPT ![s] = u] /\ app' = [app EXCEPT ![s] = "new"] /\ thr' = thr
  BY <1>1, <1>2 DEF ImageNew, App
<1>5. target' \in [Sources -> Targets] /\ target'[s] = u
      /\ \A r \in Sources \ {s} : target'[r] = target[r]
  BY <1>3, <1>4 DEF Typed
<1> QED  BY <1>3, <1>4, <1>5 DEF Typed, Moves

\* ecma119_image_free() with further references, and with the last one.
LEMMA FreeEffect ==
  ASSUME Typed, NEW s \in Sources, NEW a, NEW h, ImageFree(s),
         app' = [app EXCEPT ![s] = a], thr' = [thr EXCEPT ![s] = h]
  PROVE  /\ Moves(s, a, h)
         /\ target[s].refcount > 1 =>
              /\ target'[s].mem = target[s].mem
              /\ target'[s].refcount = target[s].refcount - 1
              /\ SameEnds(s) /\ SameSizes(s) /\ SameFill(s)
              /\ imageRefs' = imageRefs
         /\ ~(target[s].refcount > 1) =>
              /\ target'[s].mem = "freed" /\ target'[s].refcount = 0
              /\ target'[s].report = "none" /\ target'[s].fill = 0
              /\ imageRefs' = imageRefs - 1
<1>1. CASE target[s].refcount > 1
  <2>1. PICK n \in Nat : n = target[s].refcount - 1
    <3>1. target[s].refcount \in Nat
      BY DEF Typed, Targets
    <3> QED  BY <1>1, <3>1
  <2>2. target' = [target EXCEPT ![s].refcount = n] /\ imageRefs' = imageRefs
    BY <1>1, <2>1 DEF ImageFree
  <2>3. /\ Moves(s, a, h) /\ SameEnds(s) /\ SameSizes(s) /\ SameFill(s)
        /\ target'[s].refcount = n /\ target'[s].mem = target[s].mem
    BY <2>2, RefcountEffect
  <2> QED  BY <1>1, <2>1, <2>2, <2>3
<1>2. CASE ~(target[s].refcount > 1)
  <2>1. PICK u : u = NoTarget("freed")
    OBVIOUS
  <2>2. u \in Targets /\ u.mem = "freed" /\ u.refcount = 0 /\ u.report = "none" /\ u.fill = 0
    BY <2>1 DEF NoTarget, Targets
  <2>3. target' = [target EXCEPT ![s] = u] /\ imageRefs' = imageRefs - 1
    BY <1>2, <2>1 DEF ImageFree
  <2>4. Moves(s, a, h) /\ target'[s] = u
    BY <2>2, <2>3 DEF Typed, Moves
  <2> QED  BY <1>2, <2>2, <2>3, <2>4
<1> QED  BY <1>1, <1>2

-----------------------------------------------------------------------------
(* Every action keeps what holds of its source.                            *)

SourceInv(s) == Counted(s) /\ Joinable(s) /\ target[s].fill =< Cap(s)
SizeKept(s)  == FixedSizes \subseteq {ImageBlocks} /\ Predicted(s) => Predicted(s)'

\* The result of a step: the source keeps its invariant, and the image counts
\* one target more or less if one was made or freed.
Result(s) ==
  /\ \E a, h : Moves(s, a, h)
  /\ SourceInv(s)' /\ SizeKept(s)
  /\ imageRefs' = imageRefs + (IF target'[s].mem = "live" THEN 1 ELSE 0)
                            - (IF target[s].mem = "live" THEN 1 ELSE 0)

LEMMA MovedSteps ==
  ASSUME Typed, NEW s \in Sources, NEW a, NEW h, Moves(s, a, h)
  PROVE  app'[s] = a /\ thr'[s] = h
  BY DEF Moves, Typed

LEMMA StateTypes ==
  ASSUME Typed, NEW s \in Sources
  PROVE  /\ target[s].refcount \in Nat /\ target[s].fill \in Nat /\ target[s].rend \in 0 .. 2
         /\ target[s].bytesWritten \in Nat /\ target[s].totalSize \in Nat
         /\ target[s].fifoSize \in Nat /\ imageRefs \in Int
  BY DEF Typed, Targets

LEMMA CreateKeeps ==
  ASSUME Typed, NEW s \in Sources, SourceInv(s), Create(s)
  PROVE  Result(s)
<1> USE BlockAssumption
<1> USE DEF Result, SourceInv, SizeKept, Counted, Joinable, Predicted, Cap,
        ProgramHolds, ThreadWorks, Creating, Preparing, SameTarget, SameRefs, SameEnds, SameSizes, SameFill
<1>0. /\ target[s].refcount \in Nat /\ target[s].fill \in Nat /\ target[s].rend \in 0 .. 2
      /\ target[s].bytesWritten \in Nat /\ target[s].totalSize \in Nat
      /\ target[s].fifoSize \in Nat /\ imageRefs \in Int
  BY StateTypes
<1>1. ASSUME NEW opts \in Options, ImageNew(s, opts) PROVE Result(s)
  <2>1. /\ Moves(s, "new", thr[s]) /\ target'[s].mem = "live" /\ target'[s].refcount = 1
        /\ target'[s].rend = 0 /\ target'[s].report = "none" /\ target'[s].fill = 0
    BY <1>1, NewEffect
  <2>2. app[s] = "none" /\ app'[s] = "new" /\ thr'[s] = thr[s] /\ imageRefs' = imageRefs + 1
    BY <1>1, <2>1, MovedSteps DEF ImageNew, App
  <2>3. target'[s].fifoSize \in Nat
    BY <2>1 DEF Moves, Targets
  <2> QED  BY <1>0, <2>1, <2>2, <2>3
<1>2. CASE CreateWriters(s)
  <2>1. app[s] = "new" /\ imageRefs' = imageRefs
    BY <1>2 DEF CreateWriters, App, Thr, image
  <2>2. /\ app' = [app EXCEPT ![s] = "writers"] /\ thr' = [thr EXCEPT ![s] = thr[s]]
        /\ UNCHANGED target
    BY <1>2 DEF CreateWriters, App, Thr, Typed
  <2>3. Moves(s, "writers", thr[s]) /\ SameTarget(s)
    BY <2>2, Unchanged
  <2>4. app'[s] = "writers" /\ thr'[s] = thr[s]
    BY <2>3, MovedSteps
  <2> QED  BY <1>0, <2>1, <2>3, <2>4
<1>3. CASE ComputeSize(s)
  <2>1. app[s] = "writers" /\ imageRefs' = imageRefs
    BY <1>3 DEF ComputeSize, App, Thr, image
  <2>2. /\ app' = [app EXCEPT ![s] = "layout"] /\ thr' = [thr EXCEPT ![s] = thr[s]]
        /\ target' = [target EXCEPT ![s].totalSize = ImageBlocks]
    BY <1>3 DEF ComputeSize, App, Thr, Typed
  <2>3. /\ Moves(s, "layout", thr[s]) /\ SameRefs(s) /\ SameEnds(s) /\ SameFill(s)
        /\ target'[s].totalSize = ImageBlocks
        /\ target'[s].bytesWritten = target[s].bytesWritten
        /\ target'[s].report = target[s].report
    BY BlockAssumption, <2>2, TotalEffect
  <2>4. app'[s] = "layout" /\ thr'[s] = thr[s]
    BY <2>3, MovedSteps
  <2> QED  BY <1>0, <2>1, <2>3, <2>4
<1>4. CASE CreateRing(s)
  <2>0. PICK a \in {"head1", "start"} :
          app' = [app EXCEPT ![s] = a] /\ thr' = [thr EXCEPT ![s] = thr[s]]
    BY <1>4 DEF CreateRing, App, Typed
  <2>1. app[s] = "layout" /\ imageRefs' = imageRefs /\ UNCHANGED target
    BY <1>4 DEF CreateRing, App, image
  <2>2. Moves(s, a, thr[s]) /\ SameTarget(s)
    BY <2>0, <2>1, Unchanged
  <2>3. app'[s] = a /\ thr'[s] = thr[s]
    BY <2>2, MovedSteps
  <2> QED  BY <1>0, <2>0, <2>1, <2>2, <2>3
<1>5. CASE WriteHead(s)
  <2>1. /\ app[s] \in {"head1", "head2"} /\ target[s].fill < Cap(s)
        /\ imageRefs' = imageRefs
    BY <1>0, <1>5 DEF WriteHead, image, Head
  <2>2. /\ UNCHANGED <<app, thr>>
        /\ target' = [target EXCEPT ![s].fill = @ + 1, ![s].bytesWritten = @ + 1]
    BY <1>5 DEF WriteHead
  <2>3. /\ Moves(s, app[s], thr[s]) /\ SameRefs(s) /\ SameEnds(s)
        /\ target'[s].fill = target[s].fill + 1
        /\ target'[s].fifoSize = target[s].fifoSize
        /\ target'[s].bytesWritten = target[s].bytesWritten + 1
        /\ target'[s].totalSize = target[s].totalSize
        /\ target'[s].report = target[s].report
    BY <2>2, WriteEffect
  <2>4. app'[s] = app[s] /\ thr'[s] = thr[s]
    BY <2>3, MovedSteps
  <2> QED  BY <1>0, <2>1, <2>3, <2>4
<1>6. CASE ReadHead(s)
  <2>0. PICK a \in {"head2", "start"} :
          app' = [app EXCEPT ![s] = a] /\ thr' = [thr EXCEPT ![s] = thr[s]]
    BY <1>6 DEF ReadHead, App, Typed
  <2>1. /\ app[s] \in {"head1", "head2"} /\ imageRefs' = imageRefs
        /\ target' = [target EXCEPT ![s].fill = 0]
    BY <1>6 DEF ReadHead, App, image
  <2>2. /\ Moves(s, a, thr[s]) /\ SameRefs(s) /\ SameEnds(s) /\ SameSizes(s)
        /\ target'[s].fill = 0 /\ target'[s].fifoSize = target[s].fifoSize
    BY <2>0, <2>1, FillEffect
  <2>3. app'[s] = a /\ thr'[s] = thr[s]
    BY <2>2, MovedSteps
  <2> QED  BY <1>0, <2>0, <2>1, <2>2, <2>3
<1>7. CASE CreateWillCancel(s)
  <2>1. app[s] = "start" /\ imageRefs' = imageRefs
    BY <1>7 DEF CreateWillCancel, App, Thr, image
  <2>2. /\ app' = [app EXCEPT ![s] = "open"] /\ thr' = [thr EXCEPT ![s] = thr[s]]
        /\ UNCHANGED target
    BY <1>7 DEF CreateWillCancel, App, Thr, Typed
  <2>3. Moves(s, "open", thr[s]) /\ SameTarget(s)
    BY <2>2, Unchanged
  <2>4. app'[s] = "open" /\ thr'[s] = thr[s]
    BY <2>3, MovedSteps
  <2> QED  BY <1>0, <2>1, <2>3, <2>4
<1>8. CASE CreateThread(s)
  <2>0. PICK n \in Nat : n = target[s].refcount + 1
    BY <1>0, <1>8 DEF CreateThread
  <2>1. app[s] = "start" /\ thr[s] = "none" /\ imageRefs' = imageRefs
    BY <1>8 DEF CreateThread, App, Thr, image
  <2>2. /\ app' = [app EXCEPT ![s] = "mark"] /\ thr' = [thr EXCEPT ![s] = "begin"]
        /\ target' = [target EXCEPT ![s].refcount = n]
    BY <1>8, <2>0 DEF CreateThread, App, Thr, Typed
  <2>3. /\ Moves(s, "mark", "begin") /\ SameEnds(s) /\ SameSizes(s) /\ SameFill(s)
        /\ target'[s].refcount = n /\ target'[s].mem = target[s].mem
    <3> HIDE DEF SameRefs, SameEnds, SameSizes, SameFill
    <3>1. Typed
      OBVIOUS
    <3> QED  BY <2>2, <2>0, RefcountEffect, <3>1
  <2>4. app'[s] = "mark" /\ thr'[s] = "begin"
    BY <2>3, MovedSteps
  <2> QED  BY <1>0, <2>1, <2>3, <2>4, <2>0
<1>9. CASE MarkThread(s)
  <2>1. app[s] = "mark" /\ imageRefs' = imageRefs
    BY <1>9 DEF MarkThread, App, Thr, image
  <2>2. /\ app' = [app EXCEPT ![s] = "open"] /\ thr' = [thr EXCEPT ![s] = thr[s]]
        /\ target' = [target EXCEPT ![s].wthreadIsRunning = TRUE]
    BY <1>9 DEF MarkThread, App, Thr, Typed
  <2>3. /\ Moves(s, "open", thr[s]) /\ SameRefs(s) /\ SameSizes(s) /\ SameFill(s)
        /\ target'[s].wthreadIsRunning = TRUE /\ target'[s].rend = target[s].rend
    BY <2>2, RunningEffect
  <2>4. app'[s] = "open" /\ thr'[s] = thr[s]
    BY <2>3, MovedSteps
  <2> QED  BY <1>0, <2>1, <2>3, <2>4
<1>10. CASE TargetCleanup(s)
  <2>1. app[s] \in Preparing
    BY <1>10 DEF TargetCleanup, App, Thr, image
  <2>2. app' = [app EXCEPT ![s] = "gone"] /\ thr' = [thr EXCEPT ![s] = thr[s]]
        /\ ImageFree(s)
    BY <1>10 DEF TargetCleanup, App, Thr, Typed
  <2>3. /\ Moves(s, "gone", thr[s])
        /\ target[s].refcount > 1 =>
             /\ target'[s].mem = target[s].mem
             /\ target'[s].refcount = target[s].refcount - 1
             /\ SameEnds(s) /\ SameSizes(s) /\ SameFill(s)
             /\ imageRefs' = imageRefs
        /\ ~(target[s].refcount > 1) =>
             /\ target'[s].mem = "freed" /\ target'[s].refcount = 0
             /\ target'[s].report = "none" /\ target'[s].fill = 0
             /\ imageRefs' = imageRefs - 1
    BY <2>2, FreeEffect
  <2>4. app'[s] = "gone" /\ thr'[s] = thr[s] /\ target'[s].fifoSize \in Nat
    BY <2>3, MovedSteps DEF Moves, Targets
  <2> QED  BY <1>0, <2>1, <2>3, <2>4
<1> QED
  BY <1>1, <1>2, <1>3, <1>4, <1>5, <1>6, <1>7, <1>8, <1>9, <1>10 DEF Create

LEMMA GenerateKeeps ==
  ASSUME Typed, NEW s \in Sources, SourceInv(s), Generate(s)
  PROVE  Result(s)
<1> USE BlockAssumption
<1> USE DEF Result, SourceInv, SizeKept, Counted, Joinable, Predicted, Cap,
        ProgramHolds, ThreadWorks, Creating, Preparing, SameTarget, SameRefs, SameEnds, SameSizes, SameFill
<1>0. /\ target[s].refcount \in Nat /\ target[s].fill \in Nat /\ target[s].rend \in 0 .. 2
      /\ target[s].bytesWritten \in Nat /\ target[s].totalSize \in Nat
      /\ target[s].fifoSize \in Nat /\ imageRefs \in Int
  BY StateTypes
<1>1. CASE Begin(s)
  <2>1. thr[s] = "begin" /\ imageRefs' = imageRefs
    BY <1>1 DEF Begin, App, Thr, image
  <2>2. /\ app' = [app EXCEPT ![s] = app[s]] /\ thr' = [thr EXCEPT ![s] = "write"]
        /\ target' = [target EXCEPT ![s].bytesWritten = 0]
    BY <1>1 DEF Begin, App, Thr, Typed
  <2>3. /\ Moves(s, app[s], "write") /\ SameRefs(s) /\ SameEnds(s) /\ SameFill(s)
        /\ target'[s].bytesWritten = 0 /\ target'[s].totalSize = target[s].totalSize
        /\ target'[s].report = target[s].report
    BY <2>2, BytesEffect
  <2>4. app'[s] = app[s] /\ thr'[s] = "write"
    BY <2>3, MovedSteps
  <2> QED  BY <1>0, <2>1, <2>3, <2>4
<1>2. CASE WriteBlock(s)
  <2>1. /\ thr[s] = "write" /\ target[s].fill < Cap(s)
        /\ target[s].bytesWritten < ImageBlocks /\ imageRefs' = imageRefs
    BY <1>2 DEF WriteBlock, image, Pending, Beyond
  <2>2. /\ UNCHANGED <<app, thr>>
        /\ target' = [target EXCEPT ![s].fill = @ + 1, ![s].bytesWritten = @ + 1]
    BY <1>2 DEF WriteBlock
  <2>3. /\ Moves(s, app[s], thr[s]) /\ SameRefs(s) /\ SameEnds(s)
        /\ target'[s].fill = target[s].fill + 1
        /\ target'[s].fifoSize = target[s].fifoSize
        /\ target'[s].bytesWritten = target[s].bytesWritten + 1
        /\ target'[s].totalSize = target[s].totalSize
        /\ target'[s].report = target[s].report
    BY <2>2, WriteEffect
  <2>4. app'[s] = app[s] /\ thr'[s] = thr[s]
    BY <2>3, MovedSteps
  <2> QED  BY <1>0, <2>1, <2>3, <2>4
<1>3. CASE WriteCanceled(s)
  <2>1. thr[s] = "write" /\ imageRefs' = imageRefs
    BY <1>3 DEF WriteCanceled, App, Thr, image
  <2>2. /\ app' = [app EXCEPT ![s] = app[s]] /\ thr' = [thr EXCEPT ![s] = "error"]
        /\ UNCHANGED target
    BY <1>3 DEF WriteCanceled, App, Thr, Typed
  <2>3. Moves(s, app[s], "error") /\ SameTarget(s)
    BY <2>2, Unchanged
  <2>4. app'[s] = app[s] /\ thr'[s] = "error"
    BY <2>3, MovedSteps
  <2> QED  BY <1>0, <2>1, <2>3, <2>4
<1>4. CASE WriteFails(s)
  <2>0. PICK n : n \in {"none", "ISO overwrite", "damaged"}
          /\ n = IF Beyond(s) THEN "ISO overwrite" ELSE target[s].report
    BY <1>0, <1>4 DEF WriteFails, Typed, Targets
  <2>1. /\ thr[s] = "write" /\ target[s].bytesWritten < ImageBlocks
        /\ imageRefs' = imageRefs
    BY <1>4 DEF WriteFails, App, Thr, image, Pending
  <2>2. /\ app' = [app EXCEPT ![s] = app[s]] /\ thr' = [thr EXCEPT ![s] = "error"]
        /\ target' = [target EXCEPT ![s].report = n]
    BY <1>4, <2>0 DEF WriteFails, App, Thr, Typed
  <2>3. /\ Moves(s, app[s], "error") /\ SameRefs(s) /\ SameEnds(s) /\ SameFill(s)
        /\ target'[s].report = n /\ target'[s].bytesWritten = target[s].bytesWritten
        /\ target'[s].totalSize = target[s].totalSize
    BY <2>2, <2>0, ReportEffect
  <2>4. app'[s] = app[s] /\ thr'[s] = "error"
    BY <2>3, MovedSteps
  <2>5. app[s] \in {"mark", "open", "cancel", "free"}
    BY <2>1 DEF Typed
  <2>6. Predicted(s) => n = "none"
    <3>1. Predicted(s) => ~Beyond(s)
      BY <1>0, <2>1, <2>5 DEF Beyond
    <3> QED  BY <2>0, <3>1
  <2>7. SizeKept(s)
    BY <2>1, <2>3, <2>4, <2>6
  <2>8. SourceInv(s)'
    BY <1>0, <2>1, <2>3, <2>4, <2>5
  <2>9. imageRefs' = imageRefs /\ target'[s].mem = target[s].mem
    BY <2>1, <2>3
  <2> HIDE DEF SourceInv, SizeKept
  <2> QED  BY <1>0, <2>3, <2>7, <2>8, <2>9
<1>5. CASE Transplant(s)
  <2>1. /\ thr[s] = "write" /\ ~(target[s].bytesWritten < ImageBlocks)
        /\ imageRefs' = imageRefs
    BY <1>5 DEF Transplant, App, Thr, image, Pending
  <2>2. /\ app' = [app EXCEPT ![s] = app[s]] /\ thr' = [thr EXCEPT ![s] = "transplanted"]
        /\ UNCHANGED target
    BY <1>5 DEF Transplant, App, Thr, Typed
  <2>3. Moves(s, app[s], "transplanted") /\ SameTarget(s)
    BY <2>2, Unchanged
  <2>4. app'[s] = app[s] /\ thr'[s] = "transplanted"
    BY <2>3, MovedSteps
  <2> QED  BY <1>0, <2>1, <2>3, <2>4
<1>6. CASE WriterCloseOk(s)
  <2>1. thr[s] = "transplanted" /\ imageRefs' = imageRefs
    BY <1>6 DEF WriterCloseOk, App, Thr, image
  <2>2. /\ app' = [app EXCEPT ![s] = app[s]] /\ thr' = [thr EXCEPT ![s] = "closed"]
        /\ target' = [target EXCEPT ![s].wend = 1]
    BY <1>6 DEF WriterCloseOk, App, Thr, Typed
  <2>3. /\ Moves(s, app[s], "closed")
        /\ SameRefs(s) /\ SameEnds(s) /\ SameSizes(s) /\ SameFill(s)
    <3> HIDE DEF SameRefs, SameEnds, SameSizes, SameFill
    <3>1. Typed
      OBVIOUS
    <3> QED  BY <2>2, WendEffect, <3>1
  <2>4. app'[s] = app[s] /\ thr'[s] = "closed"
    BY <2>3, MovedSteps
  <2> QED  BY <1>0, <2>1, <2>3, <2>4
<1>7. CASE FinishOk(s)
  <2>1. thr[s] = "closed" /\ imageRefs' = imageRefs
    BY <1>7 DEF FinishOk, App, Thr, image
  <2>2. /\ app' = [app EXCEPT ![s] = app[s]] /\ thr' = [thr EXCEPT ![s] = "release"]
        /\ UNCHANGED target
    BY <1>7 DEF FinishOk, App, Thr, Typed
  <2>3. Moves(s, app[s], "release") /\ SameTarget(s)
    BY <2>2, Unchanged
  <2>4. app'[s] = app[s] /\ thr'[s] = "release"
    BY <2>3, MovedSteps
  <2> QED  BY <1>0, <2>1, <2>3, <2>4
<1>8. CASE FinishFails(s)
  <2>1. thr[s] = "closed" /\ imageRefs' = imageRefs
    BY <1>8 DEF FinishFails, App, Thr, image
  <2>2. /\ app' = [app EXCEPT ![s] = app[s]] /\ thr' = [thr EXCEPT ![s] = "error"]
        /\ UNCHANGED target
    BY <1>8 DEF FinishFails, App, Thr, Typed
  <2>3. Moves(s, app[s], "error") /\ SameTarget(s)
    BY <2>2, Unchanged
  <2>4. app'[s] = app[s] /\ thr'[s] = "error"
    BY <2>3, MovedSteps
  <2> QED  BY <1>0, <2>1, <2>3, <2>4
<1>9. CASE WriterCloseError(s)
  <2>1. thr[s] = "error" /\ imageRefs' = imageRefs
    BY <1>9 DEF WriterCloseError, App, Thr, image
  <2>2. /\ app' = [app EXCEPT ![s] = app[s]] /\ thr' = [thr EXCEPT ![s] = "restore"]
        /\ target' = [target EXCEPT ![s].wend = 2]
    BY <1>9 DEF WriterCloseError, App, Thr, Typed
  <2>3. /\ Moves(s, app[s], "restore")
        /\ SameRefs(s) /\ SameEnds(s) /\ SameSizes(s) /\ SameFill(s)
    <3> HIDE DEF SameRefs, SameEnds, SameSizes, SameFill
    <3>1. Typed
      OBVIOUS
    <3> QED  BY <2>2, WendEffect, <3>1
  <2>4. app'[s] = app[s] /\ thr'[s] = "restore"
    BY <2>3, MovedSteps
  <2> QED  BY <1>0, <2>1, <2>3, <2>4
<1>10. CASE RestoreNodes(s)
  <2>1. thr[s] = "restore" /\ imageRefs' = imageRefs
    BY <1>10 DEF RestoreNodes, App, Thr, image
  <2>2. /\ app' = [app EXCEPT ![s] = app[s]] /\ thr' = [thr EXCEPT ![s] = "releaseFailed"]
        /\ UNCHANGED target
    BY <1>10 DEF RestoreNodes, App, Thr, Typed
  <2>3. Moves(s, app[s], "releaseFailed") /\ SameTarget(s)
    BY <2>2, Unchanged
  <2>4. app'[s] = app[s] /\ thr'[s] = "releaseFailed"
    BY <2>3, MovedSteps
  <2> QED  BY <1>0, <2>1, <2>3, <2>4
<1>11. CASE Release(s)
  <2>0. PICK h \in {"verify", "exit"} :
          app' = [app EXCEPT ![s] = app[s]] /\ thr' = [thr EXCEPT ![s] = h]
    BY <1>11 DEF Release, Thr, Typed
  <2>1. thr[s] \in {"release", "releaseFailed"} /\ ImageFree(s)
        /\ (h = "verify" => thr[s] = "release")
    BY <1>11, <2>0 DEF Release, Thr, Typed
  <2>2. ProgramHolds(s) /\ target[s].refcount > 1
    BY <1>0, <2>1
  <2>3. /\ Moves(s, app[s], h)
        /\ target[s].refcount > 1 =>
             /\ target'[s].mem = target[s].mem
             /\ target'[s].refcount = target[s].refcount - 1
             /\ SameEnds(s) /\ SameSizes(s) /\ SameFill(s)
             /\ imageRefs' = imageRefs
        /\ ~(target[s].refcount > 1) =>
             /\ target'[s].mem = "freed" /\ target'[s].refcount = 0
             /\ target'[s].report = "none" /\ target'[s].fill = 0
             /\ imageRefs' = imageRefs - 1
    BY <2>0, <2>1, FreeEffect
  <2>4. app'[s] = app[s] /\ thr'[s] = h /\ target'[s].fifoSize \in Nat
    BY <2>3, MovedSteps DEF Moves, Targets
  <2> QED  BY <1>0, <2>0, <2>1, <2>2, <2>3, <2>4
<1>12. CASE VerifySize(s)
  <2>0. PICK n : n \in {"none", "ISO overwrite", "damaged"}
          /\ n = IF target[s].bytesWritten # target[s].totalSize THEN "damaged" ELSE target[s].report
    BY <1>0, <1>12 DEF VerifySize, Typed, Targets
  <2>1. thr[s] = "verify" /\ imageRefs' = imageRefs
    BY <1>12 DEF VerifySize, App, Thr, image
  <2>2. /\ app' = [app EXCEPT ![s] = app[s]] /\ thr' = [thr EXCEPT ![s] = "exit"]
        /\ target' = [target EXCEPT ![s].report = n]
    BY <1>12, <2>0 DEF VerifySize, App, Thr, Typed
  <2>3. /\ Moves(s, app[s], "exit") /\ SameRefs(s) /\ SameEnds(s) /\ SameFill(s)
        /\ target'[s].report = n /\ target'[s].bytesWritten = target[s].bytesWritten
        /\ target'[s].totalSize = target[s].totalSize
    BY <2>2, <2>0, ReportEffect
  <2>4. app'[s] = app[s] /\ thr'[s] = "exit"
    BY <2>3, MovedSteps
  <2>5. app[s] \in {"mark", "open", "cancel", "free"}
    BY <2>1 DEF Typed
  <2>6. Predicted(s) => n = "none"
    BY <1>0, <2>0, <2>1, <2>5
  <2>7. SizeKept(s)
    BY <2>1, <2>3, <2>4, <2>6
  <2>8. SourceInv(s)'
    BY <1>0, <2>1, <2>3, <2>4, <2>5
  <2>9. imageRefs' = imageRefs /\ target'[s].mem = target[s].mem
    BY <2>1, <2>3
  <2> HIDE DEF SourceInv, SizeKept
  <2> QED  BY <1>0, <2>3, <2>7, <2>8, <2>9
<1> QED
  BY <1>1, <1>2, <1>3, <1>4, <1>5, <1>6, <1>7, <1>8, <1>9, <1>10, <1>11, <1>12 DEF Generate

LEMMA ConsumeKeeps ==
  ASSUME Typed, NEW s \in Sources, SourceInv(s), Consume(s)
  PROVE  Result(s)
<1> USE BlockAssumption
<1> USE DEF Result, SourceInv, SizeKept, Counted, Joinable, Predicted, Cap,
        ProgramHolds, ThreadWorks, Creating, Preparing, SameTarget, SameRefs, SameEnds, SameSizes, SameFill
<1>0. /\ target[s].refcount \in Nat /\ target[s].fill \in Nat /\ target[s].rend \in 0 .. 2
      /\ target[s].bytesWritten \in Nat /\ target[s].totalSize \in Nat
      /\ target[s].fifoSize \in Nat /\ imageRefs \in Int
  BY StateTypes
<1>1. CASE BsRead(s)
  <2>0. PICK n \in Nat : n = target[s].fill - 1
    BY <1>0, <1>1 DEF BsRead
  <2>1. app[s] \in {"open", "cancel"} /\ imageRefs' = imageRefs
    BY <1>1 DEF BsRead, App, Thr, image
  <2>2. /\ app' = [app EXCEPT ![s] = app[s]] /\ thr' = [thr EXCEPT ![s] = thr[s]]
        /\ target' = [target EXCEPT ![s].fill = n]
    BY <1>1, <2>0 DEF BsRead, App, Thr, Typed
  <2>3. /\ Moves(s, app[s], thr[s]) /\ SameRefs(s) /\ SameEnds(s) /\ SameSizes(s)
        /\ target'[s].fill = n /\ target'[s].fifoSize = target[s].fifoSize
    BY ZenonT(30), <2>2, <2>0, FillEffect
  <2>4. app'[s] = app[s] /\ thr'[s] = thr[s]
    BY <2>3, MovedSteps
  <2> QED  BY <1>0, <2>1, <2>3, <2>4, <2>0
<1>2. ASSUME NEW size \in FixedSizes, BsSetSize(s, size) PROVE Result(s)
  <2>1. app[s] = "open" /\ size \in Nat /\ imageRefs' = imageRefs
    BY <1>2 DEF BsSetSize, App, Thr, image
  <2>2. /\ app' = [app EXCEPT ![s] = app[s]] /\ thr' = [thr EXCEPT ![s] = thr[s]]
        /\ target' = [target EXCEPT ![s].totalSize = size]
    BY <1>2 DEF BsSetSize, App, Thr, Typed
  <2>3. /\ Moves(s, app[s], thr[s]) /\ SameRefs(s) /\ SameEnds(s) /\ SameFill(s)
        /\ target'[s].totalSize = size
        /\ target'[s].bytesWritten = target[s].bytesWritten
        /\ target'[s].report = target[s].report
    BY <2>2, TotalEffect
  <2>4. app'[s] = app[s] /\ thr'[s] = thr[s]
    BY <2>3, MovedSteps
  <2> QED  BY <1>0, <2>1, <2>3, <2>4
<1>3. CASE BsCancel(s)
  <2>0. PICK n \in {0, 1, 2} : n = IF target[s].rend = 0 THEN IF /\ target[s].fill = 0 /\ target[s].rend = 0
                                                        /\ target[s].wend # 0 THEN 1 ELSE 2
                         ELSE target[s].rend
    BY <1>0, <1>3 DEF BsCancel
  <2>1. app[s] = "open" /\ imageRefs' = imageRefs
    BY <1>3 DEF BsCancel, App, Thr, image
  <2>2. /\ app' = [app EXCEPT ![s] = "cancel"] /\ thr' = [thr EXCEPT ![s] = thr[s]]
        /\ target' = [target EXCEPT ![s].rend = n]
    BY <1>3, <2>0 DEF BsCancel, App, Thr, Typed, ReaderClose
  <2>3. /\ Moves(s, "cancel", thr[s]) /\ SameRefs(s) /\ SameSizes(s) /\ SameFill(s)
        /\ target'[s].rend = n
        /\ target'[s].wthreadIsRunning = target[s].wthreadIsRunning
    BY ZenonT(30), <2>2, <2>0, RendEffect
  <2>4. app'[s] = "cancel" /\ thr'[s] = thr[s]
    BY <2>3, MovedSteps
  <2> QED  BY <1>0, <2>1, <2>3, <2>4, <2>0
<1>4. CASE BsCancelJoin(s)
  <2>1. /\ app[s] = "cancel" /\ (target[s].wthreadIsRunning => thr[s] = "exit")
        /\ imageRefs' = imageRefs
    BY <1>4 DEF BsCancelJoin, App, Thr, image, Joined
  <2>2. /\ app' = [app EXCEPT ![s] = "canceled"] /\ thr' = [thr EXCEPT ![s] = thr[s]]
        /\ target' = [target EXCEPT ![s].wthreadIsRunning = FALSE]
    BY <1>4 DEF BsCancelJoin, App, Thr, Typed
  <2>3. /\ Moves(s, "canceled", thr[s]) /\ SameRefs(s) /\ SameSizes(s) /\ SameFill(s)
        /\ target'[s].wthreadIsRunning = FALSE /\ target'[s].rend = target[s].rend
    BY <2>2, RunningEffect
  <2>4. app'[s] = "canceled" /\ thr'[s] = thr[s]
    BY <2>3, MovedSteps
  <2> QED  BY <1>0, <2>1, <2>3, <2>4
<1>5. CASE BsFreeData(s)
  <2>0. PICK a \in {"free", "drop"}, n \in {0, 1, 2} :
          /\ a = (IF target[s].rend = 0 THEN "free" ELSE "drop")
          /\ n = (IF target[s].rend = 0 THEN 1 ELSE target[s].rend)
    BY <1>0
  <2>1. app[s] \in {"open", "canceled"} /\ imageRefs' = imageRefs
    BY <1>5 DEF BsFreeData, image
  <2>2. /\ app' = [app EXCEPT ![s] = a] /\ thr' = [thr EXCEPT ![s] = thr[s]]
        /\ target' = [target EXCEPT ![s].rend = n]
    BY <1>5, <2>0 DEF BsFreeData, ReaderClose, Typed
  <2>3. /\ Moves(s, a, thr[s]) /\ SameRefs(s) /\ SameSizes(s) /\ SameFill(s)
        /\ target'[s].rend = n
        /\ target'[s].wthreadIsRunning = target[s].wthreadIsRunning
    <3> HIDE DEF SameRefs, SameEnds, SameSizes, SameFill
    <3>1. Typed
      OBVIOUS
    <3> QED  BY <2>0, <2>2, RendEffect, <3>1
  <2>4. app'[s] = a /\ thr'[s] = thr[s]
    BY <2>3, MovedSteps
  <2> QED  BY <1>0, <2>0, <2>1, <2>3, <2>4
<1>6. CASE BsFreeJoin(s)
  <2>1. /\ app[s] = "free" /\ (target[s].wthreadIsRunning => thr[s] = "exit")
        /\ imageRefs' = imageRefs
    BY <1>6 DEF BsFreeJoin, App, Thr, image, Joined
  <2>2. /\ app' = [app EXCEPT ![s] = "drop"] /\ thr' = [thr EXCEPT ![s] = thr[s]]
        /\ target' = [target EXCEPT ![s].wthreadIsRunning = FALSE]
    BY <1>6 DEF BsFreeJoin, App, Thr, Typed
  <2>3. /\ Moves(s, "drop", thr[s]) /\ SameRefs(s) /\ SameSizes(s) /\ SameFill(s)
        /\ target'[s].wthreadIsRunning = FALSE /\ target'[s].rend = target[s].rend
    BY <2>2, RunningEffect
  <2>4. app'[s] = "drop" /\ thr'[s] = thr[s]
    BY <2>3, MovedSteps
  <2> QED  BY <1>0, <2>1, <2>3, <2>4
<1>7. CASE BsFreeRelease(s)
  <2>1. app[s] = "drop"
    BY <1>7 DEF BsFreeRelease, App, Thr, image
  <2>2. app' = [app EXCEPT ![s] = "gone"] /\ thr' = [thr EXCEPT ![s] = thr[s]]
        /\ ImageFree(s)
    BY <1>7 DEF BsFreeRelease, App, Thr, Typed
  <2>3. /\ Moves(s, "gone", thr[s])
        /\ target[s].refcount > 1 =>
             /\ target'[s].mem = target[s].mem
             /\ target'[s].refcount = target[s].refcount - 1
             /\ SameEnds(s) /\ SameSizes(s) /\ SameFill(s)
             /\ imageRefs' = imageRefs
        /\ ~(target[s].refcount > 1) =>
             /\ target'[s].mem = "freed" /\ target'[s].refcount = 0
             /\ target'[s].report = "none" /\ target'[s].fill = 0
             /\ imageRefs' = imageRefs - 1
    BY <2>2, FreeEffect
  <2>4. app'[s] = "gone" /\ thr'[s] = thr[s] /\ target'[s].fifoSize \in Nat
    BY <2>3, MovedSteps DEF Moves, Targets
  <2> QED  BY <1>0, <2>1, <2>3, <2>4
<1> QED
  BY <1>1, <1>2, <1>3, <1>4, <1>5, <1>6, <1>7 DEF Consume

-----------------------------------------------------------------------------
(* Who is at work.                                                         *)

\* No generation and no creation is under way.
Fresh == ~genRunning /\ \A r \in Sources : app[r] \notin Creating

\* How a step at s may change who is at work.
Turn(s) ==
  /\ app'[s] \in Creating =>
       \/ app[s] \in Creating /\ (app'[s] \in Preparing => app[s] \in Preparing)
       \/ Fresh
  /\ thr'[s] \in OnNodes =>
       \/ thr[s] \in OnNodes /\ genRunning' = genRunning
       \/ app[s] \in Preparing /\ genRunning'
  /\ \/ genRunning' = genRunning
     \/ genRunning' /\ app[s] \in Preparing
     \/ thr'[s] \notin OnNodes /\ (app[s] \in Preparing \/ thr[s] \in OnNodes)
  /\ owned' = owned /\ genRunning' \in BOOLEAN
  /\ app' \in [Sources -> Creating \cup {"none", "open", "cancel", "canceled",
                                        "free", "drop", "gone"}]
  /\ thr' \in [Sources -> OnNodes \cup {"none", "release", "releaseFailed",
                                        "verify", "exit"}]

LEMMA CreateTurns ==
  ASSUME Typed, NEW s \in Sources, Joinable(s), Create(s)
  PROVE  Turn(s)
<1> USE DEF Turn, Typed, App, Thr, image, Creating, Preparing, OnNodes
<1>1. ASSUME NEW opts \in Options, ImageNew(s, opts) PROVE Turn(s)
  BY <1>1 DEF ImageNew, Fresh
<1>2. CASE CreateWriters(s)
  BY <1>2 DEF CreateWriters
<1>3. CASE ComputeSize(s)
  BY <1>3 DEF ComputeSize
<1>4. CASE CreateRing(s)
  BY <1>4 DEF CreateRing
<1>5. CASE WriteHead(s)
  BY <1>5 DEF WriteHead
<1>6. CASE ReadHead(s)
  BY <1>6 DEF ReadHead
<1>7. CASE CreateWillCancel(s)
  BY <1>7 DEF CreateWillCancel
<1>8. CASE CreateThread(s)
  BY <1>8 DEF CreateThread
<1>9. CASE MarkThread(s)
  BY <1>9 DEF MarkThread
<1>10. CASE TargetCleanup(s)
  BY <1>10 DEF TargetCleanup, Joinable
<1> QED
  BY <1>1, <1>2, <1>3, <1>4, <1>5, <1>6, <1>7, <1>8, <1>9, <1>10 DEF Create

LEMMA GenerateTurns ==
  ASSUME Typed, NEW s \in Sources, Generate(s)
  PROVE  Turn(s)
<1> USE DEF Turn, Typed, App, Thr, image, Creating, Preparing, OnNodes
<1>1. CASE Begin(s)
  BY <1>1 DEF Begin
<1>2. CASE WriteBlock(s)
  BY <1>2 DEF WriteBlock
<1>3. CASE WriteCanceled(s)
  BY <1>3 DEF WriteCanceled
<1>4. CASE WriteFails(s)
  BY <1>4 DEF WriteFails
<1>5. CASE Transplant(s)
  BY <1>5 DEF Transplant
<1>6. CASE WriterCloseOk(s)
  BY <1>6 DEF WriterCloseOk
<1>7. CASE FinishOk(s)
  BY <1>7 DEF FinishOk
<1>8. CASE FinishFails(s)
  BY <1>8 DEF FinishFails
<1>9. CASE WriterCloseError(s)
  BY <1>9 DEF WriterCloseError
<1>10. CASE RestoreNodes(s)
  BY <1>10 DEF RestoreNodes
<1>11. CASE Release(s)
  BY <1>11 DEF Release
<1>12. CASE VerifySize(s)
  BY <1>12 DEF VerifySize
<1> QED
  BY <1>1, <1>2, <1>3, <1>4, <1>5, <1>6, <1>7, <1>8, <1>9, <1>10, <1>11, <1>12 DEF Generate

LEMMA ConsumeTurns ==
  ASSUME Typed, NEW s \in Sources, Consume(s)
  PROVE  Turn(s)
<1> USE DEF Turn, Typed, App, Thr, image, Creating, Preparing, OnNodes
<1>1. CASE BsRead(s)
  BY <1>1 DEF BsRead
<1>2. ASSUME NEW size \in FixedSizes, BsSetSize(s, size) PROVE Turn(s)
  BY <1>2 DEF BsSetSize
<1>3. CASE BsCancel(s)
  BY <1>3 DEF BsCancel
<1>4. CASE BsCancelJoin(s)
  BY <1>4 DEF BsCancelJoin
<1>5. CASE BsFreeData(s)
  BY <1>5 DEF BsFreeData
<1>6. CASE BsFreeJoin(s)
  BY <1>6 DEF BsFreeJoin
<1>7. CASE BsFreeRelease(s)
  BY <1>7 DEF BsFreeRelease
<1> QED
  BY <1>1, <1>2, <1>3, <1>4, <1>5, <1>6, <1>7 DEF Consume

LEMMA OneAtWork ==
  ASSUME Typed, OneGeneration, NEW s \in Sources, Turn(s),
         \E a, h : Moves(s, a, h)
  PROVE  OneGeneration'
<1>1. \A r \in Sources : r # s => app'[r] = app[r] /\ thr'[r] = thr[r]
  BY DEF Moves, Typed
<1>2. \A r \in Sources : thr'[r] \in OnNodes => genRunning'
  BY <1>1 DEF OneGeneration, Turn
<1>3. \A r, q \in Sources : r # q => ~(app'[r] \in Creating /\ app'[q] \in Creating)
  BY <1>1 DEF OneGeneration, Turn, Fresh
<1>4. Preparing \subseteq Creating
  BY DEF Preparing
<1>5. \A r, q \in Sources : r # q => ~(thr'[r] \in OnNodes /\ thr'[q] \in OnNodes)
  BY <1>1, <1>4 DEF OneGeneration, Turn
<1>6. \A r, q \in Sources : r # q => ~(app'[r] \in Preparing /\ thr'[q] \in OnNodes)
  BY <1>1, <1>4 DEF OneGeneration, Turn, Fresh
<1> QED  BY <1>2, <1>3, <1>5, <1>6 DEF OneGeneration

-----------------------------------------------------------------------------
(* The count of the image.                                                 *)

LEMMA LiveFinite == IsFiniteSet(Live)
<1>1. IsFiniteSet(Sources)
  BY BlockAssumption, FS_Interval DEF Sources
<1>2. Live \subseteq Sources
  BY DEF Live
<1> QED  BY <1>1, <1>2, FS_Subset

LEMMA ImageKept ==
  ASSUME Typed, ImageCounted, NEW s \in Sources, owned' = owned,
         \E a, h : Moves(s, a, h),
         imageRefs' = imageRefs + (IF target'[s].mem = "live" THEN 1 ELSE 0)
                                - (IF target[s].mem = "live" THEN 1 ELSE 0)
  PROVE  ImageCounted'
<1>1. \A r \in Sources : r # s => target'[r] = target[r]
  BY DEF Moves
<1>2. IsFiniteSet(Live) /\ Cardinality(Live) \in Nat
  BY LiveFinite, FS_CardinalityType
<1>3. CASE target'[s].mem = "live" /\ target[s].mem # "live"
  <2>1. Live' = Live \cup {s} /\ s \notin Live
    BY <1>1, <1>3 DEF Live
  <2>2. Cardinality(Live') = Cardinality(Live) + 1
    BY <1>2, <2>1, FS_AddElement
  <2> QED  BY <1>2, <1>3, <2>2 DEF ImageCounted
<1>4. CASE target'[s].mem # "live" /\ target[s].mem = "live"
  <2>1. Live' = Live \ {s} /\ s \in Live
    BY <1>1, <1>4 DEF Live
  <2>2. Cardinality(Live') = Cardinality(Live) - 1
    BY <1>2, <2>1, FS_RemoveElement
  <2> QED  BY <1>2, <1>4, <2>2 DEF ImageCounted
<1>5. CASE target'[s].mem = "live" <=> target[s].mem = "live"
  <2>1. Live' = Live
    BY <1>1, <1>5 DEF Live
  <2>2. imageRefs' = imageRefs
    BY <1>5 DEF Typed
  <2> QED  BY <2>1, <2>2 DEF ImageCounted
<1> QED  BY <1>3, <1>4, <1>5

-----------------------------------------------------------------------------
(* The inductive step.                                                     *)

LEMMA OthersKept ==
  ASSUME Typed, NEW s \in Sources, \E a, h : Moves(s, a, h),
         NEW r \in Sources, r # s
  PROVE  /\ SourceInv(r) => SourceInv(r)'
         /\ Predicted(r) => Predicted(r)'
<1>1. app'[r] = app[r] /\ thr'[r] = thr[r] /\ target'[r] = target[r]
  BY DEF Moves, Typed
<1> QED
  BY <1>1 DEF SourceInv, Counted, Joinable, Predicted, Cap, ProgramHolds, ThreadWorks

LEMMA SourceStepKeeps ==
  ASSUME LifeInv, NEW s \in Sources, Create(s) \/ Generate(s) \/ Consume(s)
  PROVE  /\ LifeInv'
         /\ FixedSizes \subseteq {ImageBlocks} /\ (\A r \in Sources : Predicted(r))
              => \A r \in Sources : Predicted(r)'
<1>1. Typed /\ OneGeneration /\ ImageCounted /\ \A r \in Sources : SourceInv(r)
  BY DEF LifeInv, SourceInv, FillBounded
<1>2. Result(s)
  BY <1>1, CreateKeeps, GenerateKeeps, ConsumeKeeps
<1>3. Joinable(s)
  BY <1>1 DEF SourceInv
<1>4. Turn(s)
  BY <1>1, <1>3, CreateTurns, GenerateTurns, ConsumeTurns
<1>5. /\ \E a, h : Moves(s, a, h)
      /\ SourceInv(s)' /\ SizeKept(s)
      /\ imageRefs' = imageRefs + (IF target'[s].mem = "live" THEN 1 ELSE 0)
                                - (IF target[s].mem = "live" THEN 1 ELSE 0)
  BY <1>2 DEF Result
<1>6. Typed'
  <2>1. imageRefs' \in Int
    BY <1>1, <1>5 DEF Typed
  <2>2. target' \in [Sources -> Targets]
    BY <1>5 DEF Moves
  <2>3. owned' \in BOOLEAN /\ genRunning' \in BOOLEAN
    BY <1>1, <1>4, Zenon DEF Turn, Typed
  <2>4. /\ app' \in [Sources -> Creating \cup {"none", "open", "cancel", "canceled",
                                              "free", "drop", "gone"}]
        /\ thr' \in [Sources -> OnNodes \cup {"none", "release", "releaseFailed",
                                              "verify", "exit"}]
    BY <1>4 DEF Turn
  <2> QED  BY <2>1, <2>2, <2>3, <2>4 DEF Typed
<1>7. OneGeneration'
  BY <1>1, <1>4, <1>5, OneAtWork
<1>8. ImageCounted'
  <2>1. owned' = owned
    BY <1>4 DEF Turn
  <2> QED  BY <1>1, <1>5, <2>1, ImageKept
<1>9. \A r \in Sources : SourceInv(r)'
  BY <1>1, <1>5, OthersKept
<1>10. LifeInv'
  BY <1>6, <1>7, <1>8, <1>9 DEF LifeInv, SourceInv, FillBounded
<1>11. ASSUME FixedSizes \subseteq {ImageBlocks}, \A r \in Sources : Predicted(r)
       PROVE  \A r \in Sources : Predicted(r)'
  BY <1>1, <1>5, <1>11, OthersKept DEF SizeKept
<1> QED  BY <1>10, <1>11

\* The program lets go of the image, or nothing happens.
LEMMA OtherStepKeeps ==
  ASSUME LifeInv, ImageUnref \/ UNCHANGED vars
  PROVE  LifeInv' /\ ((\A r \in Sources : Predicted(r)) => \A r \in Sources : Predicted(r)')
<1>1. UNCHANGED <<genRunning, app, thr, target>>
  BY DEF ImageUnref, vars, image
<1>2. Typed'
  <2>1. owned' \in BOOLEAN
    BY Zenon DEF LifeInv, Typed, ImageUnref, vars, image
  <2>2. imageRefs' \in Int
    BY DEF LifeInv, Typed, ImageUnref, vars, image
  <2> QED  BY <1>1, <2>1, <2>2 DEF LifeInv, Typed
<1>3. ImageCounted'
  <2>1. Live' = Live /\ Cardinality(Live) \in Nat
    BY <1>1, LiveFinite, FS_CardinalityType DEF Live
  <2>2. CASE ImageUnref
    BY <2>1, <2>2 DEF ImageUnref, LifeInv, ImageCounted
  <2>3. CASE UNCHANGED vars
    BY <2>1, <2>3 DEF vars, image, LifeInv, ImageCounted
  <2> QED  BY <2>2, <2>3
<1>4. OneGeneration' /\ FillBounded'
  BY <1>1 DEF LifeInv, OneGeneration, FillBounded, Cap
<1>5. \A r \in Sources : /\ Counted(r)' /\ Joinable(r)'
                         /\ Predicted(r) => Predicted(r)'
  BY <1>1 DEF LifeInv, Counted, Joinable, Predicted, ProgramHolds, ThreadWorks
<1> QED  BY <1>2, <1>3, <1>4, <1>5 DEF LifeInv

\* Step of LifeInv and SizeInv.
LEMMA LifeStep == LifeInv /\ [Next]_vars => LifeInv'
  BY SourceStepKeeps, OtherStepKeeps DEF Next

LEMMA SizeStep ==
  ASSUME FixedSizes \subseteq {ImageBlocks}
  PROVE  SizeInv /\ [Next]_vars => SizeInv'
<1> SUFFICES ASSUME SizeInv, [Next]_vars PROVE SizeInv'
  OBVIOUS
<1>1. LifeInv /\ \A r \in Sources : Predicted(r)
  BY DEF SizeInv
<1>2. LifeInv' /\ \A r \in Sources : Predicted(r)'
  BY <1>1, SourceStepKeeps, OtherStepKeeps DEF Next
<1> QED  BY <1>2 DEF SizeInv

-----------------------------------------------------------------------------
(* Theorems.                                                               *)

\* ecma119.c, iso_image_create_burn_source(), write_function() and
\* bs_free_data() keep the life cycle in order, in every interleaving of
\* program, generator threads and consumers.
THEOREM LifeCycle == Spec => []LifeInv
<1>1. Init => LifeInv
  BY InitLife DEF SizeInv
<1> QED  BY <1>1, LifeStep, PTL DEF Spec

\* The states keep their types and no ring buffer exceeds its capacity.
THEOREM TypeCorrect == Spec => []TypeOK
<1>1. LifeInv => TypeOK
  <2> SUFFICES ASSUME LifeInv PROVE TypeOK
    OBVIOUS
  <2>1. imageRefs \in Nat
    BY LiveFinite, FS_CardinalityType DEF LifeInv, ImageCounted
  <2> QED  BY <2>1 DEF LifeInv, Typed, FillBounded, TypeOK, OnNodes
<1> QED  BY <1>1, LifeCycle, PTL

\* ecma119_image_free() is called so that neither write_function() nor the
\* methods of the burn_source ever touch a target which was freed.
THEOREM TargetsOutliveUsers == Spec => []NoUseAfterFree
<1>1. LifeInv => NoUseAfterFree
  <2> SUFFICES ASSUME LifeInv, NEW s \in Sources, ThreadWorks(s) \/ ProgramHolds(s)
               PROVE  target[s].mem = "live"
    BY DEF NoUseAfterFree
  <2>1. Counted(s) /\ Joinable(s)
    BY DEF LifeInv
  <2>2. app[s] \in Creating \cup {"none", "open", "cancel", "canceled",
                                  "free", "drop", "gone"}
    BY DEF LifeInv, Typed
  <2>3. ThreadWorks(s) => ProgramHolds(s)
    BY <2>1, <2>2 DEF Joinable, Creating, Preparing, ThreadWorks, ProgramHolds
  <2>4. target[s].refcount > 0
    BY <2>1, <2>3 DEF Counted
  <2> QED  BY <2>1, <2>4 DEF Counted
<1> QED  BY <1>1, LifeCycle, PTL

\* The reference counts of image and targets are exact in every state, and
\* generator_is_running covers all work on the nodes.
THEOREM CountsExact == Spec => [](ReferencesExact /\ GeneratorFlagSound)
<1>1. LifeInv => ReferencesExact
  BY DEF LifeInv, ImageCounted, Live, Counted, ReferencesExact
<1>2. LifeInv => GeneratorFlagSound
  BY DEF LifeInv, OneGeneration, OnNodes, GeneratorFlagSound
<1> QED  BY <1>1, <1>2, LifeCycle, PTL

\* If bs_set_size() is only told the true size, then in addition iso_write()
\* and write_function() never complain about the predicted size.
THEOREM PredictionKept ==
  ASSUME FixedSizes \subseteq {ImageBlocks}
  PROVE  Spec => []LifeCycleSound
<1>1. SizeInv => LifeCycleSound
  <2>1. SizeInv => ReferencesExact
    BY DEF SizeInv, LifeInv, ImageCounted, Live, Counted, ReferencesExact
  <2>2. SizeInv => GeneratorFlagSound
    BY DEF SizeInv, LifeInv, OneGeneration, OnNodes, GeneratorFlagSound
  <2>3. SizeInv => SizePredictionHolds
    BY DEF SizeInv, Predicted, SizePredictionHolds
  <2> QED  BY <2>1, <2>2, <2>3 DEF LifeCycleSound
<1> QED  BY <1>1, InitLife, SizeStep, PTL DEF Spec
=============================================================================
