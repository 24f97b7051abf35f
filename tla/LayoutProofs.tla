----------------------------- MODULE LayoutProofs -----------------------------
(* Proofs about the layout of an image: for all write options, every writer *)
(* begins to write at the block which it got in the pass of computation,    *)
(* and the session ends where the image size says (ImageLayout.tla).        *)
EXTENDS ImageLayout, FiniteSetTheorems, SequenceTheorems, WellFoundedInduction, TLAPS

(* Fields of Ecma119Image.  Requests for tables alter only Tables.          *)

TFields == {"cur", "vol", "total", "mspad", "align", "alignend", "pad", "hpc", "sph", "abs", "mtype",
            "hfac", "have", "computed", "nogap", "overlap", "gend", "gsize", "gmax", "gstart", "hstart",
            "bootf", "app", "boot", "gpt", "apm", "mbr", "efi", "prep", "err"}
TableFields == {"abs", "nogap", "overlap", "gpt", "apm", "mbr", "err"}
Fixed == TFields \ TableFields
IsList(q) == \E S : q \in Seq(S)

\* u differs from x by requests only.
Requested(x, u) == /\ DOMAIN u = TFields
                   /\ \A f \in Fixed : u[f] = x[f]
                   /\ x.abs \in Nat => u.abs \in Nat
                   /\ IsList(x.apm) => IsList(u.apm)

LEMMA RequestedTrans ==
  ASSUME NEW x, NEW y, NEW z, Requested(x, y), Requested(y, z)
  PROVE  Requested(x, z)
BY DEF Requested

LEMMA RequestedSelf ==
  ASSUME NEW x, DOMAIN x = TFields
  PROVE  Requested(x, x)
BY DEF Requested

LEMMA FailRequested ==
  ASSUME NEW x, DOMAIN x = TFields, NEW e
  PROVE  Requested(x, Fail(x, e))
BY DEF Requested, Fail, Fixed, TFields, TableFields

LEMMA ListAppend ==
  ASSUME NEW q, IsList(q), NEW e
  PROVE  IsList(Append(q, e))
<1>1. PICK S : q \in Seq(S)
  BY DEF IsList
<1>2. Append(q, e) \in Seq(S \union {e})
  BY <1>1
<1> QED  BY <1>2 DEF IsList

LEMMA ListConcat ==
  ASSUME NEW q, IsList(q), NEW r, IsList(r)
  PROVE  IsList(q \o r)
<1>1. PICK S, T : q \in Seq(S) /\ r \in Seq(T)
  BY DEF IsList
<1>2. q \in Seq(S \union T) /\ r \in Seq(S \union T)
  BY <1>1, SeqMonotonic
<1>3. q \o r \in Seq(S \union T)
  BY <1>2, ConcatProperties
<1> QED  BY <1>3 DEF IsList

LEMMA QuickRequested ==
  ASSUME NEW x, DOMAIN x = TFields, NEW s, NEW n, NEW ty, NEW f
  PROVE  /\ Requested(x, iso_quick_apm_entry(x, s, n, ty, f))
         /\ Requested(x, iso_quick_gpt_entry(x, s, n, ty, f))
         /\ Requested(x, iso_quick_mbr_entry(x, s, n, ty, f))
<1>1. Requested(x, iso_quick_apm_entry(x, s, n, ty, f))
  <2> DEFINE y == [x EXCEPT !.apm = Append(@, [s |-> s, n |-> n, ty |-> ty, fill |-> f])]
  <2>1. IsList(x.apm) => IsList(y.apm)
    BY ListAppend DEF TFields
  <2>2. Requested(x, y)
    BY <2>1 DEF Requested, Fixed, TFields, TableFields
  <2> QED  BY <2>2, FailRequested DEF iso_quick_apm_entry
<1>2. Requested(x, iso_quick_gpt_entry(x, s, n, ty, f))
  <2>1. Requested(x, [x EXCEPT !.gpt = Append(@, [s |-> s, n |-> n, ty |-> ty, fill |-> f])])
    BY DEF Requested, Fixed, TFields, TableFields
  <2> QED  BY <2>1, FailRequested DEF iso_quick_gpt_entry
<1>3. Requested(x, iso_quick_mbr_entry(x, s, n, ty, f))
  <2>1. Requested(x, [x EXCEPT !.mbr = Append(@, [s |-> s, n |-> n, ty |-> ty, st |-> f])])
    BY DEF Requested, Fixed, TFields, TableFields
  <2> QED  BY <2>1, FailRequested DEF iso_quick_mbr_entry
<1> QED  BY <1>1, <1>2, <1>3


LEMMA LeastNatural ==
  ASSUME NEW T, T \subseteq Nat, T # {}
  PROVE  \E x \in T : \A y \in T : x =< y
<1>1. PICK R : R = OpToRel(<, Nat)
  OBVIOUS
<1>2. IsWellFoundedOn(R, Nat)
  BY <1>1, NatLessThanWellFounded
<1>3. PICK x \in T : \A y \in T : ~(<<y, x>> \in R)
  BY <1>2, WFMin
<1>4. \A y \in T : ~(y < x)
  BY <1>1, <1>3 DEF OpToRel
<1> QED  BY <1>4

\* A function on 1..n is a list, whatever its values are.
LEMMA ListOf ==
  ASSUME NEW n \in Nat, NEW f
  PROVE  IsList([k \in 1 .. n |-> f[k]]) /\ Len([k \in 1 .. n |-> f[k]]) = n
<1> DEFINE q == [k \in 1 .. n |-> f[k]]
           S == {f[k] : k \in 1 .. n}
<1>1. q \in [1 .. n -> S]
  OBVIOUS
<1>2. q \in Seq(S) /\ Len(q) = n
  BY <1>1
<1> QED  BY <1>2 DEF IsList

LEMMA ListLen ==
  ASSUME NEW q, IsList(q)
  PROVE  Len(q) \in Nat
BY DEF IsList

LEMMA AscendingList ==
  ASSUME NEW n \in Nat, NEW S, S \subseteq 1 .. n
  PROVE  IsList(Ascending(S)) /\ Len(Ascending(S)) \in Nat
<1>1. IsFiniteSet(S)
  <2>1. IsFiniteSet(1 .. n) /\ S \in SUBSET (1 .. n)
    BY FS_Interval
  <2> QED  BY <2>1, FS_Subset
<1>2. Cardinality(S) \in Nat
  BY <1>1, FS_CardinalityType
<1>3. PICK m \in Nat : m = Cardinality(S)
  BY <1>2
<1> DEFINE nth(k) == CHOOSE i \in S : Cardinality({j \in S : j < i}) = k - 1
           f == [k \in 1 .. m |-> nth(k)]
<1>4. Ascending(S) = f
  BY <1>3, Zenon DEF Ascending
<1> HIDE DEF nth
<1>5. f = [k \in 1 .. m |-> f[k]]
  OBVIOUS
<1> HIDE DEF f
<1> QED  BY <1>4, <1>5, ListOf

LEMMA SortedList ==
  ASSUME NEW q, IsList(q)
  PROVE  IsList(SortReq(q)) /\ Len(SortReq(q)) = Len(q)
<1>1. PICK m \in Nat : m = Len(q)
  BY ListLen
<1> DEFINE before(j, i) == \/ cmp_partition_request(q[j], q[i])
                           \/ ~cmp_partition_request(q[i], q[j]) /\ j < i
           f == [k \in 1 .. m |->
                   q[CHOOSE i \in 1 .. m : Cardinality({j \in 1 .. m : before(j, i)}) = k - 1]]
<1>2. SortReq(q) = [k \in 1 .. m |-> f[k]]
  BY <1>1 DEF SortReq
<1> HIDE DEF f
<1> QED  BY <1>1, <1>2, ListOf

LEMMA EntriesRequested ==
  ASSUME NEW x, DOMAIN x = TFields, NEW q, IsList(q)
  PROVE  /\ Requested(x, iso_quick_apm_entries(x, q))
         /\ Requested(x, iso_quick_gpt_entries(x, q))
<1>1. Requested(x, [x EXCEPT !.apm = @ \o q])
  <2>1. IsList(x.apm) => IsList([x EXCEPT !.apm = @ \o q].apm)
    BY ListConcat DEF TFields
  <2> QED  BY <2>1 DEF Requested, Fixed, TFields, TableFields
<1>2. Requested(x, [x EXCEPT !.gpt = @ \o q])
  BY DEF Requested, Fixed, TFields, TableFields
<1> QED  BY <1>1, <1>2, FailRequested DEF iso_quick_apm_entries, iso_quick_gpt_entries

-----------------------------------------------------------------------------
(* The requests of appended partitions and of boot images.                  *)

LEMMA SlotRequested ==
  ASSUME NEW x, DOMAIN x = TFields, NEW op, NEW i, NEW a, NEW g
  PROVE  Requested(x, assess_slot(x, op, i, a, g))
<1> DEFINE y == slot_apm(x, i, a)
           z == slot_gpt(y, i, g)
<1>1. Requested(x, y)
  BY QuickRequested, RequestedSelf DEF slot_apm
<1> HIDE DEF y
<1>2. DOMAIN y = TFields
  BY <1>1 DEF Requested
<1>3. Requested(y, z)
  BY <1>2, QuickRequested, RequestedSelf DEF slot_gpt
<1>4. Requested(x, z)
  BY <1>1, <1>3, RequestedTrans
<1>5. assess_slot(x, op, i, a, g) = IF ~Ok(x) \/ ~Given(op, i) THEN x ELSE z
  BY DEF assess_slot, y
<1> HIDE DEF z
<1> QED  BY <1>4, <1>5, RequestedSelf

LEMMA AppendedRequested ==
  ASSUME NEW x, DOMAIN x = TFields, NEW op
  PROVE  Requested(x, assess_appended_gpt(x, op))
<1> DEFINE a == (Len(x.apm) > 0 /\ op.like) \/ (x.have /\ op.asapm)
           g == Len(x.gpt) > 0 \/ (x.have /\ op.asgpt)
           slot(y, i) == assess_slot(y, op, i, a, g)
<1>1. assess_appended_gpt(x, op) = IF ~a /\ ~g THEN x ELSE slot(slot(slot(slot(x, 1), 2), 3), 4)
  BY DEF assess_appended_gpt
<1> HIDE DEF a, g
<1>2. ASSUME NEW y, Requested(x, y), NEW i PROVE Requested(x, slot(y, i))
  <2>1. Requested(y, slot(y, i))
    BY <1>2, SlotRequested DEF Requested
  <2> QED  BY <1>2, <2>1, RequestedTrans
<1> HIDE DEF slot
<1>3. Requested(x, x)
  BY RequestedSelf
<1>4. Requested(x, slot(x, 1))
  BY <1>2, <1>3
<1>5. Requested(x, slot(slot(x, 1), 2))
  BY <1>2, <1>4
<1>6. Requested(x, slot(slot(slot(x, 1), 2), 3))
  BY <1>2, <1>5
<1>7. Requested(x, slot(slot(slot(slot(x, 1), 2), 3), 4))
  BY <1>2, <1>6
<1> QED  BY <1>1, <1>3, <1>7

LEMMA ImagesRequested ==
  ASSUME NEW x, DOMAIN x = TFields, NEW op, Len(op.img) \in Nat, NEW noapm, NEW noiso
  PROVE  Requested(x, assess_isohybrid_gpt_apm(x, op, noapm, noiso))
<1>1. IsList(GptImages(op)) /\ Len(GptImages(op)) \in Nat /\ Len(ApmImages(op)) \in Nat
  BY AscendingList DEF GptImages, ApmImages
<1>2. ASSUME NEW q, Len(q) \in Nat, NEW f, NEW ty
      PROVE  IsList(ImageRequests(x, op, q, f, ty))
  <2> DEFINE F == [k \in 1 .. Len(q) |->
                     [s |-> ImageStart(x, op, q[k]) * f, n |-> ImageSize(x, op, q[k]) * f,
                      ty |-> ty, fill |-> FALSE]]
  <2>1. ImageRequests(x, op, q, f, ty) = [k \in 1 .. Len(q) |-> F[k]]
    BY DEF ImageRequests
  <2> HIDE DEF F
  <2> QED  BY <1>2, <2>1, ListOf
<1> DEFINE t1 == iso_quick_gpt_entries(x, ImageRequests(x, op, GptImages(op), 4, "img"))
           ta == iso_quick_apm_entries(t1, ImageRequests(x, op, ApmImages(op), 1, "Apple_HFS"))
           tb == [ta EXCEPT !.nogap = TRUE, !.abs = 2048]
           t2 == IF noapm \/ ~Ok(t1) \/ ApmImages(op) = <<>> THEN t1 ELSE tb
           tc == iso_quick_gpt_entry(t2, op.poff * 4, Whole, "iso", FALSE)
           td == [tc EXCEPT !.overlap = TRUE]
<1>3. Requested(x, t1)
  BY <1>1, <1>2, EntriesRequested
<1>4. assess_isohybrid_gpt_apm(x, op, noapm, noiso) =
        IF ~Ok(t2) \/ noiso \/ GptImages(op) = <<>> THEN t2 ELSE td
  BY DEF assess_isohybrid_gpt_apm
<1> HIDE DEF t1
<1>5. Requested(t1, ta)
  BY <1>1, <1>2, <1>3, EntriesRequested DEF Requested
<1> HIDE DEF ta
<1>6. Requested(ta, tb)
  <2>1. DOMAIN ta = TFields
    BY <1>5 DEF Requested
  <2>2. tb.abs = 2048 /\ tb.apm = ta.apm
    BY <2>1 DEF TFields
  <2>3. DOMAIN tb = TFields
    BY <2>1
  <2>4. ASSUME NEW f \in Fixed PROVE tb[f] = ta[f]
    <3>1. PICK tx : tx = [ta EXCEPT !.nogap = TRUE]
      OBVIOUS
    <3>2. f \in DOMAIN ta /\ f # "nogap" /\ f # "abs"
      BY <2>1 DEF Fixed, TableFields
    <3>3. DOMAIN tx = DOMAIN ta /\ tx[f] = ta[f]
      BY <3>1, <3>2
    <3>4. tb = [tx EXCEPT !.abs = 2048]
      BY <3>1
    <3>5. [tx EXCEPT !.abs = 2048][f] = tx[f]
      BY <3>2, <3>3
    <3> QED  BY <3>3, <3>4, <3>5
  <2> QED  BY <2>2, <2>3, <2>4 DEF Requested
<1> HIDE DEF tb
<1>7. Requested(x, t2)
  BY <1>3, <1>5, <1>6, RequestedTrans
<1> HIDE DEF t2
<1>8. Requested(t2, tc)
  <2>1. DOMAIN t2 = TFields
    BY <1>7 DEF Requested
  <2> QED  BY <2>1, QuickRequested
<1> HIDE DEF tc
<1>9. Requested(tc, td)
  BY <1>8 DEF Requested, Fixed, TFields, TableFields
<1> HIDE DEF td
<1>10. Requested(x, td)
  BY <1>7, <1>8, <1>9, RequestedTrans
<1> QED  BY <1>4, <1>7, <1>10


LEMMA GapsRequested ==
  ASSUME NEW x, DOMAIN x = TFields, IsList(x.apm), NEW op, NEW img
  PROVE  Requested(x, fill_apm_gaps(x, op, img))
<1> DEFINE t1 == IF \E k \in 1..Len(x.apm) : x.apm[k].s <= 1 THEN x
                 ELSE iso_quick_apm_entry(x, 1, 0, "map", FALSE)
           q  == SortReq(t1.apm)
           g  == apm_gaps(q, img)
           t2 == [t1 EXCEPT !.apm = q]
           t3 == [t2 EXCEPT !.apm = SortReq(q \o g)]
<1>1. Requested(x, t1)
  BY QuickRequested, RequestedSelf
<1>2. \/ fill_apm_gaps(x, op, img) \in {t1, t2, t3}
      \/ \E e : fill_apm_gaps(x, op, img) = Fail(t2, e)
  BY DEF fill_apm_gaps
<1> HIDE DEF t1
<1>3. DOMAIN t1 = TFields /\ IsList(t1.apm)
  BY <1>1 DEF Requested
<1>4. IsList(q) /\ Len(q) \in Nat
  BY <1>3, SortedList, ListLen
<1> HIDE DEF q
<1>5. IsList(g)
  <2> DEFINE S == {i \in 1..Len(q) : apm_end(q, i, img) < apm_goal(q, i, img) \/ i = Len(q)}
             a == Ascending(S)
             f == [k \in 1..Len(a) |-> [s |-> apm_end(q, a[k], img), ty |-> "gap", fill |-> TRUE,
                                        n |-> apm_goal(q, a[k], img) - apm_end(q, a[k], img)]]
  <2>1. g = f
    BY DEF apm_gaps
  <2>2. Len(a) \in Nat
    <3>1. S \subseteq 1..Len(q)
      OBVIOUS
    <3> HIDE DEF S
    <3> QED  BY <1>4, <3>1, AscendingList
  <2>3. f = [k \in 1..Len(a) |-> f[k]]
    OBVIOUS
  <2> HIDE DEF a, f, g
  <2> QED  BY <2>1, <2>2, <2>3, ListOf
<1> HIDE DEF g
<1>6. IsList(SortReq(q \o g))
  BY <1>4, <1>5, ListConcat, SortedList
<1>7. Requested(t1, t2)
  <2>1. IsList(t2.apm)
    BY <1>3, <1>4 DEF TFields
  <2> QED  BY <1>3, <2>1 DEF Requested, Fixed, TFields, TableFields
<1> HIDE DEF t2
<1>8. DOMAIN t2 = TFields
  BY <1>7 DEF Requested
<1>9. Requested(t2, t3)
  <2>1. IsList(t3.apm)
    BY <1>6, <1>8 DEF TFields
  <2> QED  BY <1>8, <2>1 DEF Requested, Fixed, TFields, TableFields
<1> HIDE DEF t3
<1>10. \A e : Requested(t2, Fail(t2, e))
  BY <1>8, FailRequested
<1>11. Requested(x, t2)
  BY <1>1, <1>7, RequestedTrans
<1> QED  BY <1>1, <1>2, <1>9, <1>10, <1>11, RequestedTrans

LEMMA RectifyRequested ==
  ASSUME NEW x, DOMAIN x = TFields, IsList(x.apm), NEW op
  PROVE  Requested(x, rectify_apm(x, op))
BY RequestedSelf, FailRequested, GapsRequested DEF rectify_apm

-----------------------------------------------------------------------------
(* precompute_gpt(): it sets the fields of GptFields.                       *)

GptFields == {"gend", "gmax", "gsize", "gstart", "computed"}
\* u differs from x by requests and the size of the GPT.
Presized(x, u) == /\ DOMAIN u = TFields
                  /\ \A f \in Fixed \ GptFields : u[f] = x[f]
                  /\ u.abs \in Nat /\ IsList(u.apm)
                  /\ u.computed
                  /\ u.gsize \in Nat
                  /\ u.gmax = 0 => u.gsize = 0

LEMMA IsohybridRequested ==
  ASSUME NEW x, DOMAIN x = TFields, NEW op, Len(op.img) \in Nat
  PROVE  Requested(x, IsohybridImages(x, op))
BY RequestedSelf, FailRequested, ImagesRequested DEF IsohybridImages

LEMMA LikeRequested ==
  ASSUME NEW x, DOMAIN x = TFields, NEW op, Len(op.img) \in Nat
  PROVE  Requested(x, LikeIsohybrid(x, op))
<1> DEFINE y == assess_isohybrid_gpt_apm(x, op, Len(x.apm) > 0, TRUE)
           z == [y EXCEPT !.nogap = TRUE]
<1>1. LikeIsohybrid(x, op) \in {x, z}
  BY DEF LikeIsohybrid
<1>2. Requested(x, y)
  BY ImagesRequested
<1> HIDE DEF y
<1>3. Requested(y, z)
  BY <1>2 DEF Requested, Fixed, TFields, TableFields
<1> HIDE DEF z
<1> QED  BY <1>1, <1>2, <1>3, RequestedSelf, RequestedTrans

LEMMA AppendedThenRequested ==
  ASSUME NEW x, DOMAIN x = TFields, IsList(x.apm), NEW op
  PROVE  Requested(x, AppendedThenApm(x, op))
<1> DEFINE y == assess_appended_gpt(x, op)
           z == rectify_apm(y, op)
<1>1. AppendedThenApm(x, op) \in {x, y, z}
  BY DEF AppendedThenApm
<1>2. Requested(x, y)
  BY AppendedRequested
<1> HIDE DEF y
<1>3. DOMAIN y = TFields /\ IsList(y.apm)
  BY <1>2 DEF Requested
<1>4. Requested(y, z)
  BY <1>3, RectifyRequested
<1> HIDE DEF z
<1> QED  BY <1>1, <1>2, <1>4, RequestedSelf, RequestedTrans


LEMMA SizeOfGpt ==
  ASSUME NEW x, DOMAIN x = TFields, IsList(x.apm), x.abs \in Nat, x.gsize = 0, x.computed
  PROVE  Presized(x, GptSize(x))
<1>1. PICK n \in Nat : n = Len(x.apm)
  BY ListLen
<1>2. PICK a \in Nat : a = IF x.abs = 0 THEN 2048 ELSE x.abs
  BY DEF TFields
<1>3. PICK d \in Nat : d = a \div 512
  OBVIOUS
<1>4. PICK m \in Nat : m = (n + 1) * d
  BY <1>3
<1>5. PICK ps \in Nat : ps = IF n > 0 THEN m ELSE 2
  OBVIOUS
<1> DEFINE size == ((64 - ps + 1) * 512 + 2047) \div 2048
           t1 == [x EXCEPT !.gend = 0, !.gmax = 0]
           t2 == [x EXCEPT !.gend = 0, !.abs = IF n > 0 THEN a ELSE @,
                           !.gstart = ps, !.gmax = (64 - ps) * 4, !.gsize = size]
<1>6. GptSize(x) = IF ~Ok(x) THEN x ELSE IF Len(x.gpt) = 0 THEN t1
                   ELSE IF ps >= 64 THEN Fail(x, "TOO_MANY_GPT") ELSE t2
  <2> DEFINE aa == IF x.abs = 0 THEN 2048 ELSE x.abs
             pp == IF Len(x.apm) > 0 THEN (Len(x.apm) + 1) * (aa \div 512) ELSE 2
             t3 == [x EXCEPT !.gend = 0, !.abs = IF Len(x.apm) > 0 THEN aa ELSE @,
                             !.gstart = pp, !.gmax = (64 - pp) * 4,
                             !.gsize = ((64 - pp + 1) * 512 + 2047) \div 2048]
  <2>1. GptSize(x) = IF ~Ok(x) THEN x ELSE IF Len(x.gpt) = 0 THEN t1
                     ELSE IF pp >= 64 THEN Fail(x, "TOO_MANY_GPT") ELSE t3
    BY DEF GptSize
  <2>2. aa = a
    BY <1>2
  <2>3. pp = ps
    <3> HIDE DEF aa
    <3>1. aa \div 512 = d
      BY <1>3, <2>2
    <3>2. (Len(x.apm) + 1) * (aa \div 512) = m
      BY <1>1, <1>4, <3>1, Zenon
    <3>3. Len(x.apm) > 0 <=> n > 0
      BY <1>1
    <3> QED  BY <1>5, <3>2, <3>3
  <2> HIDE DEF aa, pp
  <2>4. t3 = t2
    BY <1>1, <2>2, <2>3
  <2> HIDE DEF t1, t2, t3
  <2> QED  BY <2>1, <2>3, <2>4
<1>7. Presized(x, x)
  BY DEF Presized
<1>8. Presized(x, Fail(x, "TOO_MANY_GPT"))
  BY DEF Presized, Fail, Fixed, TFields, TableFields
<1>9. Presized(x, t1)
  <2>1. DOMAIN t1 = TFields /\ t1.abs = x.abs /\ t1.apm = x.apm /\ t1.gsize = 0 /\ t1.computed
    BY DEF TFields
  <2>2. ASSUME NEW f \in Fixed \ GptFields PROVE t1[f] = x[f]
    <3>1. f \in DOMAIN x /\ f # "gend" /\ f # "gmax"
      BY DEF Fixed, GptFields
    <3>2. PICK v : v = [x EXCEPT !.gend = 0]
      OBVIOUS
    <3>3. DOMAIN v = DOMAIN x /\ v[f] = x[f]
      BY <3>1, <3>2
    <3>4. [v EXCEPT !.gmax = 0][f] = v[f]
      BY <3>1, <3>3
    <3> QED  BY <3>2, <3>3, <3>4
  <2> HIDE DEF t1
  <2> QED  BY <2>1, <2>2 DEF Presized
<1>10. ASSUME ~(ps >= 64) PROVE Presized(x, t2)
  <2>1. size \in Nat
    BY <1>10
  <2>2. (64 - ps) * 4 # 0
    BY <1>10
  <2> HIDE DEF size
  <2>3. /\ DOMAIN t2 = TFields /\ t2.abs \in Nat /\ t2.apm = x.apm /\ t2.gsize = size
        /\ t2.gmax = (64 - ps) * 4 /\ t2.computed
    BY DEF TFields
  <2>4. ASSUME NEW f \in Fixed \ GptFields PROVE t2[f] = x[f]
    <3>1. f \in DOMAIN x /\ f # "gend" /\ f # "abs" /\ f # "gstart" /\ f # "gmax" /\ f # "gsize"
      BY DEF Fixed, GptFields, TableFields
    <3>2. t2 = [g \in DOMAIN x |-> IF g = "gend" THEN 0 ELSE IF g = "abs" THEN (IF n > 0 THEN a ELSE x.abs)
                   ELSE IF g = "gstart" THEN ps ELSE IF g = "gmax" THEN (64 - ps) * 4
                   ELSE IF g = "gsize" THEN size ELSE x[g]]
      BY DEF TFields
    <3> QED  BY <3>1, <3>2
  <2> HIDE DEF t2
  <2> QED  BY <2>1, <2>2, <2>3, <2>4 DEF Presized
<1> HIDE DEF t1, t2
<1> QED  BY <1>6, <1>7, <1>8, <1>9, <1>10

LEMMA PrecomputePresized ==
  ASSUME NEW x, DOMAIN x = TFields, IsList(x.apm), x.abs \in Nat, x.gsize = 0,
         NEW op, Len(op.img) \in Nat
  PROVE  Presized(x, precompute_gpt(x, op))
<1> DEFINE a == [x EXCEPT !.computed = TRUE]
           b == IsohybridImages(a, op)
           c == LikeIsohybrid(b, op)
           d == AppendedThenApm(c, op)
<1>1. DOMAIN a = TFields /\ IsList(a.apm) /\ a.abs \in Nat /\ a.gsize = 0 /\ a.computed
  BY DEF TFields
<1>2. \A f \in Fixed \ GptFields : a[f] = x[f]
  BY DEF Fixed, GptFields, TFields
<1> HIDE DEF a
<1>3. Requested(a, b)
  BY <1>1, IsohybridRequested
<1> HIDE DEF b
<1>4. Requested(b, c)
  <2>1. DOMAIN b = TFields
    BY <1>3 DEF Requested
  <2> QED  BY <2>1, LikeRequested
<1>5. Requested(a, c)
  BY <1>3, <1>4, RequestedTrans
<1> HIDE DEF c
<1>6. Requested(c, d)
  <2>1. DOMAIN c = TFields /\ IsList(c.apm)
    BY <1>1, <1>5 DEF Requested
  <2> QED  BY <2>1, AppendedThenRequested
<1>7. Requested(a, d)
  BY <1>5, <1>6, RequestedTrans
<1> HIDE DEF d
<1>8. DOMAIN d = TFields /\ IsList(d.apm) /\ d.abs \in Nat /\ d.gsize = 0 /\ d.computed
  BY <1>1, <1>7 DEF Requested, Fixed, TFields, TableFields
<1>9. \A f \in Fixed \ GptFields : d[f] = x[f]
  BY <1>2, <1>7 DEF Requested
<1>10. Presized(d, GptSize(d))
  BY <1>8, SizeOfGpt
<1>11. precompute_gpt(x, op) = GptSize(d)
  BY DEF precompute_gpt, a, b, c, d
<1> QED  BY <1>9, <1>10, <1>11 DEF Presized


-----------------------------------------------------------------------------
(* How a writer advances t->curblock in the pass of computation.            *)

\* The fields on which the sizes of the writers depend.
SizeFields == {"mspad", "align", "app", "have", "gsize", "gmax", "hpc", "sph", "computed"}
TypeT(x) == /\ DOMAIN x = TFields
            /\ x.cur \in Nat /\ x.mspad \in Nat /\ x.align \in Nat /\ x.abs \in Nat
            /\ x.hpc \in Nat /\ x.sph \in Nat /\ x.gsize \in Nat
            /\ IsList(x.apm)
            /\ DOMAIN x.app = 1 .. 8
            /\ x.have \in BOOLEAN /\ x.computed \in BOOLEAN
            /\ x.gmax = 0 => x.gsize = 0
            /\ ~x.computed => x.gsize = 0
Advanced(x, u, n) == /\ DOMAIN u = TFields
                     /\ u.cur = x.cur + n
                     /\ u.abs \in Nat /\ IsList(u.apm)
                     /\ \A f \in SizeFields : u[f] = x[f]

LEMMA AdvancedType ==
  ASSUME NEW x, TypeT(x), NEW n \in Nat, NEW u, Advanced(x, u, n)
  PROVE  TypeT(u)
<1>1. /\ u.mspad = x.mspad /\ u.align = x.align /\ u.app = x.app /\ u.have = x.have
      /\ u.gsize = x.gsize /\ u.gmax = x.gmax /\ u.hpc = x.hpc /\ u.sph = x.sph
      /\ u.computed = x.computed
  BY DEF Advanced, SizeFields
<1> QED  BY <1>1 DEF Advanced, TypeT

LEMMA RequestedAdvanced ==
  ASSUME NEW x, TypeT(x), NEW u, Requested(x, u)
  PROVE  Advanced(x, u, 0)
<1>1. SizeFields \subseteq Fixed /\ "cur" \in Fixed
  BY DEF SizeFields, Fixed, TFields, TableFields
<1> QED  BY <1>1 DEF Advanced, Requested, TypeT

LEMMA AdvancedTrans ==
  ASSUME NEW x, TypeT(x), NEW y, NEW z, NEW m \in Nat, NEW n \in Nat,
         Advanced(x, y, m), Advanced(y, z, n)
  PROVE  Advanced(x, z, m + n)
BY DEF Advanced, TypeT

LEMMA EfiAdvances ==
  ASSUME NEW x, TypeT(x), NEW op, op.efi \in Nat
  PROVE  Advanced(x, EfiPart(x, op), op.efi)
<1> DEFINE y == iso_quick_gpt_entry(x, x.cur * 4, op.efi * 4, "efi", FALSE)
           z == [y EXCEPT !.efi = x.cur, !.cur = @ + op.efi]
<1>1. Advanced(x, x, 0)
  BY DEF Advanced, TypeT
<1>2. Advanced(x, y, 0)
  BY QuickRequested, RequestedAdvanced DEF TypeT
<1> HIDE DEF y
<1>3. Advanced(y, z, op.efi)
  <2>1. DOMAIN z = TFields /\ z.cur = y.cur + op.efi /\ z.abs = y.abs /\ z.apm = y.apm
    BY <1>2 DEF Advanced, TFields
  <2>2. \A f \in SizeFields : z[f] = y[f]
    BY <1>2 DEF Advanced, TFields, SizeFields
  <2> QED  BY <1>2, <2>1, <2>2 DEF Advanced
<1>4. Advanced(x, z, 0 + op.efi)
  BY <1>2, <1>3, AdvancedTrans
<1>5. EfiPart(x, op) = IF op.efi = 0 THEN x ELSE z
  BY DEF EfiPart, y
<1> HIDE DEF z
<1> QED  BY <1>1, <1>4, <1>5

\* A request keeps the type of t and does not move t->curblock.
LEMMA QuickAdvances ==
  ASSUME NEW x, TypeT(x), NEW s, NEW n, NEW ty, NEW f
  PROVE  /\ Advanced(x, iso_quick_mbr_entry(x, s, n, ty, f), 0)
         /\ TypeT(iso_quick_mbr_entry(x, s, n, ty, f))
<1>1. Advanced(x, iso_quick_mbr_entry(x, s, n, ty, f), 0)
  BY QuickRequested, RequestedAdvanced DEF TypeT
<1> QED  BY <1>1, AdvancedType

LEMMA PrependAdvances ==
  ASSUME NEW x, TypeT(x), NEW op, op.efi \in Nat, op.prep \in Nat,
         Ok(partprepend_writer_compute_data_blocks(x, op))
  PROVE  Advanced(x, partprepend_writer_compute_data_blocks(x, op), op.efi + op.prep)
<1> DEFINE t0  == EfiPart(x, op)
           gpt == Len(t0.gpt) > 0
           prep == op.prep > 0
           ty  == IF gpt THEN 238 ELSE IF t0.mtype >= 0 THEN t0.mtype ELSE 205
           m1  == IF prep \/ op.fat \/ gpt
                  THEN iso_quick_mbr_entry(t0, IF gpt THEN 1 ELSE op.poff * 4, 0, ty, 0) ELSE t0
           mq  == iso_quick_mbr_entry(m1, m1.cur * 4, op.prep * 4, 65, 0)
           mp  == [mq EXCEPT !.prep = m1.cur, !.cur = @ + op.prep]
           m2  == IF prep /\ Ok(m1) THEN mp ELSE m1
           m3  == IF (prep \/ op.fat) /\ Ok(m2)
                  THEN iso_quick_mbr_entry(m2, m2.cur * 4, 0, IF op.fat THEN 12 ELSE 205, 0) ELSE m2
           u   == partprepend_writer_compute_data_blocks(x, op)
           chrp == op.chrp /\ op.type = 0 /\ ~op.prot /\ ~op.hyb
           over == prep \/ op.fat \/ gpt \/ Len(t0.mbr) > 0
           mc  == iso_quick_mbr_entry(t0, 0, 0, 150, 128)
<1>1. u = IF ~Ok(t0) THEN t0 ELSE IF chrp THEN IF over THEN Fail(t0, "MBR_OVERLAP") ELSE mc ELSE m3
  BY DEF partprepend_writer_compute_data_blocks
<1>2. Advanced(x, t0, op.efi) /\ TypeT(t0)
  BY EfiAdvances, AdvancedType
<1>3. ~Ok(Fail(t0, "MBR_OVERLAP"))
  BY <1>2 DEF Ok, Fail, TypeT, TFields
<1> HIDE DEF t0, gpt, ty
<1>4. Advanced(t0, m1, 0) /\ TypeT(m1)
  <2>1. Advanced(t0, t0, 0)
    BY <1>2 DEF Advanced, TypeT
  <2> QED  BY <1>2, <2>1, QuickAdvances
<1> HIDE DEF m1
<1>5. Advanced(m1, mq, 0) /\ TypeT(mq)
  BY <1>4, QuickAdvances
<1>6. mq.cur = m1.cur
  BY <1>4, <1>5 DEF Advanced, TypeT
<1> HIDE DEF mq
<1>7. Advanced(mq, mp, op.prep) /\ TypeT(mp)
  <2>1. DOMAIN mp = TFields /\ mp.cur = mq.cur + op.prep /\ mp.abs = mq.abs /\ mp.apm = mq.apm
    BY <1>5 DEF TypeT, TFields
  <2>2. \A f \in SizeFields : mp[f] = mq[f]
    BY <1>5 DEF TypeT, TFields, SizeFields
  <2>3. Advanced(mq, mp, op.prep)
    BY <1>5, <2>1, <2>2 DEF Advanced, TypeT
  <2> QED  BY <1>5, <2>3, AdvancedType
<1>8. Advanced(m1, mp, op.prep)
  <2>1. Advanced(m1, mp, 0 + op.prep)
    BY <1>4, <1>5, <1>7, AdvancedTrans
  <2> QED  BY <2>1
<1> HIDE DEF mp
<1>9. ~prep => op.prep = 0
  OBVIOUS
<1> HIDE DEF prep
<1>10. CASE Ok(t0) /\ ~chrp
  <2>1. u = m3
    BY <1>1, <1>10
  <2>2. Ok(m3)
    BY <2>1
  <2>3. Ok(m2)
    BY <2>2
  <2>4. Ok(m1)
    BY <2>3
  <2>5. m2 = IF prep THEN mp ELSE m1
    BY <2>4
  <2>6. Advanced(m1, m1, 0)
    BY <1>4 DEF Advanced, TypeT
  <2>7. Advanced(m1, m2, op.prep) /\ TypeT(m2)
    BY <1>4, <1>7, <1>8, <1>9, <2>5, <2>6
  <2> HIDE DEF m2
  <2>8. Advanced(m2, m2, 0)
    BY <2>7 DEF Advanced, TypeT
  <2>9. Advanced(m2, m3, 0)
    BY <2>7, <2>8, QuickAdvances
  <2> HIDE DEF m3
  <2>10. Advanced(t0, m2, 0 + op.prep)
    BY <1>2, <1>4, <2>7, AdvancedTrans
  <2>11. Advanced(t0, m3, 0 + op.prep + 0)
    BY <1>2, <2>9, <2>10, AdvancedTrans
  <2>12. Advanced(x, m3, op.efi + (0 + op.prep + 0))
    BY <1>2, <2>11, AdvancedTrans
  <2> QED  BY <2>1, <2>12
<1>11. CASE Ok(t0) /\ chrp
  <2>1. u = mc /\ ~over
    BY <1>1, <1>3, <1>11
  <2>2. Advanced(t0, mc, 0)
    BY <1>2, QuickAdvances
  <2>3. op.prep = 0
    BY <1>9, <2>1
  <2> HIDE DEF mc, over
  <2>4. Advanced(x, mc, op.efi + 0)
    BY <1>2, <2>2, AdvancedTrans
  <2> QED  BY <2>1, <2>3, <2>4
<1>12. Ok(t0)
  BY <1>1
<1> QED  BY <1>10, <1>11, <1>12


-----------------------------------------------------------------------------
(* Alignment to cylinders, and the size of the backup GPT.                  *)

\* u has the same block and sizes as x but for padding and GPT.
Resized(x, u) == /\ TypeT(u)
                 /\ u.cur = x.cur /\ u.mspad = x.mspad /\ u.app = x.app /\ u.have = x.have

LEMMA PresizedType ==
  ASSUME NEW x, TypeT(x), NEW u, Presized(x, u)
  PROVE  Resized(x, u) /\ u.align = x.align
<1>1. /\ u.cur = x.cur /\ u.mspad = x.mspad /\ u.align = x.align /\ u.app = x.app
      /\ u.have = x.have /\ u.hpc = x.hpc /\ u.sph = x.sph
  BY DEF Presized, Fixed, TFields, TableFields, GptFields
<1> QED  BY <1>1 DEF Presized, TypeT, Resized

LEMMA RoundUpNat ==
  ASSUME NEW a \in Nat, NEW b \in Nat \ {0}
  PROVE  RoundUp(a, b) \in Nat /\ RoundUp(a, b) - a \in Nat
<1>1. PICK q \in Nat : q = (a + b - 1) \div b
  <2>1. (a + b - 1) \in Nat
    OBVIOUS
  <2> QED  BY <2>1
<1>2. PICK r \in 0 .. b - 1 : r = (a + b - 1) % b
  <2>1. (a + b - 1) \in Nat
    OBVIOUS
  <2> QED  BY <2>1
<1>3. a + b - 1 = b * q + r
  BY <1>1, <1>2
<1>4. PICK p \in Nat : p = q * b
  BY <1>1
<1>5. b * q = p
  BY <1>1, <1>4
<1>6. a + b - 1 = p + r
  BY <1>3, <1>5
<1>7. RoundUp(a, b) = p
  BY <1>1, <1>4 DEF RoundUp
<1> QED  BY <1>2, <1>6, <1>7

LEMMA SphNat ==
  ASSUME NEW hd \in Nat
  PROVE  try_sph(hd, 32) \in Nat /\ try_sph(hd, 63) \in Nat
<1>1. PICK a \in Nat : a = (hd + 32 * 1024 - 1) \div (32 * 1024)
  OBVIOUS
<1>2. PICK b \in Nat : b = (hd + 63 * 1024 - 1) \div (63 * 1024)
  OBVIOUS
<1>3. RoundUp(b, 4) \in Nat /\ RoundUp(b, 2) \in Nat
  BY RoundUpNat
<1>4. try_sph(hd, 32) = a
  BY <1>1 DEF try_sph
<1>5. try_sph(hd, 63) \in {b, RoundUp(b, 2), RoundUp(b, 4)}
  BY <1>2 DEF try_sph
<1> QED  BY <1>3, <1>4, <1>5

LEMMA GeometryResized ==
  ASSUME NEW x, TypeT(x), NEW op, NEW hd \in Nat
  PROVE  Resized(x, Geometry(x, op, hd))
<1> DEFINE a == [x EXCEPT !.hpc = try_sph(hd, 32), !.sph = 32]
           n == IF try_sph(hd, 63) <= 255 THEN try_sph(hd, 63) ELSE 255
           b == [x EXCEPT !.sph = 63, !.hpc = n]
<1>1. n \in Nat /\ try_sph(hd, 32) \in Nat
  BY SphNat
<1>2. Geometry(x, op, hd) \in {x, a, b}
  BY DEF Geometry
<1> HIDE DEF n
<1>3. Resized(x, a)
  BY <1>1 DEF Resized, TypeT, TFields
<1>4. Resized(x, b)
  BY <1>1 DEF Resized, TypeT, TFields
<1>5. Resized(x, x)
  BY DEF Resized
<1> HIDE DEF a, b
<1> QED  BY <1>2, <1>3, <1>4, <1>5

LEMMA AlignResized ==
  ASSUME NEW x, TypeT(x), NEW op, NEW hd \in Nat
  PROVE  Resized(x, AlignTo(x, op, hd))
<1> DEFINE cyl == IF OldIsohybrid(op) THEN 64 * 32
                  ELSE IF op.hyb \/ op.align > 0 THEN x.hpc * x.sph ELSE 0
           frac == RoundUp(hd, cyl) - hd
           a == [x EXCEPT !.align = (frac + 3) \div 4,
                          !.pad = IF frac % 4 > 0 THEN 4 - (frac % 4) ELSE 0]
           e == Fail(x, "ISOLINUX_CANT_PATCH")
<1>1. AlignTo(x, op, hd) = IF op.align = 2 THEN x
        ELSE IF ~OldIsohybrid(op) /\ op.hyb /\ (op.img = <<>> \/ op.sadata = <<>>) THEN e
        ELSE IF cyl = 0 \/ hd > 1024 * cyl THEN x ELSE IF frac = 0 THEN x ELSE a
  BY DEF AlignTo
<1>2. PICK k \in Nat : k = x.hpc * x.sph
  <2>1. x.hpc \in Nat /\ x.sph \in Nat
    BY DEF TypeT
  <2> QED  BY <2>1
<1>3. cyl \in Nat
  BY <1>2
<1> HIDE DEF cyl
<1>4. ASSUME cyl # 0 PROVE Resized(x, a)
  <2>1. frac \in Nat
    BY <1>3, <1>4, RoundUpNat
  <2> HIDE DEF frac
  <2>2. (frac + 3) \div 4 \in Nat
    BY <2>1
  <2> QED  BY <2>2 DEF Resized, TypeT, TFields
<1>5. Resized(x, x)
  BY DEF Resized
<1>6. Resized(x, e)
  BY DEF Resized, TypeT, TFields, Fail
<1> HIDE DEF a, e, frac
<1> QED  BY <1>1, <1>4, <1>5, <1>6

LEMMA IsoAlignResized ==
  ASSUME NEW x, TypeT(x), ~x.computed, NEW op, Len(op.img) \in Nat, op.tail \in Nat
  PROVE  Resized(x, iso_align_isohybrid(x, op))
<1> DEFINE t1  == IF x.have THEN x ELSE precompute_gpt(x, op)
           img == t1.cur + (IF iso_count_appended_partitions(op) = 0 THEN op.tail + t1.gsize ELSE 0)
           t2  == Geometry(t1, op, img * 4)
           t3  == AlignTo(t2, op, img * 4)
<1>1. iso_align_isohybrid(x, op) = IF op.type # 0 THEN x ELSE IF ~Ok(t1) THEN t1 ELSE t3
  BY DEF iso_align_isohybrid
<1>2. Resized(x, x)
  BY DEF Resized
<1>3. Resized(x, t1)
  BY <1>2, PrecomputePresized, PresizedType DEF TypeT
<1> HIDE DEF t1
<1>4. img \in Nat /\ img * 4 \in Nat
  <2>1. PICK c, g \in Nat : c = t1.cur /\ g = t1.gsize
    BY <1>3 DEF Resized, TypeT
  <2>2. img = c + (IF iso_count_appended_partitions(op) = 0 THEN op.tail + g ELSE 0)
    BY <2>1
  <2> HIDE DEF img
  <2>3. img \in Nat
    BY <2>2
  <2> QED  BY <2>3
<1> HIDE DEF img
<1>5. Resized(t1, t2)
  BY <1>3, <1>4, GeometryResized DEF Resized
<1> HIDE DEF t2
<1>6. Resized(t2, t3)
  BY <1>4, <1>5, AlignResized DEF Resized
<1> HIDE DEF t3
<1>7. Resized(x, t3)
  BY <1>3, <1>5, <1>6 DEF Resized
<1> QED  BY <1>1, <1>2, <1>3, <1>7


-----------------------------------------------------------------------------
(* Appended partitions: the fold over the slots 1 to 8.                     *)

Slot8 == 1 .. 8
FoldStep(x, op, g) ==
  [s \in SUBSET Slot8 |-> IF s = {} THEN x ELSE append_partition(g[s \ {Max(s)}], op, Max(s))]

LEMMA MaxOfSlots ==
  ASSUME NEW s \in SUBSET Slot8, NEW m \in s, \A y \in s : y =< m
  PROVE  Max(s) = m
<1>1. \A z \in s : (\A y \in s : z >= y) => z = m
  BY DEF Slot8
<1>2. m \in s /\ \A y \in s : m >= y
  BY DEF Slot8
<1> QED  BY <1>1, <1>2 DEF Max

LEMMA SomeMax ==
  ASSUME NEW s \in SUBSET Slot8, s # {}
  PROVE  \E m \in s : \A y \in s : y =< m
<1> DEFINE T == {8 - y : y \in s}
<1>1. T \subseteq Nat /\ T # {}
  <2>1. \A y \in s : 8 - y \in Nat
    BY DEF Slot8
  <2> QED  BY <2>1
<1>2. PICK k \in T : \A z \in T : k =< z
  BY <1>1, LeastNatural
<1>3. PICK m \in s : k = 8 - m
  BY <1>2
<1>4. ASSUME NEW y \in s PROVE y =< m
  <2>1. k =< 8 - y
    BY <1>2
  <2> QED  BY <1>3, <2>1 DEF Slot8
<1> QED  BY <1>4

\* A function that satisfies the equation of the fold exists.
LEMMA FoldExists ==
  ASSUME NEW x, NEW op
  PROVE  \E g : g = FoldStep(x, op, g)
<1> DEFINE On(y, s, i) == IF i \in s THEN append_partition(y, op, i) ELSE y
<1>0. PICK f0 : f0 = [s \in SUBSET Slot8 |-> x]
  OBVIOUS
<1>1. PICK f1 : f1 = [s \in SUBSET Slot8 |-> On(f0[s], s, 1)]
  OBVIOUS
<1>2. PICK f2 : f2 = [s \in SUBSET Slot8 |-> On(f1[s], s, 2)]
  OBVIOUS
<1>3. PICK f3 : f3 = [s \in SUBSET Slot8 |-> On(f2[s], s, 3)]
  OBVIOUS
<1>4. PICK f4 : f4 = [s \in SUBSET Slot8 |-> On(f3[s], s, 4)]
  OBVIOUS
<1>5. PICK f5 : f5 = [s \in SUBSET Slot8 |-> On(f4[s], s, 5)]
  OBVIOUS
<1>6. PICK f6 : f6 = [s \in SUBSET Slot8 |-> On(f5[s], s, 6)]
  OBVIOUS
<1>7. PICK f7 : f7 = [s \in SUBSET Slot8 |-> On(f6[s], s, 7)]
  OBVIOUS
<1>8. PICK f8 : f8 = [s \in SUBSET Slot8 |-> On(f7[s], s, 8)]
  OBVIOUS
<1>9. f8[{}] = x
  BY <1>0, <1>1, <1>2, <1>3, <1>4, <1>5, <1>6, <1>7, <1>8
<1>10. ASSUME NEW s \in SUBSET Slot8, s # {}
       PROVE  f8[s] = append_partition(f8[s \ {Max(s)}], op, Max(s))
  <2>1. PICK m \in s : \A y \in s : y =< m
    BY <1>10, SomeMax
  <2>2. Max(s) = m
    BY <2>1, MaxOfSlots
  <2>3. PICK r \in SUBSET Slot8 : r = s \ {m}
    OBVIOUS
  <2>4. \A i \in Slot8 : /\ i < m => (i \in s <=> i \in r)
                         /\ i >= m => i \notin r
                         /\ i > m => i \notin s
    BY <2>1, <2>3 DEF Slot8
  <2>5. /\ f0[s] = x /\ f0[r] = x
        /\ f1[s] = On(f0[s], s, 1) /\ f1[r] = On(f0[r], r, 1)
        /\ f2[s] = On(f1[s], s, 2) /\ f2[r] = On(f1[r], r, 2)
        /\ f3[s] = On(f2[s], s, 3) /\ f3[r] = On(f2[r], r, 3)
        /\ f4[s] = On(f3[s], s, 4) /\ f4[r] = On(f3[r], r, 4)
        /\ f5[s] = On(f4[s], s, 5) /\ f5[r] = On(f4[r], r, 5)
        /\ f6[s] = On(f5[s], s, 6) /\ f6[r] = On(f5[r], r, 6)
        /\ f7[s] = On(f6[s], s, 7) /\ f7[r] = On(f6[r], r, 7)
        /\ f8[s] = On(f7[s], s, 8) /\ f8[r] = On(f7[r], r, 8)
    <3> HIDE DEF On
    <3> QED  BY <1>0, <1>1, <1>2, <1>3, <1>4, <1>5, <1>6, <1>7, <1>8
  <2>6. m \in {1, 2, 3, 4, 5, 6, 7, 8} /\ {1, 2, 3, 4, 5, 6, 7, 8} = Slot8
    BY DEF Slot8
  <2>7. f8[s] = append_partition(f8[r], op, m)
    BY <2>4, <2>5, <2>6
  <2> QED  BY <2>2, <2>3, <2>7
<1>11. f8 = [s \in SUBSET Slot8 |-> f8[s]]
  BY <1>8
<1>12. f8 = FoldStep(x, op, f8)
  <2>1. \A s \in SUBSET Slot8 : f8[s] =
          IF s = {} THEN x ELSE append_partition(f8[s \ {Max(s)}], op, Max(s))
    BY <1>9, <1>10
  <2> QED  BY <1>11, <2>1 DEF FoldStep
<1> QED  BY <1>12

\* The partitions get their places one after the other.
LEMMA FoldChain ==
  ASSUME NEW x, NEW op
  PROVE  \E y : /\ y[0] = x /\ y[8] = iso_compute_append_partitions(x, op)
                /\ \A k \in Slot8 : y[k] = append_partition(y[k - 1], op, k)
<1> DEFINE q == [i \in 1..8 |-> i]
           Gen(r, g) == [s \in SUBSET DOMAIN r |->
                           IF s = {} THEN x ELSE append_partition(g[s \ {Max(s)}], op, r[Max(s)])]
<1>1. iso_compute_append_partitions(x, op) = (CHOOSE g : g = Gen(q, g))[DOMAIN q]
  BY DEF iso_compute_append_partitions, FoldLeft, MapThenFoldSet
<1>2. \A g : Gen(q, g) = FoldStep(x, op, g)
  <2> TAKE g
  <2>1. DOMAIN q = Slot8
    BY DEF Slot8
  <2>2. \A s \in SUBSET Slot8 : s # {} => q[Max(s)] = Max(s)
    <3> TAKE s \in SUBSET Slot8
    <3> HAVE s # {}
    <3>1. Max(s) \in s
      BY SomeMax, MaxOfSlots
    <3> QED  BY <3>1 DEF Slot8
  <2> HIDE DEF q
  <2> QED  BY <2>1, <2>2 DEF FoldStep
<1>3. PICK G : G = (CHOOSE g : g = Gen(q, g))
  OBVIOUS
<1> HIDE DEF Gen
<1>4. \E g : g = Gen(q, g)
  BY <1>2, FoldExists
<1>5. G = Gen(q, G)
  BY <1>3, <1>4
<1>6. G = FoldStep(x, op, G)
  BY <1>2, <1>5
<1> DEFINE y == [k \in 0 .. 8 |-> G[1 .. k]]
<1>7. y[0] = x
  BY <1>6 DEF FoldStep
<1>8. y[8] = iso_compute_append_partitions(x, op)
  BY <1>1, <1>3
<1>9. ASSUME NEW k \in Slot8 PROVE y[k] = append_partition(y[k - 1], op, k)
  <2>1. PICK s \in SUBSET Slot8 : s = 1 .. k
    BY DEF Slot8
  <2>2. k \in s /\ \A z \in s : z =< k
    BY <2>1 DEF Slot8
  <2>3. Max(s) = k
    BY <2>2, MaxOfSlots
  <2>4. s \ {k} = 1 .. k - 1
    BY <2>1 DEF Slot8
  <2>5. G[s] = append_partition(G[s \ {k}], op, k)
    BY <1>6, <2>2, <2>3 DEF FoldStep
  <2>6. k \in 0 .. 8 /\ k - 1 \in 0 .. 8
    BY DEF Slot8
  <2>7. y[k] = G[1 .. k] /\ y[k - 1] = G[1 .. k - 1]
    BY <2>6
  <2> HIDE DEF y
  <2> QED  BY <2>1, <2>4, <2>5, <2>7
<1> HIDE DEF y
<1> QED  BY <1>7, <1>8, <1>9


-----------------------------------------------------------------------------
(* Sums over the images and over the slots, as the fold computes them.      *)

\* h has the sum of f over each subset of 1..n, in whichever order it is made.
Sums(n, f, h) == /\ h \in [SUBSET (1 .. n) -> Nat]
                 /\ h[{}] = 0
                 /\ \A s \in SUBSET (1 .. n) : \A y \in s : h[s] = f[y] + h[s \ {y}]

LEMMA SumsGrow ==
  ASSUME NEW n \in Nat, NEW f, \A i \in 1 .. n + 1 : f[i] \in Nat, NEW h, Sums(n, f, h)
  PROVE  \E g : Sums(n + 1, f, g)
<1> DEFINE g == [s \in SUBSET (1 .. n + 1) |-> h[s \ {n + 1}] + (IF n + 1 \in s THEN f[n + 1] ELSE 0)]
<1>1. \A s \in SUBSET (1 .. n + 1) : s \ {n + 1} \in SUBSET (1 .. n) /\ h[s \ {n + 1}] \in Nat
  <2> TAKE s \in SUBSET (1 .. n + 1)
  <2>1. s \ {n + 1} \in SUBSET (1 .. n)
    OBVIOUS
  <2> QED  BY <2>1 DEF Sums
<1>2. f[n + 1] \in Nat
  OBVIOUS
<1>3. \A s \in SUBSET (1 .. n + 1) :
        g[s] = h[s \ {n + 1}] + (IF n + 1 \in s THEN f[n + 1] ELSE 0) /\ g[s] \in Nat
  BY <1>1, <1>2
<1>4. g = [s \in SUBSET (1 .. n + 1) |-> g[s]]
  OBVIOUS
<1> HIDE DEF g
<1>5. g \in [SUBSET (1 .. n + 1) -> Nat]
  BY <1>3, <1>4
<1>6. g[{}] = 0
  <2>1. PICK s \in SUBSET (1 .. n + 1) : s = {}
    OBVIOUS
  <2>2. s \ {n + 1} = {} /\ n + 1 \notin s
    BY <2>1
  <2>3. g[s] = h[{}] + 0
    BY <1>3, <2>2
  <2> QED  BY <2>1, <2>3 DEF Sums
<1>7. ASSUME NEW s \in SUBSET (1 .. n + 1), NEW y \in s
      PROVE  g[s] = f[y] + g[s \ {y}]
  <2>1. PICK r \in SUBSET (1 .. n + 1) : r = s \ {y}
    OBVIOUS
  <2>2. CASE y = n + 1
    <3>1. r \ {n + 1} = s \ {n + 1} /\ n + 1 \notin r /\ n + 1 \in s
      BY <2>1, <2>2
    <3>2. PICK v \in Nat : v = h[s \ {n + 1}]
      BY <1>1
    <3>3. g[s] = v + f[n + 1] /\ g[r] = v + 0
      BY <1>3, <3>1, <3>2
    <3> QED  BY <1>2, <2>1, <2>2, <3>3
  <2>3. CASE y # n + 1
    <3>1. PICK a \in SUBSET (1 .. n) : a = s \ {n + 1}
      BY <1>1
    <3>2. y \in a /\ r \ {n + 1} = a \ {y} /\ (n + 1 \in r <=> n + 1 \in s)
      BY <2>1, <2>3, <3>1
    <3>3. h[a] = f[y] + h[a \ {y}]
      BY <3>2 DEF Sums
    <3>4. PICK v \in Nat : v = h[a \ {y}]
      BY <1>1, <2>1, <3>2
    <3>5. PICK w \in Nat : w = IF n + 1 \in s THEN f[n + 1] ELSE 0
      BY <1>2
    <3>6. PICK u \in Nat : u = f[y]
      OBVIOUS
    <3>7. g[s] = (u + v) + w /\ g[r] = v + w
      BY <1>3, <3>1, <3>2, <3>3, <3>4, <3>5, <3>6
    <3> QED  BY <2>1, <3>6, <3>7
  <2> QED  BY <2>2, <2>3
<1> QED  BY <1>5, <1>6, <1>7 DEF Sums

LEMMA SumsExist ==
  ASSUME NEW n \in Nat, NEW f, \A i \in 1 .. n : f[i] \in Nat
  PROVE  \E h : Sums(n, f, h)
<1> DEFINE T == {k \in 0 .. n : ~\E h : Sums(k, f, h)}
<1>1. SUFFICES ASSUME T # {} PROVE FALSE
  OBVIOUS
<1>2. PICK m \in T : \A y \in T : m =< y
  <2>1. T \subseteq Nat
    OBVIOUS
  <2> HIDE DEF T
  <2> QED  BY <1>1, <2>1, LeastNatural
<1>3. m \in 0 .. n /\ ~\E h : Sums(m, f, h)
  BY <1>2
<1>4. CASE m = 0
  <2> DEFINE h == [s \in SUBSET (1 .. 0) |-> 0]
  <2>1. 1 .. 0 = {}
    OBVIOUS
  <2>2. Sums(0, f, h)
    BY <2>1 DEF Sums
  <2> QED  BY <1>3, <1>4, <2>2
<1>5. CASE m # 0
  <2>1. m - 1 \in 0 .. n /\ ~(m =< m - 1)
    BY <1>3, <1>5
  <2>2. m - 1 \notin T
    BY <1>2, <2>1
  <2>3. PICK h : Sums(m - 1, f, h)
    BY <2>1, <2>2
  <2>4. PICK k \in Nat : k = m - 1 /\ k + 1 = m
    BY <1>3, <1>5
  <2>5. \A i \in 1 .. k + 1 : f[i] \in Nat
    BY <1>3, <2>4
  <2>6. \E g : Sums(k + 1, f, g)
    BY <2>3, <2>4, <2>5, SumsGrow
  <2> QED  BY <1>3, <2>4, <2>6
<1> QED  BY <1>4, <1>5

SumOver(f, S) == FoldFunctionOnSet(+, 0, f, S)
AnyOf(s) == CHOOSE x \in s : TRUE
IsFold(f, S, h) == h = [s \in SUBSET S |-> IF s = {} THEN 0 ELSE f[AnyOf(s)] + h[s \ {AnyOf(s)}]]

LEMMA SumIs ==
  ASSUME NEW n \in Nat, NEW f, NEW h, Sums(n, f, h), NEW S \in SUBSET (1 .. n)
  PROVE  SumOver(f, S) = h[S] /\ h[S] \in Nat
<1>1. SumOver(f, S) = (CHOOSE g : IsFold(f, S, g))[S]
  BY DEF SumOver, FoldFunctionOnSet, MapThenFoldSet, IsFold, AnyOf
<1> DEFINE F == [s \in SUBSET S |-> h[s]]
<1>2. IsFold(f, S, F)
  <2>1. ASSUME NEW s \in SUBSET S
        PROVE  F[s] = IF s = {} THEN 0 ELSE f[AnyOf(s)] + F[s \ {AnyOf(s)}]
    <3>1. CASE s = {}
      BY <3>1 DEF Sums
    <3>2. CASE s # {}
      <4>1. PICK x \in s : x = AnyOf(s)
        BY <3>2 DEF AnyOf
      <4>2. h[s] = f[x] + h[s \ {x}]
        BY DEF Sums
      <4> QED  BY <3>2, <4>1, <4>2
    <3> QED  BY <3>1, <3>2
  <2>2. F = [s \in SUBSET S |-> F[s]]
    OBVIOUS
  <2> HIDE DEF F
  <2> QED  BY <2>1, <2>2 DEF IsFold
<1>3. PICK G : G = (CHOOSE g : IsFold(f, S, g))
  OBVIOUS
<1>4. IsFold(f, S, G)
  BY <1>2, <1>3
<1>5. \A s \in SUBSET S : G[s] = h[s]
  <2> DEFINE T == {Cardinality(s) : s \in {s \in SUBSET S : G[s] # h[s]}}
  <2>1. \A s \in SUBSET S : IsFiniteSet(s) /\ Cardinality(s) \in Nat
    <3>1. IsFiniteSet(1 .. n)
      BY FS_Interval
    <3>2. IsFiniteSet(S)
      BY <3>1, FS_Subset
    <3> QED  BY <3>2, FS_Subset, FS_CardinalityType
  <2>2. SUFFICES ASSUME T # {} PROVE FALSE
    OBVIOUS
  <2>3. T \subseteq Nat
    BY <2>1
  <2>4. PICK m \in T : \A y \in T : m =< y
    BY <2>2, <2>3, LeastNatural
  <2>5. PICK s \in SUBSET S : G[s] # h[s] /\ m = Cardinality(s)
    BY <2>4
  <2>6. s # {}
    BY <1>4, <2>5 DEF IsFold, Sums
  <2>7. PICK x \in s : x = AnyOf(s)
    BY <2>6 DEF AnyOf
  <2>8. Cardinality(s \ {x}) = Cardinality(s) - 1
    BY <2>1, FS_RemoveElement
  <2>9. ~(m <= Cardinality(s \ {x}))
    BY <2>1, <2>5, <2>8
  <2>10. G[s \ {x}] = h[s \ {x}]
    BY <2>4, <2>9
  <2>11. G[s] = f[x] + G[s \ {x}]
    BY <1>4, <2>6, <2>7 DEF IsFold
  <2>12. h[s] = f[x] + h[s \ {x}]
    BY DEF Sums
  <2> QED  BY <2>5, <2>10, <2>11, <2>12
<1>6. h[S] \in Nat
  BY DEF Sums
<1> QED  BY <1>1, <1>3, <1>5, <1>6

LEMMA ImagesUpToNat ==
  ASSUME NEW op, Len(op.img) \in Nat, \A k \in 1 .. Len(op.img) : op.img[k].size \in Nat,
         NEW k \in 0 .. Len(op.img)
  PROVE  ImagesUpTo(op, k) \in Nat
<1> DEFINE f == [j \in 1..Len(op.img) |-> op.img[j].size]
           S == {j \in 1..k : InFiles(op, j)}
<1>1. PICK h : Sums(Len(op.img), f, h)
  <2>1. \A i \in 1 .. Len(op.img) : f[i] \in Nat
    OBVIOUS
  <2> HIDE DEF f
  <2> QED  BY <2>1, SumsExist
<1>2. S \in SUBSET (1 .. Len(op.img))
  OBVIOUS
<1>3. ImagesUpTo(op, k) = SumOver(f, S)
  BY DEF ImagesUpTo, SumOver
<1> HIDE DEF f, S
<1> QED  BY <1>1, <1>2, <1>3, SumIs


-----------------------------------------------------------------------------
(* How much the appended partitions take.                                   *)

\* Blocks which the writer of appended partitions writes for slot i.
Blocks(op, ap, i) ==
  IF Real(op, i) THEN ap[i].pad + (IF op.app[i].keep >= 0 THEN 0 ELSE ap[i].n) ELSE 0
AppOption(op) == \A i \in DOMAIN op.app : op.app[i].size \in Nat /\ op.app[i].keep \in Int
\* z comes from y by placing partition i.
PlacedOne(op, y, z, i) == /\ TypeT(z)
                          /\ z.mspad = y.mspad /\ z.align = y.align /\ z.have = y.have
                          /\ z.computed = y.computed
                          /\ z.cur = y.cur + Blocks(op, z.app, i) /\ Blocks(op, z.app, i) \in Nat
                          /\ i \notin Slots(op) => ~Real(op, i)
                          /\ \A j \in Slot8 : j # i => z.app[j] = y.app[j]

LEMMA CylNat ==
  ASSUME NEW y, TypeT(y), NEW op
  PROVE  append_cyl(y, op) \in Nat
<1>1. PICK k \in Nat : k = y.hpc * y.sph
  <2>1. y.hpc \in Nat /\ y.sph \in Nat
    BY DEF TypeT
  <2> QED  BY <2>1
<1>2. append_cyl(y, op) \in {k \div 4, 0}
  BY <1>1 DEF append_cyl
<1>3. k \div 4 \in Nat
  OBVIOUS
<1> QED  BY <1>2, <1>3

LEMMA PadSizeNat ==
  ASSUME NEW y, TypeT(y), NEW op, NEW i, op.app[i].size \in Nat
  PROVE  append_pad(y, op) \in Nat /\ append_size(y, op, i) \in Nat
<1>1. PICK c \in Nat : c = append_cyl(y, op)
  BY CylNat
<1>2. y.cur \in Nat
  BY DEF TypeT
<1>3. RoundUp(y.cur, SunCyl) - y.cur \in Nat
  BY <1>2, RoundUpNat, SunCylAssumption
<1>4. c > 0 => RoundUp(y.cur, c) - y.cur \in Nat /\ RoundUp(op.app[i].size, c) \in Nat
  BY <1>2, RoundUpNat
<1> QED  BY <1>1, <1>3, <1>4 DEF append_pad, append_size

LEMMA PlacesOne ==
  ASSUME NEW y, TypeT(y), NEW op, AppOption(op), NEW i \in Slot8, Ok(append_partition(y, op, i))
  PROVE  PlacedOne(op, y, append_partition(y, op, i), i)
<1> DEFINE z == append_partition(y, op, i)
           p == append_pad(y, op)
           n == append_size(y, op, i)
           r == [s |-> op.app[i].keep, n |-> op.app[i].size, pad |-> 0]
           a == [y EXCEPT !.app[i] = r, !.mtype = 0]
           v == [s |-> y.cur + p, n |-> n, pad |-> p]
           b == [y EXCEPT !.app[i] = v, !.cur = @ + p + n]
<1>1. z = IF ~Ok(y) \/ ~Real(op, i) THEN y
          ELSE IF i \notin Slots(op) THEN Fail(y, "BAD_PARTITION_NO")
          ELSE IF op.app[i].keep >= 0 THEN a ELSE b
  BY DEF append_partition
<1>2. ~Ok(Fail(y, "BAD_PARTITION_NO"))
  BY DEF Ok, Fail, TypeT, TFields
<1>3. Ok(y)
  BY <1>1
<1>4. i \in DOMAIN y.app
  BY DEF TypeT, Slot8
<1>5. CASE ~Real(op, i)
  <2>1. z = y
    BY <1>1, <1>5
  <2>2. Blocks(op, y.app, i) = 0
    BY <1>5 DEF Blocks
  <2>3. y.cur = y.cur + Blocks(op, y.app, i)
    BY <2>2 DEF TypeT
  <2>4. PlacedOne(op, y, y, i)
    BY <1>5, <2>2, <2>3 DEF PlacedOne
  <2> HIDE DEF z
  <2> QED  BY <2>1, <2>4 DEF z
<1>6. CASE Real(op, i) /\ op.app[i].keep >= 0
  <2>1. z = a /\ i \in Slots(op)
    BY <1>1, <1>2, <1>3, <1>6
  <2> HIDE DEF r, z
  <2>2. /\ DOMAIN a = TFields /\ a.app = [y.app EXCEPT ![i] = r]
        /\ a.cur = y.cur /\ a.mspad = y.mspad /\ a.align = y.align /\ a.abs = y.abs /\ a.hpc = y.hpc
        /\ a.sph = y.sph /\ a.gsize = y.gsize /\ a.apm = y.apm /\ a.have = y.have
        /\ a.computed = y.computed /\ a.gmax = y.gmax
    BY DEF TypeT, TFields
  <2> HIDE DEF a
  <2>3. a.app[i] = r /\ DOMAIN a.app = 1 .. 8 /\ \A j \in Slot8 : j # i => a.app[j] = y.app[j]
    BY <1>4, <2>2 DEF TypeT, Slot8
  <2>4. TypeT(a)
    BY <2>2, <2>3 DEF TypeT
  <2>5. r.pad = 0
    BY DEF r
  <2>6. Blocks(op, a.app, i) = 0
    BY <1>6, <2>1, <2>3, <2>5 DEF Blocks
  <2>7. a.cur = y.cur + Blocks(op, a.app, i)
    <3>1. y.cur \in Nat
      BY DEF TypeT
    <3> QED  BY <2>2, <2>6, <3>1
  <2>8. PlacedOne(op, y, a, i)
    BY <2>1, <2>2, <2>3, <2>4, <2>6, <2>7 DEF PlacedOne
  <2> QED  BY <2>1, <2>8 DEF z
<1>7. CASE Real(op, i) /\ ~(op.app[i].keep >= 0)
  <2>1. z = b /\ i \in Slots(op)
    BY <1>1, <1>2, <1>3, <1>7
  <2>2. p \in Nat /\ n \in Nat
    <3>1. op.app[i].size \in Nat
      BY <1>7 DEF AppOption, Real, Given
    <3> QED  BY <3>1, PadSizeNat
  <2> HIDE DEF p, n, v, z
  <2>3. /\ DOMAIN b = TFields /\ b.app = [y.app EXCEPT ![i] = v]
        /\ b.cur = y.cur + p + n /\ b.mspad = y.mspad /\ b.align = y.align /\ b.abs = y.abs
        /\ b.hpc = y.hpc /\ b.sph = y.sph /\ b.gsize = y.gsize /\ b.apm = y.apm /\ b.have = y.have
        /\ b.computed = y.computed /\ b.gmax = y.gmax
    BY DEF TypeT, TFields
  <2> HIDE DEF b
  <2>4. b.app[i] = v /\ DOMAIN b.app = 1 .. 8 /\ \A j \in Slot8 : j # i => b.app[j] = y.app[j]
    BY <1>4, <2>3 DEF TypeT, Slot8
  <2>5. TypeT(b)
    BY <2>2, <2>3, <2>4 DEF TypeT
  <2>6. v.pad = p /\ v.n = n
    BY DEF v
  <2>7. Blocks(op, b.app, i) = p + n
    BY <1>7, <2>1, <2>4, <2>6 DEF Blocks
  <2>8. b.cur = y.cur + Blocks(op, b.app, i) /\ Blocks(op, b.app, i) \in Nat
    <3>1. y.cur \in Nat
      BY DEF TypeT
    <3> QED  BY <2>2, <2>3, <2>7, <3>1
  <2>9. PlacedOne(op, y, b, i)
    BY <2>1, <2>3, <2>4, <2>5, <2>8 DEF PlacedOne
  <2> QED  BY <2>1, <2>9 DEF z
<1> QED  BY <1>5, <1>6, <1>7


\* Blocks of all appended partitions, as the writer adds them up.
AppBlocks(op, ap) == SumOver([j \in 1..8 |-> Blocks(op, ap, j)], Slots(op))

LEMMA BlocksOfSlots ==
  ASSUME NEW op, NEW ap, \A j \in Slot8 : Blocks(op, ap, j) \in Nat,
         \A j \in Slot8 : j \notin Slots(op) => Blocks(op, ap, j) = 0
  PROVE  AppBlocks(op, ap) = Blocks(op, ap, 1) + Blocks(op, ap, 2) + Blocks(op, ap, 3) + Blocks(op, ap, 4)
                             + Blocks(op, ap, 5) + Blocks(op, ap, 6) + Blocks(op, ap, 7) + Blocks(op, ap, 8)
<1> DEFINE f == [j \in 1..8 |-> Blocks(op, ap, j)]
<1>1. \A j \in 1 .. 8 : f[j] = Blocks(op, ap, j) /\ f[j] \in Nat
  BY DEF Slot8
<1> HIDE DEF f
<1>2. PICK h : Sums(8, f, h)
  BY <1>1, SumsExist
<1>3. ASSUME NEW a \in 1 .. 8, NEW b \in 1 .. 8, a <= b
      PROVE  h[a .. b] = f[b] + h[a .. b - 1] /\ h[a .. b] \in Nat /\ h[a .. b - 1] \in Nat
  <2>1. a .. b \in SUBSET (1 .. 8) /\ b \in a .. b /\ (a .. b) \ {b} = a .. b - 1
        /\ a .. b - 1 \in SUBSET (1 .. 8)
    BY <1>3
  <2>2. PICK s \in SUBSET (1 .. 8), r \in SUBSET (1 .. 8) : s = a .. b /\ r = a .. b - 1
    BY <2>1
  <2>3. b \in s /\ s \ {b} = r
    BY <2>1, <2>2
  <2>4. h[s] = f[b] + h[r] /\ h[s] \in Nat /\ h[r] \in Nat
    BY <1>2, <2>3 DEF Sums
  <2> QED  BY <2>2, <2>4
<1>4. \A a \in {1, 2} : h[a .. a - 1] = 0
  <2>1. \A a \in {1, 2} : a .. a - 1 = {}
    OBVIOUS
  <2>2. h[{}] = 0
    BY <1>2 DEF Sums
  <2> QED  BY <2>1, <2>2
<1>5. /\ f[1] \in Nat /\ f[2] \in Nat /\ f[3] \in Nat /\ f[4] \in Nat
      /\ f[5] \in Nat /\ f[6] \in Nat /\ f[7] \in Nat /\ f[8] \in Nat
  BY <1>1
<1>6. CASE op.type = 3
  <2>1. Slots(op) = 2 .. 8 /\ f[1] = 0
    BY <1>1, <1>6 DEF Slots, Slot8
  <2>2. h[2 .. 8] = f[2] + f[3] + f[4] + f[5] + f[6] + f[7] + f[8]
    <3>1. h[2 .. 2 - 1] = 0
      BY <1>4
    <3>2. h[2 .. 2] = f[2]
      BY <1>3, <1>5, <3>1
    <3>3. h[2 .. 3] = f[2] + f[3]
      BY <1>3, <1>5, <3>2
    <3>4. h[2 .. 4] = f[2] + f[3] + f[4]
      BY <1>3, <1>5, <3>3
    <3>5. h[2 .. 5] = f[2] + f[3] + f[4] + f[5]
      BY <1>3, <1>5, <3>4
    <3>6. h[2 .. 6] = f[2] + f[3] + f[4] + f[5] + f[6]
      BY <1>3, <1>5, <3>5
    <3>7. h[2 .. 7] = f[2] + f[3] + f[4] + f[5] + f[6] + f[7]
      BY <1>3, <1>5, <3>6
    <3> QED  BY <1>3, <1>5, <3>7
  <2>3. AppBlocks(op, ap) = h[2 .. 8]
    <3>1. Slots(op) \in SUBSET (1 .. 8)
      BY <2>1
    <3> QED  BY <1>2, <2>1, <3>1, SumIs DEF AppBlocks, f
  <2> QED  BY <1>1, <1>5, <2>1, <2>2, <2>3
<1>7. CASE op.type # 3
  <2>1. Slots(op) = 1 .. 4 /\ f[5] = 0 /\ f[6] = 0 /\ f[7] = 0 /\ f[8] = 0
    BY <1>1, <1>7 DEF Slots, Slot8
  <2>2. h[1 .. 4] = f[1] + f[2] + f[3] + f[4]
    <3>1. h[1 .. 1 - 1] = 0
      BY <1>4
    <3>2. h[1 .. 1] = f[1]
      BY <1>3, <1>5, <3>1
    <3>3. h[1 .. 2] = f[1] + f[2]
      BY <1>3, <1>5, <3>2
    <3>4. h[1 .. 3] = f[1] + f[2] + f[3]
      BY <1>3, <1>5, <3>3
    <3> QED  BY <1>3, <1>5, <3>4
  <2>3. AppBlocks(op, ap) = h[1 .. 4]
    <3>1. Slots(op) \in SUBSET (1 .. 8)
      BY <2>1
    <3> QED  BY <1>2, <2>1, <3>1, SumIs DEF AppBlocks, f
  <2> QED  BY <1>1, <1>5, <2>1, <2>2, <2>3
<1> QED  BY <1>6, <1>7


LEMMA AppendAdvances ==
  ASSUME NEW x, TypeT(x), NEW op, AppOption(op), Ok(iso_compute_append_partitions(x, op)),
         NEW u, u = iso_compute_append_partitions(x, op)
  PROVE  /\ TypeT(u) /\ u.mspad = x.mspad /\ u.align = x.align /\ u.have = x.have
         /\ u.computed = x.computed /\ \A j \in Slot8 : j \notin Slots(op) => ~Real(op, j)
         /\ AppBlocks(op, u.app) \in Nat /\ u.cur = x.cur + AppBlocks(op, u.app)
<1>1. PICK y : /\ y[0] = x /\ y[8] = iso_compute_append_partitions(x, op)
               /\ \A k \in Slot8 : y[k] = append_partition(y[k - 1], op, k)
  BY FoldChain
<1>2. \A k \in Slot8 : ~Ok(y[k - 1]) => ~Ok(y[k])
  BY <1>1 DEF append_partition
<1>3. /\ Ok(y[1]) /\ Ok(y[2]) /\ Ok(y[3]) /\ Ok(y[4]) /\ Ok(y[5]) /\ Ok(y[6]) /\ Ok(y[7]) /\ Ok(y[8])
  <2>1. Ok(y[8])
    BY <1>1
  <2>2. \A k \in {2, 3, 4, 5, 6, 7, 8} : Ok(y[k]) => Ok(y[k - 1])
    BY <1>2 DEF Slot8
  <2>3. Ok(y[7])
    BY <2>1, <2>2
  <2>4. Ok(y[6])
    BY <2>3, <2>2
  <2>5. Ok(y[5])
    BY <2>4, <2>2
  <2>6. Ok(y[4])
    BY <2>5, <2>2
  <2>7. Ok(y[3])
    BY <2>6, <2>2
  <2>8. Ok(y[2])
    BY <2>7, <2>2
  <2>9. Ok(y[1])
    BY <2>8, <2>2
  <2> QED  BY <2>1, <2>3, <2>4, <2>5, <2>6, <2>7, <2>8, <2>9
<1>4. \A k \in Slot8 : TypeT(y[k - 1]) /\ Ok(y[k]) => PlacedOne(op, y[k - 1], y[k], k)
  BY <1>1, PlacesOne
<1>5. \A k \in Slot8 : TypeT(y[k - 1]) /\ Ok(y[k]) => TypeT(y[k]) /\ PlacedOne(op, y[k - 1], y[k], k)
  BY <1>4 DEF PlacedOne
<1>6. /\ TypeT(y[1]) /\ PlacedOne(op, y[0], y[1], 1)
      /\ TypeT(y[2]) /\ PlacedOne(op, y[1], y[2], 2)
      /\ TypeT(y[3]) /\ PlacedOne(op, y[2], y[3], 3)
      /\ TypeT(y[4]) /\ PlacedOne(op, y[3], y[4], 4)
      /\ TypeT(y[5]) /\ PlacedOne(op, y[4], y[5], 5)
      /\ TypeT(y[6]) /\ PlacedOne(op, y[5], y[6], 6)
      /\ TypeT(y[7]) /\ PlacedOne(op, y[6], y[7], 7)
      /\ TypeT(y[8]) /\ PlacedOne(op, y[7], y[8], 8)
  <2>1. TypeT(y[1]) /\ PlacedOne(op, y[0], y[1], 1)
    BY <1>1, <1>3, <1>5 DEF Slot8
  <2>2. TypeT(y[2]) /\ PlacedOne(op, y[1], y[2], 2)
    BY <2>1, <1>3, <1>5 DEF Slot8
  <2>3. TypeT(y[3]) /\ PlacedOne(op, y[2], y[3], 3)
    BY <2>2, <1>3, <1>5 DEF Slot8
  <2>4. TypeT(y[4]) /\ PlacedOne(op, y[3], y[4], 4)
    BY <2>3, <1>3, <1>5 DEF Slot8
  <2>5. TypeT(y[5]) /\ PlacedOne(op, y[4], y[5], 5)
    BY <2>4, <1>3, <1>5 DEF Slot8
  <2>6. TypeT(y[6]) /\ PlacedOne(op, y[5], y[6], 6)
    BY <2>5, <1>3, <1>5 DEF Slot8
  <2>7. TypeT(y[7]) /\ PlacedOne(op, y[6], y[7], 7)
    BY <2>6, <1>3, <1>5 DEF Slot8
  <2>8. TypeT(y[8]) /\ PlacedOne(op, y[7], y[8], 8)
    BY <2>7, <1>3, <1>5 DEF Slot8
  <2> QED  BY <2>1, <2>2, <2>3, <2>4, <2>5, <2>6, <2>7, <2>8
<1>7. u = y[8]
  BY <1>1
<1>8. \A j \in Slot8 : u.app[j] = y[j].app[j]
  BY <1>6, <1>7 DEF PlacedOne, Slot8
<1>9. \A j \in Slot8 : Blocks(op, u.app, j) = Blocks(op, y[j].app, j)
  BY <1>8 DEF Blocks
<1>17. \A j \in Slot8 : PlacedOne(op, y[j - 1], y[j], j)
  BY <1>6 DEF Slot8
<1>18. \A j \in Slot8 : j \notin Slots(op) => ~Real(op, j)
  BY <1>17 DEF PlacedOne
<1>10. \A j \in Slot8 : Blocks(op, u.app, j) \in Nat /\ (j \notin Slots(op) => Blocks(op, u.app, j) = 0)
  <2>2. \A j \in Slot8 : Blocks(op, y[j].app, j) \in Nat /\ (j \notin Slots(op) => ~Real(op, j))
    BY <1>17 DEF PlacedOne
  <2> QED  BY <1>9, <2>2 DEF Blocks
<1> DEFINE B(j) == Blocks(op, u.app, j)
<1>11. /\ y[1].cur = x.cur + B(1) /\ y[2].cur = y[1].cur + B(2) /\ y[3].cur = y[2].cur + B(3)
       /\ y[4].cur = y[3].cur + B(4) /\ y[5].cur = y[4].cur + B(5) /\ y[6].cur = y[5].cur + B(6)
       /\ y[7].cur = y[6].cur + B(7) /\ y[8].cur = y[7].cur + B(8)
  <2> HIDE DEF B
  <2>1. \A j \in Slot8 : Blocks(op, y[j].app, j) = B(j)
    BY <1>9 DEF B
  <2> QED  BY <1>1, <1>6, <2>1 DEF PlacedOne, Slot8
<1>12. x.cur \in Nat
  BY DEF TypeT
<1>13. /\ B(1) \in Nat /\ B(2) \in Nat /\ B(3) \in Nat /\ B(4) \in Nat
       /\ B(5) \in Nat /\ B(6) \in Nat /\ B(7) \in Nat /\ B(8) \in Nat
  BY <1>10 DEF Slot8
<1>14. AppBlocks(op, u.app) = B(1) + B(2) + B(3) + B(4) + B(5) + B(6) + B(7) + B(8)
  BY <1>10, BlocksOfSlots
<1>15. u.mspad = x.mspad /\ u.align = x.align /\ u.have = x.have /\ u.computed = x.computed
  BY <1>1, <1>6, <1>7 DEF PlacedOne
<1> HIDE DEF B
<1>16. AppBlocks(op, u.app) \in Nat /\ u.cur = x.cur + AppBlocks(op, u.app)
  BY <1>7, <1>11, <1>12, <1>13, <1>14
<1> QED  BY <1>6, <1>7, <1>15, <1>16, <1>18



-----------------------------------------------------------------------------
(* Writing the System Area leaves alone what determines the layout.         *)

KeptFields == {"total", "mspad", "align", "gend", "gsize", "gmax"}
\* The SUN disk label takes slot 1 for the whole image.
Kept(op, x, u) == /\ DOMAIN u = TFields /\ DOMAIN u.app = 1 .. 8
                  /\ \A f \in KeptFields : u[f] = x[f]
                  /\ \A i \in Slots(op) : u.app[i] = x.app[i]
RFields == {"t", "h", "pt", "ee", "img", "g"}
Framed(x) == DOMAIN x = TFields /\ DOMAIN x.app = 1 .. 8
RKept(op, r, s) == DOMAIN s = RFields /\ Kept(op, r.t, s.t)

LEMMA KeptTrans ==
  ASSUME NEW op, NEW x, NEW y, NEW z, Kept(op, x, y), Kept(op, y, z)
  PROVE  Kept(op, x, z)
BY DEF Kept

LEMMA KeptFail ==
  ASSUME NEW op, NEW x, Framed(x), NEW e
  PROVE  Kept(op, x, Fail(x, e)) /\ Kept(op, x, x)
BY DEF Kept, Framed, Fail, TFields, KeptFields

LEMMA RKeptFail ==
  ASSUME NEW op, NEW r, DOMAIN r = RFields, Framed(r.t), NEW e
  PROVE  RKept(op, r, RFail(r, e)) /\ RKept(op, r, r)
<1>1. DOMAIN RFail(r, e) = RFields /\ RFail(r, e).t = [r.t EXCEPT !.err = e]
  BY DEF RFail, RFields
<1>2. Kept(op, r.t, [r.t EXCEPT !.err = e]) /\ Kept(op, r.t, r.t)
  BY DEF Kept, Framed, TFields, KeptFields
<1> QED  BY <1>1, <1>2 DEF RKept

\* A step that replaces parts of r other than t.
LEMMA RKeptSame ==
  ASSUME NEW op, NEW r, DOMAIN r = RFields, Framed(r.t), NEW s, DOMAIN s = RFields, s.t = r.t
  PROVE  RKept(op, r, s)
BY DEF RKept, Kept, Framed

LEMMA ApmKept ==
  ASSUME NEW op, NEW x, Framed(x), NEW img
  PROVE  Kept(op, x, iso_write_apm(x, img))
<1> DEFINE a  == IF x.abs = 0 THEN 2048 ELSE x.abs
           n    == Len(x.apm)
           rest == IF img < x.apm[n].s THEN 0 ELSE img - x.apm[n].s
           q1   == IF x.nogap THEN x.apm
                   ELSE IF rest = 0 THEN Front(x.apm) ELSE [x.apm EXCEPT ![n].n = rest]
           q2   == [q1 EXCEPT ![1].s = 1, ![1].n = Len(q1)]
           y    == [x EXCEPT !.apm = q1, !.abs = a]
           z    == [x EXCEPT !.apm = q2, !.abs = a]
<1>1. iso_write_apm(x, img) \in {x, Fail(y, "TOO_MANY_APM"), z}
  BY DEF iso_write_apm
<1> HIDE DEF q1, q2, a
<1>2. Kept(op, x, y) /\ Framed(y) /\ Kept(op, x, z)
  BY DEF Kept, Framed, TFields, KeptFields
<1> HIDE DEF y, z
<1> QED  BY <1>1, <1>2, KeptFail, KeptTrans

LEMMA MbrKept ==
  ASSUME NEW op, NEW x, Framed(x), NEW img
  PROVE  Kept(op, x, iso_write_mbr(x, img))
<1>1. PICK q : iso_write_mbr(x, img) \in {Fail(x, "MBR_OVERLAP"), [x EXCEPT !.mbr = q]}
  BY DEF iso_write_mbr
<1>2. Kept(op, x, [x EXCEPT !.mbr = q])
  BY DEF Kept, Framed, TFields, KeptFields
<1> QED  BY <1>1, <1>2, KeptFail

LEMMA GptKept ==
  ASSUME NEW op, NEW x, Framed(x), NEW img
  PROVE  Kept(op, x, iso_write_gpt(x, op, img))
<1> DEFINE y == iso_copy_apmhfs_to_gpt(x)
           z == FillGptGaps(y, op, img)
<1>1. PICK g, e : y = [x EXCEPT !.gpt = g, !.err = e]
  BY DEF iso_copy_apmhfs_to_gpt
<1>2. Kept(op, x, y) /\ Framed(y)
  BY <1>1 DEF Kept, Framed, TFields, KeptFields
<1>3. Kept(op, y, z) /\ Framed(z)
  <2> HIDE DEF y
  <2> DEFINE w == [y EXCEPT !.gpt = SortReq(y.gpt)]
  <2>1. PICK q : z \in {w, Fail(w, "GPT_OVERLAP"), Fail(w, "TOO_MANY_GPT"), [w EXCEPT !.gpt = q]}
    BY DEF FillGptGaps
  <2>2. Kept(op, y, w) /\ Framed(w)
    BY <1>2 DEF Kept, Framed, TFields, KeptFields
  <2> HIDE DEF w, z
  <2>3. Kept(op, w, [w EXCEPT !.gpt = q])
    BY <2>2 DEF Kept, Framed, TFields, KeptFields
  <2>4. Kept(op, w, z)
    BY <2>1, <2>2, <2>3, KeptFail
  <2>5. Kept(op, y, z)
    BY <2>2, <2>4, KeptTrans
  <2> QED  BY <2>5 DEF Kept, Framed
<1>4. Kept(op, x, z)
  BY <1>2, <1>3, KeptTrans
<1>5. iso_write_gpt(x, op, img) \in {x, y, Fail(y, "TOO_MANY_GPT"), z, Fail(z, "TOO_MANY_GPT")}
  BY DEF iso_write_gpt
<1> HIDE DEF y, z
<1>6. Kept(op, y, Fail(y, "TOO_MANY_GPT")) /\ Kept(op, z, Fail(z, "TOO_MANY_GPT")) /\ Kept(op, x, x)
  BY <1>2, <1>3, KeptFail
<1> QED  BY <1>2, <1>4, <1>5, <1>6, KeptTrans


LEMMA TablesKept ==
  ASSUME NEW op, NEW x, Framed(x), NEW g, NEW before
  PROVE  DOMAIN Tables(x, op, g, before) = RFields /\ Kept(op, x, Tables(x, op, g, before).t)
<1> DEFINE fail == Fail(x, "MBR_OVERLAP")
           a == iso_write_apm(x, x.vol)
           b == IF Ok(a) THEN iso_write_mbr(a, x.vol) ELSE a
           gpt(y) == IF y.mbr # <<>> /\ op.type # 0 THEN Fail(y, "NON_MBR_SYS_AREA")
                     ELSE iso_write_gpt(y, op, g)
           c == IF Ok(b) THEN gpt(b) ELSE b
           z == IF op.type = 0 /\ (Hybrid(op) \/ op.like) /\ x.mbr # <<>> THEN fail ELSE c
<1>1. Tables(x, op, g, before) = TablesOf(z, op, g, before)
  BY DEF Tables, OkT
<1>2. DOMAIN TablesOf(z, op, g, before) = RFields /\ TablesOf(z, op, g, before).t = z
  <2> HIDE DEF z
  <2> QED  BY DEF TablesOf, RFields
<1>3. Kept(op, x, a) /\ Framed(a)
  BY ApmKept DEF Kept, Framed
<1>4. Kept(op, x, b) /\ Framed(b)
  <2> HIDE DEF a
  <2>1. Kept(op, a, iso_write_mbr(a, x.vol))
    BY <1>3, MbrKept
  <2>2. Kept(op, x, b)
    BY <1>3, <2>1, KeptTrans
  <2> QED  BY <2>2 DEF Kept, Framed
<1>5. Kept(op, x, c)
  <2> HIDE DEF b
  <2>1. Kept(op, b, Fail(b, "NON_MBR_SYS_AREA")) /\ Kept(op, b, iso_write_gpt(b, op, g))
    BY <1>4, GptKept, KeptFail
  <2>2. Kept(op, b, gpt(b))
    BY <2>1
  <2> HIDE DEF gpt
  <2> QED  BY <1>4, <2>2, KeptTrans
<1>6. Kept(op, x, z)
  <2> HIDE DEF c
  <2> QED  BY <1>5, KeptFail
<1> QED  BY <1>1, <1>2, <1>6

LEMMA LabelKept ==
  ASSUME NEW op, NEW r, DOMAIN r = RFields, Framed(r.t)
  PROVE  RKept(op, r, Label(r, op))
<1>1. RKept(op, r, r)
  BY RKeptFail
<1>2. RKept(op, r, WithHybrid(r, op))
  <2> DEFINE asg == op.asgpt /\ r.t.have
             t0  == IF GptImages(op) # <<>> \/ ApmImages(op) # <<>> THEN 0 ELSE 23
             ty  == IF asg THEN 238 ELSE IF t0 # 0 \/ ~Hybrid(op) THEN IsoType(r.t, t0) ELSE t0
             s   == [r EXCEPT !.pt = ty, !.ee = @ \/ asg, !.img = IF asg THEN r.g ELSE @]
  <2>1. DOMAIN s = RFields /\ s.t = r.t
    <3> HIDE DEF asg, ty
    <3> QED  BY DEF RFields
  <2>2. WithHybrid(r, op) \in {RFail(r, "ISOLINUX_CANT_PATCH"), make_isolinux_mbr(s, op, ty, asg)}
    BY DEF WithHybrid
  <2> HIDE DEF s, asg, ty
  <2>3. PICK m : make_isolinux_mbr(s, op, ty, asg) \in {RFail(s, "BOOT_IMAGE_NOT_VALID"),
                                                       [s EXCEPT !.h.mbr = m]}
    BY DEF make_isolinux_mbr
  <2>4. RKept(op, s, [s EXCEPT !.h.mbr = m])
    <3>1. DOMAIN [s EXCEPT !.h.mbr = m] = RFields /\ [s EXCEPT !.h.mbr = m].t = s.t
      BY <2>1 DEF RFields
    <3> QED  BY <2>1, <3>1, RKeptSame
  <2>5. RKept(op, s, make_isolinux_mbr(s, op, ty, asg))
    <3>1. Framed(s.t)
      BY <2>1
    <3>2. RKept(op, s, RFail(s, "BOOT_IMAGE_NOT_VALID"))
      BY <2>1, <3>1, RKeptFail
    <3> QED  BY <2>3, <2>4, <3>2
  <2>6. RKept(op, r, make_isolinux_mbr(s, op, ty, asg))
    BY <2>1, <2>5 DEF RKept
  <2> QED  BY <2>2, <2>6, RKeptFail
<1>3. ASSUME NEW unit, NEW add PROVE RKept(op, r, BootFile(r, op, unit, add))
  <2>1. PICK b : BootFile(r, op, unit, add) \in {r, RFail(r, "BOOT_FILE_MISSING"), [r EXCEPT !.h.boot = b]}
    BY DEF BootFile
  <2>2. RKept(op, r, [r EXCEPT !.h.boot = b])
    <3>1. DOMAIN [r EXCEPT !.h.boot = b] = RFields /\ [r EXCEPT !.h.boot = b].t = r.t
      BY DEF RFields
    <3> QED  BY <3>1, RKeptSame
  <2> QED  BY <2>1, <2>2, RKeptFail
<1>4. op.type = 3 => RKept(op, r, make_sun_disk_label(r, op))
  <2>1. HAVE op.type = 3
  <2>2. PICK e : e = [s |-> 0, n |-> r.t.cur, pad |-> 0]
    OBVIOUS
  <2> DEFINE u == [r.t EXCEPT !.app[1] = e]
             s == make_sun_disk_label(r, op)
  <2>3. Kept(op, r.t, u)
    <3>1. Slots(op) = 2 .. 8
      BY <2>1 DEF Slots
    <3>2. u.app = [r.t.app EXCEPT ![1] = e] /\ DOMAIN u = TFields
      BY DEF Framed, TFields
    <3>3. \A f \in KeptFields : u[f] = r.t[f]
      BY DEF Framed, TFields, KeptFields
    <3> HIDE DEF u
    <3>4. DOMAIN u.app = 1 .. 8 /\ \A i \in 2 .. 8 : u.app[i] = r.t.app[i]
      BY <3>2 DEF Framed
    <3> QED  BY <3>1, <3>2, <3>3, <3>4 DEF Kept
  <2>4. PICK p, q : s = [r EXCEPT !.t = u, !.h.sun = p, !.h.boot = q]
    BY <2>2 DEF make_sun_disk_label
  <2> HIDE DEF u, s
  <2>5. DOMAIN s = RFields /\ s.t = u
    BY <2>4 DEF RFields
  <2> QED  BY <2>3, <2>5 DEF RKept, s
<1>5. RKept(op, r, WithAppended(r, op))
  <2>1. PICK e, p, m : WithAppended(r, op) = [r EXCEPT !.ee = e, !.pt = p, !.h.mbr = m]
    BY DEF WithAppended
  <2>2. DOMAIN [r EXCEPT !.ee = e, !.pt = p, !.h.mbr = m] = RFields
        /\ [r EXCEPT !.ee = e, !.pt = p, !.h.mbr = m].t = r.t
    BY DEF RFields
  <2> QED  BY <2>1, <2>2, RKeptSame
<1>6. PICK p, m : /\ op.type = 0 /\ op.prot => Label(r, op) \in {r, [r EXCEPT !.pt = p, !.ee = TRUE, !.h.mbr = m]}
  <2> DEFINE ee == Len(r.t.gpt) > 0 /\ ~op.like
             ty == IF ee THEN 238 ELSE IsoType(r.t, 205)
             m  == make_grub_msdos_label(r.t, IF ee THEN r.g ELSE r.img, ty, TRUE)
  <2>1. op.type = 0 /\ op.prot => Label(r, op) \in {r, [r EXCEPT !.pt = ty, !.ee = TRUE, !.h.mbr = m]}
    BY DEF Label, Hybrid
  <2> HIDE DEF m, ty
  <2> QED  BY <2>1
<1>7. RKept(op, r, [r EXCEPT !.pt = p, !.ee = TRUE, !.h.mbr = m])
  <2>1. DOMAIN [r EXCEPT !.pt = p, !.ee = TRUE, !.h.mbr = m] = RFields
        /\ [r EXCEPT !.pt = p, !.ee = TRUE, !.h.mbr = m].t = r.t
    BY DEF RFields
  <2> QED  BY <2>1, RKeptSame
<1>8. ~(op.type = 0 /\ op.prot) =>
        \/ Label(r, op) \in {r, WithHybrid(r, op), make_mips_volume_header(r, op),
                             make_mipsel_boot_block(r, op), make_hppa_palo_sector(r, op),
                             make_dec_alpha_sector(r, op), WithAppended(r, op)}
        \/ op.type = 3 /\ Label(r, op) = make_sun_disk_label(r, op)
  <2> QED  BY DEF Label, Hybrid
<1>9. /\ RKept(op, r, make_mips_volume_header(r, op)) /\ RKept(op, r, make_mipsel_boot_block(r, op))
      /\ RKept(op, r, make_hppa_palo_sector(r, op)) /\ RKept(op, r, make_dec_alpha_sector(r, op))
  BY <1>3 DEF make_mips_volume_header, make_mipsel_boot_block, make_hppa_palo_sector, make_dec_alpha_sector
<1> QED  BY <1>1, <1>2, <1>4, <1>5, <1>6, <1>7, <1>8, <1>9


LEMMA StepsKept ==
  ASSUME NEW op, NEW r, DOMAIN r = RFields, Framed(r.t), NEW again
  PROVE  /\ RKept(op, r, SoleProtective(r, op))
         /\ RKept(op, r, iso_offset_partition_start(r, op, again))
         /\ RKept(op, r, AppendedEntries(r, op))
         /\ RKept(op, r, Grub2Mbr(r, op))
         /\ RKept(op, r, PreventEE(r, op))
         /\ RKept(op, r, BootFlag(r, op))
<1>1. RKept(op, r, r)
  BY RKeptFail
<1>2. \A m : RKept(op, r, [r EXCEPT !.h.mbr = m])
  <2> TAKE m
  <2>1. DOMAIN [r EXCEPT !.h.mbr = m] = RFields /\ [r EXCEPT !.h.mbr = m].t = r.t
    BY DEF RFields
  <2> QED  BY <2>1, RKeptSame
<1>3. RKept(op, r, SoleProtective(r, op))
  <2> DEFINE p == Protective(r.t, r.g)
             s == [r EXCEPT !.pt = 238, !.ee = TRUE, !.h.mbr[1] = p]
  <2>1. SoleProtective(r, op) \in {r, s}
    BY DEF SoleProtective
  <2> HIDE DEF p
  <2>2. DOMAIN s = RFields /\ s.t = r.t
    BY DEF RFields
  <2>3. RKept(op, r, s)
    BY <2>2, RKeptSame
  <2> QED  BY <1>1, <2>1, <2>3
<1>4. RKept(op, r, iso_offset_partition_start(r, op, again))
  <2> DEFINE prot == r.pt = 238 /\ Len(r.t.gpt) > 0
             img  == IF prot THEN r.t.total + again * op.ms ELSE r.img
             s    == IF prot THEN 1 ELSE op.poff * 4
             m    == [r.h.mbr EXCEPT ![1] =
                        [write_mbr_partition_entry(r.t, @.ty, s, img * 4 - r.t.pad - s)
                           EXCEPT !.st = IF r.h.mbr[1].st = 128 THEN 128 ELSE 0]]
             n    == IF prot THEN [i \in 1..4 |-> IF i = 1 THEN m[1] ELSE NoEntry] ELSE m
  <2>1. iso_offset_partition_start(r, op, again) \in {r, [r EXCEPT !.h.mbr = n]}
    BY DEF iso_offset_partition_start
  <2> HIDE DEF n
  <2> QED  BY <1>1, <1>2, <2>1
<1>5. RKept(op, r, AppendedEntries(r, op))
  <2>1. PICK q, m : AppendedEntries(r, op) \in {r, RFail(r, "MBR_COLLISION"), [r EXCEPT !.h.sun = q],
                                                [r EXCEPT !.h.mbr = m]}
    BY DEF AppendedEntries
  <2>2. RKept(op, r, [r EXCEPT !.h.sun = q])
    <3>1. DOMAIN [r EXCEPT !.h.sun = q] = RFields /\ [r EXCEPT !.h.sun = q].t = r.t
      BY DEF RFields
    <3> QED  BY <3>1, RKeptSame
  <2> QED  BY <1>1, <1>2, <2>1, <2>2, RKeptFail
<1>6. RKept(op, r, Grub2Mbr(r, op))
  <2>1. PICK q : Grub2Mbr(r, op) \in {r, RFail(r, "BOOT_IMAGE_NOT_VALID"), [r EXCEPT !.h.grub = q]}
    BY DEF Grub2Mbr
  <2>2. RKept(op, r, [r EXCEPT !.h.grub = q])
    <3>1. DOMAIN [r EXCEPT !.h.grub = q] = RFields /\ [r EXCEPT !.h.grub = q].t = r.t
      BY DEF RFields
    <3> QED  BY <3>1, RKeptSame
  <2> QED  BY <1>1, <2>1, <2>2, RKeptFail
<1>7. RKept(op, r, PreventEE(r, op))
  <2> DEFINE m == [i \in 1..4 |-> IF r.h.mbr[i].ty = 238 THEN [r.h.mbr[i] EXCEPT !.ty = IsoType(r.t, 205)]
                                  ELSE r.h.mbr[i]]
  <2>1. PreventEE(r, op) = r \/ PreventEE(r, op) = [r EXCEPT !.h.mbr = m]
    BY DEF PreventEE
  <2> HIDE DEF m
  <2> QED  BY <1>1, <1>2, <2>1
<1>8. RKept(op, r, BootFlag(r, op))
  <2> DEFINE can == {i \in 1..4 : r.h.mbr[i] # NoEntry /\ r.h.mbr[i].ty \notin {238, 239}}
             j == Min(can)
             d == iso_dummy_mbr_partition(r.h.mbr)
             s == [r EXCEPT !.h.mbr[j].st = 128]
  <2>1. BootFlag(r, op) \in {r, s, [r EXCEPT !.h.mbr = d]}
    BY DEF BootFlag
  <2> HIDE DEF d, j
  <2>2. DOMAIN s = RFields /\ s.t = r.t
    BY DEF RFields
  <2>3. RKept(op, r, s)
    BY <2>2, RKeptSame
  <2> HIDE DEF s
  <2> QED  BY <1>1, <1>2, <2>1, <2>3
<1> QED  BY <1>3, <1>4, <1>5, <1>6, <1>7, <1>8

LEMMA SystemAreaKept ==
  ASSUME NEW op, NEW x, Framed(x), NEW again
  PROVE  Kept(op, x, iso_write_system_area(x, op, again).t)
<1> DEFINE g == IF x.have THEN x.total + again * op.ms ELSE x.vol
           none == [t |-> x, h |-> [NoHead EXCEPT !.mbr = make_isohybrid_mbr(x.vol)],
                    pt |-> 0, ee |-> FALSE, img |-> x.vol, g |-> g]
           before == IF op.sadata = <<>> THEN NoHead.mbr ELSE op.sadata
           r0 == Tables(x, op, g, before)
           r1 == IF Ok(r0.t) THEN Label(r0, op) ELSE r0
           r2 == IF Ok(r1.t) THEN SoleProtective(r1, op) ELSE r1
           r3 == IF Ok(r2.t) THEN iso_offset_partition_start(r2, op, again) ELSE r2
           r4 == IF Ok(r3.t) THEN AppendedEntries(r3, op) ELSE r3
           r5 == IF Ok(r4.t) THEN Grub2Mbr(r4, op) ELSE r4
           r6 == IF Ok(r5.t) THEN Flags(r5, op) ELSE r5
           Good(r) == DOMAIN r = RFields /\ Framed(r.t) /\ Kept(op, x, r.t)
<1>1. iso_write_system_area(x, op, again) \in {none, RFail(none, "BOOT_IMAGE_NOT_VALID"), r6}
  BY DEF iso_write_system_area, Then
<1>2. ASSUME NEW r, Good(r), NEW s, RKept(op, r, s) PROVE Good(s)
  BY <1>2, KeptTrans DEF RKept, Kept, Framed
<1>3. Kept(op, x, none.t) /\ Kept(op, x, RFail(none, "BOOT_IMAGE_NOT_VALID").t)
  <2>1. DOMAIN none = RFields /\ none.t = x
    BY DEF RFields
  <2> HIDE DEF none
  <2>2. RKept(op, none, RFail(none, "BOOT_IMAGE_NOT_VALID")) /\ RKept(op, none, none)
    BY <2>1, RKeptFail
  <2> QED  BY <2>1, <2>2 DEF RKept
<1>4. Good(r0)
  <2> HIDE DEF g, before
  <2>1. DOMAIN r0 = RFields /\ Kept(op, x, r0.t)
    BY TablesKept
  <2> QED  BY <2>1 DEF Kept, Framed
<1> HIDE DEF none, r0
<1>5. Good(r1)
  <2>1. RKept(op, r0, Label(r0, op))
    BY <1>4, LabelKept
  <2> HIDE DEF Good
  <2> QED  BY <1>2, <1>4, <2>1
<1> HIDE DEF r1
<1>6. Good(r2)
  <2>1. RKept(op, r1, SoleProtective(r1, op))
    BY <1>5, StepsKept
  <2> HIDE DEF Good
  <2> QED  BY <1>2, <1>5, <2>1
<1> HIDE DEF r2
<1>7. Good(r3)
  <2>1. RKept(op, r2, iso_offset_partition_start(r2, op, again))
    BY <1>6, StepsKept
  <2> HIDE DEF Good
  <2> QED  BY <1>2, <1>6, <2>1
<1> HIDE DEF r3
<1>8. Good(r4)
  <2>1. RKept(op, r3, AppendedEntries(r3, op))
    BY <1>7, StepsKept
  <2> HIDE DEF Good
  <2> QED  BY <1>2, <1>7, <2>1
<1> HIDE DEF r4
<1>9. Good(r5)
  <2>1. RKept(op, r4, Grub2Mbr(r4, op))
    BY <1>8, StepsKept
  <2> HIDE DEF Good
  <2> QED  BY <1>2, <1>8, <2>1
<1> HIDE DEF r5
<1>10. Good(r6)
  <2> DEFINE a == PreventEE(r5, op)
  <2>1. RKept(op, r5, a)
    BY <1>9, StepsKept
  <2>2. Good(a)
    <3> HIDE DEF Good, a
    <3> QED  BY <1>2, <1>9, <2>1
  <2>3. RKept(op, a, BootFlag(a, op))
    <3> HIDE DEF a
    <3> QED  BY <2>2, StepsKept
  <2>4. Flags(r5, op) = BootFlag(a, op)
    BY DEF Flags
  <2> HIDE DEF Good, a
  <2> QED  BY <1>2, <1>9, <2>2, <2>3, <2>4
<1> QED  BY <1>1, <1>3, <1>10

LEMMA FillersKept ==
  ASSUME NEW op, NEW x, Framed(x)
  PROVE  Kept(op, x, iso_delete_gpt_apm_fillers(x))
<1>1. PICK g, a : iso_delete_gpt_apm_fillers(x) = [x EXCEPT !.gpt = g, !.apm = a]
  BY DEF iso_delete_gpt_apm_fillers
<1> QED  BY <1>1 DEF Kept, Framed, TFields, KeptFields



-----------------------------------------------------------------------------
(* The order of the writers.                                                *)

Rank == [ecma119 |-> 1, joliet |-> 2, mspad |-> 3, partprepend |-> 4, hfsplus |-> 5, filesrc |-> 6,
         hfsplus_tail |-> 7, checksum |-> 8, part_align |-> 9, partappend |-> 10, tail |-> 11,
         gpt_tail |-> 12]
Names == DOMAIN Rank
Ordered(S, q, lo, hi) == /\ q \in Seq(S)
                         /\ \A i \in 1 .. Len(q) : lo <= Rank[q[i]] /\ Rank[q[i]] <= hi
                         /\ \A i, j \in 1 .. Len(q) : i < j => Rank[q[i]] < Rank[q[j]]

LEMMA RankInt == \A w \in Names : Rank[w] \in Int
BY DEF Rank, Names

LEMMA OrderedConcat ==
  ASSUME NEW S, S \subseteq Names, NEW q, NEW r, NEW lo \in Int, NEW m \in Int, NEW n \in Int, NEW hi \in Int,
         Ordered(S, q, lo, m), Ordered(S, r, n, hi), m < n, lo <= n, m <= hi
  PROVE  Ordered(S, q \o r, lo, hi)
<1>1. q \in Seq(S) /\ r \in Seq(S)
  BY DEF Ordered
<1>2. PICK a \in Nat, b \in Nat : a = Len(q) /\ b = Len(r)
  BY <1>1
<1>3. q \o r \in Seq(S) /\ Len(q \o r) = a + b
  BY <1>1, <1>2
<1>4. \A i \in 1 .. a + b : (q \o r)[i] = IF i <= a THEN q[i] ELSE r[i - a]
  BY <1>1, <1>2
<1>5. \A i \in 1 .. a : Rank[q[i]] \in Int /\ lo <= Rank[q[i]] /\ Rank[q[i]] <= m
  BY <1>1, <1>2, RankInt DEF Ordered
<1>6. \A i \in 1 .. b : Rank[r[i]] \in Int /\ n <= Rank[r[i]] /\ Rank[r[i]] <= hi
  BY <1>1, <1>2, RankInt DEF Ordered
<1>7. ASSUME NEW i \in 1 .. a + b PROVE lo <= Rank[(q \o r)[i]] /\ Rank[(q \o r)[i]] <= hi
  <2>1. CASE i <= a
    <3>1. PICK v \in Int : v = Rank[q[i]] /\ lo <= v /\ v <= m
      BY <1>5, <2>1
    <3>2. (q \o r)[i] = q[i]
      BY <1>4, <2>1
    <3> QED  BY <3>1, <3>2
  <2>2. CASE ~(i <= a)
    <3>1. i - a \in 1 .. b
      BY <2>2
    <3>2. PICK v \in Int : v = Rank[r[i - a]] /\ n <= v /\ v <= hi
      BY <1>6, <3>1
    <3>3. (q \o r)[i] = r[i - a]
      BY <1>4, <2>2
    <3> QED  BY <3>2, <3>3
  <2> QED  BY <2>1, <2>2
<1>8. ASSUME NEW i \in 1 .. a + b, NEW j \in 1 .. a + b, i < j
      PROVE  Rank[(q \o r)[i]] < Rank[(q \o r)[j]]
  <2>1. CASE j <= a
    <3>1. i \in 1 .. a /\ j \in 1 .. a
      BY <1>8, <2>1
    <3> QED  BY <1>2, <1>4, <1>8, <2>1, <3>1 DEF Ordered
  <2>2. CASE i <= a /\ ~(j <= a)
    <3>1. i \in 1 .. a /\ j - a \in 1 .. b
      BY <2>2
    <3>2. (q \o r)[i] = q[i] /\ (q \o r)[j] = r[j - a]
      BY <1>4, <2>2
    <3>3. PICK v \in Int, w \in Int : v = Rank[q[i]] /\ v <= m /\ w = Rank[r[j - a]] /\ n <= w
      BY <1>5, <1>6, <3>1
    <3> QED  BY <3>2, <3>3
  <2>3. CASE ~(i <= a)
    <3>1. i - a \in 1 .. b /\ j - a \in 1 .. b /\ i - a < j - a /\ ~(j <= a)
      BY <1>8, <2>3
    <3>2. (q \o r)[i] = r[i - a] /\ (q \o r)[j] = r[j - a]
      BY <1>4, <2>3, <3>1
    <3> QED  BY <1>2, <3>1, <3>2 DEF Ordered
  <2> QED  BY <2>1, <2>2, <2>3
<1> QED  BY <1>3, <1>7, <1>8 DEF Ordered

\* Writers are created in the order of their ranks; a checksum writer only if
\* there are checksums.
LEMMA WritersOrdered ==
  ASSUME NEW op, op.md5 \in 0..2
  PROVE  /\ Ordered(IF op.md5 > 0 THEN Names ELSE Names \ {"checksum"}, Writers(op), 1, 12)
         /\ Len(Writers(op)) \in Nat \ 0..2 /\ Writers(op)[Len(Writers(op))] = "gpt_tail"
         /\ Writers(op)[Len(Writers(op)) - 2] = "partappend"
<1> DEFINE S == IF op.md5 > 0 THEN Names ELSE Names \ {"checksum"}
           p1 == <<"ecma119">>
           p2 == IF op.jol > 0 THEN <<"joliet">> ELSE <<>>
           p3 == <<"mspad", "partprepend">>
           p4 == IF op.hfs > 0 THEN <<"hfsplus">> ELSE <<>>
           p5 == <<"filesrc">>
           p6 == IF op.hfs > 0 THEN <<"hfsplus_tail">> ELSE <<>>
           p7 == IF op.md5 > 0 THEN <<"checksum">> ELSE <<>>
           p8 == <<"part_align", "partappend", "tail", "gpt_tail">>
           q2 == p1 \o p2
           q3 == q2 \o p3
           q4 == q3 \o p4
           q5 == q4 \o p5
           q6 == q5 \o p6
           q7 == q6 \o p7
           q8 == q7 \o p8
<1>1. Writers(op) = q8
  BY DEF Writers
<1>2. S \subseteq Names
  OBVIOUS
<1>21. /\ Rank["ecma119"] = 1 /\ Rank["joliet"] = 2 /\ Rank["mspad"] = 3 /\ Rank["partprepend"] = 4
       /\ Rank["hfsplus"] = 5 /\ Rank["filesrc"] = 6 /\ Rank["hfsplus_tail"] = 7 /\ Rank["checksum"] = 8
       /\ Rank["part_align"] = 9 /\ Rank["partappend"] = 10 /\ Rank["tail"] = 11 /\ Rank["gpt_tail"] = 12
  BY DEF Rank
<1>22. /\ {"ecma119", "joliet", "mspad", "partprepend", "hfsplus", "filesrc", "hfsplus_tail",
           "part_align", "partappend", "tail", "gpt_tail"} \subseteq S
       /\ op.md5 > 0 => "checksum" \in S
  BY DEF Names, Rank
<1> HIDE DEF S
<1>23. \A w \in S : Ordered(S, <<w>>, Rank[w], Rank[w])
  <2> TAKE w \in S
  <2>1. <<w>> \in Seq(S) /\ Len(<<w>>) = 1 /\ <<w>>[1] = w
    OBVIOUS
  <2>2. Rank[w] \in Int
    BY <1>2, RankInt
  <2> QED  BY <2>1, <2>2 DEF Ordered
<1>24. \A k \in Int : Ordered(S, <<>>, k, k)
  <2>1. <<>> \in Seq(S) /\ Len(<<>>) = 0
    OBVIOUS
  <2> QED  BY <2>1 DEF Ordered
<1>25. \A v \in S, w \in S : Rank[v] < Rank[w] => Ordered(S, <<v>> \o <<w>>, Rank[v], Rank[w])
  BY <1>2, <1>23, RankInt, OrderedConcat
<1>3. /\ Ordered(S, p1, 1, 1) /\ Ordered(S, p2, 2, 2) /\ Ordered(S, p4, 5, 5)
      /\ Ordered(S, p5, 6, 6) /\ Ordered(S, p6, 7, 7)
  BY <1>21, <1>22, <1>23, <1>24
<1>4. Ordered(S, p7, 8, 8)
  BY <1>21, <1>22, <1>23, <1>24
<1>5. Ordered(S, p3, 3, 4) /\ Ordered(S, p8, 9, 12)
  <2>1. p3 = <<"mspad">> \o <<"partprepend">>
    OBVIOUS
  <2>2. p8 = (<<"part_align">> \o <<"partappend">>) \o (<<"tail">> \o <<"gpt_tail">>)
    OBVIOUS
  <2>3. Ordered(S, <<"part_align">> \o <<"partappend">>, 9, 10)
    BY <1>21, <1>22, <1>25
  <2>4. Ordered(S, <<"tail">> \o <<"gpt_tail">>, 11, 12)
    BY <1>21, <1>22, <1>25
  <2>5. Ordered(S, <<"mspad">> \o <<"partprepend">>, 3, 4)
    BY <1>21, <1>22, <1>25
  <2>6. Ordered(S, (<<"part_align">> \o <<"partappend">>) \o (<<"tail">> \o <<"gpt_tail">>), 9, 12)
    BY <1>2, <2>3, <2>4, OrderedConcat
  <2> QED  BY <2>1, <2>2, <2>5, <2>6
<1>6. Len(p8) = 4 /\ p8[4] = "gpt_tail" /\ p8[2] = "partappend"
  OBVIOUS
<1> HIDE DEF S, p1, p2, p3, p4, p5, p6, p7, p8
<1>7. Ordered(S, q2, 1, 2)
  BY <1>2, <1>3, OrderedConcat
<1> HIDE DEF q2
<1>8. Ordered(S, q3, 1, 4)
  BY <1>2, <1>5, <1>7, OrderedConcat
<1> HIDE DEF q3
<1>9. Ordered(S, q4, 1, 5)
  BY <1>2, <1>3, <1>8, OrderedConcat
<1> HIDE DEF q4
<1>10. Ordered(S, q5, 1, 6)
  BY <1>2, <1>3, <1>9, OrderedConcat
<1> HIDE DEF q5
<1>11. Ordered(S, q6, 1, 7)
  BY <1>2, <1>3, <1>10, OrderedConcat
<1> HIDE DEF q6
<1>12. Ordered(S, q7, 1, 8)
  BY <1>2, <1>4, <1>11, OrderedConcat
<1> HIDE DEF q7
<1>13. Ordered(S, q8, 1, 12)
  BY <1>2, <1>5, <1>12, OrderedConcat
<1>14. PICK n \in Nat : n = Len(q7) /\ q7 \in Seq(S) /\ p8 \in Seq(S)
  BY <1>5, <1>12 DEF Ordered
<1>15. Len(q8) = n + 4 /\ q8[n + 4] = p8[4] /\ q8[n + 2] = p8[2] /\ (n + 4) - 2 = n + 2
  <2>1. Len(q8) = Len(q7) + Len(p8) /\ \A i \in 1 .. Len(q7) + Len(p8) : q8[i] =
                      IF i <= Len(q7) THEN q7[i] ELSE p8[i - Len(q7)]
    BY <1>14, ConcatProperties
  <2>2. /\ n + 4 \in 1 .. n + 4 /\ ~(n + 4 <= n) /\ (n + 4) - n = 4
        /\ n + 2 \in 1 .. n + 4 /\ ~(n + 2 <= n) /\ (n + 2) - n = 2 /\ (n + 4) - 2 = n + 2
    OBVIOUS
  <2> QED  BY <1>6, <1>14, <2>1, <2>2
<1> HIDE DEF q8
<1>16. n + 4 \in Nat \ 0..2
  OBVIOUS
<1> QED  BY <1>1, <1>6, <1>13, <1>15, <1>16 DEF S


LEMMA WriterFacts ==
  ASSUME NEW op, op.md5 \in 0..2
  PROVE  /\ Len(Writers(op)) \in Nat \ 0..2
         /\ \A i \in 1 .. Len(Writers(op)) : Writers(op)[i] \in Names
         /\ \A i, j \in 1 .. Len(Writers(op)) : Writers(op)[i] = Writers(op)[j] => i = j
         /\ \A i \in 1 .. Len(Writers(op)) : Writers(op)[i] = "gpt_tail" => i = Len(Writers(op))
         /\ \A i \in 1 .. Len(Writers(op)) : Writers(op)[i] = "checksum" => op.md5 > 0
         /\ Writers(op)[Len(Writers(op))] = "gpt_tail"
         /\ Writers(op)[Len(Writers(op)) - 2] = "partappend"
<1> DEFINE S == IF op.md5 > 0 THEN Names ELSE Names \ {"checksum"}
<1>9. /\ Ordered(S, Writers(op), 1, 12)
      /\ Len(Writers(op)) \in Nat \ 0..2 /\ Writers(op)[Len(Writers(op))] = "gpt_tail"
      /\ Writers(op)[Len(Writers(op)) - 2] = "partappend"
  BY WritersOrdered
<1>1. PICK q, n : /\ n \in Nat \ 0..2 /\ q = Writers(op) /\ n = Len(q) /\ Ordered(S, q, 1, 12)
                  /\ q[n] = "gpt_tail" /\ q[n - 2] = "partappend"
  BY <1>9
<1>2. \A i \in 1 .. n : q[i] \in S
  BY <1>1 DEF Ordered
<1>3. \A i \in 1 .. n : Rank[q[i]] \in Int
  BY <1>2, RankInt
<1>4. \A i, j \in 1 .. n : i < j => Rank[q[i]] < Rank[q[j]]
  BY <1>1 DEF Ordered
<1>5. \A i, j \in 1 .. n : q[i] = q[j] => i = j
  <2> TAKE i, j \in 1 .. n
  <2> HAVE q[i] = q[j]
  <2>1. ~(i < j)
    BY <1>3, <1>4
  <2>2. ~(j < i)
    BY <1>3, <1>4
  <2> QED  BY <2>1, <2>2
<1>6. n \in 1 .. n
  BY <1>1
<1>7. \A i \in 1 .. n : q[i] = "gpt_tail" => i = n
  BY <1>1, <1>5, <1>6
<1>8. \A i \in 1 .. n : q[i] \in Names /\ (q[i] = "checksum" => op.md5 > 0)
  BY <1>2
<1> QED  BY <1>1, <1>5, <1>7, <1>8


-----------------------------------------------------------------------------
(* What each writer takes, and that computing one leaves alone the others.  *)

Size(op, x, w) ==
  CASE w = "ecma119" -> TreeBlocks(op)
    [] w = "joliet" -> op.jol
    [] w = "mspad" -> x.mspad
    [] w = "partprepend" -> op.efi + op.prep
    [] w = "hfsplus" -> op.hfs
    [] w = "filesrc" -> FileBlocks(op)
    [] w = "hfsplus_tail" -> 2
    [] w = "checksum" -> IF op.md5 = 2 THEN 2 ELSE 1
    [] w = "part_align" -> x.align
    [] w = "partappend" -> AppBlocks(op, x.app)
    [] w = "tail" -> op.tail
    [] w = "gpt_tail" -> IF x.gend = 0 \/ x.gmax = 0 THEN 0 ELSE x.gsize
NoneOutside(op) == \A j \in Slot8 : j \notin Slots(op) => ~Real(op, j)

\* u comes from x by computing writer w.
Sized(op, x, u, w) == /\ TypeT(u) /\ u.have = x.have
                      /\ w \notin {"part_align", "gpt_tail"} => u.computed = x.computed
                      /\ Size(op, u, w) \in Nat /\ u.cur = x.cur + Size(op, u, w)
                      /\ \A v \in Names \ {w, "gpt_tail"} : Size(op, u, v) = Size(op, x, v)
                      /\ w = "partappend" => NoneOutside(op)

LEMMA NamesAre ==
  Names = {"ecma119", "joliet", "mspad", "partprepend", "hfsplus", "filesrc", "hfsplus_tail",
           "checksum", "part_align", "partappend", "tail", "gpt_tail"}
BY DEF Names, Rank

\* Only four sizes depend on fields.
LEMMA SizesSame ==
  ASSUME NEW op, NEW x, NEW u, NEW v \in Names \ {"gpt_tail"},
         v = "mspad" => u.mspad = x.mspad, v = "part_align" => u.align = x.align,
         v = "partappend" => u.app = x.app
  PROVE  Size(op, u, v) = Size(op, x, v)
BY NamesAre DEF Size

LEMMA AdvancedSized ==
  ASSUME NEW op, NEW x, TypeT(x), NEW n \in Nat, NEW u, Advanced(x, u, n),
         NEW w \in Names \ {"part_align", "partappend", "gpt_tail"}, Size(op, u, w) = n
  PROVE  Sized(op, x, u, w)
<1>1. TypeT(u)
  BY AdvancedType
<1>2. /\ u.mspad = x.mspad /\ u.align = x.align /\ u.app = x.app /\ u.have = x.have
      /\ u.computed = x.computed /\ u.cur = x.cur + n
  BY DEF Advanced, SizeFields
<1>3. \A v \in Names \ {w, "gpt_tail"} : Size(op, u, v) = Size(op, x, v)
  BY <1>2, SizesSame
<1> QED  BY <1>1, <1>2, <1>3 DEF Sized


\* What OptionsAssumption says of one set of options.
OptionT(op) == /\ op.ms \in Nat /\ op.poff \in Nat /\ op.tree \in Nat /\ op.files \in Nat /\ op.jol \in Nat
               /\ op.hfs \in Nat /\ op.efi \in Nat /\ op.prep \in Nat /\ op.tail \in Nat
               /\ op.hpc \in Nat /\ op.sph \in Nat /\ op.abs \in Nat
               /\ op.md5 \in 0..2
               /\ Len(op.img) \in Nat /\ \A k \in 1..Len(op.img) : op.img[k].size \in Nat
               /\ AppOption(op)

LEMMA OptionsTyped ==
  ASSUME NEW op \in LayoutOptions
  PROVE  OptionT(op)
BY OptionsAssumption DEF OptionT, AppOption

LEMMA BlocksNat ==
  ASSUME NEW op, OptionT(op)
  PROVE  TreeBlocks(op) \in Nat /\ FileBlocks(op) \in Nat /\ PartDescs(op) \in Nat /\ VolDescs(op) \in Nat
<1>1. TreeBlocks(op) \in Nat
  BY DEF TreeBlocks, OptionT
<1>2. FileBlocks(op) \in Nat
  <2>1. PICK n \in Nat : n = Len(op.img)
    BY DEF OptionT
  <2>2. n \in 0 .. n
    OBVIOUS
  <2>3. ImagesUpTo(op, n) \in Nat
    BY <2>1, <2>2, ImagesUpToNat DEF OptionT
  <2> QED  BY <2>1, <2>3 DEF FileBlocks, OptionT
<1> QED  BY <1>1, <1>2 DEF PartDescs, VolDescs

LEMMA PlainSized ==
  ASSUME NEW op, OptionT(op), NEW x, TypeT(x)
  PROVE  /\ Sized(op, x, [x EXCEPT !.cur = @ + TreeBlocks(op)], "ecma119")
         /\ Sized(op, x, [x EXCEPT !.cur = @ + op.jol], "joliet")
         /\ Sized(op, x, [x EXCEPT !.cur = @ + op.tail], "tail")
         /\ op.md5 = 2 => Sized(op, x, [x EXCEPT !.cur = @ + 2], "checksum")
         /\ Sized(op, x, [x EXCEPT !.hstart = @ + x.cur, !.cur = @ + op.hfs], "hfsplus")
         /\ \A f, b : Sized(op, x, [x EXCEPT !.cur = @ + FileBlocks(op), !.bootf = f, !.boot = b], "filesrc")
<1>1. \A n \in Nat : Advanced(x, [x EXCEPT !.cur = @ + n], n)
  BY DEF Advanced, TypeT, TFields, SizeFields
<1>2. \A n \in Nat : Advanced(x, [x EXCEPT !.hstart = @ + x.cur, !.cur = @ + n], n)
  BY DEF Advanced, TypeT, TFields, SizeFields
<1>3. \A n \in Nat : \A f, b : Advanced(x, [x EXCEPT !.cur = @ + n, !.bootf = f, !.boot = b], n)
  BY DEF Advanced, TypeT, TFields, SizeFields
<1>4. /\ TreeBlocks(op) \in Nat /\ FileBlocks(op) \in Nat /\ op.jol \in Nat /\ op.tail \in Nat
      /\ op.hfs \in Nat
  BY BlocksNat DEF OptionT
<1>5. {"ecma119", "joliet", "tail", "checksum", "hfsplus", "filesrc"}
        \subseteq Names \ {"part_align", "partappend", "gpt_tail"}
  BY NamesAre
<1>6. \A u : /\ Size(op, u, "ecma119") = TreeBlocks(op) /\ Size(op, u, "joliet") = op.jol
             /\ Size(op, u, "tail") = op.tail /\ Size(op, u, "hfsplus") = op.hfs
             /\ Size(op, u, "filesrc") = FileBlocks(op)
             /\ op.md5 = 2 => Size(op, u, "checksum") = 2
  BY DEF Size
<1>7. Sized(op, x, [x EXCEPT !.cur = @ + TreeBlocks(op)], "ecma119")
  BY <1>1, <1>4, <1>5, <1>6, AdvancedSized
<1>8. Sized(op, x, [x EXCEPT !.cur = @ + op.jol], "joliet")
  BY <1>1, <1>4, <1>5, <1>6, AdvancedSized
<1>9. Sized(op, x, [x EXCEPT !.cur = @ + op.tail], "tail")
  BY <1>1, <1>4, <1>5, <1>6, AdvancedSized
<1>10. op.md5 = 2 => Sized(op, x, [x EXCEPT !.cur = @ + 2], "checksum")
  BY <1>1, <1>5, <1>6, AdvancedSized
<1>11. Sized(op, x, [x EXCEPT !.hstart = @ + x.cur, !.cur = @ + op.hfs], "hfsplus")
  BY <1>2, <1>4, <1>5, <1>6, AdvancedSized
<1>12. \A f, b : Sized(op, x, [x EXCEPT !.cur = @ + FileBlocks(op), !.bootf = f, !.boot = b], "filesrc")
  BY <1>3, <1>4, <1>5, <1>6, AdvancedSized
<1> QED  BY <1>7, <1>8, <1>9, <1>10, <1>11, <1>12

LEMMA PrependSized ==
  ASSUME NEW op, OptionT(op), NEW x, TypeT(x), NEW y, y = partprepend_writer_compute_data_blocks(x, op),
         NEW u, u = y \/ \E k : u = [y EXCEPT !.boot[k] = y.efi], Ok(u)
  PROVE  Sized(op, x, u, "partprepend")
<1>1. op.efi \in Nat /\ op.prep \in Nat /\ op.efi + op.prep \in Nat
  BY DEF OptionT
<1>2. Ok(y) => Advanced(x, y, op.efi + op.prep)
  BY <1>1, PrependAdvances
<1>3. CASE u = y
  <2>1. Advanced(x, u, op.efi + op.prep)
    BY <1>2, <1>3
  <2> QED  BY <1>1, <2>1, AdvancedSized, NamesAre DEF Size
<1>4. CASE \E k : u = [y EXCEPT !.boot[k] = y.efi]
  <2>1. PICK b : u = [y EXCEPT !.boot = b]
    BY <1>4
  <2>2. u.err = y.err
    BY <2>1
  <2>3. Advanced(x, y, op.efi + op.prep)
    BY <1>2, <2>2 DEF Ok
  <2>4. Advanced(x, u, op.efi + op.prep)
    BY <2>1, <2>3 DEF Advanced, TFields, SizeFields
  <2> QED  BY <1>1, <2>4, AdvancedSized, NamesAre DEF Size
<1> QED  BY <1>3, <1>4

LEMMA HfsTailSized ==
  ASSUME NEW op, NEW x, TypeT(x), NEW s, NEW n, NEW ty, NEW f
  PROVE  Sized(op, x, iso_quick_apm_entry([x EXCEPT !.cur = @ + 2], s, n, ty, f), "hfsplus_tail")
<1> DEFINE y == [x EXCEPT !.cur = @ + 2]
           u == iso_quick_apm_entry(y, s, n, ty, f)
<1>1. Advanced(x, y, 2)
  BY DEF Advanced, TypeT, TFields, SizeFields
<1> HIDE DEF y
<1>2. TypeT(y)
  BY <1>1, AdvancedType
<1>3. Requested(y, u)
  <2>1. DOMAIN y = TFields
    BY <1>2 DEF TypeT
  <2> QED  BY <2>1, QuickRequested
<1>4. Advanced(y, u, 0)
  BY <1>2, <1>3, RequestedAdvanced
<1> HIDE DEF u
<1>5. Advanced(x, u, 2)
  BY <1>1, <1>4, AdvancedTrans
<1>6. Sized(op, x, u, "hfsplus_tail")
  BY <1>5, AdvancedSized, NamesAre DEF Size
<1> QED  BY <1>6 DEF u, y


LEMMA MaxOfTwo ==
  ASSUME NEW a \in Int, NEW b \in Int
  PROVE  Max({a, b}) = IF a >= b THEN a ELSE b
<1> DEFINE m == IF a >= b THEN a ELSE b
           s == {a, b}
<1>1. \A z \in s : (\A y \in s : z >= y) => z = m
  OBVIOUS
<1>2. m \in s /\ \A y \in s : m >= y
  OBVIOUS
<1> HIDE DEF s, m
<1>3. Max(s) = m
  BY <1>1, <1>2 DEF Max
<1> QED  BY <1>3 DEF s, m

LEMMA MspadSized ==
  ASSUME NEW op, OptionT(op), NEW x, TypeT(x),
         NEW u, u = [x EXCEPT !.cur = Max({@, 32 + op.poff}), !.mspad = Max({x.cur, 32 + op.poff}) - x.cur]
  PROVE  Sized(op, x, u, "mspad")
<1>1. PICK m \in Nat : m = Max({x.cur, 32 + op.poff}) /\ m - x.cur \in Nat
  <2>1. PICK a \in Nat : a = x.cur
    BY DEF TypeT
  <2>2. PICK b \in Nat : b = 32 + op.poff
    <3>1. op.poff \in Nat
      BY DEF OptionT
    <3> QED  BY <3>1
  <2>3. Max({a, b}) = IF a >= b THEN a ELSE b
    BY MaxOfTwo
  <2>4. Max({a, b}) \in Nat /\ Max({a, b}) - a \in Nat
    BY <2>3
  <2> QED  BY <2>1, <2>2, <2>4
<1>2. u = [x EXCEPT !.cur = m, !.mspad = m - x.cur]
  BY <1>1
<1>3. /\ DOMAIN u = TFields /\ u.cur = m /\ u.mspad = m - x.cur
      /\ u.align = x.align /\ u.abs = x.abs /\ u.hpc = x.hpc /\ u.sph = x.sph /\ u.gsize = x.gsize
      /\ u.apm = x.apm /\ u.app = x.app /\ u.have = x.have /\ u.computed = x.computed /\ u.gmax = x.gmax
  BY <1>2 DEF TypeT, TFields
<1>4. TypeT(u)
  BY <1>1, <1>3 DEF TypeT
<1>5. Size(op, u, "mspad") = m - x.cur
  BY <1>3 DEF Size
<1>6. u.cur = x.cur + Size(op, u, "mspad")
  BY <1>1, <1>3, <1>5 DEF TypeT
<1>7. \A v \in Names \ {"mspad", "gpt_tail"} : Size(op, u, v) = Size(op, x, v)
  BY <1>3, SizesSame
<1> QED  BY <1>1, <1>3, <1>4, <1>5, <1>6, <1>7 DEF Sized

LEMMA SizesKept ==
  ASSUME NEW op, NEW x, NEW u, u.mspad = x.mspad, u.app = x.app
  PROVE  /\ \A v \in Names \ {"part_align", "gpt_tail"} : Size(op, u, v) = Size(op, x, v)
         /\ u.align = x.align => \A v \in Names \ {"gpt_tail"} : Size(op, u, v) = Size(op, x, v)
BY SizesSame

LEMMA AlignSized ==
  ASSUME NEW op, OptionT(op), NEW x, TypeT(x), ~x.computed, NEW y, y = iso_align_isohybrid(x, op)
  PROVE  Sized(op, x, [y EXCEPT !.cur = @ + y.align, !.alignend = y.cur + y.align], "part_align")
<1> DEFINE u == [y EXCEPT !.cur = @ + y.align, !.alignend = y.cur + y.align]
<1>1. Resized(x, y)
  BY IsoAlignResized DEF OptionT
<1>2. /\ DOMAIN u = TFields /\ u.cur = y.cur + y.align /\ u.mspad = y.mspad
      /\ u.align = y.align /\ u.abs = y.abs /\ u.hpc = y.hpc /\ u.sph = y.sph /\ u.gsize = y.gsize
      /\ u.apm = y.apm /\ u.app = y.app /\ u.have = y.have /\ u.computed = y.computed /\ u.gmax = y.gmax
  BY <1>1 DEF Resized, TypeT, TFields
<1> HIDE DEF u
<1>3. TypeT(u)
  BY <1>1, <1>2 DEF Resized, TypeT
<1>4. Size(op, u, "part_align") = y.align /\ y.align \in Nat
  BY <1>1, <1>2 DEF Size, Resized, TypeT
<1>5. u.cur = x.cur + y.align /\ u.mspad = x.mspad /\ u.app = x.app /\ u.have = x.have
  BY <1>1, <1>2 DEF Resized
<1>6. \A v \in Names \ {"part_align", "gpt_tail"} : Size(op, u, v) = Size(op, x, v)
  BY <1>5, SizesKept
<1>7. Sized(op, x, u, "part_align")
  BY <1>3, <1>4, <1>5, <1>6 DEF Sized
<1> QED  BY <1>7 DEF u

LEMMA AppendSized ==
  ASSUME NEW op, OptionT(op), NEW x, TypeT(x), NEW u, u = iso_compute_append_partitions(x, op), Ok(u)
  PROVE  Sized(op, x, u, "partappend")
<1>1. /\ TypeT(u) /\ u.mspad = x.mspad /\ u.align = x.align /\ u.have = x.have
      /\ u.computed = x.computed /\ NoneOutside(op)
      /\ AppBlocks(op, u.app) \in Nat /\ u.cur = x.cur + AppBlocks(op, u.app)
  <2>1. AppOption(op)
    BY DEF OptionT
  <2> QED  BY <2>1, AppendAdvances DEF NoneOutside
<1>2. Size(op, u, "partappend") = AppBlocks(op, u.app)
  BY DEF Size
<1>3. \A v \in Names \ {"partappend", "gpt_tail"} : Size(op, u, v) = Size(op, x, v)
  BY <1>1, SizesSame
<1> QED  BY <1>1, <1>2, <1>3 DEF Sized

LEMMA GptTailSized ==
  ASSUME NEW op, OptionT(op), NEW x, TypeT(x), NEW y, y = IF x.computed THEN x ELSE precompute_gpt(x, op)
  PROVE  Sized(op, x, [y EXCEPT !.cur = @ + y.gsize, !.gend = y.cur + y.gsize], "gpt_tail")
<1> DEFINE u == [y EXCEPT !.cur = @ + y.gsize, !.gend = y.cur + y.gsize]
<1>1. Resized(x, y) /\ y.align = x.align
  <2>1. Resized(x, x)
    BY DEF Resized
  <2>2. ~x.computed => Presized(x, precompute_gpt(x, op))
    BY PrecomputePresized DEF TypeT, OptionT
  <2> QED  BY <2>1, <2>2, PresizedType
<1>2. /\ DOMAIN u = TFields /\ u.cur = y.cur + y.gsize /\ u.gend = y.cur + y.gsize /\ u.mspad = y.mspad
      /\ u.align = y.align /\ u.abs = y.abs /\ u.hpc = y.hpc /\ u.sph = y.sph /\ u.gsize = y.gsize
      /\ u.apm = y.apm /\ u.app = y.app /\ u.have = y.have /\ u.computed = y.computed /\ u.gmax = y.gmax
  BY <1>1 DEF Resized, TypeT, TFields
<1> HIDE DEF u
<1>3. TypeT(u)
  BY <1>1, <1>2 DEF Resized, TypeT
<1>4. y.gsize \in Nat /\ y.cur \in Nat /\ (y.gmax = 0 => y.gsize = 0)
  BY <1>1 DEF Resized, TypeT
<1>5. Size(op, u, "gpt_tail") = y.gsize
  <2>1. Size(op, u, "gpt_tail") = IF u.gend = 0 \/ u.gmax = 0 THEN 0 ELSE u.gsize
    BY DEF Size
  <2> QED  BY <1>2, <1>4, <2>1
<1>6. u.cur = x.cur + y.gsize /\ u.mspad = x.mspad /\ u.app = x.app /\ u.have = x.have /\ u.align = x.align
  BY <1>1, <1>2 DEF Resized
<1>7. \A v \in Names \ {"gpt_tail"} : Size(op, u, v) = Size(op, x, v)
  BY <1>6, SizesKept
<1>8. Sized(op, x, u, "gpt_tail")
  BY <1>3, <1>4, <1>5, <1>6, <1>7 DEF Sized
<1> QED  BY <1>8 DEF u



-----------------------------------------------------------------------------
(* The inductive invariant, first on constants: options op, target x, start *)
(* blocks a and index k of the next writer.                                 *)

N(op) == Len(Writers(op))
\* The block after the volume descriptors.
Begin(op) == op.ms + (IF op.poff = 0 THEN 16 + VolDescs(op) + 1 + (IF op.md5 = 2 THEN 1 ELSE 0)
                      ELSE op.poff + 16 + PartDescs(op) + 1)
\* Where writer k must begin if the ones before it are at their blocks.
Due(op, x, a, k) == IF k = 1 THEN Begin(op) ELSE a[Writers(op)[k - 1]] + Size(op, x, Writers(op)[k - 1])
Chain(op, x, a, n) == \A i \in 1 .. n : /\ a[Writers(op)[i]] = Due(op, x, a, i)
                                        /\ a[Writers(op)[i]] \in Nat
                                        /\ Size(op, x, Writers(op)[i]) \in Nat
Begun(op, a, n) == DOMAIN a = {Writers(op)[i] : i \in 1 .. n}

\* While blocks are computed: the writers before k have their places.
ComputeGood(op, x, a, k) ==
  /\ TypeT(x) /\ k \in 1 .. N(op) + 1
  /\ Begun(op, a, k - 1)
  /\ k <= N(op) /\ x.computed => "part_align" \in DOMAIN a
  /\ k > N(op) => ~x.have
  /\ "partappend" \in DOMAIN a => NoneOutside(op)
  /\ Chain(op, x, a, k - 1)
  /\ x.cur = Due(op, x, a, k)
\* Afterwards: all have, and the image ends with the last of them.
PlacesFixed(op, x, a) ==
  /\ Framed(x) /\ NoneOutside(op) /\ x.total \in Int
  /\ Begun(op, a, N(op))
  /\ Chain(op, x, a, N(op))
  /\ Due(op, x, a, N(op) + 1) = op.ms + x.total
Place(a, w, c) == [v \in DOMAIN a \union {w} |-> IF v \in DOMAIN a THEN a[v] ELSE c]

LEMMA BeginNat ==
  ASSUME NEW op, OptionT(op)
  PROVE  Begin(op) \in Nat
<1>1. VolDescs(op) \in Nat /\ PartDescs(op) \in Nat
  BY BlocksNat
<1>2. op.ms \in Nat /\ op.poff \in Nat
  BY DEF OptionT
<1> QED  BY <1>1, <1>2 DEF Begin

\* Computing the next writer continues the chain.
LEMMA ChainGrows ==
  ASSUME NEW op, OptionT(op), NEW x, NEW a, NEW k \in 1 .. N(op), NEW w, w = Writers(op)[k],
         Begun(op, a, k - 1), Chain(op, x, a, k - 1), x.cur = Due(op, x, a, k), x.cur \in Nat,
         NEW u, Size(op, u, w) \in Nat,
         \A v \in Names \ {w, "gpt_tail"} : Size(op, u, v) = Size(op, x, v)
  PROVE  /\ w \notin DOMAIN a /\ Begun(op, Place(a, w, x.cur), k) /\ Chain(op, u, Place(a, w, x.cur), k)
         /\ Due(op, u, Place(a, w, x.cur), k + 1) = x.cur + Size(op, u, w)
<1> DEFINE b == Place(a, w, x.cur)
           W(i) == Writers(op)[i]
<1>1. PICK n \in Nat : n = N(op) /\ k \in 1 .. n
  BY WriterFacts DEF N, OptionT
<1>2. \A i \in 1 .. n : W(i) \in Names
  BY <1>1, WriterFacts DEF N, OptionT
<1>3. \A i \in 1 .. n : i # k => W(i) # w
  BY <1>1, WriterFacts DEF N, OptionT
<1>4. \A i \in 1 .. n : i # n => W(i) # "gpt_tail"
  BY <1>1, WriterFacts DEF N, OptionT
<1>5. w \notin DOMAIN a
  BY <1>1, <1>3 DEF Begun
<1>6. Begun(op, b, k)
  <2>1. {W(i) : i \in 1 .. k} = {W(i) : i \in 1 .. k - 1} \union {w}
    BY <1>1
  <2>2. DOMAIN b = DOMAIN a \union {w}
    BY DEF Place
  <2> QED  BY <2>1, <2>2 DEF Begun
<1>7. b[w] = x.cur
  BY <1>5 DEF Place
<1>8. \A i \in 1 .. k - 1 : W(i) \in DOMAIN a /\ b[W(i)] = a[W(i)]
  BY DEF Begun, Place
<1> HIDE DEF b
<1>9. \A i \in 1 .. k - 1 : i \in 1 .. n /\ Size(op, u, W(i)) = Size(op, x, W(i))
  <2> TAKE i \in 1 .. k - 1
  <2>1. i \in 1 .. n /\ i # k /\ i # n
    BY <1>1
  <2> QED  BY <1>2, <1>3, <1>4, <2>1
<1>10. \A i \in 1 .. k : Due(op, u, b, i) = Due(op, x, a, i)
  <2> TAKE i \in 1 .. k
  <2>1. CASE i = 1
    BY <2>1 DEF Due
  <2>2. CASE i # 1
    <3>1. i - 1 \in 1 .. k - 1
      BY <1>1, <2>2
    <3>2. b[W(i - 1)] = a[W(i - 1)] /\ Size(op, u, W(i - 1)) = Size(op, x, W(i - 1))
      BY <1>8, <1>9, <3>1
    <3> QED  BY <2>2, <3>2 DEF Due
  <2> QED  BY <2>1, <2>2
<1>11. ASSUME NEW i \in 1 .. k
       PROVE  b[W(i)] = Due(op, u, b, i) /\ b[W(i)] \in Nat /\ Size(op, u, W(i)) \in Nat
  <2>1. CASE i = k
    BY <1>7, <1>10, <2>1
  <2>2. CASE i # k
    <3>1. i \in 1 .. k - 1
      BY <1>1, <2>2
    <3>2. a[W(i)] = Due(op, x, a, i) /\ a[W(i)] \in Nat /\ Size(op, x, W(i)) \in Nat
      BY <3>1 DEF Chain
    <3> QED  BY <1>8, <1>9, <1>10, <3>1, <3>2
  <2> QED  BY <2>1, <2>2
<1>12. Chain(op, u, b, k)
  BY <1>11 DEF Chain
<1>13. Due(op, u, b, k + 1) = x.cur + Size(op, u, w)
  <2>1. k + 1 # 1 /\ (k + 1) - 1 = k
    BY <1>1
  <2>2. Due(op, u, b, k + 1) = b[Writers(op)[k]] + Size(op, u, Writers(op)[k])
    BY <2>1 DEF Due
  <2> QED  BY <1>7, <2>2
<1> QED  BY <1>5, <1>6, <1>12, <1>13 DEF b


LEMMA ComputeStep ==
  ASSUME NEW op, OptionT(op), NEW x, NEW a, NEW k, ComputeGood(op, x, a, k), k <= N(op),
         NEW w, w = Writers(op)[k], w = "gpt_tail" => ~x.have, NEW u, Sized(op, x, u, w)
  PROVE  ComputeGood(op, u, Place(a, w, x.cur), k + 1)
<1>1. k \in 1 .. N(op) /\ N(op) \in Nat
  BY WriterFacts DEF ComputeGood, N, OptionT
<1>2. x.cur \in Nat /\ TypeT(u) /\ u.have = x.have /\ Size(op, u, w) \in Nat
      /\ u.cur = x.cur + Size(op, u, w)
  BY DEF ComputeGood, Sized, TypeT
<1> DEFINE b == Place(a, w, x.cur)
<1>3. /\ w \notin DOMAIN a /\ Begun(op, b, k) /\ Chain(op, u, b, k)
      /\ Due(op, u, b, k + 1) = x.cur + Size(op, u, w)
  BY <1>1, <1>2, ChainGrows DEF ComputeGood, Sized
<1>4. DOMAIN b = DOMAIN a \union {w}
  BY DEF Place
<1> HIDE DEF b
<1>5. k + 1 <= N(op) /\ u.computed => "part_align" \in DOMAIN b
  <2> SUFFICES ASSUME k + 1 <= N(op), u.computed PROVE "part_align" \in DOMAIN b
    OBVIOUS
  <2>1. w # "gpt_tail"
    BY <1>1, WriterFacts DEF OptionT, N
  <2>2. CASE w = "part_align"
    BY <1>4, <2>2
  <2>3. CASE w # "part_align"
    <3>1. x.computed
      BY <2>1, <2>3 DEF Sized
    <3> QED  BY <1>1, <1>4, <3>1 DEF ComputeGood
  <2> QED  BY <2>2, <2>3
<1>6. k + 1 > N(op) => ~u.have
  <2>1. k + 1 > N(op) => k = N(op)
    BY <1>1
  <2>2. k = N(op) => w = "gpt_tail"
    BY WriterFacts DEF OptionT, N
  <2> QED  BY <1>2, <2>1, <2>2
<1>7. "partappend" \in DOMAIN b => NoneOutside(op)
  BY <1>4 DEF ComputeGood, Sized
<1>8. k + 1 \in 1 .. N(op) + 1 /\ (k + 1) - 1 = k
  BY <1>1
<1> QED  BY <1>2, <1>3, <1>5, <1>6, <1>7, <1>8 DEF ComputeGood, b

-----------------------------------------------------------------------------

LEMMA DueSame ==
  ASSUME NEW op, NEW x, NEW u, NEW a, NEW n \in Nat,
         \A i \in 1 .. n : Size(op, u, Writers(op)[i]) = Size(op, x, Writers(op)[i])
  PROVE  /\ \A i \in 1 .. n + 1 : Due(op, u, a, i) = Due(op, x, a, i)
         /\ Chain(op, x, a, n) => Chain(op, u, a, n)
<1>1. ASSUME NEW i \in 1 .. n + 1 PROVE Due(op, u, a, i) = Due(op, x, a, i)
  <2>1. i # 1 => i - 1 \in 1 .. n
    OBVIOUS
  <2> QED  BY <2>1 DEF Due
<1>2. \A i \in 1 .. n : i \in 1 .. n + 1
  OBVIOUS
<1> QED  BY <1>1, <1>2 DEF Chain

\* What Kept leaves alone is all that sizes depend on.
LEMMA KeptFixed ==
  ASSUME NEW op, OptionT(op), NEW x, NEW a, PlacesFixed(op, x, a), NEW u, Kept(op, x, u)
  PROVE  PlacesFixed(op, u, a) /\ \A w \in Names : Size(op, u, w) = Size(op, x, w)
<1>1. /\ u.mspad = x.mspad /\ u.align = x.align /\ u.gend = x.gend /\ u.gmax = x.gmax
      /\ u.gsize = x.gsize /\ u.total = x.total
  BY DEF Kept, KeptFields
<1>2. AppBlocks(op, u.app) = AppBlocks(op, x.app)
  <2>1. \A j \in Slot8 : Blocks(op, u.app, j) = Blocks(op, x.app, j)
    <3> TAKE j \in Slot8
    <3>1. CASE j \in Slots(op)
      BY <3>1 DEF Kept, Blocks
    <3>2. CASE j \notin Slots(op)
      BY <3>2 DEF PlacesFixed, NoneOutside, Blocks
    <3> QED  BY <3>1, <3>2
  <2>2. [j \in 1..8 |-> Blocks(op, u.app, j)] = [j \in 1..8 |-> Blocks(op, x.app, j)]
    BY <2>1 DEF Slot8
  <2> QED  BY <2>2 DEF AppBlocks
<1>3. \A w \in Names : Size(op, u, w) = Size(op, x, w)
  BY <1>1, <1>2, NamesAre DEF Size
<1>4. PICK n \in Nat : n = N(op)
  BY WriterFacts DEF N, OptionT
<1>5. \A i \in 1 .. n : Writers(op)[i] \in Names
  BY <1>4, WriterFacts DEF N, OptionT
<1>6. /\ \A i \in 1 .. n + 1 : Due(op, u, a, i) = Due(op, x, a, i)
      /\ Chain(op, x, a, n) => Chain(op, u, a, n)
  BY <1>3, <1>5, DueSame
<1>7. Framed(u)
  BY DEF Kept, Framed
<1>8. n + 1 \in 1 .. n + 1
  OBVIOUS
<1> QED  BY <1>1, <1>3, <1>4, <1>6, <1>7, <1>8 DEF PlacesFixed


\* Image sizes, when the backup GPT got its place like the other writers.
LEMMA SizesInside ==
  ASSUME NEW op, OptionT(op), NEW x, NEW a, NEW k, ComputeGood(op, x, a, k), k > N(op), NEW v
  PROVE  PlacesFixed(op, [x EXCEPT !.vol = v, !.total = x.cur - op.ms], Place(a, "gpt_tail", x.cur))
<1> DEFINE u == [x EXCEPT !.vol = v, !.total = x.cur - op.ms]
           b == Place(a, "gpt_tail", x.cur)
<1>1. PICK n \in Nat \ 0..2 : n = N(op) /\ Writers(op)[n] = "gpt_tail" /\ Writers(op)[n - 2] = "partappend"
  BY WriterFacts DEF N, OptionT
<1>2. k = n + 1 /\ k - 1 = n /\ n \in 1 .. n /\ n - 2 \in 1 .. n
  BY <1>1 DEF ComputeGood
<1>3. \A i \in 1 .. n : Writers(op)[i] \in Names /\ Writers(op)[i] \in DOMAIN a
  BY <1>1, <1>2, WriterFacts DEF N, OptionT, ComputeGood, Begun
<1>4. "gpt_tail" \in DOMAIN a /\ NoneOutside(op)
  BY <1>1, <1>2, <1>3 DEF ComputeGood
<1>5. b = [w \in DOMAIN a |-> a[w]]
  <2>1. DOMAIN a \union {"gpt_tail"} = DOMAIN a
    BY <1>4
  <2> QED  BY <2>1 DEF Place
<1> HIDE DEF b
<1>6. x.cur \in Nat /\ op.ms \in Nat
  BY DEF ComputeGood, TypeT, OptionT
<1>7. /\ Framed(u) /\ u.total = x.cur - op.ms /\ u.mspad = x.mspad /\ u.align = x.align /\ u.app = x.app
      /\ u.gend = x.gend /\ u.gmax = x.gmax /\ u.gsize = x.gsize
  BY DEF ComputeGood, TypeT, Framed, TFields
<1> HIDE DEF u
<1>8. \A w \in Names : Size(op, u, w) = Size(op, x, w)
  BY <1>7, NamesAre DEF Size
<1>9. \A i \in 1 .. n : b[Writers(op)[i]] = a[Writers(op)[i]] /\ Size(op, u, Writers(op)[i]) = Size(op, x, Writers(op)[i])
  BY <1>3, <1>5, <1>8
<1>10. \A i \in 1 .. n + 1 : Due(op, u, b, i) = Due(op, x, a, i)
  <2> TAKE i \in 1 .. n + 1
  <2>1. i # 1 => i - 1 \in 1 .. n
    BY <1>1
  <2> QED  BY <1>9, <2>1 DEF Due
<1>11. Chain(op, u, b, n)
  <2>1. Chain(op, x, a, n)
    BY <1>2 DEF ComputeGood
  <2>2. \A i \in 1 .. n : i \in 1 .. n + 1
    BY <1>1
  <2> QED  BY <1>9, <1>10, <2>1, <2>2 DEF Chain
<1>12. Begun(op, b, n)
  BY <1>2, <1>5 DEF ComputeGood, Begun
<1>13. Due(op, u, b, n + 1) = op.ms + u.total
  <2>1. n + 1 \in 1 .. n + 1 /\ x.cur = Due(op, x, a, n + 1)
    BY <1>1, <1>2 DEF ComputeGood
  <2> QED  BY <1>6, <1>7, <1>10, <2>1
<1>14. u.total \in Int
  BY <1>6, <1>7
<1>15. PlacesFixed(op, u, b)
  BY <1>1, <1>4, <1>7, <1>11, <1>12, <1>13, <1>14 DEF PlacesFixed
<1> QED  BY <1>15 DEF u, b

\* Image sizes, when it lies behind the image with its appended partitions.
LEMMA SizesOutside ==
  ASSUME NEW op, OptionT(op), NEW x, NEW a, NEW k, ComputeGood(op, x, a, k), k <= N(op),
         Writers(op)[k] = "gpt_tail", NEW v,
         NEW s, s = [x EXCEPT !.vol = v, !.total = x.cur - op.ms],
         NEW y, y = IF x.computed THEN s ELSE precompute_gpt(s, op)
  PROVE  PlacesFixed(op, [y EXCEPT !.total = @ + y.gsize, !.gend = y.total + y.gsize + op.ms],
                     Place(a, "gpt_tail", x.cur))
<1> DEFINE u == [y EXCEPT !.total = @ + y.gsize, !.gend = y.total + y.gsize + op.ms]
           b == Place(a, "gpt_tail", x.cur)
<1>1. PICK n \in Nat \ 0..2 : n = N(op) /\ Writers(op)[n - 2] = "partappend"
  BY WriterFacts DEF N, OptionT
<1>2. k = n /\ n \in 1 .. n
  <2>1. k \in 1 .. n
    BY <1>1 DEF ComputeGood
  <2>2. op.md5 \in 0..2
    BY DEF OptionT
  <2> QED  BY <1>1, <2>1, <2>2, WriterFacts DEF N
<1>3. TypeT(x) /\ x.cur \in Nat /\ op.ms \in Nat
  BY DEF ComputeGood, TypeT, OptionT
<1>4. TypeT(s) /\ s.total = x.cur - op.ms /\ s.mspad = x.mspad /\ s.align = x.align /\ s.app = x.app
      /\ s.computed = x.computed
  BY <1>3 DEF TypeT, TFields
<1>5. Resized(s, y) /\ y.align = s.align /\ y.total = s.total
  <2>1. CASE x.computed
    BY <1>4, <2>1 DEF Resized
  <2>2. CASE ~x.computed
    <3>1. Len(op.img) \in Nat
      BY DEF OptionT
    <3>2. Presized(s, precompute_gpt(s, op))
      BY <1>4, <2>2, <3>1, PrecomputePresized DEF TypeT
    <3>3. Presized(s, y)
      BY <2>2, <3>2
    <3>4. "total" \in Fixed \ GptFields
      BY DEF Fixed, TFields, TableFields, GptFields
    <3> HIDE DEF b
    <3>5. y.total = s.total
      BY <3>3, <3>4 DEF Presized
    <3> QED  BY <1>4, <3>3, <3>5, PresizedType
  <2> QED  BY <2>1, <2>2
<1>6. PICK c \in Nat, m \in Nat, g \in Nat : c = x.cur /\ m = op.ms /\ g = y.gsize /\ (y.gmax = 0 => g = 0)
  BY <1>3, <1>5 DEF Resized, TypeT
<1>7. /\ Framed(u) /\ u.total = (c - m) + g /\ u.mspad = x.mspad /\ u.align = x.align /\ u.app = x.app
      /\ u.gend = (c - m) + g + m /\ u.gmax = y.gmax /\ u.gsize = g
  <2>1. y.mspad = x.mspad /\ y.align = x.align /\ y.app = x.app /\ y.total = c - m
    BY <1>4, <1>5, <1>6 DEF Resized
  <2>2. DOMAIN y = TFields /\ DOMAIN y.app = 1 .. 8
    BY <1>5 DEF Resized, TypeT
  <2>3. /\ DOMAIN u = TFields /\ u.total = y.total + y.gsize /\ u.mspad = y.mspad /\ u.align = y.align
        /\ u.app = y.app /\ u.gend = y.total + y.gsize + op.ms /\ u.gmax = y.gmax /\ u.gsize = y.gsize
    BY <2>2 DEF TFields
  <2> QED  BY <1>6, <2>1, <2>2, <2>3 DEF Framed
<1> HIDE DEF u
<1>8. Size(op, u, "gpt_tail") = g
  <2>1. Size(op, u, "gpt_tail") = IF u.gend = 0 \/ u.gmax = 0 THEN 0 ELSE u.gsize
    BY DEF Size
  <2>2. u.gend = 0 => g = 0
    BY <1>7
  <2> QED  BY <1>6, <1>7, <2>1, <2>2
<1>9. \A w \in Names \ {"gpt_tail"} : Size(op, u, w) = Size(op, x, w)
  <2>1. u.mspad = x.mspad /\ u.app = x.app /\ u.align = x.align
    BY <1>7
  <2> QED  BY <2>1, NamesAre DEF Size
<1>10. Begun(op, b, n) /\ Chain(op, u, b, n) /\ Due(op, u, b, n + 1) = c + g
  <2>1. k \in 1 .. N(op) /\ "gpt_tail" = Writers(op)[k] /\ x.cur \in Nat /\ Size(op, u, "gpt_tail") \in Nat
    BY <1>1, <1>2, <1>6, <1>8
  <2>2. Begun(op, a, k - 1) /\ Chain(op, x, a, k - 1) /\ x.cur = Due(op, x, a, k)
    BY DEF ComputeGood
  <2>3. /\ Begun(op, Place(a, "gpt_tail", x.cur), k) /\ Chain(op, u, Place(a, "gpt_tail", x.cur), k)
        /\ Due(op, u, Place(a, "gpt_tail", x.cur), k + 1) = x.cur + Size(op, u, "gpt_tail")
    BY <1>9, <2>1, <2>2, ChainGrows
  <2> QED  BY <1>2, <1>6, <1>8, <2>3
<1>11. NoneOutside(op)
  <2>1. n - 2 \in 1 .. k - 1
    BY <1>1, <1>2
  <2> QED  BY <1>1, <2>1 DEF ComputeGood, Begun
<1> HIDE DEF b
<1>12. c + g = op.ms + u.total /\ u.total \in Int
  BY <1>6, <1>7
<1>13. PlacesFixed(op, u, b)
  BY <1>1, <1>7, <1>10, <1>11, <1>12 DEF PlacesFixed
<1> QED  BY <1>13 DEF u, b


\* What ecma119_image_new() checks: the head for the partition offset fits.
HeadFits(op) == op.poff = 0 \/ VolDescs(op) + 1 + (IF op.md5 = 2 THEN 1 ELSE 0) <= op.poff

LEMMA StartGood ==
  ASSUME NEW op, OptionT(op), NEW c, c = Begin(op), NEW e
  PROVE  ComputeGood(op, [NewTarget(op) EXCEPT !.err = e, !.cur = c], <<>>, 1)
<1> DEFINE z == NewTarget(op)
           x == [z EXCEPT !.err = e, !.cur = c]
<1>1. /\ DOMAIN z = TFields /\ z.mspad = 0 /\ z.align = 0 /\ z.hpc = op.hpc /\ z.sph = op.sph
      /\ z.abs = op.abs /\ z.have = (op.app # <<>>) /\ z.computed = FALSE /\ z.gsize = 0 /\ z.gmax = 0
      /\ z.app = [i \in 1..8 |-> [s |-> 0, n |-> 0, pad |-> 0]] /\ z.apm = <<>>
  BY DEF NewTarget, TFields
<1> HIDE DEF z
<1>2. /\ DOMAIN x = TFields /\ x.cur = c /\ x.mspad = 0 /\ x.align = 0 /\ x.hpc = op.hpc /\ x.sph = op.sph
      /\ x.abs = op.abs /\ x.have = (op.app # <<>>) /\ x.computed = FALSE /\ x.gsize = 0 /\ x.gmax = 0
      /\ x.app = z.app /\ x.apm = <<>>
  BY <1>1 DEF TFields
<1> HIDE DEF x
<1>3. DOMAIN x.app = 1 .. 8
  BY <1>1, <1>2
<1>4. IsList(x.apm)
  <2>1. <<>> \in Seq(Nat)
    OBVIOUS
  <2> QED  BY <1>2, <2>1 DEF IsList
<1>5. x.cur \in Nat
  BY <1>2, BeginNat
<1>6. op.hpc \in Nat /\ op.sph \in Nat /\ op.abs \in Nat
  BY DEF OptionT
<1>7. TypeT(x)
  <2>1. x.have \in BOOLEAN /\ x.computed \in BOOLEAN
    BY <1>2
  <2>2. /\ x.mspad \in Nat /\ x.align \in Nat /\ x.abs \in Nat /\ x.hpc \in Nat /\ x.sph \in Nat
        /\ x.gsize = 0 /\ x.gsize \in Nat
    BY <1>2, <1>6
  <2>3. DOMAIN x = TFields
    BY <1>2
  <2> QED  BY <1>3, <1>4, <1>5, <2>1, <2>2, <2>3 DEF TypeT
<1>8. N(op) \in Nat /\ 1 \in 1 .. N(op) + 1 /\ ~(1 > N(op))
  BY WriterFacts DEF N, OptionT
<1>9. Begun(op, <<>>, 1 - 1) /\ Chain(op, x, <<>>, 1 - 1) /\ Due(op, x, <<>>, 1) = Begin(op)
  <2>1. 1 .. 1 - 1 = {} /\ DOMAIN <<>> = {}
    OBVIOUS
  <2> QED  BY <2>1 DEF Begun, Chain, Due
<1>10. "partappend" \notin DOMAIN <<>>
  OBVIOUS
<1>11. ComputeGood(op, x, <<>>, 1)
  BY <1>2, <1>7, <1>8, <1>9, <1>10 DEF ComputeGood
<1> QED  BY <1>11 DEF x, z


-----------------------------------------------------------------------------
(* The invariant of the specification.                                      *)

LogAt == \A e \in log : e.what \in DOMAIN at => e.s = at[e.what]
LayoutGood ==
  /\ HeadFits(o) \/ lpc \in {"failed", "write", "done"}
  /\ lpc = "compute" => ComputeGood(o, t, at, wr) /\ log = {}
  /\ lpc = "head" => PlacesFixed(o, t, at) /\ wr = 1 /\ log = {}
  /\ lpc = "write" => /\ PlacesFixed(o, t, at)
                     /\ wr \in 1 .. N(o) + 1 /\ pos \in Int /\ Here = Due(o, t, at, wr)
  /\ LogAt
  /\ lpc = "done" => pos = t.total
LInv == /\ lpc \in {"new", "compute", "head", "write", "done", "failed"}
        /\ lpc = "new" => log = {} /\ wr = 1 /\ at = <<>>
        /\ lpc # "new" => o \in LayoutOptions
        /\ lpc # "new" /\ o.md5 # 1 => LayoutGood

LEMMA NewStep ==
  ASSUME LInv, NEW op \in LayoutOptions, ecma119_image_new(op)
  PROVE  LInv'
<1> DEFINE cur == op.ms + 16 + VolDescs(op) + 1 + (IF op.md5 = 2 THEN 1 ELSE 0)
           e == IF op.type \notin {0, 3} /\ op.app # <<>> THEN "NON_MBR_SYS_AREA"
                ELSE IF op.type # 0 /\ op.prep > 0 THEN "NON_MBR_SYS_AREA"
                ELSE IF op.ov /\ op.ms # 0 /\ op.ms < op.poff + 32 THEN "OVWRT_MS_TOO_SMALL"
                ELSE IF op.poff > 0 /\ op.ms + op.poff + 16 < cur THEN "PART_OFFST_TOO_SMALL" ELSE ""
           c == IF op.poff = 0 THEN cur ELSE op.ms + op.poff + 16 + PartDescs(op) + 1
<1>1. /\ lpc = "new" /\ o' = op /\ lpc' = IF e = "" THEN "compute" ELSE "failed"
      /\ t' = [NewTarget(op) EXCEPT !.err = e, !.cur = c] /\ at' = <<>> /\ wr' = 1 /\ log' = {}
  BY DEF ecma119_image_new, LInv
<1>2. OptionT(op)
  BY OptionsTyped
<1>3. /\ op.ms \in Nat /\ op.poff \in Nat /\ VolDescs(op) \in Nat /\ PartDescs(op) \in Nat
  BY <1>2, BlocksNat DEF OptionT
<1>4. c = Begin(op)
  BY <1>3 DEF Begin
<1>5. e = "" => HeadFits(op)
  BY <1>3 DEF HeadFits
<1> HIDE DEF c, e
<1>6. ComputeGood(op, t', <<>>, 1)
  BY <1>1, <1>2, <1>4, StartGood
<1>7. LayoutGood'
  <2>1. HeadFits(op) \/ lpc' = "failed"
    BY <1>1, <1>5
  <2>2. lpc' \in {"compute", "failed"}
    BY <1>1
  <2> QED  BY <1>1, <1>6, <2>1, <2>2 DEF LayoutGood, LogAt
<1> QED  BY <1>1, <1>7 DEF LInv

\* One writer computes its blocks.
LEMMA ComputedStep ==
  ASSUME LInv, NEW w, Computing(w), NEW u, Computed(w, u), w = "gpt_tail" => ~t.have,
         o.md5 # 1 /\ Ok(u) => Sized(o, t, u, w)
  PROVE  LInv'
<1>1. /\ lpc = "compute" /\ wr <= N(o) /\ Writers(o)[wr] = w
      /\ t' = u /\ at' = Place(at, w, t.cur) /\ wr' = wr + 1 /\ o' = o /\ log' = log
      /\ lpc' = IF Ok(u) THEN lpc ELSE "failed"
  BY DEF Computing, Computed, Noted, Place, N
<1>2. o \in LayoutOptions /\ OptionT(o)
  BY <1>1, OptionsTyped DEF LInv
<1>3. CASE o.md5 = 1
  BY <1>1, <1>2, <1>3 DEF LInv
<1>4. CASE o.md5 # 1
  <2>1. ComputeGood(o, t, at, wr) /\ log = {} /\ HeadFits(o)
    BY <1>1, <1>4 DEF LInv, LayoutGood
  <2>2. Ok(u) => ComputeGood(o, u, Place(at, w, t.cur), wr + 1)
    BY <1>1, <1>2, <1>4, <2>1, ComputeStep
  <2>3. LayoutGood'
    BY <1>1, <2>1, <2>2 DEF LayoutGood, LogAt, HeadFits
  <2> QED  BY <1>1, <1>2, <2>3 DEF LInv
<1> QED  BY <1>3, <1>4


LEMMA ComputeSteps ==
  ASSUME LInv, \/ ComputeTrees \/ mspad_writer_compute_data_blocks
               \/ ComputePrepend \/ ComputeHfs \/ ComputeFiles
               \/ hfsplus_tail_writer_compute_data_blocks \/ checksum_writer_compute_data_blocks
               \/ part_align_writer_compute_data_blocks \/ partappend_writer_compute_data_blocks
               \/ ComputeTail \/ gpt_tail_writer_compute_data_blocks
  PROVE  LInv'
<1>1. lpc = "compute" /\ o \in LayoutOptions /\ OptionT(o)
  <2>1. lpc = "compute"
    BY DEF ComputeTrees, mspad_writer_compute_data_blocks, ComputePrepend, ComputeHfs, ComputeFiles,
           hfsplus_tail_writer_compute_data_blocks, checksum_writer_compute_data_blocks,
           part_align_writer_compute_data_blocks, partappend_writer_compute_data_blocks,
           ComputeTail, gpt_tail_writer_compute_data_blocks, Computing
  <2> QED  BY <2>1, OptionsTyped DEF LInv
<1>2. o.md5 # 1 => ComputeGood(o, t, at, wr) /\ TypeT(t)
  BY <1>1 DEF LInv, LayoutGood, ComputeGood
<1>3. CASE ComputeTrees
  <2>1. o.md5 # 1 => /\ Sized(o, t, [t EXCEPT !.cur = @ + TreeBlocks(o)], "ecma119")
                     /\ Sized(o, t, [t EXCEPT !.cur = @ + o.jol], "joliet")
    BY <1>1, <1>2, PlainSized
  <2>2. CASE Computing("ecma119") /\ Computed("ecma119", [t EXCEPT !.cur = @ + TreeBlocks(o)])
    BY <2>1, <2>2, ComputedStep
  <2>3. CASE Computing("joliet") /\ Computed("joliet", [t EXCEPT !.cur = @ + o.jol])
    BY <2>1, <2>3, ComputedStep
  <2> QED  BY <1>3, <2>2, <2>3 DEF ComputeTrees
<1>4. CASE mspad_writer_compute_data_blocks
  <2>1. PICK u : /\ u = [t EXCEPT !.cur = Max({@, 32 + o.poff}), !.mspad = Max({t.cur, 32 + o.poff}) - t.cur]
                 /\ Computing("mspad") /\ Computed("mspad", u)
    BY <1>4 DEF mspad_writer_compute_data_blocks
  <2>2. o.md5 # 1 => Sized(o, t, u, "mspad")
    BY <1>1, <1>2, <2>1, MspadSized
  <2> QED  BY <2>1, <2>2, ComputedStep
<1>5. CASE ComputePrepend
  <2>1. PICK x, u : /\ x = partprepend_writer_compute_data_blocks(t, o)
                    /\ u = x \/ \E k : u = [x EXCEPT !.boot[k] = x.efi]
                    /\ Computing("partprepend") /\ Computed("partprepend", u)
    BY <1>5 DEF ComputePrepend
  <2>2. o.md5 # 1 /\ Ok(u) => Sized(o, t, u, "partprepend")
    BY <1>1, <1>2, <2>1, PrependSized
  <2> QED  BY <2>1, <2>2, ComputedStep
<1>6. CASE ComputeHfs
  <2>1. o.md5 # 1 => Sized(o, t, [t EXCEPT !.hstart = @ + t.cur, !.cur = @ + o.hfs], "hfsplus")
    BY <1>1, <1>2, PlainSized
  <2> QED  BY <1>6, <2>1, ComputedStep DEF ComputeHfs
<1>7. CASE ComputeFiles
  <2>1. PICK u, f, b : /\ u = [t EXCEPT !.cur = @ + FileBlocks(o), !.bootf = f, !.boot = b]
                       /\ Computing("filesrc") /\ Computed("filesrc", u)
    BY <1>7 DEF ComputeFiles
  <2>2. o.md5 # 1 => Sized(o, t, u, "filesrc")
    BY <1>1, <1>2, <2>1, PlainSized
  <2> QED  BY <2>1, <2>2, ComputedStep
<1>8. CASE hfsplus_tail_writer_compute_data_blocks
  <2>1. PICK u, s, n : /\ u = iso_quick_apm_entry([t EXCEPT !.cur = @ + 2], s, n, "Apple_HFS", FALSE)
                       /\ Computing("hfsplus_tail") /\ Computed("hfsplus_tail", u)
    BY <1>8 DEF hfsplus_tail_writer_compute_data_blocks
  <2>2. o.md5 # 1 => Sized(o, t, u, "hfsplus_tail")
    BY <1>2, <2>1, HfsTailSized
  <2>3. Computing("hfsplus_tail") /\ Computed("hfsplus_tail", u)
    BY <2>1
  <2> QED  BY <2>2, <2>3, ComputedStep
<1>9. CASE checksum_writer_compute_data_blocks
  <2>1. Computing("checksum") /\ Computed("checksum", [t EXCEPT !.cur = @ + 2])
    BY <1>9 DEF checksum_writer_compute_data_blocks
  <2>2. o.md5 # 1 => o.md5 = 2
    <3>1. o.md5 \in 0..2
      BY <1>1 DEF OptionT
    <3>2. o.md5 # 1 => wr \in 1 .. Len(Writers(o)) /\ Writers(o)[wr] = "checksum"
      <4>1. Len(Writers(o)) \in Nat
        BY <3>1, WriterFacts
      <4> QED  BY <1>2, <2>1, <4>1 DEF Computing, ComputeGood, N
    <3>3. o.md5 # 1 => o.md5 > 0
      BY <3>1, <3>2, WriterFacts
    <3> QED  BY <3>1, <3>3
  <2>3. o.md5 # 1 => Sized(o, t, [t EXCEPT !.cur = @ + 2], "checksum")
    BY <1>1, <1>2, <2>2, PlainSized
  <2> QED  BY <2>1, <2>3, ComputedStep
<1>10. CASE part_align_writer_compute_data_blocks
  <2>1. PICK x : /\ x = iso_align_isohybrid(t, o) /\ Computing("part_align")
                 /\ Computed("part_align", [x EXCEPT !.cur = @ + x.align, !.alignend = x.cur + x.align])
    BY <1>10 DEF part_align_writer_compute_data_blocks
  <2>2. o.md5 # 1 => ~t.computed
    <3>1. SUFFICES ASSUME o.md5 # 1, t.computed PROVE FALSE
      OBVIOUS
    <3>2. Len(Writers(o)) \in Nat /\ \A i, j \in 1 .. Len(Writers(o)) : Writers(o)[i] = Writers(o)[j] => i = j
      BY <1>1, WriterFacts DEF OptionT
    <3>3. wr \in 1 .. Len(Writers(o)) /\ Writers(o)[wr] = "part_align" /\ "part_align" \in DOMAIN at
      BY <1>2, <2>1, <3>1, <3>2 DEF Computing, ComputeGood, N
    <3>4. PICK i \in 1 .. wr - 1 : Writers(o)[i] = "part_align"
      BY <1>2, <3>1, <3>3 DEF ComputeGood, Begun
    <3> QED  BY <3>2, <3>3, <3>4
  <2>3. o.md5 # 1 => Sized(o, t, [x EXCEPT !.cur = @ + x.align, !.alignend = x.cur + x.align], "part_align")
    BY <1>1, <1>2, <2>1, <2>2, AlignSized
  <2> QED  BY <2>1, <2>3, ComputedStep
<1>11. CASE partappend_writer_compute_data_blocks
  <2>1. PICK u : /\ u = iso_compute_append_partitions(t, o)
                 /\ Computing("partappend") /\ Computed("partappend", u)
    BY <1>11 DEF partappend_writer_compute_data_blocks
  <2>2. o.md5 # 1 /\ Ok(u) => Sized(o, t, u, "partappend")
    BY <1>1, <1>2, <2>1, AppendSized
  <2> QED  BY <2>1, <2>2, ComputedStep
<1>12. CASE ComputeTail
  <2>1. o.md5 # 1 => Sized(o, t, [t EXCEPT !.cur = @ + o.tail], "tail")
    BY <1>1, <1>2, PlainSized
  <2> QED  BY <1>12, <2>1, ComputedStep DEF ComputeTail
<1>13. CASE gpt_tail_writer_compute_data_blocks
  <2>1. PICK x : /\ x = IF t.computed THEN t ELSE precompute_gpt(t, o) 
                 /\ Computing("gpt_tail") /\ ~t.have
                 /\ Computed("gpt_tail", [x EXCEPT !.cur = @ + x.gsize, !.gend = x.cur + x.gsize])
    BY <1>13 DEF gpt_tail_writer_compute_data_blocks
  <2>2. o.md5 # 1 => Sized(o, t, [x EXCEPT !.cur = @ + x.gsize, !.gend = x.cur + x.gsize], "gpt_tail")
    BY <1>1, <1>2, <2>1, GptTailSized
  <2> QED  BY <2>1, <2>2, ComputedStep
<1> QED  BY <1>3, <1>4, <1>5, <1>6, <1>7, <1>8, <1>9, <1>10, <1>11, <1>12, <1>13


LEMMA SizesStep ==
  ASSUME LInv, ComputeSizes
  PROVE  LInv'
<1>1. lpc = "compute" /\ o' = o /\ log' = log /\ wr' = 1 /\ o \in LayoutOptions /\ OptionT(o)
  BY OptionsTyped DEF ComputeSizes, LInv
<1> DEFINE v == (IF Count = 0 THEN t.cur ELSE t.alignend) - o.ms
           s == [t EXCEPT !.vol = v, !.total = t.cur - o.ms]
           y == IF t.computed THEN s ELSE precompute_gpt(s, o)
           x == IF ~t.have THEN s ELSE [y EXCEPT !.total = @ + y.gsize, !.gend = y.total + y.gsize + o.ms]
<1>5. t' = x /\ lpc' = IF Ok(x) THEN "head" ELSE "failed"
  BY DEF ComputeSizes, Sizes, GptOutside
<1>6. at' = Place(at, "gpt_tail", t.cur)
  BY DEF ComputeSizes, Noted, Place
<1>7. /\ s = [t EXCEPT !.vol = v, !.total = t.cur - o.ms]
      /\ y = IF t.computed THEN s ELSE precompute_gpt(s, o)
      /\ x = IF ~t.have THEN s ELSE [y EXCEPT !.total = @ + y.gsize, !.gend = y.total + y.gsize + o.ms]
  OBVIOUS
<1> HIDE DEF v, s, y, x
<1>2. /\ s = [t EXCEPT !.vol = v, !.total = t.cur - o.ms]
      /\ y = IF t.computed THEN s ELSE precompute_gpt(s, o)
      /\ x = IF ~t.have THEN s ELSE [y EXCEPT !.total = @ + y.gsize, !.gend = y.total + y.gsize + o.ms]
      /\ t' = x /\ lpc' = IF Ok(x) THEN "head" ELSE "failed"
      /\ at' = Place(at, "gpt_tail", t.cur)
  BY <1>5, <1>6, <1>7
<1>3. CASE o.md5 = 1
  <2>1. lpc' \in {"head", "failed"}
    BY <1>2
  <2> QED  BY <1>1, <1>3, <2>1 DEF LInv
<1>4. CASE o.md5 # 1
  <2>1. ComputeGood(o, t, at, wr) /\ log = {} /\ HeadFits(o)
    BY <1>1, <1>4 DEF LInv, LayoutGood
  <2>2. N(o) \in Nat /\ wr \in 1 .. N(o) + 1 /\ (wr > N(o) => ~t.have)
    BY <1>1, <2>1, WriterFacts DEF ComputeGood, N, OptionT
  <2>3. CASE ~t.have
    <3>1. wr > N(o)
      BY <2>2, <2>3 DEF ComputeSizes, N
    <3>2. PlacesFixed(o, t', at')
      BY <1>1, <1>2, <2>1, <2>3, <3>1, SizesInside
    <3>3. LayoutGood'
      BY <1>1, <1>2, <2>1, <3>2 DEF LayoutGood, LogAt, HeadFits
    <3> QED  BY <1>1, <1>2, <3>3 DEF LInv
  <2>4. CASE t.have
    <3>1. wr <= N(o) /\ Writers(o)[wr] = "gpt_tail"
      BY <2>2, <2>4 DEF ComputeSizes, Computing, N
    <3>2. PlacesFixed(o, t', at')
      <4>1. t' = [y EXCEPT !.total = @ + y.gsize, !.gend = y.total + y.gsize + o.ms]
        BY <1>2, <2>4
      <4>2. PlacesFixed(o, [y EXCEPT !.total = @ + y.gsize, !.gend = y.total + y.gsize + o.ms],
                        Place(at, "gpt_tail", t.cur))
        BY <1>1, <1>2, <2>1, <3>1, SizesOutside
      <4> QED  BY <1>2, <4>1, <4>2
    <3>3. LayoutGood'
      BY <1>1, <1>2, <2>1, <3>2 DEF LayoutGood, LogAt, HeadFits
    <3> QED  BY <1>1, <1>2, <3>3 DEF LInv
  <2> QED  BY <2>3, <2>4
<1> QED  BY <1>3, <1>4

LEMMA OverwriteStep ==
  ASSUME LInv, WriteOverwrite
  PROVE  LInv'
<1>1. lpc = "head" /\ o' = o /\ log' = log /\ at' = at /\ wr' = wr /\ o \in LayoutOptions /\ OptionT(o)
  BY OptionsTyped DEF WriteOverwrite, LInv
<1>2. PICK x, r, v, m : /\ x = [t EXCEPT !.vol = v, !.total = m]
                        /\ r = iso_write_system_area(x, o, 0)
                        /\ t' = [iso_delete_gpt_apm_fillers(r.t) EXCEPT !.vol = t.vol, !.total = t.total]
                        /\ lpc' \in {"head", "failed"}
  BY <1>1 DEF WriteOverwrite
<1>3. CASE o.md5 = 1
  BY <1>1, <1>2, <1>3 DEF LInv
<1>4. CASE o.md5 # 1
  <2>1. PlacesFixed(o, t, at) /\ wr = 1 /\ log = {} /\ HeadFits(o) /\ Framed(t)
    BY <1>1, <1>4 DEF LInv, LayoutGood, PlacesFixed
  <2>2. PICK y : y = iso_delete_gpt_apm_fillers(r.t) /\ Kept(o, x, y)
    <3>1. Framed(x)
      BY <1>2, <2>1 DEF Framed, TFields
    <3>2. Kept(o, x, r.t)
      BY <1>2, <3>1, SystemAreaKept
    <3>3. Kept(o, r.t, iso_delete_gpt_apm_fillers(r.t))
      <4>1. Framed(r.t)
        BY <3>2 DEF Kept, Framed
      <4> QED  BY <4>1, FillersKept
    <3>4. Kept(o, x, iso_delete_gpt_apm_fillers(r.t))
      BY <3>2, <3>3, KeptTrans
    <3> QED  BY <3>4
  <2>3. t' = [y EXCEPT !.vol = t.vol, !.total = t.total]
    BY <1>2, <2>2
  <2>4. /\ x.mspad = t.mspad /\ x.align = t.align /\ x.gend = t.gend /\ x.gsize = t.gsize
        /\ x.gmax = t.gmax /\ x.app = t.app
    BY <1>2, <2>1 DEF Framed, TFields
  <2>5. /\ y.mspad = t.mspad /\ y.align = t.align /\ y.gend = t.gend /\ y.gsize = t.gsize
        /\ y.gmax = t.gmax /\ \A i \in Slots(o) : y.app[i] = t.app[i]
    BY <2>2, <2>4 DEF Kept, KeptFields
  <2>6. DOMAIN y = TFields /\ DOMAIN y.app = 1 .. 8
    BY <2>2 DEF Kept
  <2>7. /\ DOMAIN t' = TFields /\ t'.app = y.app /\ t'.mspad = y.mspad /\ t'.align = y.align
        /\ t'.gend = y.gend /\ t'.gsize = y.gsize /\ t'.gmax = y.gmax /\ t'.total = t.total
    BY <2>3, <2>6 DEF TFields
  <2>8. Kept(o, t, t')
    BY <2>5, <2>6, <2>7 DEF Kept, KeptFields
  <2>9. PlacesFixed(o, t', at)
    BY <1>1, <2>1, <2>8, KeptFixed
  <2>10. LayoutGood'
    BY <1>1, <1>2, <2>1, <2>9 DEF LayoutGood, LogAt, HeadFits
  <2> QED  BY <1>1, <1>2, <2>10 DEF LInv
<1> QED  BY <1>3, <1>4


LEMMA HeadStep ==
  ASSUME LInv, write_head_part
  PROVE  LInv'
<1>1. /\ lpc = "head" /\ o' = o /\ log' = log /\ at' = at /\ wr' = wr /\ o \in LayoutOptions /\ OptionT(o)
      /\ pos' = PartHead(16 + VolDescs(o) + 1 + (IF o.md5 = 2 THEN 1 ELSE 0))
  BY OptionsTyped DEF write_head_part, LInv
<1>2. PICK x, r, b : /\ x = [t EXCEPT !.abs = b] /\ r = iso_write_system_area(x, o, 1)
                     /\ t' = r.t /\ lpc' \in {"write", "failed"}
  <2> DEFINE b == IF t.abs # 0 THEN t.abs ELSE IF Len(t.gpt) > 0 THEN 2048 ELSE 512
             x == [t EXCEPT !.abs = b]
             r == iso_write_system_area(x, o, 1)
  <2>1. t' = r.t /\ lpc' = IF Ok(r.t) THEN "write" ELSE "failed"
    BY DEF write_head_part
  <2>2. x = [t EXCEPT !.abs = b] /\ r = iso_write_system_area(x, o, 1)
    OBVIOUS
  <2>3. lpc' \in {"write", "failed"}
    BY <2>1
  <2> HIDE DEF b, x, r
  <2> WITNESS x, r, b
  <2> QED  BY <2>1, <2>2, <2>3
<1>3. CASE o.md5 = 1
  BY <1>1, <1>2, <1>3 DEF LInv
<1>4. CASE o.md5 # 1
  <2>1. PlacesFixed(o, t, at) /\ wr = 1 /\ log = {} /\ HeadFits(o) /\ Framed(t)
    BY <1>1, <1>4 DEF LInv, LayoutGood, PlacesFixed
  <2>2. Kept(o, t, x) /\ Framed(x)
    BY <1>2, <2>1 DEF Kept, KeptFields, Framed, TFields
  <2>3. Kept(o, x, t')
    BY <1>2, <2>2, SystemAreaKept
  <2>4. Kept(o, t, t')
    BY <2>2, <2>3, KeptTrans
  <2>5. PlacesFixed(o, t', at)
    BY <1>1, <2>1, <2>4, KeptFixed
  <2>6. pos' \in Int /\ o.ms + pos' = Begin(o)
    <3>1. PICK m \in Nat, p \in Nat, v \in Nat, d \in Nat, c \in Nat :
            /\ m = o.ms /\ p = o.poff /\ v = VolDescs(o) /\ d = PartDescs(o)
            /\ c = IF o.md5 = 2 THEN 1 ELSE 0
      BY <1>1, BlocksNat DEF OptionT
    <3>2. p # 0 => v + 1 + c <= p
      BY <2>1, <3>1 DEF HeadFits
    <3>3. p # 0 => Max({16 + v + 1 + c, p + 16}) = p + 16
      <4>1. Max({16 + v + 1 + c, p + 16}) = IF 16 + v + 1 + c >= p + 16 THEN 16 + v + 1 + c ELSE p + 16
        BY MaxOfTwo
      <4> QED  BY <3>2, <4>1
    <3>4. pos' = IF p = 0 THEN 16 + v + 1 + c ELSE Max({16 + v + 1 + c, p + 16}) + d + 1
      BY <1>1, <3>1 DEF PartHead
    <3>5. Begin(o) = m + (IF p = 0 THEN 16 + v + 1 + c ELSE p + 16 + d + 1)
      BY <3>1 DEF Begin
    <3> QED  BY <3>1, <3>3, <3>4, <3>5
  <2>7. (o.ms + pos)' = Due(o, t', at, 1)
    BY <1>1, <2>6 DEF Due
  <2>8. wr' = 1 /\ 1 \in 1 .. N(o) + 1
    BY <1>1, <2>1, WriterFacts DEF N, OptionT
  <2>9. LayoutGood'
    BY <1>1, <1>2, <2>1, <2>5, <2>6, <2>7, <2>8 DEF LayoutGood, LogAt, HeadFits, Here
  <2> QED  BY <1>1, <1>2, <2>9 DEF LInv
<1> QED  BY <1>3, <1>4

\* One writer writes what it computed.
LEMMA WroteStep ==
  ASSUME LInv, NEW w, Writing(w), NEW n, NEW what, Wrote(n, what),
         o.md5 # 1 => n = Size(o, t, w), \A e \in what : e.what \notin Names
  PROVE  LInv'
<1>1. /\ lpc = "write" /\ wr <= N(o) /\ Writers(o)[wr] = w /\ o \in LayoutOptions /\ OptionT(o)
      /\ o' = o /\ t' = t /\ lpc' = lpc /\ at' = at /\ wr' = wr + 1 /\ pos' = pos + n
      /\ log' = log \union {[what |-> w, k |-> 0, s |-> Here, n |-> n]} \union what
  BY OptionsTyped DEF Writing, Wrote, LInv, N
<1>2. CASE o.md5 = 1
  BY <1>1, <1>2 DEF LInv
<1>3. CASE o.md5 # 1
  <2>1. /\ PlacesFixed(o, t, at) /\ wr \in 1 .. N(o) + 1 /\ pos \in Int /\ Here = Due(o, t, at, wr)
        /\ LogAt
    BY <1>1, <1>3 DEF LInv, LayoutGood
  <2>2. N(o) \in Nat /\ wr \in 1 .. N(o)
    BY <1>1, <2>1, WriterFacts DEF N, OptionT
  <2>3. at[w] = Here /\ at[w] \in Nat /\ Size(o, t, w) \in Nat
    BY <1>1, <2>1, <2>2 DEF PlacesFixed, Chain
  <2>4. Due(o, t, at, wr + 1) = at[w] + Size(o, t, w)
    <3>1. wr + 1 # 1 /\ (wr + 1) - 1 = wr
      BY <2>2
    <3> QED  BY <1>1, <3>1 DEF Due
  <2>5. o.ms \in Nat
    BY <1>1 DEF OptionT
  <2>6. pos' \in Int /\ o.ms + pos' = Due(o, t, at, wr + 1)
    BY <1>1, <1>3, <2>1, <2>3, <2>4, <2>5 DEF Here
  <2>7. wr' \in 1 .. N(o) + 1
    BY <1>1, <2>2
  <2>8. LogAt'
    <3>1. ASSUME NEW e \in log', e.what \in DOMAIN at PROVE e.s = at[e.what]
      <4>1. CASE e \in log
        BY <2>1, <3>1, <4>1 DEF LogAt
      <4>2. CASE e = [what |-> w, k |-> 0, s |-> Here, n |-> n]
        BY <2>3, <4>2
      <4>3. CASE e \in what
        <5>1. e.what \notin Names
          BY <4>3
        <5>2. \A i \in 1 .. N(o) : Writers(o)[i] \in Names
          BY <1>1, WriterFacts DEF N, OptionT
        <5> QED  BY <2>1, <3>1, <5>1, <5>2 DEF PlacesFixed, Begun
      <4> QED  BY <1>1, <4>1, <4>2, <4>3
    <3> QED  BY <1>1, <3>1 DEF LogAt
  <2>9. LayoutGood'
    BY <1>1, <2>1, <2>6, <2>7, <2>8 DEF LayoutGood, Here
  <2> QED  BY <1>1, <2>9 DEF LInv
<1> QED  BY <1>2, <1>3


LEMMA AppendBeforeAll ==
  AppendBefore(9) = AppBlocks(o, t.app)
<1>1. {j \in Slots(o) : j < 9} = Slots(o)
  BY DEF Slots
<1>2. [j \in 1..8 |-> IF Real(o, j) THEN AppendBlocks(j) ELSE 0] = [j \in 1..8 |-> Blocks(o, t.app, j)]
  BY DEF AppendBlocks, Blocks
<1>3. AppendBefore(9) = SumOver([j \in 1..8 |-> IF Real(o, j) THEN AppendBlocks(j) ELSE 0], Slots(o))
  BY <1>1 DEF AppendBefore, SumOver
<1> QED  BY <1>2, <1>3 DEF AppBlocks

LEMMA WriteSteps ==
  ASSUME LInv, \/ WriteBlocks \/ checksum_writer_write_data \/ partprepend_writer_write_data
               \/ partappend_writer_write_data \/ gpt_tail_writer_write_data
  PROVE  LInv'
<1>1. {"hfs", "img", "bootfile", "efi", "prep", "app", "backup"} \intersect Names = {}
  BY NamesAre
<1>2. CASE Writing("ecma119") /\ Wrote(TreeBlocks(o), {})
  BY <1>2, WroteStep DEF Size
<1>3. CASE Writing("joliet") /\ Wrote(o.jol, {})
  BY <1>3, WroteStep DEF Size
<1>4. CASE Writing("mspad") /\ Wrote(t.mspad, {})
  BY <1>4, WroteStep DEF Size
<1>5. CASE Writing("hfsplus") /\ Wrote(o.hfs, {})
  BY <1>5, WroteStep DEF Size
<1>6. CASE Writing("part_align") /\ Wrote(t.align, {})
  BY <1>6, WroteStep DEF Size
<1>7. CASE Writing("tail") /\ Wrote(o.tail, {})
  BY <1>7, WroteStep DEF Size
<1>8. CASE Writing("hfsplus_tail")
           /\ Wrote(2, {[what |-> "hfs", k |-> 0, s |-> t.hstart, n |-> Here + 2 - t.hstart]})
  <2>1. Size(o, t, "hfsplus_tail") = 2
    BY DEF Size
  <2>2. \A e \in {[what |-> "hfs", k |-> 0, s |-> t.hstart, n |-> Here + 2 - t.hstart]} : e.what \notin Names
    BY <1>1
  <2> QED  BY <1>8, <2>1, <2>2, WroteStep
<1>9. CASE Writing("filesrc") /\ Wrote(FileBlocks(o),
        {[what |-> "img", k |-> k, s |-> Here + ImagesUpTo(o, k - 1), n |-> o.img[k].size] :
             k \in {j \in 1..Len(o.img) : InFiles(o, j)}}
        \union {[what |-> "bootfile", k |-> 0, s |-> Here + ImagesUpTo(o, Len(o.img)), n |-> 1]})
  <2> DEFINE what == {[what |-> "img", k |-> k, s |-> Here + ImagesUpTo(o, k - 1), n |-> o.img[k].size] :
                        k \in {j \in 1..Len(o.img) : InFiles(o, j)}}
                     \union {[what |-> "bootfile", k |-> 0, s |-> Here + ImagesUpTo(o, Len(o.img)), n |-> 1]}
  <2>1. \A e \in what : e.what \notin Names
    BY <1>1
  <2>2. Size(o, t, "filesrc") = FileBlocks(o)
    BY DEF Size
  <2> HIDE DEF what
  <2>3. Writing("filesrc") /\ Wrote(FileBlocks(o), what)
    BY <1>9 DEF what
  <2> QED  BY <2>1, <2>2, <2>3, WroteStep
<1>10. CASE checksum_writer_write_data
  <2>1. Size(o, t, "checksum") = IF o.md5 = 2 THEN 2 ELSE 1
    BY DEF Size
  <2>2. \A e \in {} : e.what \notin Names
    OBVIOUS
  <2> QED  BY <1>10, <2>1, <2>2, WroteStep DEF checksum_writer_write_data
<1>11. CASE partprepend_writer_write_data
  <2> DEFINE what == (IF o.efi > 0 THEN {[what |-> "efi", k |-> 0, s |-> Here, n |-> o.efi]} ELSE {})
                     \union (IF o.prep > 0 THEN {[what |-> "prep", k |-> 0, s |-> Here + o.efi, n |-> o.prep]}
                             ELSE {})
  <2>1. \A e \in what : e.what \notin Names
    BY <1>1
  <2>2. Size(o, t, "partprepend") = o.efi + o.prep
    BY DEF Size
  <2>3. Writing("partprepend") /\ Wrote(o.efi + o.prep, what)
    BY <1>11 DEF partprepend_writer_write_data
  <2> HIDE DEF what
  <2> QED  BY <2>1, <2>2, <2>3, WroteStep
<1>12. CASE partappend_writer_write_data
  <2> DEFINE place(i) == IF o.app[i].keep >= 0 THEN o.app[i].keep ELSE Here + AppendBefore(i) + t.app[i].pad
             what == {[what |-> "app", k |-> i, n |-> t.app[i].n, s |-> place(i)] :
                        i \in {j \in Slots(o) : Real(o, j)}}
  <2>1. Writing("partappend") /\ Wrote(AppendBefore(9), what)
    BY <1>12 DEF partappend_writer_write_data
  <2> HIDE DEF place
  <2>2. \A e \in what : e.what \notin Names
    BY <1>1
  <2>3. Size(o, t, "partappend") = AppendBefore(9)
    BY AppendBeforeAll DEF Size
  <2> HIDE DEF what
  <2> QED  BY <2>1, <2>2, <2>3, WroteStep
<1>13. CASE gpt_tail_writer_write_data
  <2> DEFINE what == {[what |-> "backup", k |-> 0, s |-> (Here + t.gsize) * 4 - 1, n |-> 1]}
  <2>1. Writing("gpt_tail") /\ IF t.gend = 0 \/ t.gmax = 0 THEN Wrote(0, {}) ELSE Wrote(t.gsize, what)
    BY <1>13 DEF gpt_tail_writer_write_data
  <2>2. \A e \in what : e.what \notin Names
    BY <1>1
  <2>3. Size(o, t, "gpt_tail") = IF t.gend = 0 \/ t.gmax = 0 THEN 0 ELSE t.gsize
    BY DEF Size
  <2>4. \A e \in {} : e.what \notin Names
    OBVIOUS
  <2> HIDE DEF what
  <2>5. CASE t.gend = 0 \/ t.gmax = 0
    BY <2>1, <2>3, <2>4, <2>5, WroteStep
  <2>6. CASE ~(t.gend = 0 \/ t.gmax = 0)
    BY <2>1, <2>2, <2>3, <2>6, WroteStep
  <2> QED  BY <2>5, <2>6
<1> QED  BY <1>2, <1>3, <1>4, <1>5, <1>6, <1>7, <1>8, <1>9, <1>10, <1>11, <1>12, <1>13 DEF WriteBlocks

LEMMA LastSteps ==
  ASSUME LInv, \/ LayoutWriteFails \/ Finish \/ UNCHANGED lvars
  PROVE  LInv'
<1>1. CASE LayoutWriteFails
  <2>1. /\ lpc = "write" /\ lpc' = "failed" /\ o' = o /\ at' = at /\ log' = log
    BY <1>1 DEF LayoutWriteFails
  <2> QED  BY <2>1 DEF LInv, LayoutGood, LogAt
<1>2. CASE Finish
  <2>1. /\ lpc = "write" /\ wr > N(o) /\ lpc' = "done" /\ o' = o /\ at' = at /\ log' = log
        /\ t' = t /\ pos' = pos /\ o \in LayoutOptions /\ OptionT(o)
    BY <1>2, OptionsTyped DEF Finish, N, LInv
  <2>2. o.md5 # 1 => pos = t.total
    <3>1. SUFFICES ASSUME o.md5 # 1 PROVE pos = t.total
      OBVIOUS
    <3>2. /\ PlacesFixed(o, t, at) /\ wr \in 1 .. N(o) + 1 /\ pos \in Int /\ Here = Due(o, t, at, wr)
      BY <2>1, <3>1 DEF LInv, LayoutGood
    <3>3. N(o) \in Nat
      BY <2>1, WriterFacts DEF N, OptionT
    <3>4. wr = N(o) + 1
      BY <2>1, <3>2, <3>3
    <3>5. o.ms + pos = o.ms + t.total /\ t.total \in Int
      BY <3>2, <3>4 DEF PlacesFixed, Here
    <3>6. o.ms \in Nat
      BY <2>1 DEF OptionT
    <3> QED  BY <3>2, <3>5, <3>6
  <2> QED  BY <2>1, <2>2 DEF LInv, LayoutGood, LogAt
<1>3. CASE UNCHANGED lvars
  BY <1>3 DEF lvars, LInv, LayoutGood, LogAt, Here
<1> QED  BY <1>1, <1>2, <1>3

\* For all write options, whatever writers they create and whatever sizes
\* their trees, files and partitions have: each writer begins to write at the
\* block where compute_data_blocks() found t->curblock, and the session ends
\* at the image size in the volume descriptors (write_function(), ecma119.c).
THEOREM LayoutComputed == LayoutSpec => []LayoutAsComputed
<1>1. LayoutInit => LInv
  BY DEF LayoutInit, LInv
<1>2. LInv /\ [LayoutNext]_lvars => LInv'
  <2> SUFFICES ASSUME LInv, [LayoutNext]_lvars PROVE LInv'
    OBVIOUS
  <2>1. CASE lpc = "new" /\ \E op \in LayoutOptions : ecma119_image_new(op)
    BY <2>1, NewStep
  <2>2. CASE ComputeSizes
    BY <2>2, SizesStep
  <2>3. CASE WriteOverwrite
    BY <2>3, OverwriteStep
  <2>4. CASE write_head_part
    BY <2>4, HeadStep
  <2> QED  BY <2>1, <2>2, <2>3, <2>4, ComputeSteps, WriteSteps, LastSteps DEF LayoutNext
<1>3. LInv => LayoutAsComputed
  BY DEF LInv, LayoutGood, LogAt, LayoutAsComputed
<1> QED  BY <1>1, <1>2, <1>3, PTL DEF LayoutSpec
=============================================================================
