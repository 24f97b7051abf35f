------------------------------ MODULE AttrList ------------------------------
(***************************************************************************)
(* libisofs/aaip_0_2.c and node.c: the extended attributes of a node.      *)
(* iso_node_set_attrs() merges name-value pairs into the list of the node  *)
(* and stores it as a string of AL fields.  iso_aa_get_attrs() submits     *)
(* that string in chunks to a decoder, which assembles component records   *)
(* in a ring buffer, and pairs from these records.                         *)
(*                                                                         *)
(* Bytes and characters are numbers.  A field has a head of five bytes and *)
(* carries at most FieldMax - 5 bytes of records.  A record has a byte     *)
(* that tells whether its component is continued, a length byte, and at    *)
(* most RecMax bytes of a name or of a value.                              *)
(***************************************************************************)
EXTENDS Integers, Sequences, SequencesExt, FiniteSetsExt

CONSTANTS
  FieldMax,       \* bytes of a SUSP field, 255 in the code
  RecMax,         \* bytes of a component record without its head, 255 in the code
  Chunk,          \* bytes submitted to the decoder at once, 2048 in the code
  NameLen,        \* initial size of name buffer and value buffer, 256 in the code
  MaxExpansion,   \* Aaip_max_name_expansioN
  NsText,         \* Aaip_namespace_textS: texts of the name spaces 2 to 6
  MemLimit,       \* memory limit of iso_aa_get_attrs(), 1000000 in the code
  AttrCalls,      \* for each call of iso_node_set_attrs() the lists and flags it may get;
                  \* flag bits 0 to 4 are: acl, merge, delete, any, noisofs
  Imported        \* strings found in images: bytes, the attributes they mean, trust

ASSUME AttrAssumption ==
  /\ FieldMax > 5 /\ RecMax > 1 /\ NameLen > MaxExpansion
  /\ MemLimit > 4 * NameLen + 48
  /\ DOMAIN NsText = 2..6 /\ \A i \in 2..6 : Len(NsText[i]) \in 1..MaxExpansion

VARIABLES
  aa,       \* xinfo of aaip_xinfo_func: the string of AL fields, <<>> if none
  asked,    \* the attributes as the calls have asked for them
  trust,    \* what of them can be had: the "list", each value by "lookup", "none";
            \* "refused" if a string is damaged or exceeds the memory limit
  sets,     \* number of calls of iso_node_set_attrs()
  got,      \* outcome of the last iso_node_get_attrs()
  caller,   \* call that waits for the decoder
  dec,      \* struct aaip_state and local variables of the functions that use it
  dpc       \* step of iso_aa_get_attrs()

nodeVars == <<aa, asked, trust, sets, got>>
alVars == <<nodeVars, caller, dec, dpc>>

Pair(n, v) == [name |-> n, value |-> v]
NothingGot == [done |-> FALSE]
DropFirst(s, n) == SubSeq(s, n + 1, Len(s))
HasPrefix(s, p) == Len(s) >= Len(p) /\ SubSeq(s, 1, Len(p)) = p
Bit(b) == IF b THEN 1 ELSE 0

-----------------------------------------------------------------------------
(* Encoder.                                                                *)

\* Every name space of which the rest of the name begins by its text replaces
\* the one found before.  A name that looks short gets an escape marker.
ShortName(name) ==
  LET strip(s, i) == IF HasPrefix(s.rest, NsText[i])
                     THEN [prefix |-> <<i>>, rest |-> DropFirst(s.rest, Len(NsText[i]))]
                     ELSE s
      s == FoldLeft(strip, [prefix |-> <<>>, rest |-> name], <<2, 3, 4, 5, 6>>)
  IN IF s.prefix = <<>> /\ name # <<>> /\ name[1] \in 1..31 THEN [s EXCEPT !.prefix = <<1>>] ELSE s

\* The records of one component.
RECURSIVE aaip_encode_comp(_, _)
aaip_encode_comp(prefix, data) ==
  LET todo == Len(prefix) + Len(data)
      size == Min({todo, RecMax})
      used == size - Len(prefix)
  IN CASE todo = 0 -> <<0, 0>>
       [] data = <<>> /\ todo > 0 -> <<>>
       [] OTHER -> <<Bit(todo > RecMax), size>> \o prefix \o SubSeq(data, 1, used)
                   \o (IF used = Len(data) THEN <<>> ELSE aaip_encode_comp(<<>>, DropFirst(data, used)))

\* The records of a pair, with zeros up to the predicted number of bytes.
aaip_encode_pair(p) ==
  LET s == ShortName(p.name)
      recs(n) == n \div RecMax + Bit(n % RecMax > 0 \/ n = 0)
      l == Len(s.prefix) + Len(s.rest)
      comp_size == l + Len(p.value) + 2 * (recs(l) + recs(Len(p.value)))
      bytes == aaip_encode_comp(s.prefix, s.rest) \o aaip_encode_comp(<<>>, p.value)
  IN bytes \o [i \in 1..(comp_size - Len(bytes)) |-> 0]

\* The bytes of all pairs, cut into fields.
aaip_encode(attrs) ==
  LET bytes == FlattenSeq([i \in DOMAIN attrs |-> aaip_encode_pair(attrs[i])])
      body == FieldMax - 5
      number_of_fields == Len(bytes) \div body + Bit(Len(bytes) % body > 0)
      field(i) == LET part == SubSeq(bytes, (i - 1) * body + 1, Min({i * body, Len(bytes)}))
                  IN <<65, 76, Len(part) + 5, 1, Bit(i < number_of_fields)>> \o part
  IN FlattenSeq([i \in 1..number_of_fields |-> field(i)])

RECURSIVE aaip_count_bytes(_)
aaip_count_bytes(data) ==
  data[3] + (IF data[5] % 2 = 1 THEN aaip_count_bytes(DropFirst(data, data[3])) ELSE 0)

-----------------------------------------------------------------------------
(* Decoder: struct aaip_state, with "in" as the submitted bytes that are   *)
(* still to be taken, "rest" as the bytes from the read pointer of         *)
(* iso_aa_get_attrs() on, and "ret" as the reply of a function.            *)

\* Mutant: room for one chunk only.
BufferSizeOne == Chunk
BufferSize == 2 * Chunk
RingSize == BufferSize + RecMax + 2 + 3 * 2

aaip_init_aaip_state ==
  [aa_head_missing |-> 5, aa_missing |-> 0, aa_ends |-> 0,
   recs |-> [i \in 0..(RingSize - 1) |-> 0], recs_fill |-> 0, recs_start |-> 0,
   rec_head_missing |-> 2, rec_missing |-> 0, rec_ends |-> FALSE,
   num_recs |-> 0, num_components |-> 0, end_of_components |-> 0, first_is_name |-> TRUE,
   pair_status |-> 2, list |-> <<>>, list_size |-> 2, list_mem_used |-> 4 * NameLen + 48,
   name_buf |-> <<>>, name_buf_size |-> NameLen, value_buf |-> <<>>, value_buf_size |-> NameLen,
   in |-> <<>>, rest |-> <<>>, ret |-> 1]

\* The ring buffer as virtual shift fifo.
aaip_ring_adr(d, idx) == (d.recs_start + idx) % RingSize
aaip_get_buffer_byte(d, idx) == d.recs[aaip_ring_adr(d, idx)]
aaip_read_from_recs(d, idx, num) == [i \in 1..num |-> aaip_get_buffer_byte(d, idx + i - 1)]
aaip_set_buffer_byte(d, idx, byte) == [d EXCEPT !.recs[aaip_ring_adr(d, idx)] = byte]
PushByte(d, byte) == [aaip_set_buffer_byte(d, d.recs_fill, byte) EXCEPT !.recs_fill = @ + 1]
aaip_push_to_recs(d, data) == FoldLeft(PushByte, d, data)
aaip_shift_recs(d, todo) ==
  [d EXCEPT !.recs_start = IF todo < d.recs_fill THEN aaip_ring_adr(d, todo) ELSE 0,
            !.recs_fill = @ - todo,
            !.end_of_components = Max({@ - todo, 0})]

\* Moves todo bytes from the input to the ring buffer.
Take(d, todo) == [aaip_push_to_recs(d, SubSeq(d.in, 1, todo)) EXCEPT !.in = DropFirst(@, todo)]

aaip_consume_rec_head(d) ==
  LET todo == Min({Len(d.in), d.aa_missing, d.rec_head_missing})
      e == [Take(d, todo) EXCEPT !.rec_head_missing = @ - todo, !.aa_missing = @ - todo]
  IN IF e.rec_head_missing > 0 THEN e
     ELSE [e EXCEPT !.rec_missing = aaip_get_buffer_byte(e, e.recs_fill - 1),
                    !.rec_ends = aaip_get_buffer_byte(e, e.recs_fill - 2) % 2 = 0]

\* A record is complete, and with it a component if this is its last record.
EndRecord(d, ends) ==
  [d EXCEPT !.num_recs = @ + 1, !.rec_head_missing = 2, !.rec_missing = 0,
            !.num_components = @ + Bit(ends),
            !.end_of_components = IF ends THEN d.recs_fill ELSE @]

aaip_consume_rec_data(d) ==
  LET todo == Min({Len(d.in), d.aa_missing, d.rec_missing})
      e == [Take(d, todo) EXCEPT !.rec_missing = @ - todo, !.aa_missing = @ - todo]
  IN IF e.rec_missing = 0 THEN EndRecord(e, e.rec_ends) ELSE e

aaip_consume_aa_head(d) ==
  LET todo == Min({Len(d.in), d.aa_head_missing})
      e == [Take(d, todo) EXCEPT !.aa_head_missing = @ - todo]
      head == aaip_read_from_recs(e, e.recs_fill - 5, 5)
  IN CASE e.aa_head_missing > 0 -> e
       [] e.aa_head_missing = 0 /\ (head[1] # 65 \/ head[2] \notin {65, 76} \/ head[4] # 1) ->
            [e EXCEPT !.in = d.in, !.ret = -1]
       [] OTHER -> [e EXCEPT !.aa_missing = Max({head[3] - 5, 0}),
                             !.aa_ends = 1 - (head[5] % 2),
                             !.recs_fill = @ - 5]

\* Fetches complete records up to the end of a component: -2 if they do not fit
\* into size bytes, 0 and 1 the end and a part of a name, 2 and 3 of a value.
aaip_fetch_data(d, size) ==
  LET copy(a, i) ==
        LET payload == aaip_get_buffer_byte(d, a.h + 1)
        IN IF a.complete \/ a.tight THEN a
           ELSE IF Len(a.data) + payload > size THEN [a EXCEPT !.tight = TRUE]
           ELSE [h |-> a.h + payload + 2, n |-> i, tight |-> FALSE,
                 data |-> a.data \o aaip_read_from_recs(d, a.h + 2, payload),
                 complete |-> aaip_get_buffer_byte(d, a.h) % 2 = 0]
      a == FoldLeft(copy, [h |-> 0, n |-> 0, tight |-> FALSE, data |-> <<>>, complete |-> FALSE],
                    [i \in 1..d.num_recs |-> i])
      e == aaip_shift_recs([d EXCEPT !.num_recs = @ - a.n], a.h)
  IN CASE d.num_recs = 0 -> [d |-> d, data |-> <<>>, ret |-> -1]
       [] d.num_recs > 0 /\ a.tight -> [d |-> d, data |-> <<>>, ret |-> -2]
       [] OTHER -> [d |-> IF a.complete
                          THEN [e EXCEPT !.first_is_name = ~@, !.num_components = Max({@ - 1, 0})]
                          ELSE e,
                    data |-> a.data,
                    ret |-> 2 * Bit(~d.first_is_name) + Bit(~a.complete)]

\* The name with its escape marker removed or its name space spelled out.
LongName(name) ==
  CASE name # <<>> /\ name[1] = 1 /\ Len(name) > 1 -> Tail(name)
    [] name # <<>> /\ name[1] \in 2..6 -> NsText[name[1]] \o Tail(name)
    [] OTHER -> name

-----------------------------------------------------------------------------
(* The list of pairs.                                                      *)

\* A buffer of size items of the given bytes grows by half, if memory allows.
Enlarged(size) == (3 * size) \div 2
aaip_enlarge_buf(d, size, item) ==
  LET more == (Enlarged(size) - size) * item
  IN [ok |-> d.list_mem_used + more < MemLimit, d |-> [d EXCEPT !.list_mem_used = @ + more]]

\* Three arrays are enlarged if the list is full, each if memory allows.
StorePair(d) ==
  LET full == Len(d.list) >= d.list_size
      names == aaip_enlarge_buf(d, d.list_size, 8)
      values == aaip_enlarge_buf(names.d, d.list_size, 8)
      lengths == aaip_enlarge_buf(values.d, d.list_size, 8)
      e == IF full THEN [lengths.d EXCEPT !.list_size = Enlarged(@)] ELSE d
      mem == e.list_mem_used + Len(d.name_buf) + Len(d.value_buf) + 2
  IN [ok |-> (full => names.ok /\ values.ok /\ lengths.ok) /\ mem <= MemLimit,
      d |-> [e EXCEPT !.list_mem_used = mem, !.list = Append(@, Pair(d.name_buf, d.value_buf)),
                      !.name_buf = <<>>, !.value_buf = <<>>]]

\* which: "all" (bit0), "xattr" without the ACL, "acl" only (bit2).
attrs_cleanout_name(attrs, which) ==
  SelectSeq(attrs, LAMBDA p : which = "all" \/ (which = "acl") = (p.name = <<>>))

\* The reply about what can be fetched: 3 component, 2 record, 1 nothing yet,
\* 4 nothing any more.
SubmitReply(d) ==
  LET idle == d.num_components = 0 /\ d.num_recs = 0
      over == idle /\ (d.aa_ends \in {2, 3} \/ (d.aa_ends = 1 /\ d.aa_head_missing = 0 /\ d.aa_missing = 0))
  IN [d |-> IF over THEN [d EXCEPT !.aa_ends = 3] ELSE d,
      ret |-> CASE d.num_components > 0 -> 3
                [] d.num_components = 0 /\ d.num_recs > 0 -> 2
                [] idle -> IF over THEN 4 ELSE 1]

-----------------------------------------------------------------------------
(* The steps of iso_aa_get_attrs().                                        *)

Goto(d, step) == dec' = d /\ dpc' = step /\ UNCHANGED <<nodeVars, caller>>

\* The string begins to be read, if there is one.
DecodeFor(j) ==
  /\ caller' = j
  /\ dpc' = IF aa = <<>> THEN "read" ELSE "chunk"
  /\ dec' = [aaip_init_aaip_state EXCEPT !.rest = IF aa = <<>> THEN aa ELSE SubSeq(aa, 1, aaip_count_bytes(aa))]

\* The next chunk for aaip_decode_attrs().
ChunkOf(rest) == SubSeq(rest, 1, Min({Len(rest), Chunk}))
NextChunk == dpc = "chunk" /\ dec.rest # <<>> /\ Goto([dec EXCEPT !.in = ChunkOf(dec.rest)], "pair")
OutOfData == dpc = "chunk" /\ dec.rest = <<>> /\ Goto(dec, "unreadable")

\* aaip_decode_pair() begins a new pair or goes on with the current one.  It is
\* not called again after a reply by which aaip_decode_attrs() ends, and not with
\* input while pairs are pending.
BeginPair ==
  LET fresh == dec.pair_status \in {2, 3}
      d == IF dec.first_is_name THEN dec ELSE aaip_fetch_data(dec, RingSize).d
      s == IF fresh THEN [d EXCEPT !.name_buf = <<>>, !.value_buf = <<>>] ELSE dec
      full == s.recs_fill + Len(s.in) > BufferSize
  IN /\ dpc = "pair"
     /\ CASE s.in # <<>> /\ s.aa_ends = 3 -> Goto([s EXCEPT !.ret = 5], "result")
          [] s.in # <<>> /\ s.aa_ends # 3 /\ full -> Goto([s EXCEPT !.ret = -3], "result")
          [] s.in # <<>> /\ s.aa_ends # 3 /\ ~full -> Goto(s, "field")
          [] s.in = <<>> /\ s.num_recs > 0 -> Goto(s, "advance")
          [] s.in = <<>> /\ s.num_recs = 0 -> Goto([s EXCEPT !.ret = 1], "result")

\* aaip_submit_data() deals with field heads.
ConsumeField ==
  LET h == aaip_consume_aa_head(dec)
  IN /\ dpc = "field"
     /\ CASE dec.in = <<>> -> Goto(dec, "reply")
          [] dec.in # <<>> /\ dec.aa_head_missing = 0 -> Goto(dec, "data")
          [] dec.in # <<>> /\ dec.aa_head_missing > 0 ->
               Goto(h, IF h.ret = -1 THEN "result"
                       ELSE IF h.in = <<>> \/ h.aa_missing = 0 THEN "reply" ELSE "data")

\* aaip_consume_aa_data() deals with the records inside of a field.  It returns
\* right after a record head if that ends the input or the field, and else when
\* the field is over.
LeaveField(d) == Goto(d, IF d.aa_missing > 0 THEN "reply" ELSE "field")
ConsumeRecHead ==
  LET h == aaip_consume_rec_head(dec)
  IN /\ dpc = "data" /\ dec.in # <<>> /\ dec.aa_missing > 0 /\ dec.rec_head_missing > 0
     /\ IF h.in = <<>> \/ h.aa_missing = 0 THEN LeaveField(h) ELSE Goto(h, "data")
ConsumeRecData ==
  /\ dpc = "data" /\ dec.in # <<>> /\ dec.aa_missing > 0 /\ dec.rec_head_missing = 0
  /\ Goto(aaip_consume_rec_data(dec), "data")
EndField ==
  /\ dpc = "data" /\ (dec.in = <<>> \/ dec.aa_missing = 0)
  /\ IF dec.aa_missing = 0 /\ dec.aa_ends > 0 THEN Goto(dec, "endrecord")
     ELSE LeaveField([dec EXCEPT !.aa_head_missing = IF dec.aa_missing = 0 THEN 5 ELSE @])

\* Emergency closure of a list that ends inside of a record, of a component or
\* of a pair.
CloseRecord ==
  LET halfhead == aaip_set_buffer_byte(dec, dec.recs_fill - 1, 0)
      missing == IF dec.rec_head_missing = 0 THEN dec.rec_missing ELSE dec.rec_head_missing
      d == IF dec.rec_head_missing = 1 THEN halfhead ELSE dec
  IN /\ dpc = "endrecord"
     /\ Goto(IF dec.rec_head_missing = 2 THEN dec
             ELSE EndRecord(aaip_push_to_recs(d, [i \in 1..missing |-> 0]), dec.rec_ends), "endcomponent")
AddEmpty == EndRecord(aaip_push_to_recs(dec, <<0, 0>>), TRUE)
CloseComponent ==
  /\ dpc = "endcomponent"
  /\ Goto(IF dec.end_of_components \notin {dec.recs_fill, 0} THEN AddEmpty ELSE dec, "endpair")
ClosePair ==
  /\ dpc = "endpair"
  /\ LeaveField([(IF dec.first_is_name = (dec.num_components % 2 = 1) THEN AddEmpty ELSE dec)
                   EXCEPT !.aa_ends = 2])

\* aaip_submit_data() returns.  A chunk by which no record got complete does not
\* count as consumed.
SubmitReturns ==
  LET r == SubmitReply(dec)
  IN /\ dpc = "reply"
     /\ CASE r.ret = 1 -> Goto([r.d EXCEPT !.ret = 1], "result")
          [] r.ret = 4 -> Goto([r.d EXCEPT !.ret = 5], "result")
          [] r.ret \in {2, 3} -> Goto([r.d EXCEPT !.rest = DropFirst(@, Len(ChunkOf(@))), !.in = <<>>], "advance")

\* aaip_advance_pair() fetches what is there of the current pair.  After a name
\* it goes on with the value, as far as that is there.
aaip_advance_pair ==
  LET room == IF dec.first_is_name THEN dec.name_buf_size - MaxExpansion - Len(dec.name_buf)
              ELSE dec.value_buf_size - Len(dec.value_buf)
      f == aaip_fetch_data(dec, room)
  IN /\ dpc = "advance"
     /\ Goto(IF dec.first_is_name THEN [f.d EXCEPT !.ret = f.ret, !.name_buf = @ \o f.data]
             ELSE [f.d EXCEPT !.ret = f.ret, !.value_buf = @ \o f.data], "fetched")
PairResult(d, r) ==
  Goto([d EXCEPT !.ret = IF d.aa_ends # 3 THEN r ELSE IF r \in 2..4 THEN 4 ELSE 5], "result")
NameFetched ==
  LET peek == SubmitReply(dec)
  IN /\ dpc = "fetched" /\ dec.ret = 0
     /\ CASE peek.ret \in {2, 3} -> Goto(peek.d, "advance")
          [] peek.ret = 4 -> PairResult(peek.d, 5)
          [] peek.ret = 1 -> PairResult(peek.d, 1)
ValueFetched ==
  LET over == dec.num_components < 2 /\ dec.aa_ends = 2 /\ dec.num_recs = 0
  IN /\ dpc = "fetched" /\ dec.ret = 2
     /\ PairResult(IF over THEN [dec EXCEPT !.aa_ends = 3] ELSE dec,
                   IF dec.num_components >= 2 THEN 3 ELSE IF over THEN 4 ELSE 2)
PartFetched ==
  /\ dpc = "fetched" /\ dec.ret \notin {0, 2}
  /\ PairResult(dec, IF dec.ret < 0 THEN dec.ret ELSE 1)

\* aaip_decode_attrs() deals with the reply of aaip_decode_pair().
Replied == [dec EXCEPT !.pair_status = dec.ret, !.in = <<>>, !.ret = 1,
                       !.name_buf = IF dec.ret \in 2..4 THEN LongName(@) ELSE @]
ListEnd(d) == Goto(d, IF d.rest = <<>> THEN "read" ELSE "unreadable")
EnlargeBuffer ==
  LET size == IF dec.first_is_name THEN dec.name_buf_size ELSE dec.value_buf_size
      b == aaip_enlarge_buf(Replied, size, 1)
  IN /\ dpc = "result" /\ dec.ret = -2
     /\ CASE ~b.ok -> Goto(Replied, "unreadable")
          [] b.ok /\ dec.first_is_name -> Goto([b.d EXCEPT !.name_buf_size = Enlarged(@)], "pair")
          [] b.ok /\ ~dec.first_is_name -> Goto([b.d EXCEPT !.value_buf_size = Enlarged(@)], "pair")
PairComplete ==
  LET st == StorePair(Replied)
  IN /\ dpc = "result" /\ dec.ret \in 2..4
     /\ CASE ~st.ok -> Goto(Replied, "unreadable")
          [] st.ok /\ dec.ret = 2 -> Goto(st.d, "chunk")
          [] st.ok /\ dec.ret = 3 -> Goto(st.d, "pair")
          [] st.ok /\ dec.ret = 4 -> ListEnd(st.d)
NoPair ==
  /\ dpc = "result"
  /\ \/ dec.ret = 1 /\ Goto(Replied, "chunk")
     \/ dec.ret = 5 /\ ListEnd(Replied)
     \/ dec.ret \in {-1, -3} /\ Goto(Replied, "unreadable")

DecoderSteps ==
  \/ NextChunk \/ OutOfData \/ BeginPair \/ ConsumeField \/ ConsumeRecHead \/ ConsumeRecData
  \/ EndField \/ CloseRecord \/ CloseComponent \/ ClosePair
  \/ SubmitReturns \/ aaip_advance_pair \/ NameFetched \/ ValueFetched \/ PartFetched
  \/ EnlargeBuffer \/ PairComplete \/ NoPair

-----------------------------------------------------------------------------
(* The attributes of a node.                                               *)

IsUser(name)  == HasPrefix(name, NsText[3])
IsIsofs(name) == HasPrefix(name, NsText[4])
Position(attrs, name) == {j \in DOMAIN attrs : attrs[j].name = name}

\* Old pairs which stay, and given pairs which the flag bits admit.
Staying(old, given, f) ==
  SelectSeq(old, LAMBDA p : \/ f.merge \/ f.delete \/ IsIsofs(p.name)
                            \/ ~IsUser(p.name) /\ ~f.any
                            \/ Position(given, p.name) # {})
Admitted(given, f) ==
  SelectSeq(given, LAMBDA p : (p.name = <<>> => f.acl) /\ ~(f.noisofs /\ IsIsofs(p.name)))

\* Overwrites or deletes the first pair of each given name and counts the names
\* that do not exist.
HandleExisting(list, given, f) ==
  LET handle(a, p) ==
        LET hits == Position(a.list, p.name)
            j == Min(hits)
        IN CASE hits = {} -> [a EXCEPT !.new = @ + 1]
             [] hits # {} /\ f.delete -> [a EXCEPT !.list = RemoveAt(@, j)]
             [] hits # {} /\ ~f.delete -> [a EXCEPT !.list[j] = p]
  IN FoldLeft(handle, [list |-> list, new |-> 0], given)

\* If there are new names then all admitted pairs get appended, while room is
\* made for the new ones only.
iso_node_merge_xattr(old, given, f) ==
  LET admitted == Admitted(given, f)
      h == HandleExisting(Staying(old, given, f), admitted, f)
  IN IF h.new > 0 /\ ~f.delete
     THEN [list |-> h.list \o admitted, excess |-> Len(admitted) - h.new]
     ELSE [list |-> h.list, excess |-> 0]

\* What the call is documented to do.
MergeAsDocumented(old, given, f) ==
  LET put(list, p) ==
        IF f.delete THEN SelectSeq(list, LAMBDA q : q.name # p.name)
        ELSE IF Position(list, p.name) = {} THEN Append(list, p)
        ELSE [list EXCEPT ![Min(Position(list, p.name))] = p]
  IN FoldLeft(put, Staying(old, given, f), Admitted(given, f))

\* Names and lists that survive encoding and decoding: no name that consists of
\* a name space only, or of a name space before a later one of the table, and no
\* empty value at the end of the list.
NameSurvives(name) ==
  \A i \in 2..6 : HasPrefix(name, NsText[i]) =>
    LET rest == DropFirst(name, Len(NsText[i]))
    IN rest # <<>> /\ \A k \in (i + 1)..6 : ~HasPrefix(rest, NsText[k])
ListSurvives(attrs) ==
  /\ \A i \in DOMAIN attrs : NameSurvives(attrs[i].name)
  /\ attrs # <<>> => Last(attrs).value # <<>>

NoJob == [op |-> "none"]
Returns == caller' = NoJob /\ dpc' = "idle" /\ dec' = aaip_init_aaip_state

AlInit ==
  /\ \E i \in Imported : aa = i.aa /\ asked = i.attrs /\ trust = i.trust
  /\ sets = 0 /\ got = NothingGot
  /\ caller = NoJob /\ dpc = "idle" /\ dec = aaip_init_aaip_state

\* iso_node_set_attrs() refuses names outside of "user." without bit3.  It
\* merges, unless only bit3 is set.  (Then bit0 is set too: no ACL is kept.)
Refused(given, f) == ~f.any /\ \E i \in DOMAIN given : ~IsUser(given[i].name) /\ given[i].name # <<>>
Replaces(f) == f.any /\ ~(f.merge \/ f.delete \/ f.noisofs)

SetRefused(given, f) ==
  /\ Refused(given, f)
  /\ UNCHANGED <<aa, asked, trust, caller, dec, dpc>>
SetReplace(given, f) ==
  /\ ~Refused(given, f) /\ Replaces(f) /\ f.acl
  /\ aa' = aaip_encode(given)
  /\ asked' = given
  /\ trust' = IF ListSurvives(given) THEN "list" ELSE "none"
  /\ UNCHANGED <<caller, dec, dpc>>
SetBegins(given, f) ==
  /\ ~Refused(given, f) /\ ~Replaces(f)
  /\ DecodeFor([op |-> "set", given |-> given, flag |-> f])
  /\ UNCHANGED <<aa, asked, trust>>
iso_node_set_attrs(given, f) ==
  /\ dpc = "idle" /\ sets' = sets + 1 /\ got' = NothingGot
  /\ SetRefused(given, f) \/ SetReplace(given, f) \/ SetBegins(given, f)

SetMerge ==
  LET m == iso_node_merge_xattr(dec.list, caller.given, caller.flag)
  IN /\ dpc = "read" /\ caller.op = "set"
     /\ aa' = aaip_encode(m.list)
     /\ asked' = MergeAsDocumented(asked, caller.given, caller.flag)
     /\ trust' = CASE ~ListSurvives(m.list) \/ (trust = "lookup" /\ caller.flag.delete) -> "none"
                   [] ListSurvives(m.list) /\ trust = "list" /\ m.excess > 0 -> "lookup"
                   [] OTHER -> trust
     /\ Returns /\ UNCHANGED <<sets, got>>
SetFails == dpc = "unreadable" /\ caller.op = "set" /\ Returns /\ UNCHANGED nodeVars

iso_node_get_attrs ==
  /\ dpc = "idle" /\ ~got.done
  /\ DecodeFor([op |-> "get"])
  /\ UNCHANGED nodeVars
GetReturns(which) ==
  /\ dpc \in {"read", "unreadable"} /\ caller.op = "get"
  /\ got' = [done |-> TRUE, which |-> which, ok |-> dpc = "read",
             list |-> IF dpc = "read" THEN attrs_cleanout_name(dec.list, which) ELSE <<>>]
  /\ Returns /\ UNCHANGED <<aa, asked, trust, sets>>

AlNext == \/ /\ sets < Len(AttrCalls)
             /\ \E c \in AttrCalls[sets + 1] : iso_node_set_attrs(c.list, c.flag)
          \/ SetMerge \/ SetFails \/ iso_node_get_attrs
          \/ \E which \in {"all", "xattr", "acl"} : GetReturns(which)
          \/ DecoderSteps

-----------------------------------------------------------------------------
\* The attributes that were set or imported are read back, whatever way names
\* and values are distributed over records, fields and chunks
\* (iso_node_set_attrs(), aaip_encode(), aaip_decode_attrs()).  After a call
\* that both overwrote and added pairs, the list holds pairs twice but each name
\* is still found with its value (iso_node_lookup_attr()).  A string with a bad
\* field or too much data is refused.
AttributesReadBack ==
  got.done =>
    LET want == attrs_cleanout_name(asked, got.which)
        first(attrs, n) == attrs[Min(Position(attrs, n))].value
        namesOf(attrs) == {attrs[j].name : j \in DOMAIN attrs}
    IN /\ trust = "refused" => ~got.ok
       /\ trust = "list" => got.ok /\ got.list = want
       /\ trust = "lookup" =>
            /\ got.ok /\ namesOf(got.list) = namesOf(want)
            /\ \A n \in namesOf(want) : first(got.list, n) = first(want, n)
=============================================================================
