------------------------------- MODULE LPack -------------------------------
(***************************************************************************)
(* LPack serialization: the writer of luapack.lua with the C function that *)
(* packs its queue (lua_lpack.c), and the reader with the two C functions  *)
(* that unpack a buffer.                                                   *)
(*                                                                         *)
(* A program is a sequence of calls of a writer, useDictionary(dict) and   *)
(* write(val).  What it sends is then read by a reader whose readFn hands  *)
(* out the bytes in pieces (1024 at a time from a file, whatever a network *)
(* read brought from a request) and may end early.                         *)
(*                                                                         *)
(* Bytes are numbers below Base.  Base and the sizes of the wider types    *)
(* are constants so that the boundaries between the types stay within      *)
(* TLC's integers; the order of the types and all the rules are the code's.*)
(* A value is a record whose one field names its Lua type.  A number that  *)
(* is not an integer is frac/Unit: single precision keeps its even part,   *)
(* double precision all of it.  Integers beyond INT_64, infinities and NaN,*)
(* which findMinRange refuses, are not modelled.                           *)
(***************************************************************************)
EXTENDS Integers, Sequences, FiniteSets, SequencesExt, FiniteSetsExt

CONSTANTS Base,        \* values of a byte
          Size16,      \* sizeof(uint16_t)
          Size32,      \* sizeof(uint32_t) and sizeof(float)
          Size64,      \* sizeof(int64_t) and sizeof(double)
          Unit,        \* denominator of a number that is not an integer
          Slack,       \* bytes allocated beyond the expected size, 64 in the code
          FlushLimits, \* the flush limits a writer may be created with
          Programs,    \* the calls made of a writer
          Segments,    \* lengths of what a readFn returns
          Cuts         \* how many of the last bytes may be missing

ASSUME SizesAssumption ==
    /\ {Base, Size16, Size32, Size64, Unit} \subseteq Nat \ {0}
    /\ Base > 21 /\ Base % 2 = 0
    /\ 1 < Size16 /\ Size16 < Size32 /\ Size32 < Size64
    /\ Slack \in Nat /\ FlushLimits \subseteq Nat \ {0}
    /\ Segments \subseteq Nat \ {0} /\ Cuts \subseteq Nat

VARIABLES calls,   \* the calls still to be made
          limit,   \* lpack.flushLimit
          w,       \* the writer
          cut,     \* bytes missing at the end of what the reader gets
          r        \* the reader

vars == <<calls, limit, w, cut, r>>

-----------------------------------------------------------------------------
(* Types.                                                                  *)

type_tag == [TYPE_MARKER |-> 0, MAP_START |-> 1, ARRAY_START |-> 2, DICT_START |-> 3,
             RECORD_END |-> 4, NIL |-> 5, BOOL_TRUE |-> 6, BOOL_FALSE |-> 7,
             UINT_8 |-> 8, DICT_ENTRY |-> 9, UINT_16 |-> 10, BIG_DICT_ENTRY |-> 11,
             UINT_32 |-> 12, INT_8 |-> 13, INT_16 |-> 14, INT_32 |-> 15, INT_64 |-> 16,
             FLOAT |-> 17, DOUBLE |-> 18, STRING |-> 19, BIG_STRING |-> 20,
             HUGE_STRING |-> 21]

T == type_tag

SingleByte == T.MAP_START .. T.BOOL_FALSE

StringTags == T.STRING .. T.HUGE_STRING

\* sizeof the value, or of the length before a string's characters.
Size(tag) ==
    CASE tag \in {T.UINT_16, T.BIG_DICT_ENTRY, T.INT_16, T.BIG_STRING} -> Size16
      [] tag \in {T.UINT_32, T.INT_32, T.FLOAT, T.HUGE_STRING} -> Size32
      [] tag \in {T.INT_64, T.DOUBLE} -> Size64
      [] OTHER -> 1

Signed == {T.INT_8, T.INT_16, T.INT_32, T.INT_64, T.FLOAT, T.DOUBLE}

\* The range of a type as Lua sees it: INT64_MAX is not a double, and rounds up.
Range4(tag) == IF tag \in Signed THEN -((Base ^ Size(tag)) \div 2) ELSE 0

Range5(tag) ==
    IF tag \in Signed
    THEN ((Base ^ Size(tag)) \div 2) - (IF tag = T.INT_64 THEN 0 ELSE 1)
    ELSE (Base ^ Size(tag)) - 1

INT_RANGES == <<T.UINT_8, T.UINT_16, T.UINT_32, T.INT_8, T.INT_16, T.INT_32, T.INT_64>>

STRING_RANGES == <<T.STRING, T.BIG_STRING, T.HUGE_STRING>>

DICT_ENTRY_RANGES == <<T.DICT_ENTRY, T.BIG_DICT_ENTRY>>

\* Mutation: the upper bound is taken to be the number of values.
findMinRange_count(num, ranges) ==
    LET i == SelectInSeq(ranges, LAMBDA tag : Range4(tag) <= num /\ num <= Range5(tag) + 1)
    IN  IF i = 0 THEN 0 ELSE ranges[i]

\* The first type of ranges that holds num; 0 stands for the error.
findMinRange(num, ranges) ==
    LET i == SelectInSeq(ranges, LAMBDA tag : Range4(tag) <= num /\ num <= Range5(tag))
    IN  IF i = 0 THEN 0 ELSE ranges[i]

\* The most significant byte first, whatever the machine's order: be16, be32, be64.
Pack(n, size) == [i \in 1..size |-> (n \div (Base ^ (size - i))) % Base]

Unpack(s) == FoldLeft(LAMBDA n, b : n * Base + b, 0, s)

UnpackSigned(s) ==
    LET n == Unpack(s)
    IN  IF n < (Base ^ Len(s)) \div 2 THEN n ELSE n - Base ^ Len(s)

LuaNil == [nil |-> TRUE]

Is(v, type) == type \in DOMAIN v

\* What a double of k units is to Lua.
Real(k) == IF k % Unit = 0 THEN [num |-> k \div Unit] ELSE [frac |-> k]

-----------------------------------------------------------------------------
(* serialize_write_Q packs the queue into a buffer of len + Slack bytes.   *)
(* The queue alternates a marker with the value the marker announces, if   *)
(* any.  pack.need is the marker whose value comes next, 0 for none; an    *)
(* error is named by its cause.  UINT_32 alone is stored unchecked, and    *)
(* overrun says that it went past the buffer.                              *)

Fits(pack, need) == Len(pack.out) + need <= pack.buffsize

PackMarker(pack, item) ==
    IF ~Is(item, "num") \/ item.num \notin T.MAP_START .. T.HUGE_STRING
    THEN [pack EXCEPT !.error = "marker"]
    ELSE IF ~Fits(pack, 1)
    THEN [pack EXCEPT !.error = "room"]
    ELSE [pack EXCEPT !.out = Append(@, item.num),
                      !.need = IF item.num \in SingleByte THEN 0 ELSE item.num]

\* fetch_next_as_integer, _as_double and _as_string, then the conversion to bytes.
PackedValue(tag, item) ==
    CASE tag \in StringTags -> Pack(Len(item.str), Size(tag)) \o item.str
      [] tag = T.FLOAT  -> Pack(item.frac \div 2, Size(tag))
      [] tag = T.DOUBLE -> Pack(item.frac, Size(tag))
      [] OTHER -> Pack(item.num, Size(tag))

PackValue(pack, item) ==
    LET bytes == PackedValue(pack.need, item)
        fits  == Fits(pack, Len(bytes))
    IN  IF ~fits /\ pack.need # T.UINT_32
        THEN [pack EXCEPT !.error = "room"]
        ELSE [pack EXCEPT !.out = @ \o bytes, !.need = 0, !.overrun = @ \/ ~fits]

PackItem(pack, item) ==
    IF pack.error # "none" THEN pack
    ELSE IF pack.need = 0 THEN PackMarker(pack, item)
    ELSE PackValue(pack, item)

serialize_write_Q(queue, len) ==
    LET p == FoldLeft(PackItem, [out |-> <<>>, need |-> 0, buffsize |-> len + Slack,
                                 error |-> "none", overrun |-> FALSE], queue)
    IN  IF len = 0 THEN [p EXCEPT !.error = "empty"]
        ELSE IF p.error = "none" /\ p.need # 0 THEN [p EXCEPT !.error = "halved"]
        ELSE p

-----------------------------------------------------------------------------
(* The writer.  w.todo is what write and useDictionary still have to queue *)
(* for the calls in progress: markers, values, the end of a dictionary and *)
(* the flush that ends a write.  chunks is what writeFn was given, packed  *)
(* the queue of the last flush, and written what has been sent completely. *)

NewWriter == [todo |-> <<>>, queue |-> <<>>, size |-> 0, dictionary |-> <<>>,
              chunks |-> <<>>, packed |-> <<>>, error |-> "none", overrun |-> FALSE, written |-> <<>>]

\* An error leaves the queue as it is; it is raised through write to the caller.
flush(x) ==
    LET p == serialize_write_Q(x.queue, x.size)
    IN  IF p.error # "none"
        THEN [x EXCEPT !.error = p.error, !.packed = x.queue, !.overrun = p.overrun]
        ELSE [x EXCEPT !.chunks = Append(@, p.out), !.queue = <<>>, !.size = 0,
                       !.packed = x.queue, !.overrun = p.overrun]

qstore(x, val, size) ==
    LET y == [x EXCEPT !.queue = Append(@, val), !.size = @ + size]
    IN  IF x.error # "none" THEN x
        ELSE IF y.size >= limit THEN flush(y) ELSE y

writeMarker(x, tag) == qstore(x, [num |-> tag], 1)

\* Mutation: every number is counted as one byte.
writeNumber_one_byte(x, v) ==
    LET tag == IF Is(v, "num") THEN findMinRange(v.num, INT_RANGES) ELSE T.FLOAT
    IN  qstore(qstore(x, [num |-> tag], 1), v, 1)

\* A double that is no integer is far below FLT_MAX: FLOAT is the first type that holds it.
writeNumber(x, v) ==
    LET tag == IF Is(v, "num") THEN findMinRange(v.num, INT_RANGES) ELSE T.FLOAT
    IN  qstore(qstore(x, [num |-> tag], 1), v, Size(tag))

\* A word of the dictionary is sent as its index, another string as it is.
writeString(x, v) ==
    LET entries == {i \in DOMAIN x.dictionary : x.dictionary[i] = v}
        dw  == Max(entries)
        tag == IF entries # {} THEN findMinRange(dw, DICT_ENTRY_RANGES)
               ELSE findMinRange(Len(v.str), STRING_RANGES)
    IN  IF entries # {}
        THEN qstore(qstore(x, [num |-> tag], 1), [num |-> dw], Size(tag))
        ELSE qstore(qstore(x, [num |-> tag], 1), v, Len(v.str))

\* What serializing a table comes to.  pairs visits a map in no particular order.
TableItems(v) ==
    IF Is(v, "arr")
    THEN <<[mark |-> T.ARRAY_START]>> \o v.arr \o <<[mark |-> T.RECORD_END]>>
    ELSE <<[mark |-> T.MAP_START]>>
         \o FoldLeft(LAMBDA s, entry : s \o entry, <<>>, SetToSeq(v.map))
         \o <<[mark |-> T.RECORD_END]>>

\* serialize, for the first item of what is left to do.
serialize(x, v) ==
    CASE Is(v, "nil")  -> writeMarker(x, T.NIL)
      [] Is(v, "bool") -> writeMarker(x, IF v.bool THEN T.BOOL_TRUE ELSE T.BOOL_FALSE)
      [] Is(v, "num") \/ Is(v, "frac") -> writeNumber(x, v)
      [] Is(v, "str")  -> writeString(x, v)
      [] Is(v, "arr") \/ Is(v, "map") -> [x EXCEPT !.todo = TableItems(v) \o @]

\* setDictionaryForWrite: the words are sent with the previous dictionary.
DictItems(words) == <<[mark |-> T.DICT_START]>> \o words
                    \o <<[mark |-> T.RECORD_END], [dictionary |-> words]>>

Writing == w.error = "none" /\ (w.todo # <<>> \/ calls # <<>>)

\* A write is over; flush on an empty queue is an error, but then all has been sent.
EndWrite(x, v) == IF x.error \in {"none", "empty"}
                  THEN [x EXCEPT !.written = Append(@, v)] ELSE x

Call ==
    /\ w.error = "none" /\ w.todo = <<>> /\ calls # <<>>
    /\ calls' = Tail(calls)
    /\ w' = [w EXCEPT !.todo = IF Is(Head(calls), "dict") THEN DictItems(Head(calls).dict)
                               ELSE <<Head(calls).write, [flush |-> Head(calls).write]>>]
    /\ UNCHANGED <<limit, cut, r>>

WriteItem ==
    /\ w.error = "none" /\ w.todo # <<>>
    /\ LET item == Head(w.todo)
           x == [w EXCEPT !.todo = Tail(@)]
       IN w' = CASE Is(item, "mark") -> writeMarker(x, item.mark)
                 [] Is(item, "dictionary") -> [x EXCEPT !.dictionary = item.dictionary]
                 [] Is(item, "flush") -> EndWrite(flush(x), item.flush)
                 [] OTHER -> serialize(x, item)
    /\ UNCHANGED <<calls, limit, cut, r>>

-----------------------------------------------------------------------------
(* The reader.  r.stack holds the calls of deserialize, the innermost      *)
(* last; r.task is what the innermost is doing and r.type the type of the  *)
(* number being read.  r.rest is what readFn has yet to hand out, in the   *)
(* writer's own chunks or as a sequence of bytes.  respliced records that  *)
(* a new buffer was joined to the unread rest of one already read from.    *)

NewReader == [buffer |-> <<>>, offset |-> 0, EOF |-> FALSE, dictionary |-> LuaNil,
              stack |-> <<>>, task |-> "unborn", type |-> 0, left |-> 0, accm |-> <<>>,
              ret |-> LuaNil, results |-> <<>>, rest |-> <<>>,
              chunked |-> FALSE, respliced |-> FALSE]

\* Mutation: the last byte's end is taken to be within the buffer.
done_past_end(x) == x.EOF /\ x.offset > Len(x.buffer)

done(x) == x.EOF /\ x.offset >= Len(x.buffer)

\* Mutation: the rest is kept even if there is none.
Unread_always(x) == SubSeq(x.buffer, Max({x.offset, 1}), Len(x.buffer))

\* string.sub(buffer, offset) counts from 1, offset from 0.
Unread(x) == IF Len(x.buffer) > x.offset
             THEN SubSeq(x.buffer, Max({x.offset, 1}), Len(x.buffer)) ELSE <<>>

\* What readFn may return, with what is left after it.
readFn(x) ==
    IF x.chunked
    THEN {[str |-> Head(x.rest).chunk, rest |-> Tail(x.rest)]}
    ELSE {[str  |-> [i \in 1..n |-> x.rest[i].byte],
           rest |-> SubSeq(x.rest, n + 1, Len(x.rest))] :
             n \in {Min({k, Len(x.rest)}) : k \in Segments}}

readNextBuffer(x) ==
    IF x.EOF THEN {x}
    ELSE IF x.rest = <<>> THEN {[x EXCEPT !.EOF = TRUE]}
    ELSE {[x EXCEPT !.buffer = Unread(x) \o new.str, !.offset = 0, !.rest = new.rest,
                    !.respliced = @ \/ (x.offset > 0 /\ Unread(x) # <<>>)] :
             new \in readFn(x)}

\* [len, value]; len = 0 when the buffer is too short.
read_number(tag, buffer, offset) ==
    LET size  == Size(tag)
        bytes == SubSeq(buffer, offset + 1, offset + size)
    IN  IF Len(buffer) - offset < size THEN [len |-> 0, value |-> [num |-> 0]]
        ELSE [len   |-> size,
              value |-> CASE tag = T.FLOAT  -> Real(2 * UnpackSigned(bytes))
                          [] tag = T.DOUBLE -> Real(UnpackSigned(bytes))
                          [] tag \in Signed \ {T.FLOAT, T.DOUBLE} ->
                                 [num |-> UnpackSigned(bytes)]
                          [] OTHER -> [num |-> Unpack(bytes)]]

Frame(container, dictionary) ==
    [container |-> container, isKey |-> TRUE, key |-> LuaNil, val |-> LuaNil, t |-> 0,
     dictionary |-> dictionary]

Top(x) == x.stack[Len(x.stack)]

SetTop(x, f) == [x EXCEPT !.stack[Len(x.stack)] = f]

Fail(x) == [x EXCEPT !.task = "error"]

Enter(x, container) ==
    [x EXCEPT !.stack = Append(@, Frame(container, x.dictionary)), !.task = "loop"]

Leave(x, v) == [x EXCEPT !.task = "return", !.ret = v]

\* container[key] = val, which removes the entry when val is nil.
SetEntry(map, key, val) ==
    {e \in map : e[1] # key} \cup (IF val = LuaNil THEN {} ELSE {<<key, val>>})

\* A value is complete: it is the result, the next element, key or entry.
Put(x, v) ==
    LET f == [Top(x) EXCEPT !.val = v]
        c == f.container
    IN  CASE Is(c, "nil") -> IF f.t # T.DICT_START THEN Leave(SetTop(x, f), v)
                             ELSE [SetTop(x, f) EXCEPT !.task = "loop"]
          [] Is(c, "arr") ->
               [SetTop(x, [f EXCEPT !.container.arr = IF v = LuaNil THEN @ ELSE Append(@, v)])
                EXCEPT !.task = "loop"]
          [] Is(c, "map") /\ f.isKey ->
               [SetTop(x, [f EXCEPT !.key = v, !.isKey = FALSE]) EXCEPT !.task = "loop"]
          [] Is(c, "map") /\ ~f.isKey ->
               IF f.key = LuaNil THEN Fail(x)
               ELSE [SetTop(x, [f EXCEPT !.container.map = SetEntry(@, f.key, v),
                                         !.isKey = TRUE]) EXCEPT !.task = "loop"]

ReadNumberOf(x, task, tag) == [x EXCEPT !.task = task, !.type = tag]

\* The branches of deserialize on the marker t, -1 for the nil read at the end.
Dispatch(y, t) ==
    LET x == SetTop(y, [Top(y) EXCEPT !.t = t])
        f == Top(x)
    IN  CASE t = T.NIL -> Put(x, LuaNil)
          [] t \in {T.BOOL_TRUE, T.BOOL_FALSE} -> Put(x, [bool |-> t = T.BOOL_TRUE])
          [] t = T.STRING      -> ReadNumberOf(x, "length", T.UINT_8)
          [] t = T.BIG_STRING  -> ReadNumberOf(x, "length", T.UINT_16)
          [] t = T.HUGE_STRING -> ReadNumberOf(x, "length", T.UINT_32)
          [] t = T.MAP_START   -> Enter(x, [map |-> {}])
          [] t \in {T.ARRAY_START, T.DICT_START} -> Enter(x, [arr |-> <<>>])
          [] t = T.RECORD_END -> IF Is(f.container, "map") /\ ~f.isKey THEN Fail(x)
                                 ELSE Leave(x, f.container)
          [] t = T.DICT_ENTRY     -> ReadNumberOf(x, "entry", T.UINT_8)
          [] t = T.BIG_DICT_ENTRY -> ReadNumberOf(x, "entry", T.UINT_16)
          [] t \in {-1, T.TYPE_MARKER, T.UINT_8, T.UINT_16} \cup T.UINT_32..T.DOUBLE ->
                 ReadNumberOf(x, "number", t)
          [] t > T.HUGE_STRING -> Fail(x)

\* dictionary[dw], with the assertions that it is there.
LookUp(x, n) ==
    LET d == Top(x).dictionary
    IN  IF Is(d, "arr") /\ n.num \in DOMAIN d.arr THEN Put(x, d.arr[n.num]) ELSE Fail(x)

\* readNumber returned n, or nil at the end of the input.
Deliver(x, n) ==
    CASE x.task = "marker" -> Dispatch(x, IF n = LuaNil THEN -1 ELSE n.num)
      [] x.task = "number" -> Put(x, n)
      [] x.task = "length" -> IF n = LuaNil THEN Fail(x)
                              ELSE [x EXCEPT !.task = "string", !.left = n.num, !.accm = <<>>]
      [] x.task = "entry"  -> IF n = LuaNil THEN Fail(x) ELSE LookUp(x, n)

-----------------------------------------------------------------------------
(* Steps of the reader.                                                    *)

Ready == /\ ~Writing /\ r.task = "unborn"

\* A reader is made for what was written: in the writer's chunks, or as a stream of
\* bytes of which the last ones may be missing.
NewLPackReader ==
    /\ Ready
    /\ \E c \in Cuts, chunked \in BOOLEAN :
          LET bytes == FlattenSeq(w.chunks)
          IN  /\ chunked => c = 0
              /\ c <= Len(bytes)
              /\ cut' = c
              /\ r' = [NewReader EXCEPT
                         !.task = "idle", !.chunked = chunked,
                         !.rest = IF chunked THEN [i \in DOMAIN w.chunks |-> [chunk |-> w.chunks[i]]]
                                  ELSE [i \in 1..(Len(bytes) - c) |-> [byte |-> bytes[i]]]]
    /\ UNCHANGED <<calls, limit, w>>

\* read: called once for every value written.
Read ==
    /\ r.task = "idle" /\ Len(r.results) < Len(w.written)
    /\ \E x \in readNextBuffer(r) : r' = Enter(x, LuaNil)
    /\ UNCHANGED <<calls, limit, w, cut>>

Loop ==
    /\ r.task = "loop"
    /\ r' = IF done(r) THEN Leave(r, Top(r).val) ELSE ReadNumberOf(r, "marker", T.TYPE_MARKER)
    /\ UNCHANGED <<calls, limit, w, cut>>

\* A turn of readNumber's loop.
readNumber ==
    /\ r.task \in {"marker", "length", "entry", "number"}
    /\ IF done(r) THEN r' = Deliver(r, LuaNil)
       ELSE LET n == read_number(r.type, r.buffer, r.offset)
            IN  IF n.len > 0 THEN r' = Deliver([r EXCEPT !.offset = @ + n.len], n.value)
                ELSE r' \in readNextBuffer(r)
    /\ UNCHANGED <<calls, limit, w, cut>>

\* A turn of readString's loop: an empty string and an interrupted one are nil.
readString ==
    /\ r.task = "string"
    /\ LET n == Min({r.left, Len(r.buffer) - r.offset})
           x == [r EXCEPT !.offset = @ + n, !.left = @ - n,
                          !.accm = @ \o SubSeq(r.buffer, r.offset + 1, r.offset + n)]
       IN  IF r.left = 0 \/ done(r) THEN r' = Put(r, LuaNil)
           ELSE IF x.left = 0 THEN r' = Put(x, [str |-> x.accm])
           ELSE r' \in readNextBuffer(x)
    /\ UNCHANGED <<calls, limit, w, cut>>

\* A dictionary has been read: debugDump is called, a global that no file of Luaw
\* defines; an application may.
DictionaryRead(x, dictionary) ==
    LET f == Top(x)
        y == [SetTop(x, [f EXCEPT !.dictionary = dictionary]) EXCEPT !.dictionary = dictionary]
    IN  {Put(y, f.val), [y EXCEPT !.task = "undefined"]}

\* deserialize returns to read, or to the deserialize that called it.
Return ==
    /\ r.task = "return"
    /\ LET x == [r EXCEPT !.stack = Front(@)]
       IN  r' \in IF Len(r.stack) = 1
                  THEN {[x EXCEPT !.task = "idle", !.results = Append(@, r.ret)]}
                  ELSE IF Top(x).t = T.DICT_START THEN DictionaryRead(x, r.ret)
                  ELSE {Put(x, r.ret)}
    /\ UNCHANGED <<calls, limit, w, cut>>

\* readNumber turns for ever: the last bytes are fewer than the number needs, and there
\* are no more.
Hung == /\ r.task \in {"marker", "length", "entry", "number"}
        /\ r.EOF /\ ~done(r) /\ Len(r.buffer) - r.offset < Size(r.type)

Ended == \/ r.task \in {"error", "undefined"}
         \/ r.task = "idle" /\ Len(r.results) = Len(w.written)

Init ==
    /\ calls \in Programs
    /\ limit \in FlushLimits
    /\ w = NewWriter
    /\ cut = 0
    /\ r = NewReader

Stopped == Ended /\ UNCHANGED vars

Next == \/ Call \/ WriteItem
        \/ NewLPackReader \/ Read \/ Loop \/ readNumber \/ readString \/ Return
        \/ Stopped

Spec == Init /\ [][Next]_vars

\* A reader runs until it has ended: readFn does not wait for ever, and the rest of
\* the code does not wait at all.  This is WF_vars(Next) with its ENABLED spelled out:
\* a step that changes something can be taken until then, or the reader is Hung.
Fairness == []<><<Next>>_vars \/ <>[](Ended \/ Hung)

FairSpec == Spec /\ Fairness
============================================================================
