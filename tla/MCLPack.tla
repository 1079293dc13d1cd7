------------------------------ MODULE MCLPack ------------------------------
(***************************************************************************)
(* LPack on bytes of 22 values, just enough for the markers, and types of  *)
(* 1, 2, 3 and 4 bytes: every boundary between two types is a small number,*)
(* and every type of number, string and dictionary entry occurs.           *)
(***************************************************************************)
EXTENDS LPack

Num(n) == [num |-> n]

Frac(k) == [frac |-> k]

\* A string of n characters.
Str(n) == [str |-> [i \in 1..n |-> i % 3]]

Write(v) == [write |-> v]

Dict(words) == [dict |-> words]

\* Both sides of every boundary between two types, and INT_64 at its end.
Numbers == {0, 21, 22, 483, 484, 10647, 10648, -1, -11, -12, -242, -243, -5324, -5325,
            117127, 117128}

\* Up to the end of what single precision holds, some of them narrowed, one to an integer.
Fractions == {5, 6, 7, -6, -7, 10645, 10646, -10646}

Strings == {Str(0), Str(1), Str(5), Str(21), Str(22), Str(484)}

Pair == [arr |-> <<Num(500), Str(2)>>]

Tables == {[map |-> {}],
           [arr |-> <<Num(3), Num(500), [bool |-> TRUE]>>],
           [arr |-> <<Frac(7), Frac(5)>>],
           [arr |-> <<Str(1), Str(1), Str(1), Str(1), Str(1), Num(10647)>>],
           [arr |-> <<Str(1), Str(0), [arr |-> <<Num(-300)>>]>>],
           [map |-> {<<Str(1), Pair>>, <<Str(3), [bool |-> FALSE]>>}],
           [map |-> {<<Str(1), Str(0)>>, <<Num(30), Frac(6)>>}],
           [arr |-> <<[map |-> {<<Num(1), [map |-> {}]>>}], Num(22)>>]}

\* Twenty-two words, so that the last one needs a BIG_DICT_ENTRY.
Words == [i \in 1..22 |-> Str(i)]

MCPrograms ==
    {<<Write(v)>> : v \in {LuaNil} \cup {Num(n) : n \in Numbers}
                          \cup {Frac(k) : k \in Fractions} \cup Strings \cup Tables}
    \cup {<<Write(Num(500)), Write(Pair)>>,
          <<Write(Str(2)), Write([bool |-> FALSE]), Write(Num(500))>>,
          <<Dict(<<Str(2), Str(3)>>), Write(Pair),
            Dict(<<Str(3), Str(2)>>), Write([arr |-> <<Str(2), Str(3), Str(1)>>])>>,
          <<Dict(Words), Write([arr |-> <<Str(22), Str(3)>>])>>}

-----------------------------------------------------------------------------

\* No string of v is empty, and no number is the one that INT_64 does not hold.
ExactAtom(v) ==
    CASE Is(v, "num")  -> v.num # Range5(T.INT_64)
      [] Is(v, "str")  -> v.str # <<>>
      [] OTHER -> TRUE

\* The values inside a value of at most three levels, as those of MCPrograms are.
Inside(v) == CASE Is(v, "arr") -> ToSet(v.arr)
               [] Is(v, "map") -> UNION {ToSet(e) : e \in v.map}
               [] OTHER -> {}

Exact(v) ==
    LET one == {v} \cup Inside(v)
        two == one \cup UNION {Inside(x) : x \in one}
    IN  \A x \in two \cup UNION {Inside(y) : y \in two} : ExactAtom(x)

AllExact == \A i \in DOMAIN w.written : Exact(w.written[i])

\* Single precision, as a C cast from double gives it.
Narrowed(k) == 2 * (k \div 2)

\* v with every fraction narrowed.
RECURSIVE AsRead(_)
AsRead(v) ==
    CASE Is(v, "frac") -> Real(Narrowed(v.frac))
      [] Is(v, "arr")  -> [arr |-> [i \in DOMAIN v.arr |-> AsRead(v.arr[i])]]
      [] Is(v, "map")  -> [map |-> {<<AsRead(e[1]), AsRead(e[2])>> : e \in v.map}]
      [] OTHER -> v

\* What write sent, read returns: whatever the types, the nesting, the dictionaries and
\* the limit at which the queue was flushed, and also for the write that raised an error
\* because its last item had already emptied the queue.  Every integer comes back as it
\* was; every fraction comes back in single precision, and in no more, since writeNumber
\* gives it the type FLOAT (0.1 is read as another number).  It takes a complete stream,
\* no buffer joined to the rest of another (readNextBuffer repeats a byte then), no empty
\* string (it reads as nil) and no 2^63 (it passes for an INT_64).  A reader that calls
\* the undefined debugDump stops after what it has read.
ReadBack ==
    cut = 0 /\ ~r.respliced /\ AllExact =>
        /\ r.task # "error"
        /\ IsPrefix(r.results, [i \in DOMAIN w.written |-> AsRead(w.written[i])])

\* A reader that gets the writer's chunks one by one, as an HTTP client that sends
\* each flush as a chunk of its own, never joins two buffers: no flush splits an item,
\* and a write ends with its chunk.
ChunksAreWhole == r.chunked => ~r.respliced

PrefixBytes(queue) ==
    FoldLeft(LAMBDA n, i : n + IF Is(i, "str")
                               THEN Size(findMinRange(Len(i.str), STRING_RANGES)) ELSE 0,
             0, queue)

\* The size the Lua side counts and the bytes the C side stores differ by the lengths put
\* before strings and by nothing else: the buffer is too small, and the unchecked UINT_32
\* leaves it, only when those are more than the slack.
RoomAccounted == w.error = "room" \/ w.overrun => PrefixBytes(w.packed) > Slack

CutInNumber == Hung /\ r.offset < Len(r.buffer) /\ (cut > 0 \/ r.respliced)

\* Every read returns or raises an error, wherever the stream ends and however it was
\* cut up.  Only a stream that ends inside a number, or bytes misread after two buffers
\* were joined, keep readNumber turning.
ReadingEnds == (r.task # "unborn") ~> (Ended \/ CutInNumber)
============================================================================
