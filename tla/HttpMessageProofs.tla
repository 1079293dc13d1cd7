--------------------------- MODULE HttpMessageProofs ---------------------------
(***************************************************************************)
(* The assertions of http_parser.c hold for every stream of bytes, however *)
(* it is cut into segments and whenever the reader stops.                  *)
(***************************************************************************)
EXTENDS HttpMessage, SequenceTheorems, TLAPS

LengthStates == {"s_chunk_size", "s_chunk_parameters", "s_chunk_size_almost_done"}
ChunkStates ==
    LengthStates \cup
    {"s_chunk_size_start", "s_chunk_data", "s_chunk_data_almost_done", "s_chunk_data_done"}

\* What the assertions rest on, for each state in which one can be met and
\* those on the way there.
LengthSound(q) ==
    /\ q.state \in {"s_body_identity", "s_chunk_data"} => q.content_length \notin {0, ULLONG_MAX}
    /\ q.state \in LengthStates => q.content_length # ULLONG_MAX
    /\ q.state = "s_chunk_data_almost_done" => q.content_length = 0
ChunkSound(q) ==
    /\ q.state \in ChunkStates => "F_CHUNKED" \in q.flags
    /\ q.state = "s_chunk_size_start" => q.nread = 0
ValueSound(q) ==
    q.state = "s_header_value" =>
        q.header_state \in {h_general, ContentLength} \/ Len(q.header_state) >= 3
Sound(q) == q \in http_parser /\ LengthSound(q) /\ ChunkSound(q) /\ ValueSound(q)

\* A parser that goes on with the next byte.
Ready(q) == Sound(q) /\ q.state # "s_dead" /\ q.http_errno = "HPE_OK"

ReexecutedStates == {"s_headers_almost_done", "s_header_field_start"}

InCall ==
    /\ Ready(parser)
    /\ again => parser.state \in ReexecutedStates

\* The call has returned: at the end of the data, behind a callback or with
\* an error, which leaves something of the data.
Returned ==
    \/ Ready(parser) /\ nparsed = Len(data)
    \/ /\ Sound(parser) /\ parser.http_errno = "HPE_PAUSED"
       /\ parser.state = "s_dead" => cb.type = "message_complete"
    \/ parser.http_errno \notin {"HPE_OK", "HPE_PAUSED"} /\ nparsed < Len(data)

ReaderTypeOK ==
    /\ source \in Streams
    /\ rcvd \in 0..Len(source.bytes)
    /\ content \in Pieces
    /\ at \in {"loop", "parse", "done", "error", "undefined"}

IndInv ==
    /\ ParserTypeOK
    /\ ReaderTypeOK
    /\ at = "loop" => Ready(parser)
    /\ at = "parse" => /\ data = content
                       /\ IF nparsed = Running THEN InCall ELSE Returned
    /\ LeftoverExact

(***************************************************************************)
(* States in which nothing is asserted.                                    *)
(***************************************************************************)
PlainStates ==
    UrlStates \cup
    {"s_start_res", "s_res_H", "s_res_first_http_major", "s_res_http_major",
     "s_res_first_http_minor", "s_res_http_minor", "s_res_first_status_code", "s_res_status_code",
     "s_res_status_start", "s_res_status", "s_res_line_almost_done", "s_start_req", "s_req_method",
     "s_req_spaces_before_url", "s_req_http_start", "s_req_http_H", "s_req_first_http_major",
     "s_req_http_major", "s_req_first_http_minor", "s_req_http_minor", "s_req_line_almost_done",
     "s_header_field_start", "s_header_field", "s_header_value_start",
     "s_header_value_lws", "s_header_almost_done", "s_headers_almost_done", "s_headers_done",
     "s_body_identity_eof", "s_message_done"}
AssertedStates == ChunkStates \cup {"s_body_identity", "s_header_value"}

LEMMA PlainAreStates == PlainStates \subseteq States
BY DEF PlainStates, States, UrlStates

LEMMA AssertedAreStates == AssertedStates \subseteq States
BY DEF AssertedStates, ChunkStates, LengthStates, States, UrlStates

LEMMA PlainNotAsserted ==
  ASSUME NEW s \in PlainStates
  PROVE  s \notin AssertedStates /\ s # "s_dead"
BY DEF PlainStates, AssertedStates, ChunkStates, LengthStates, UrlStates

LEMMA PlainReady ==
  ASSUME NEW q \in http_parser, q.state \in PlainStates, q.http_errno = "HPE_OK"
  PROVE  Ready(q)
<1>1. q.state \notin AssertedStates /\ q.state # "s_dead"
  BY PlainNotAsserted
<1> QED BY <1>1 DEF Ready, Sound, LengthSound, ChunkSound, ValueSound, AssertedStates,
             ChunkStates, LengthStates

\* Counting the byte changes nothing but the count.
LEMMA CountedFacts ==
  ASSUME parser \in http_parser
  PROVE  /\ Counted \in http_parser
         /\ Counted.type = parser.type
         /\ Counted.state = parser.state
         /\ Counted.header_state = parser.header_state
         /\ Counted.flags = parser.flags
         /\ Counted.content_length = parser.content_length
         /\ Counted.http_errno = parser.http_errno
         /\ Counted.upgrade = parser.upgrade
         /\ Counted.method = parser.method
         /\ Counted.status_code = parser.status_code
         /\ Counted.http_major = parser.http_major
         /\ Counted.http_minor = parser.http_minor
<1>1. CASE Counted = parser
  BY <1>1
<1>2. CASE Counted = [parser EXCEPT !.nread = @ + 1]
  <2>1. parser.nread + 1 \in Nat
    BY DEF http_parser
  <2> QED BY <1>2, <2>1 DEF http_parser
<1> QED BY <1>1, <1>2 DEF Counted

\* A parser with some fields replaced by values of their types.
LEMMA ToFacts ==
  ASSUME parser \in http_parser, NEW s \in States
  PROVE  /\ To(s) \in http_parser
         /\ To(s).state = s
         /\ To(s).type = parser.type
         /\ To(s).header_state = parser.header_state
         /\ To(s).flags = parser.flags
         /\ To(s).content_length = parser.content_length
         /\ To(s).http_errno = parser.http_errno
         /\ To(s).method = parser.method
<1> DEFINE c == Counted
<1>1. c \in http_parser /\ c.type = parser.type /\ c.header_state = parser.header_state
      /\ c.flags = parser.flags /\ c.content_length = parser.content_length
      /\ c.http_errno = parser.http_errno /\ c.method = parser.method
  BY CountedFacts
<1>2. To(s) = [c EXCEPT !.state = s]
  BY DEF To
<1> HIDE DEF c
<1> QED BY <1>1, <1>2 DEF http_parser

(***************************************************************************)
(* The ways in which a round of the loop ends.                             *)
(***************************************************************************)
InRound ==
    /\ IndInv
    /\ at = "parse"
    /\ InLoop
    /\ UNCHANGED <<source, rcvd, content, req, phase, streamed, at>>

LEMMA RoundFacts ==
  ASSUME InRound
  PROVE  /\ Ready(parser) /\ parser \in http_parser /\ parser.http_errno = "HPE_OK"
         /\ data \in Pieces /\ p \in Nat /\ p < Len(data) /\ Ch \in STRING
         /\ mark \in [of : Strings \cup {"none"}, at : 0..p]
         /\ Len(data) \in Nat
         /\ cb \in [type : Callbacks, str : Pieces]
         /\ nparsed = Running
         /\ again => parser.state \in ReexecutedStates
BY DEF InRound, IndInv, ParserTypeOK, InLoop, InCall, Ready, Sound, Ch, Running, Pieces

LEMMA ReaderKept ==
  ASSUME InRound
  PROVE  ReaderTypeOK' /\ LeftoverExact' /\ at' = "parse" /\ data = content
         /\ content' = content
BY DEF InRound, IndInv, ReaderTypeOK, LeftoverExact

\* The next byte follows with a parser that is ready for it.
LEMMA ConsumeRound ==
  ASSUME InRound, NEW q, Ready(q), Consume(q)
  PROVE  IndInv'
<1>1. ParserTypeOK'
  <2>1. q \in http_parser /\ p + 1 \in 0..Len(data) /\ mark \in [of : Strings \cup {"none"}, at : 0..p + 1]
    BY RoundFacts DEF Ready, Sound
  <2> QED BY <2>1, RoundFacts DEF Consume, ParserTypeOK
<1>2. InCall' /\ nparsed' = Running /\ data' = data
  BY DEF Consume, InCall, InRound, InLoop
<1> QED BY <1>1, <1>2, ReaderKept DEF IndInv

LEMMA MarkRound ==
  ASSUME InRound, NEW q, Ready(q), NEW of \in Strings, MARK(of, q)
  PROVE  IndInv'
<1>1. mark' \in [of : Strings \cup {"none"}, at : 0..p + 1]
  <2>1. CASE mark' = mark
    BY <2>1, RoundFacts
  <2>2. CASE mark' = [of |-> of, at |-> p]
    BY <2>2, RoundFacts
  <2> QED BY <2>1, <2>2 DEF MARK
<1>2. ParserTypeOK'
  <2>1. q \in http_parser /\ p + 1 \in 0..Len(data)
    BY RoundFacts DEF Ready, Sound
  <2> QED BY <1>1, <2>1, RoundFacts DEF MARK, ParserTypeOK
<1>3. InCall' /\ nparsed' = Running /\ data' = data
  BY DEF MARK, InCall, InRound, InLoop
<1> QED BY <1>2, <1>3, ReaderKept DEF IndInv

LEMMA ReexecuteRound ==
  ASSUME InRound, NEW q, Ready(q), q.state \in ReexecutedStates, Reexecute(q)
  PROVE  IndInv'
<1>1. ParserTypeOK'
  BY RoundFacts DEF Reexecute, ParserTypeOK, Ready, Sound, InRound, IndInv
<1>2. InCall' /\ nparsed' = Running /\ data' = data
  BY DEF Reexecute, InCall, InRound, InLoop
<1> QED BY <1>1, <1>2, ReaderKept DEF IndInv

LEMMA ErrorRound ==
  ASSUME InRound, NEW e \in Errors, Error(e)
  PROVE  IndInv'
<1>1. Failed(e) \in http_parser /\ Failed(e).http_errno = e
      /\ e \notin {"HPE_OK", "HPE_PAUSED"}
  <2> DEFINE c == Counted
  <2>1. c \in http_parser /\ Failed(e) = [c EXCEPT !.http_errno = e]
    BY CountedFacts, RoundFacts DEF Failed
  <2> HIDE DEF c
  <2>2. e \in Errnos /\ e \notin {"HPE_OK", "HPE_PAUSED"}
    BY DEF Errors, Errnos
  <2> QED BY <2>1, <2>2 DEF http_parser
<1>2. ParserTypeOK'
  BY <1>1, RoundFacts DEF Error, ParserTypeOK, InRound, IndInv
<1>3. Returned' /\ nparsed' # Running /\ data' = data
  BY <1>1, RoundFacts DEF Error, Returned, Running
<1> QED BY <1>2, <1>3, ReaderKept DEF IndInv

\* A callback pauses the parser.
LEMMA PauseFacts ==
  ASSUME NEW q, Sound(q), q.http_errno \in {"HPE_OK", "HPE_PAUSED"}, NEW b \in BOOLEAN
  PROVE  /\ Sound(http_parser_pause(q, b))
         /\ http_parser_pause(q, b).state = q.state
         /\ http_parser_pause(q, b).http_errno = IF b THEN "HPE_PAUSED" ELSE "HPE_OK"
<1>1. PICK r : r = http_parser_pause(q, b)
  OBVIOUS
<1> DEFINE e == IF b THEN "HPE_PAUSED" ELSE "HPE_OK"
<1>2. r = [q EXCEPT !.http_errno = e] /\ e \in Errnos
  <2>1. http_parser_pause(q, b) = [q EXCEPT !.http_errno = e]
    BY Zenon DEF http_parser_pause
  <2>2. e \in {"HPE_PAUSED", "HPE_OK"}
    OBVIOUS
  <2>3. {"HPE_PAUSED", "HPE_OK"} \subseteq Errnos
    BY DEF Errnos
  <2> HIDE DEF e
  <2> QED BY <1>1, <2>1, <2>2, <2>3
<1> HIDE DEF e
<1>3. r \in http_parser /\ r.http_errno = e
  BY <1>2 DEF Sound, http_parser
<1>4. /\ r.state = q.state /\ r.content_length = q.content_length /\ r.flags = q.flags
      /\ r.nread = q.nread /\ r.header_state = q.header_state
  BY <1>2 DEF Sound, http_parser
<1>5. LengthSound(r) /\ ChunkSound(r) /\ ValueSound(r)
  BY <1>4 DEF Sound, LengthSound, ChunkSound, ValueSound
<1> QED BY <1>1, <1>3, <1>4, <1>5 DEF Sound, e

LEMMA CallbackRound ==
  ASSUME InRound, NEW q, Sound(q), q.http_errno = "HPE_OK", NEW type \in Callbacks,
         q.state = "s_dead" => type = "message_complete",
         NEW str \in Pieces, NEW n \in 0..Len(data),
         handle_http_callback(q, type, str, n)
  PROVE  IndInv'
<1>1. Sound(parser') /\ parser'.state = q.state /\ parser'.http_errno = "HPE_PAUSED"
  BY PauseFacts DEF handle_http_callback
<1>2. ParserTypeOK'
  BY <1>1, RoundFacts DEF handle_http_callback, ParserTypeOK, Sound, InRound, IndInv
<1>3. Returned' /\ nparsed' # Running /\ data' = data
  <2>1. cb'.type = type /\ nparsed' = n /\ data' = data /\ n # Running
    BY RoundFacts DEF handle_http_callback, Running
  <2>2. parser'.state = "s_dead" => cb'.type = "message_complete"
    BY <1>1, <2>1
  <2> QED BY <1>1, <2>1, <2>2 DEF Returned
<1> QED BY <1>2, <1>3, ReaderKept DEF IndInv

LEMMA MarkedType ==
  ASSUME InRound
  PROVE  Marked \in Pieces
BY RoundFacts DEF Marked, Pieces

LEMMA CallbackDataRound ==
  ASSUME InRound, NEW q, Ready(q), NEW of \in Strings, CALLBACK_DATA(of, q)
  PROVE  IndInv'
<1>1. CASE mark.of = of
  BY <1>1, CallbackRound, MarkedType, RoundFacts DEF CALLBACK_DATA, Ready, Callbacks
<1>2. CASE mark.of # of
  BY <1>2, ConsumeRound DEF CALLBACK_DATA
<1> QED BY <1>1, <1>2

\* break or an error, with a parser that is ready if there is none.
LEMMA ExpectRound ==
  ASSUME InRound, NEW ok \in BOOLEAN, NEW q, ok => Ready(q), NEW e \in Errors, Expect(ok, q, e)
  PROVE  IndInv'
<1>1. CASE ok
  BY <1>1, ConsumeRound DEF Expect
<1>2. CASE ~ok
  BY <1>2, ErrorRound DEF Expect
<1> QED BY <1>1, <1>2

LEMMA ToPlain ==
  ASSUME InRound, NEW s \in PlainStates
  PROVE  Ready(To(s)) /\ To(s) \in http_parser /\ To(s).state = s /\ To(s).http_errno = "HPE_OK"
<1>1. s \in States
  BY PlainAreStates
<1>2. To(s) \in http_parser /\ To(s).state = s /\ To(s).http_errno = "HPE_OK"
  BY <1>1, ToFacts, RoundFacts
<1> QED BY <1>2, PlainReady

LEMMA CountedPlain ==
  ASSUME InRound, parser.state \in PlainStates
  PROVE  /\ Ready(Counted) /\ Counted \in http_parser
         /\ Counted.state \in PlainStates /\ Counted.http_errno = "HPE_OK"
<1>1. /\ Counted \in http_parser
      /\ Counted.state \in PlainStates /\ Counted.http_errno = "HPE_OK"
  BY CountedFacts, RoundFacts
<1> QED BY <1>1, PlainReady

LEMMA NumbersReady ==
  ASSUME NEW q \in http_parser, q.state \in PlainStates, q.http_errno = "HPE_OK", NEW n \in Numbers
  PROVE  /\ Ready([q EXCEPT !.http_major = n])
         /\ Ready([q EXCEPT !.http_minor = n])
         /\ Ready([q EXCEPT !.status_code = n])
<1>1. \A r \in {[q EXCEPT !.http_major = n], [q EXCEPT !.http_minor = n],
                [q EXCEPT !.status_code = n]} :
        r \in http_parser /\ r.state = q.state /\ r.http_errno = q.http_errno
  BY DEF http_parser
<1> QED BY <1>1, PlainReady

LEMMA DigitFacts ==
  ASSUME NEW c
  PROVE  /\ unhex(c) \in -1..13
         /\ IS_NUM(c) => unhex(c) \in 0..6
BY DEF unhex, IS_NUM

LEMMA FirstDigit ==
  ASSUME NEW c, IS_NUM(c)
  PROVE  unhex(c) \in Numbers
BY DigitFacts DEF Numbers

LEMMA NextDigit ==
  ASSUME NEW c, IS_NUM(c), NEW n \in Numbers, Decimal(n, c) <= 999
  PROVE  Decimal(n, c) \in Numbers
<1>1. unhex(c) \in 0..6
  BY DigitFacts
<1> QED BY <1>1 DEF Numbers, Decimal

LEMMA NumbersOf ==
  ASSUME NEW q \in http_parser
  PROVE  q.http_major \in Numbers /\ q.http_minor \in Numbers /\ q.status_code \in Numbers
BY DEF http_parser

\* The parser at the beginning of a message.
LEMMA FreshReady ==
  ASSUME InRound, NEW s \in PlainStates
  PROVE  /\ Ready(Fresh(s)) /\ Fresh(s) \in http_parser /\ Fresh(s).state = s
         /\ Fresh(s).http_errno = "HPE_OK"
<1>1. PICK q : q = To(s)
  OBVIOUS
<1>2. q \in http_parser /\ q.state = s /\ q.http_errno = "HPE_OK"
  BY <1>1, ToPlain
<1>3. ULLONG_MAX \in Lengths /\ {} \in SUBSET Flags
  BY UllongAssumption DEF Lengths
<1>4. PICK r : r = [q EXCEPT !.flags = {}, !.content_length = ULLONG_MAX]
  OBVIOUS
<1>5. r \in http_parser /\ r.state = s /\ r.http_errno = "HPE_OK"
  BY <1>2, <1>3, <1>4 DEF http_parser
<1>6. Fresh(s) = r
  BY <1>1, <1>4 DEF Fresh
<1> QED BY <1>5, <1>6, PlainReady

LEMMA NotifyRound ==
  ASSUME InRound, NEW q, Sound(q), q.http_errno = "HPE_OK", NEW type \in Callbacks,
         q.state = "s_dead" => type = "message_complete",
         CALLBACK_NOTIFY(type, q) \/ CALLBACK_NOTIFY_NOADVANCE(type, q)
  PROVE  IndInv'
<1>1. p \in 0..Len(data) /\ p + 1 \in 0..Len(data) /\ <<>> \in Pieces
  BY RoundFacts DEF Pieces
<1> QED BY <1>1, CallbackRound DEF CALLBACK_NOTIFY, CALLBACK_NOTIFY_NOADVANCE

(***************************************************************************)
(* The first lines.                                                        *)
(***************************************************************************)
LEMMA HeaderOverflowStep ==
  ASSUME InRound, HeaderOverflow
  PROVE  IndInv'
<1>1. "HPE_HEADER_OVERFLOW" \in Errors
  BY DEF Errors
<1> QED BY <1>1, ErrorRound DEF HeaderOverflow

LEMMA StartResStep ==
  ASSUME InRound, StartRes
  PROVE  IndInv'
<1>1. "s_res_H" \in PlainStates /\ "s_start_res" \in PlainStates
  BY DEF PlainStates
<1>2. "message_begin" \in Callbacks
  BY DEF Callbacks
<1>3. "HPE_INVALID_CONSTANT" \in Errors
  BY DEF Errors
<1>4. \A s \in {"s_res_H", "s_start_res"} :
        /\ Sound(Fresh(s)) /\ Fresh(s).http_errno = "HPE_OK" /\ Fresh(s).state # "s_dead"
  BY <1>1, FreshReady DEF Ready
<1>5. \/ CALLBACK_NOTIFY("message_begin", Fresh("s_res_H"))
      \/ CALLBACK_NOTIFY("message_begin", Fresh("s_start_res"))
      \/ Error("HPE_INVALID_CONSTANT")
  BY DEF StartRes
<1> QED BY <1>2, <1>3, <1>4, <1>5, NotifyRound, ErrorRound

LEMMA ResHTTPStep ==
  ASSUME InRound, ResHTTP
  PROVE  IndInv'
<1>1. "s_res_first_http_major" \in PlainStates /\ "HPE_STRICT" \in Errors
  BY DEF PlainStates, Errors
<1> QED BY <1>1, ToPlain, ExpectRound DEF ResHTTP

\* The first digit of a number, and one more.
LEMMA FirstNumber ==
  ASSUME InRound, NEW s \in PlainStates, NEW e \in Errors, NEW ok \in BOOLEAN, ok => IS_NUM(Ch),
         \/ Expect(ok, [To(s) EXCEPT !.http_major = unhex(Ch)], e)
         \/ Expect(ok, [To(s) EXCEPT !.http_minor = unhex(Ch)], e)
         \/ Expect(ok, [To(s) EXCEPT !.status_code = unhex(Ch)], e)
  PROVE  IndInv'
<1>1. ok => /\ Ready([To(s) EXCEPT !.http_major = unhex(Ch)])
            /\ Ready([To(s) EXCEPT !.http_minor = unhex(Ch)])
            /\ Ready([To(s) EXCEPT !.status_code = unhex(Ch)])
  BY ToPlain, FirstDigit, NumbersReady
<1> QED BY <1>1, ExpectRound

LEMMA NextNumber ==
  ASSUME InRound, parser.state \in PlainStates, NEW e \in Errors,
         \/ Expect(IS_NUM(Ch) /\ Decimal(parser.http_major, Ch) <= 999,
                   [Counted EXCEPT !.http_major = Decimal(@, Ch)], e)
         \/ Expect(IS_NUM(Ch) /\ Decimal(parser.http_minor, Ch) <= 999,
                   [Counted EXCEPT !.http_minor = Decimal(@, Ch)], e)
         \/ Expect(IS_NUM(Ch) /\ Decimal(parser.status_code, Ch) <= 999,
                   [Counted EXCEPT !.status_code = Decimal(@, Ch)], e)
  PROVE  IndInv'
<1> DEFINE ok(n) == IS_NUM(Ch) /\ Decimal(n, Ch) <= 999
           major == [Counted EXCEPT !.http_major = Decimal(@, Ch)]
           minor == [Counted EXCEPT !.http_minor = Decimal(@, Ch)]
           code == [Counted EXCEPT !.status_code = Decimal(@, Ch)]
<1>1. /\ Counted.http_major = parser.http_major /\ parser.http_major \in Numbers
      /\ Counted.http_minor = parser.http_minor /\ parser.http_minor \in Numbers
      /\ Counted.status_code = parser.status_code /\ parser.status_code \in Numbers
  BY CountedFacts, RoundFacts, NumbersOf
<1>2. /\ ok(parser.http_major) => Ready(major)
      /\ ok(parser.http_minor) => Ready(minor)
      /\ ok(parser.status_code) => Ready(code)
  <2>1. \A n \in Numbers : ok(n) => Decimal(n, Ch) \in Numbers
    BY NextDigit
  <2>2. PICK c : c = Counted
    OBVIOUS
  <2>3. c \in http_parser /\ c.state \in PlainStates /\ c.http_errno = "HPE_OK"
    BY <2>2, CountedPlain
  <2>4. /\ major = [c EXCEPT !.http_major = Decimal(parser.http_major, Ch)]
        /\ minor = [c EXCEPT !.http_minor = Decimal(parser.http_minor, Ch)]
        /\ code = [c EXCEPT !.status_code = Decimal(parser.status_code, Ch)]
    BY <1>1, <2>2
  <2>5. \A n \in Numbers : /\ Ready([c EXCEPT !.http_major = n])
                            /\ Ready([c EXCEPT !.http_minor = n])
                            /\ Ready([c EXCEPT !.status_code = n])
    BY <2>3, NumbersReady
  <2> HIDE DEF ok, major, minor, code
  <2>6. ok(parser.http_major) => Ready(major)
    BY <1>1, <2>1, <2>4, <2>5
  <2>7. ok(parser.http_minor) => Ready(minor)
    BY <1>1, <2>1, <2>4, <2>5
  <2>8. ok(parser.status_code) => Ready(code)
    BY <1>1, <2>1, <2>4, <2>5
  <2> QED BY <2>6, <2>7, <2>8
<1>3. \A n : ok(n) \in BOOLEAN
  OBVIOUS
<1>4. \/ Expect(ok(parser.http_major), major, e)
      \/ Expect(ok(parser.http_minor), minor, e)
      \/ Expect(ok(parser.status_code), code, e)
  OBVIOUS
<1> HIDE DEF ok, major, minor, code
<1> QED BY <1>2, <1>3, <1>4, ExpectRound

LEMMA ResMajorStep ==
  ASSUME InRound, ResMajor
  PROVE  IndInv'
<1>1. "HPE_INVALID_VERSION" \in Errors
  BY DEF Errors
<1>2. {"s_res_http_major", "s_res_first_http_minor"} \subseteq PlainStates
  BY DEF PlainStates
<1>3. CASE At({"s_res_first_http_major"})
  <2>1. (IS_NUM(Ch)) \in BOOLEAN
    BY DEF IS_NUM
  <2>2. Expect(IS_NUM(Ch), [To("s_res_http_major") EXCEPT !.http_major = unhex(Ch)], "HPE_INVALID_VERSION")
    BY <1>3 DEF ResMajor, At
  <2> QED BY <1>1, <1>2, <2>1, <2>2, FirstNumber
<1>4. CASE At({"s_res_http_major"})
  <2>1. parser.state = "s_res_http_major"
    BY <1>4 DEF At
  <2>2. \/ Consume(To("s_res_first_http_minor"))
        \/ Expect(IS_NUM(Ch) /\ Decimal(parser.http_major, Ch) <= 999,
                  [Counted EXCEPT !.http_major = Decimal(@, Ch)], "HPE_INVALID_VERSION")
    BY <1>4, <2>1 DEF ResMajor, At
  <2> QED BY <1>1, <1>2, <2>1, <2>2, ToPlain, ConsumeRound, NextNumber
<1> QED BY <1>3, <1>4 DEF ResMajor

LEMMA ResMinorStep ==
  ASSUME InRound, ResMinor
  PROVE  IndInv'
<1>1. "HPE_INVALID_VERSION" \in Errors
  BY DEF Errors
<1>2. {"s_res_http_minor", "s_res_first_status_code"} \subseteq PlainStates
  BY DEF PlainStates
<1>3. CASE At({"s_res_first_http_minor"})
  <2>1. (IS_NUM(Ch)) \in BOOLEAN
    BY DEF IS_NUM
  <2>2. Expect(IS_NUM(Ch), [To("s_res_http_minor") EXCEPT !.http_minor = unhex(Ch)], "HPE_INVALID_VERSION")
    BY <1>3 DEF ResMinor, At
  <2> QED BY <1>1, <1>2, <2>1, <2>2, FirstNumber
<1>4. CASE At({"s_res_http_minor"})
  <2>1. parser.state = "s_res_http_minor"
    BY <1>4 DEF At
  <2>2. \/ Consume(To("s_res_first_status_code"))
        \/ Expect(IS_NUM(Ch) /\ Decimal(parser.http_minor, Ch) <= 999,
                  [Counted EXCEPT !.http_minor = Decimal(@, Ch)], "HPE_INVALID_VERSION")
    BY <1>4, <2>1 DEF ResMinor, At
  <2> QED BY <1>1, <1>2, <2>1, <2>2, ToPlain, ConsumeRound, NextNumber
<1> QED BY <1>3, <1>4 DEF ResMinor

LEMMA ResStatusCodeStep ==
  ASSUME InRound, ResStatusCode
  PROVE  IndInv'
<1>1. "HPE_INVALID_STATUS" \in Errors
  BY DEF Errors
<1>2. {"s_res_first_status_code", "s_res_status_code", "s_res_status_start", "s_res_line_almost_done", "s_header_field_start"} \subseteq PlainStates
  BY DEF PlainStates
<1>3. CASE At({"s_res_first_status_code"})
  <2>1. parser.state = "s_res_first_status_code"
    BY <1>3 DEF At
  <2>2. IS_NUM(Ch) \in BOOLEAN
    BY DEF IS_NUM
  <2>3. \/ Consume(Counted)
        \/ Expect(IS_NUM(Ch), [To("s_res_status_code") EXCEPT !.status_code = unhex(Ch)], "HPE_INVALID_STATUS")
    BY <1>3, <2>1 DEF ResStatusCode, At
  <2> QED BY <1>1, <1>2, <2>1, <2>2, <2>3, CountedPlain, ConsumeRound, FirstNumber
<1>4. CASE At({"s_res_status_code"})
  <2>1. parser.state = "s_res_status_code"
    BY <1>4 DEF At
  <2>2. \/ Consume(To("s_res_status_start"))
        \/ Consume(To("s_res_line_almost_done"))
        \/ Consume(To("s_header_field_start"))
        \/ Expect(IS_NUM(Ch) /\ Decimal(parser.status_code, Ch) <= 999,
                  [Counted EXCEPT !.status_code = Decimal(@, Ch)], "HPE_INVALID_STATUS")
    BY <1>4, <2>1 DEF ResStatusCode, At, LineEnd
  <2> QED BY <1>1, <1>2, <2>1, <2>2, ToPlain, ConsumeRound, NextNumber
<1> QED BY <1>3, <1>4 DEF ResStatusCode

LEMMA ReqMajorStep ==
  ASSUME InRound, ReqMajor
  PROVE  IndInv'
<1>1. "HPE_INVALID_VERSION" \in Errors
  BY DEF Errors
<1>2. {"s_req_http_major", "s_req_first_http_minor"} \subseteq PlainStates
  BY DEF PlainStates
<1>3. CASE At({"s_req_first_http_major"})
  <2>1. (IS_NUM(Ch) /\ Ch # "0") \in BOOLEAN
    BY DEF IS_NUM
  <2>2. Expect(IS_NUM(Ch) /\ Ch # "0", [To("s_req_http_major") EXCEPT !.http_major = unhex(Ch)], "HPE_INVALID_VERSION")
    BY <1>3 DEF ReqMajor, At
  <2> QED BY <1>1, <1>2, <2>1, <2>2, FirstNumber
<1>4. CASE At({"s_req_http_major"})
  <2>1. parser.state = "s_req_http_major"
    BY <1>4 DEF At
  <2>2. \/ Consume(To("s_req_first_http_minor"))
        \/ Expect(IS_NUM(Ch) /\ Decimal(parser.http_major, Ch) <= 999,
                  [Counted EXCEPT !.http_major = Decimal(@, Ch)], "HPE_INVALID_VERSION")
    BY <1>4, <2>1 DEF ReqMajor, At
  <2> QED BY <1>1, <1>2, <2>1, <2>2, ToPlain, ConsumeRound, NextNumber
<1> QED BY <1>3, <1>4 DEF ReqMajor

LEMMA ReqMinorStep ==
  ASSUME InRound, ReqMinor
  PROVE  IndInv'
<1>1. "HPE_INVALID_VERSION" \in Errors
  BY DEF Errors
<1>2. {"s_req_http_minor", "s_req_line_almost_done", "s_header_field_start"} \subseteq PlainStates
  BY DEF PlainStates
<1>3. CASE At({"s_req_first_http_minor"})
  <2>1. (IS_NUM(Ch)) \in BOOLEAN
    BY DEF IS_NUM
  <2>2. Expect(IS_NUM(Ch), [To("s_req_http_minor") EXCEPT !.http_minor = unhex(Ch)], "HPE_INVALID_VERSION")
    BY <1>3 DEF ReqMinor, At
  <2> QED BY <1>1, <1>2, <2>1, <2>2, FirstNumber
<1>4. CASE At({"s_req_http_minor"})
  <2>1. parser.state = "s_req_http_minor"
    BY <1>4 DEF At
  <2>2. \/ Consume(To("s_req_line_almost_done"))
        \/ Consume(To("s_header_field_start"))
        \/ Expect(IS_NUM(Ch) /\ Decimal(parser.http_minor, Ch) <= 999,
                  [Counted EXCEPT !.http_minor = Decimal(@, Ch)], "HPE_INVALID_VERSION")
    BY <1>4, <2>1 DEF ReqMinor, At, LineEnd
  <2> QED BY <1>1, <1>2, <2>1, <2>2, ToPlain, ConsumeRound, NextNumber
<1> QED BY <1>3, <1>4 DEF ReqMinor

LEMMA ResStatusStep ==
  ASSUME InRound, ResStatus
  PROVE  IndInv'
<1>1. {"s_res_status_start", "s_res_status", "s_res_line_almost_done", "s_header_field_start"}
        \subseteq PlainStates /\ "status" \in Strings
  BY DEF PlainStates, Strings
<1>2. LineEnd("s_res_line_almost_done") \in {To("s_res_line_almost_done"), To("s_header_field_start")}
  BY DEF LineEnd
<1>3. Ready(LineEnd("s_res_line_almost_done")) /\ Ready(To("s_res_status"))
  BY <1>1, <1>2, ToPlain
<1>4. CASE At({"s_res_status_start"})
  <2>1. parser.state = "s_res_status_start"
    BY <1>4 DEF At
  <2>2. \/ Consume(LineEnd("s_res_line_almost_done"))
        \/ MARK("status", To("s_res_status"))
    BY <1>4, <2>1 DEF ResStatus, At
  <2> QED BY <1>1, <1>3, <2>2, ConsumeRound, MarkRound
<1>5. CASE At({"s_res_status"})
  <2>1. parser.state = "s_res_status"
    BY <1>5 DEF At
  <2>2. \/ CALLBACK_DATA("status", LineEnd("s_res_line_almost_done"))
        \/ Consume(Counted)
    BY <1>5, <2>1 DEF ResStatus, At
  <2>3. Ready(Counted)
    BY <1>1, <2>1, CountedPlain
  <2> QED BY <1>1, <1>3, <2>2, <2>3, ConsumeRound, CallbackDataRound
<1> QED BY <1>4, <1>5 DEF ResStatus

LEMMA LineAlmostDoneStep ==
  ASSUME InRound, ResLineAlmostDone \/ ReqLineAlmostDone
  PROVE  IndInv'
<1>1. "s_header_field_start" \in PlainStates /\ {"HPE_STRICT", "HPE_LF_EXPECTED"} \subseteq Errors
  BY DEF PlainStates, Errors
<1> QED BY <1>1, ToPlain, ExpectRound DEF ResLineAlmostDone, ReqLineAlmostDone

LEMMA StartReqStep ==
  ASSUME InRound, StartReq
  PROVE  IndInv'
<1>1. {"s_start_req", "s_req_method"} \subseteq PlainStates /\ "message_begin" \in Callbacks
      /\ "HPE_INVALID_METHOD" \in Errors
  BY DEF PlainStates, Callbacks, Errors
<1>2. parser.state = "s_start_req"
  BY DEF StartReq, At
<1> DEFINE q == [Fresh("s_req_method") EXCEPT !.method = <<Ch>>]
<1>3. Ready(q)
  <2>1. PICK f : f = Fresh("s_req_method")
    OBVIOUS
  <2>2. f \in http_parser /\ f.state \in PlainStates /\ f.http_errno = "HPE_OK"
    BY <1>1, <2>1, FreshReady
  <2>3. <<Ch>> \in Pieces
    BY RoundFacts DEF Pieces
  <2>4. PICK r : r = [f EXCEPT !.method = <<Ch>>]
    OBVIOUS
  <2>5. r \in http_parser /\ r.state \in PlainStates /\ r.http_errno = "HPE_OK"
    BY <2>2, <2>3, <2>4 DEF http_parser
  <2> QED BY <2>1, <2>4, <2>5, PlainReady
<1>4. \/ Consume(Counted)
      \/ CALLBACK_NOTIFY("message_begin", q)
      \/ Error("HPE_INVALID_METHOD")
  BY DEF StartReq
<1>5. Ready(Counted)
  BY <1>1, <1>2, CountedPlain
<1> HIDE DEF q
<1> QED BY <1>1, <1>3, <1>4, <1>5, ConsumeRound, NotifyRound, ErrorRound DEF Ready

LEMMA MethodReady ==
  ASSUME InRound, parser.state \in PlainStates
  PROVE  Ready([Counted EXCEPT !.method = Append(@, Ch)])
<1>1. PICK c : c = Counted
  OBVIOUS
<1>2. c \in http_parser /\ c.state \in PlainStates /\ c.http_errno = "HPE_OK"
  BY <1>1, CountedPlain
<1>3. Append(c.method, Ch) \in Pieces
  <2>1. c.method \in Pieces
    BY <1>2 DEF http_parser
  <2> QED BY <2>1, RoundFacts DEF Pieces
<1>4. PICK r : r = [c EXCEPT !.method = Append(@, Ch)]
  OBVIOUS
<1>5. r \in http_parser /\ r.state = c.state /\ r.http_errno = c.http_errno
  BY <1>2, <1>3, <1>4 DEF http_parser
<1> QED BY <1>1, <1>2, <1>4, <1>5, PlainReady

LEMMA ReqMethodStep ==
  ASSUME InRound, ReqMethod
  PROVE  IndInv'
<1>1. {"s_req_method", "s_req_spaces_before_url"} \subseteq PlainStates
      /\ "HPE_INVALID_METHOD" \in Errors
  BY DEF PlainStates, Errors
<1>2. parser.state = "s_req_method"
  BY DEF ReqMethod, At
<1> DEFINE q == [Counted EXCEPT !.method = Append(@, Ch)]
           ok == Match(parser.method, Ch, Methods) # h_general
<1>3. Ready(q)
  BY <1>1, <1>2, MethodReady
<1>4. Consume(To("s_req_spaces_before_url")) \/ Expect(ok, q, "HPE_INVALID_METHOD")
  BY DEF ReqMethod
<1>5. ok \in BOOLEAN
  OBVIOUS
<1> HIDE DEF q, ok
<1> QED BY <1>1, <1>3, <1>4, <1>5, ToPlain, ConsumeRound, ExpectRound

LEMMA UrlCharStates ==
  ASSUME NEW s \in UrlStates \cup {"s_req_spaces_before_url"}, NEW c
  PROVE  parse_url_char(s, c) \in UrlStates \cup {"s_dead"}
<1>1. serverChar(s, c) \in UrlStates \cup {"s_dead"}
  BY DEF serverChar, UrlStates
<1>2. \A a, b, d \in UrlStates : tailChar(a, b, d, c) \in UrlStates \cup {"s_dead"}
  BY DEF tailChar
<1>3. {"s_req_path", "s_req_schema", "s_req_schema_slash", "s_req_schema_slash_slash",
       "s_req_server_start", "s_req_query_string_start", "s_req_query_string",
       "s_req_fragment_start", "s_req_fragment"} \subseteq UrlStates
  BY DEF UrlStates
<1> QED BY <1>1, <1>2, <1>3 DEF parse_url_char

LEMMA ReqSpacesBeforeUrlStep ==
  ASSUME InRound, ReqSpacesBeforeUrl
  PROVE  IndInv'
<1> DEFINE t == parse_url_char(IF parser.method = CONNECT THEN "s_req_server_start"
                               ELSE parser.state, Ch)
<1>1. {"s_req_spaces_before_url"} \cup UrlStates \subseteq PlainStates
      /\ "HPE_INVALID_URL" \in Errors /\ "url" \in Strings
  BY DEF PlainStates, Errors, Strings
<1>2. parser.state = "s_req_spaces_before_url"
  BY DEF ReqSpacesBeforeUrl, At
<1>3. t \in UrlStates \cup {"s_dead"}
  <2>1. "s_req_server_start" \in UrlStates
    BY DEF UrlStates
  <2> QED BY <1>2, <2>1, UrlCharStates
<1>4. \/ Consume(Counted)
      \/ Error("HPE_INVALID_URL")
      \/ t # "s_dead" /\ MARK("url", To(t))
  BY DEF ReqSpacesBeforeUrl
<1>5. Ready(Counted)
  BY <1>1, <1>2, CountedPlain
<1> HIDE DEF t
<1>6. t # "s_dead" => Ready(To(t))
  BY <1>1, <1>3, ToPlain
<1> QED BY <1>1, <1>4, <1>5, <1>6, ConsumeRound, ErrorRound, MarkRound

LEMMA ReqUrlStep ==
  ASSUME InRound, ReqUrl
  PROVE  IndInv'
<1> DEFINE t == parse_url_char(parser.state, Ch)
           l == LineEnd("s_req_line_almost_done")
           q == [l EXCEPT !.http_major = 0, !.http_minor = 9]
           next == IF Ch = " " THEN To("s_req_http_start") ELSE q
           ok == t # "s_dead"
<1>1. UrlStates \cup {"s_req_http_start", "s_req_line_almost_done", "s_header_field_start"}
        \subseteq PlainStates
      /\ "HPE_INVALID_URL" \in Errors /\ "url" \in Strings
  BY DEF PlainStates, Errors, Strings
<1>2. parser.state \in UrlStates
  BY DEF ReqUrl, At
<1>3. t \in UrlStates \cup {"s_dead"}
  BY <1>2, UrlCharStates
<1>4. Expect(ok, To(t), "HPE_INVALID_URL") \/ CALLBACK_DATA("url", next)
  BY DEF ReqUrl
<1>5. Ready(next)
  <2>1. l \in http_parser /\ l.state \in PlainStates /\ l.http_errno = "HPE_OK"
    <3>1. l \in {To("s_req_line_almost_done"), To("s_header_field_start")}
      BY DEF LineEnd
    <3> QED BY <1>1, <3>1, ToPlain
  <2>2. 0 \in Numbers /\ 9 \in Numbers
    BY DEF Numbers
  <2> HIDE DEF l
  <2>3. q \in http_parser /\ q.state \in PlainStates /\ q.http_errno = "HPE_OK"
    BY <2>1, <2>2 DEF http_parser
  <2>4. Ready(q) /\ Ready(To("s_req_http_start"))
    BY <1>1, <2>3, PlainReady, ToPlain
  <2> HIDE DEF q
  <2> QED BY <2>4
<1>6. ok => Ready(To(t))
  BY <1>1, <1>3, ToPlain
<1>7. ok \in BOOLEAN
  OBVIOUS
<1> HIDE DEF t, next, ok
<1> QED BY <1>1, <1>4, <1>5, <1>6, <1>7, ExpectRound, CallbackDataRound

LEMMA ReqHTTPStep ==
  ASSUME InRound, ReqHTTP
  PROVE  IndInv'
<1>1. {"s_req_http_start", "s_req_http_H", "s_req_first_http_major"} \subseteq PlainStates
      /\ {"HPE_INVALID_CONSTANT", "HPE_STRICT"} \subseteq Errors
  BY DEF PlainStates, Errors
<1>2. CASE At({"s_req_http_start"})
  <2>1. parser.state = "s_req_http_start"
    BY <1>2 DEF At
  <2>2. Consume(Counted) \/ Expect(Ch = "H", To("s_req_http_H"), "HPE_INVALID_CONSTANT")
    BY <1>2, <2>1 DEF ReqHTTP, At
  <2> QED BY <1>1, <2>1, <2>2, CountedPlain, ToPlain, ConsumeRound, ExpectRound
<1>3. CASE At({"s_req_http_H"})
  <2>1. Expect(Ch = "TTP/", To("s_req_first_http_major"), "HPE_STRICT")
    BY <1>3 DEF ReqHTTP, At
  <2> QED BY <1>1, <2>1, ToPlain, ExpectRound
<1> QED BY <1>2, <1>3 DEF ReqHTTP

(***************************************************************************)
(* Headers.                                                                *)
(***************************************************************************)
LEMMA AppendType ==
  ASSUME NEW S, NEW s \in Seq(S), NEW e \in S
  PROVE  Append(s, e) \in Seq(S)
OBVIOUS

\* What Match leaves of the matched pieces.
LEMMA MatchType ==
  ASSUME NEW m \in Pieces, NEW c \in STRING, NEW words
  PROVE  Match(m, c, words) \in HeaderStates
<1>1. Append(m, c) \in Pieces
  BY AppendType DEF Pieces
<1> QED BY <1>1 DEF Match, HeaderStates

\* The pieces of the words the parser knows.
WordPieces ==
    {"con", "nection", "proxy", "-connection", "tent-length", "transfer", "-encoding", "up", "grade",
     "k", "eep-alive", "c", "lose", "hunked"}

LEMMA KnownFieldFacts ==
  ASSUME NEW w \in KnownFields
  PROVE  w \in Seq(WordPieces) /\ Len(w) = 2 /\ w[1] # "general"
<1>1. PICK a, b : a \in WordPieces /\ b \in WordPieces /\ w = <<a, b>> /\ a # "general"
  BY DEF KnownFields, Connection, ProxyConnection, ContentLength, TransferEncoding, Upgrade, WordPieces
<1> QED BY <1>1

LEMMA KnownHeaderFacts ==
  ASSUME NEW w \in KnownHeaders
  PROVE  w \in Seq(WordPieces) /\ Len(w) = 4 /\ w[1] # "general"
<1>1. PICK f \in {Connection, ProxyConnection, TransferEncoding} :
        w \in {f \o KeepAlive, f \o Close, f \o Chunked}
  <2>1. CASE w \in KeepAliveHeaders
    BY <2>1 DEF KeepAliveHeaders
  <2>2. CASE w \in CloseHeaders
    BY <2>2 DEF CloseHeaders
  <2>3. CASE w = ChunkedHeader
    BY <2>3 DEF ChunkedHeader
  <2>4. w \in KeepAliveHeaders \/ w \in CloseHeaders \/ w = ChunkedHeader
    BY DEF KnownHeaders
  <2> QED BY <2>1, <2>2, <2>3, <2>4
<1>2. f \in Seq(WordPieces) /\ Len(f) = 2 /\ f[1] # "general"
  BY <1>1, KnownFieldFacts DEF KnownFields
<1>3. /\ KeepAlive \in Seq(WordPieces) /\ Len(KeepAlive) = 2
      /\ Close \in Seq(WordPieces) /\ Len(Close) = 2
      /\ Chunked \in Seq(WordPieces) /\ Len(Chunked) = 2
  BY DEF KeepAlive, Close, Chunked, WordPieces
<1>4. PICK v \in {KeepAlive, Close, Chunked} : w = f \o v
  BY <1>1
<1>5. v \in Seq(WordPieces) /\ Len(v) = 2
  BY <1>3, <1>4
<1>6. w \in Seq(WordPieces) /\ Len(w) = Len(f) + Len(v)
  BY <1>2, <1>4, <1>5, ConcatProperties
<1>7. w[1] = f[1]
  BY <1>2, <1>4, <1>5
<1> QED BY <1>2, <1>5, <1>6, <1>7

LEMMA PrefixFirst ==
  ASSUME NEW S, NEW s, NEW T, s \in Seq(T), Len(s) > 0, NEW w \in Seq(S), IsPrefix(s, w)
  PROVE  w[1] = s[1]
<1>1. SubSeq(s, 1, Len(s))[1] = s[1] /\ SubSeq(w, 1, Len(s))[1] = w[1]
  BY DEF IsPrefix
<1> QED BY <1>1 DEF IsPrefix

LEMMA MatchGeneral ==
  ASSUME NEW c, NEW words \in {KnownFields, KnownHeaders}
  PROVE  Match(h_general, c, words) = h_general
<1>1. ASSUME NEW w \in words, IsPrefix(Append(h_general, c), w)
      PROVE  FALSE
  <2>1. PICK s : s = Append(h_general, c)
    OBVIOUS
  <2>2. s \in Seq({"general", c}) /\ Len(s) = 2 /\ s[1] = "general"
    BY <2>1 DEF h_general
  <2>3. w \in Seq(WordPieces) /\ w[1] # "general"
    BY KnownFieldFacts, KnownHeaderFacts
  <2>4. Len(s) > 0 /\ IsPrefix(s, w)
    BY <1>1, <2>1, <2>2
  <2>5. w[1] = s[1]
    BY <2>2, <2>3, <2>4, PrefixFirst
  <2> QED BY <2>2, <2>3, <2>5
<1> QED BY <1>1 DEF Match

LEMMA MatchState ==
  ASSUME NEW h \in HeaderStates, NEW c \in STRING, NEW words \in {KnownFields, KnownHeaders}
  PROVE  Match(h, c, words) \in HeaderStates
<1>1. CASE h = h_general
  BY <1>1, MatchGeneral DEF HeaderStates
<1>2. CASE h \in Pieces
  BY <1>2, MatchType
<1> QED BY <1>1, <1>2 DEF HeaderStates

\* Behind a name that is one of the known ones, a value is matched from its
\* third piece on.
LEMMA MatchValue ==
  ASSUME NEW h \in HeaderStates, h \in {h_general, ContentLength} \/ Len(h) >= 3 \/
                                 h \in {Connection, ProxyConnection, TransferEncoding},
         NEW c \in STRING, h # ContentLength
  PROVE  Match(h, c, KnownHeaders) = h_general \/ Len(Match(h, c, KnownHeaders)) >= 3
<1>1. CASE h = h_general
  BY <1>1, MatchGeneral
<1>2. CASE h # h_general
  <2>1. h \in Pieces
    BY <1>2 DEF HeaderStates
  <2>2. Len(h) \in Nat /\ Len(Append(h, c)) = Len(h) + 1
    BY <2>1 DEF Pieces
  <2>3. Len(h) >= 2
    <3>1. CASE h \in {Connection, ProxyConnection, TransferEncoding}
      <4>1. h \in KnownFields
        BY <3>1 DEF KnownFields
      <4> QED BY <4>1, KnownFieldFacts
    <3> QED BY <1>2, <2>2, <3>1
  <2>4. PICK m : m = Match(h, c, KnownHeaders)
    OBVIOUS
  <2>5. m = h_general \/ m = Append(h, c)
    BY <2>4 DEF Match
  <2>6. Len(Append(h, c)) >= 3
    BY <2>2, <2>3
  <2> QED BY <2>4, <2>5, <2>6
<1> QED BY <1>1, <1>2

LEMMA HeaderStateReady ==
  ASSUME NEW q \in http_parser, q.state \in PlainStates, q.http_errno = "HPE_OK",
         NEW h \in HeaderStates
  PROVE  Ready([q EXCEPT !.header_state = h])
<1>1. PICK r : r = [q EXCEPT !.header_state = h]
  OBVIOUS
<1>2. r \in http_parser /\ r.state = q.state /\ r.http_errno = q.http_errno
  BY <1>1 DEF http_parser
<1> QED BY <1>1, <1>2, PlainReady

LEMMA HeaderFieldStartStep ==
  ASSUME InRound, HeaderFieldStart
  PROVE  IndInv'
<1>1. {"s_headers_almost_done", "s_header_field"} \subseteq PlainStates
      /\ "s_headers_almost_done" \in ReexecutedStates
      /\ "header_field" \in Strings /\ "HPE_INVALID_HEADER_TOKEN" \in Errors
  BY DEF PlainStates, ReexecutedStates, Strings, Errors
<1> DEFINE q == [To("s_header_field") EXCEPT !.header_state = Match(<<>>, Ch, KnownFields)]
<1>2. Ready(q)
  <2>1. <<>> \in Pieces /\ Ch \in STRING
    BY RoundFacts DEF Pieces
  <2>2. Match(<<>>, Ch, KnownFields) \in HeaderStates
    BY <2>1, MatchType
  <2> QED BY <1>1, <2>2, ToPlain, HeaderStateReady
<1>3. \/ Consume(To("s_headers_almost_done"))
      \/ Reexecute(To("s_headers_almost_done"))
      \/ MARK("header_field", q)
      \/ Error("HPE_INVALID_HEADER_TOKEN")
  BY DEF HeaderFieldStart
<1>4. Ready(To("s_headers_almost_done")) /\ To("s_headers_almost_done").state \in ReexecutedStates
  BY <1>1, ToPlain
<1> HIDE DEF q
<1> QED BY <1>1, <1>2, <1>3, <1>4, ConsumeRound, ReexecuteRound, MarkRound, ErrorRound

LEMMA HeaderFieldStep ==
  ASSUME InRound, HeaderField
  PROVE  IndInv'
<1>1. {"s_header_field", "s_header_value_start", "s_header_almost_done", "s_header_field_start"}
        \subseteq PlainStates
      /\ "header_field" \in Strings /\ "HPE_INVALID_HEADER_TOKEN" \in Errors
  BY DEF PlainStates, Strings, Errors
<1>2. parser.state = "s_header_field"
  BY DEF HeaderField, At
<1> DEFINE q == [Counted EXCEPT !.header_state = Match(@, Ch, KnownFields)]
<1>3. Ready(q)
  <2>1. PICK c : c = Counted
    OBVIOUS
  <2>2. c \in http_parser /\ c.state \in PlainStates /\ c.http_errno = "HPE_OK"
    BY <1>1, <1>2, <2>1, CountedPlain
  <2>3. c.header_state \in HeaderStates
    BY <2>2 DEF http_parser
  <2>4. Match(c.header_state, Ch, KnownFields) \in HeaderStates
    BY <2>3, RoundFacts, MatchState
  <2>5. q = [c EXCEPT !.header_state = Match(c.header_state, Ch, KnownFields)]
    BY <2>1
  <2> QED BY <2>2, <2>4, <2>5, HeaderStateReady
<1>4. \/ Consume(q)
      \/ \E s \in {"s_header_value_start", "s_header_almost_done", "s_header_field_start"} :
           CALLBACK_DATA("header_field", To(s))
      \/ Error("HPE_INVALID_HEADER_TOKEN")
  BY DEF HeaderField
<1> HIDE DEF q
<1> QED BY <1>1, <1>3, <1>4, ToPlain, ConsumeRound, CallbackDataRound, ErrorRound

LEMMA ValueReady ==
  ASSUME NEW q \in http_parser, q.state = "s_header_value", q.http_errno = "HPE_OK",
         q.header_state \in {h_general, ContentLength} \/ Len(q.header_state) >= 3
  PROVE  Ready(q)
BY DEF Ready, Sound, LengthSound, ChunkSound, ValueSound, ChunkStates, LengthStates

\* Counting a byte keeps the parser ready, but where the count is asserted.
LEMMA CountedReady ==
  ASSUME InRound, parser.state # "s_chunk_size_start"
  PROVE  Ready(Counted)
<1>1. PICK c : c = Counted
  OBVIOUS
<1>2. /\ c \in http_parser /\ c.state = parser.state /\ c.header_state = parser.header_state
      /\ c.flags = parser.flags /\ c.content_length = parser.content_length
      /\ c.http_errno = parser.http_errno
  BY <1>1, CountedFacts, RoundFacts
<1>3. Ready(parser)
  BY RoundFacts
<1>4. LengthSound(c) /\ ChunkSound(c) /\ ValueSound(c)
  BY <1>2, <1>3 DEF Ready, Sound, LengthSound, ChunkSound, ValueSound
<1> QED BY <1>1, <1>2, <1>3, <1>4 DEF Ready, Sound

LEMMA SmallDigit ==
  ASSUME NEW c, unhex(c) # -1
  PROVE  unhex(c) \in Lengths /\ unhex(c) # ULLONG_MAX
<1>1. unhex(c) \in 0..13
  BY DigitFacts
<1> QED BY <1>1, UllongAssumption DEF Lengths

\* The callback without a string that ends an empty value.
LEMMA EmptyValueRound ==
  ASSUME InRound, NEW q, Ready(q), handle_http_callback(q, "header_value", <<>>, p + 1)
  PROVE  IndInv'
<1>1. p + 1 \in 0..Len(data) /\ <<>> \in Pieces /\ "header_value" \in Callbacks
  BY RoundFacts DEF Pieces, Callbacks, Strings
<1> QED BY <1>1, CallbackRound DEF Ready

LEMMA HeaderValueStartStep ==
  ASSUME InRound, HeaderValueStart
  PROVE  IndInv'
<1>1. /\ {"s_header_value_start", "s_header_almost_done", "s_header_field_start"}
           \subseteq PlainStates
      /\ "header_value" \in Strings /\ "HPE_INVALID_CONTENT_LENGTH" \in Errors
      /\ "s_header_value" \in States /\ "s_header_almost_done" \in States
  BY DEF PlainStates, Strings, Errors, States
<1>2. parser.state = "s_header_value_start"
  BY DEF HeaderValueStart, At
<1>3. PICK h : h = parser.header_state
  OBVIOUS
<1>4. PICK q : q = To("s_header_value")
  OBVIOUS
<1>5. q \in http_parser /\ q.state = "s_header_value" /\ q.http_errno = "HPE_OK"
      /\ q.header_state = h /\ h \in HeaderStates /\ Ch \in STRING /\ q.flags \in SUBSET Flags
  <2>1. q \in http_parser /\ q.state = "s_header_value" /\ q.http_errno = "HPE_OK"
        /\ q.header_state = h /\ Ch \in STRING
    BY <1>1, <1>3, <1>4, ToFacts, RoundFacts
  <2> QED BY <2>1 DEF http_parser
<1>6. PICK general : general = [q EXCEPT !.header_state = h_general]
  OBVIOUS
<1>7. /\ general \in http_parser /\ general.state = "s_header_value"
      /\ general.http_errno = "HPE_OK" /\ general.header_state = h_general
      /\ general.flags \in SUBSET Flags
  <2>1. h_general \in HeaderStates
    BY DEF HeaderStates
  <2> QED BY <1>5, <1>6, <2>1 DEF http_parser
<1>8. Ready([general EXCEPT !.state = "s_header_almost_done"])
  <2>1. PICK r : r = [general EXCEPT !.state = "s_header_almost_done"]
    OBVIOUS
  <2>2. r \in http_parser /\ r.state = "s_header_almost_done" /\ r.http_errno = "HPE_OK"
    BY <1>1, <1>7, <2>1 DEF http_parser
  <2> QED BY <1>1, <2>1, <2>2, PlainReady
<1> DEFINE upgraded == [general EXCEPT !.flags = @ \cup {"F_UPGRADE"}]
           length == [q EXCEPT !.content_length = unhex(Ch)]
           matched == [q EXCEPT !.header_state = Match(h, Ch, KnownHeaders)]
           next == CASE h = Upgrade -> upgraded
                     [] h = ContentLength -> length
                     [] h \in {Connection, ProxyConnection, TransferEncoding} -> matched
                     [] OTHER -> general
<1>9. Ready(upgraded)
  <2>1. PICK r : r = upgraded
    OBVIOUS
  <2>2. general.flags \cup {"F_UPGRADE"} \in SUBSET Flags
    BY <1>7 DEF Flags
  <2>3. r \in http_parser /\ r.state = "s_header_value" /\ r.http_errno = "HPE_OK"
        /\ r.header_state = h_general
    BY <1>7, <2>1, <2>2 DEF http_parser
  <2> QED BY <2>1, <2>3, ValueReady
<1>10. ASSUME h = ContentLength, IS_NUM(Ch)
       PROVE  Ready(length)
  <2>1. PICK r : r = length
    OBVIOUS
  <2>2. unhex(Ch) \in Lengths
    BY <1>10, DigitFacts, SmallDigit
  <2>3. r \in http_parser /\ r.state = "s_header_value" /\ r.http_errno = "HPE_OK"
        /\ r.header_state = h
    BY <1>5, <2>1, <2>2 DEF http_parser
  <2> QED BY <1>10, <2>1, <2>3, ValueReady
<1>11. ASSUME h \in {Connection, ProxyConnection, TransferEncoding}, h # ContentLength
       PROVE  Ready(matched)
  <2>1. PICK r : r = matched
    OBVIOUS
  <2>2. PICK m : m = Match(h, Ch, KnownHeaders)
    OBVIOUS
  <2>3. m \in HeaderStates /\ (m = h_general \/ Len(m) >= 3)
    BY <1>5, <1>11, <2>2, MatchState, MatchValue
  <2>4. r = [q EXCEPT !.header_state = m]
    BY <2>1, <2>2
  <2>5. r \in http_parser /\ r.state = "s_header_value" /\ r.http_errno = "HPE_OK"
        /\ r.header_state = m
    BY <1>5, <2>3, <2>4 DEF http_parser
  <2> QED BY <2>1, <2>3, <2>5, ValueReady
<1>12. Ready(general)
  BY <1>7, ValueReady
<1> HIDE DEF upgraded, length, matched
<1>13. (h = ContentLength => IS_NUM(Ch)) => Ready(next)
  <2>1. CASE h = Upgrade
    <3>1. h # ContentLength /\ h \notin {Connection, ProxyConnection, TransferEncoding}
      BY <2>1 DEF Upgrade, ContentLength, Connection, ProxyConnection, TransferEncoding
    <3> QED BY <1>9, <2>1, <3>1
  <2>2. CASE h = ContentLength
    <3>1. h # Upgrade /\ h \notin {Connection, ProxyConnection, TransferEncoding}
      BY <2>2 DEF Upgrade, ContentLength, Connection, ProxyConnection, TransferEncoding
    <3> QED BY <1>10, <2>2, <3>1
  <2>3. CASE h \notin {Upgrade, ContentLength}
    BY <1>11, <1>12, <2>3
  <2> QED BY <2>1, <2>2, <2>3
<1> HIDE DEF next
<1>14. \/ Consume(Counted)
       \/ handle_http_callback([general EXCEPT !.state = "s_header_almost_done"],
                               "header_value", <<>>, p + 1)
       \/ handle_http_callback(To("s_header_field_start"), "header_value", <<>>, p + 1)
       \/ Error("HPE_INVALID_CONTENT_LENGTH")
       \/ (h = ContentLength => IS_NUM(Ch)) /\ MARK("header_value", next)
  BY <1>3, <1>4, <1>6 DEF HeaderValueStart, next, upgraded, length, matched
<1>15. Ready(Counted) /\ Ready(To("s_header_field_start"))
  BY <1>1, <1>2, CountedPlain, ToPlain
<1> QED BY <1>1, <1>8, <1>13, <1>14, <1>15, ConsumeRound, EmptyValueRound, ErrorRound, MarkRound

LEMMA HeaderValueStep ==
  ASSUME InRound, HeaderValue
  PROVE  IndInv'
<1>1. /\ "s_header_almost_done" \in PlainStates /\ "header_value" \in Strings
      /\ "header_value" \in Callbacks /\ "HPE_INVALID_CONTENT_LENGTH" \in Errors
  BY DEF PlainStates, Strings, Callbacks, Errors
<1>2. parser.state = "s_header_value"
  BY DEF HeaderValue, At
<1>3. PICK h : h = parser.header_state
  OBVIOUS
<1>4. PICK c : c = Counted
  OBVIOUS
<1>5. /\ c \in http_parser /\ c.state = "s_header_value" /\ c.http_errno = "HPE_OK"
      /\ c.header_state = h /\ Ready(c)
  BY <1>2, <1>3, <1>4, CountedFacts, CountedReady, RoundFacts
<1>6. h \in HeaderStates /\ Ch \in STRING
  BY <1>5, RoundFacts DEF http_parser
<1>7. h \in {h_general, ContentLength} \/ Len(h) >= 3
  BY <1>5 DEF Ready, Sound, ValueSound
<1> DEFINE longer == [c EXCEPT !.content_length = LengthDigit(10, Ch)]
           matched == [c EXCEPT !.header_state = Match(h, Ch, KnownHeaders)]
           ok == IS_NUM(Ch) /\ ~LengthOverflows(10)
<1>8. ASSUME h = ContentLength
      PROVE  Ready(longer)
  <2>1. PICK r : r = longer
    OBVIOUS
  <2>2. LengthDigit(10, Ch) \in Lengths
    <3>1. parser.content_length * 10 + unhex(Ch) \in Int
      <4>1. parser.content_length \in Lengths
        BY RoundFacts DEF http_parser
      <4> QED BY <4>1, DigitFacts, UllongAssumption DEF Lengths
    <3> QED BY <3>1, UllongAssumption DEF LengthDigit, Lengths
  <2>3. r \in http_parser /\ r.state = "s_header_value" /\ r.http_errno = "HPE_OK"
        /\ r.header_state = h
    BY <1>5, <2>1, <2>2 DEF http_parser
  <2> QED BY <1>8, <2>1, <2>3, ValueReady
<1>9. ASSUME h # ContentLength
      PROVE  Ready(matched)
  <2>1. PICK r : r = matched
    OBVIOUS
  <2>2. PICK m : m = Match(h, Ch, KnownHeaders)
    OBVIOUS
  <2>3. m \in HeaderStates /\ (m = h_general \/ Len(m) >= 3)
    BY <1>6, <1>7, <1>9, <2>2, MatchState, MatchValue
  <2>4. r = [c EXCEPT !.header_state = m]
    BY <2>1, <2>2
  <2>5. r \in http_parser /\ r.state = "s_header_value" /\ r.http_errno = "HPE_OK"
        /\ r.header_state = m
    BY <1>5, <2>3, <2>4 DEF http_parser
  <2> QED BY <2>1, <2>3, <2>5, ValueReady
<1>10. \/ CALLBACK_DATA("header_value", To("s_header_almost_done"))
       \/ handle_http_callback(To("s_header_almost_done"), "header_value", Marked, p)
       \/ h = ContentLength /\ Expect(ok, longer, "HPE_INVALID_CONTENT_LENGTH")
       \/ Consume(c)
       \/ h # ContentLength /\ Consume(matched)
  <2>1. c.header_state = h
    BY <1>5
  <2>2. [Counted EXCEPT !.header_state = Match(h, Ch, KnownHeaders)] = matched
    BY <1>4
  <2> QED BY <1>3, <1>4, <2>2 DEF HeaderValue
<1>11. Ready(To("s_header_almost_done")) /\ Marked \in Pieces /\ p \in 0..Len(data) /\ ok \in BOOLEAN
  BY <1>1, ToPlain, MarkedType, RoundFacts
<1> HIDE DEF longer, matched, ok
<1>12. CASE handle_http_callback(To("s_header_almost_done"), "header_value", Marked, p)
  BY <1>1, <1>11, <1>12, CallbackRound DEF Ready
<1>13. CASE h = ContentLength /\ Expect(ok, longer, "HPE_INVALID_CONTENT_LENGTH")
  BY <1>1, <1>8, <1>11, <1>13, ExpectRound
<1> QED BY <1>1, <1>5, <1>9, <1>10, <1>11, <1>12, <1>13, CallbackDataRound, ConsumeRound

LEMMA HeaderAlmostDoneStep ==
  ASSUME InRound, HeaderAlmostDone
  PROVE  IndInv'
<1>1. "s_header_value_lws" \in PlainStates /\ "HPE_STRICT" \in Errors
  BY DEF PlainStates, Errors
<1>2. PICK q : q = To("s_header_value_lws")
  OBVIOUS
<1>3. q \in http_parser /\ q.state \in PlainStates /\ q.http_errno = "HPE_OK"
  BY <1>1, <1>2, ToPlain
<1>4. FlagOf(parser.header_state) \subseteq Flags
  BY DEF FlagOf, Flags
<1>5. q.flags \cup FlagOf(parser.header_state) \in SUBSET Flags
  <2>1. q.flags \in SUBSET Flags
    BY <1>3 DEF http_parser
  <2> QED BY <1>4, <2>1
<1>6. PICK r : r = [q EXCEPT !.flags = @ \cup FlagOf(parser.header_state)]
  OBVIOUS
<1>7. r \in http_parser /\ r.state = q.state /\ r.http_errno = q.http_errno
  BY <1>3, <1>5, <1>6 DEF http_parser
<1>8. Ready(r)
  BY <1>3, <1>7, PlainReady
<1>9. Expect(Ch = "LF", r, "HPE_STRICT")
  BY <1>2, <1>6 DEF HeaderAlmostDone
<1> QED BY <1>1, <1>8, <1>9, ExpectRound

LEMMA HeaderValueLwsStep ==
  ASSUME InRound, HeaderValueLws
  PROVE  IndInv'
<1>1. {"s_header_value_start", "s_header_field_start"} \subseteq PlainStates
      /\ "s_header_field_start" \in ReexecutedStates
  BY DEF PlainStates, ReexecutedStates
<1> QED BY <1>1, ToPlain, ConsumeRound, ReexecuteRound DEF HeaderValueLws

\* The end of a message leaves a parser that may be dead.
LEMMA NewMessage ==
  ASSUME NEW q \in http_parser, q.http_errno = "HPE_OK"
  PROVE  Sound(NEW_MESSAGE(q)) /\ NEW_MESSAGE(q).http_errno = "HPE_OK"
<1> DEFINE s == IF http_should_keep_alive(q) THEN start_state(q) ELSE "s_dead"
<1>1. s \in {"s_start_req", "s_start_res", "s_dead"}
  BY DEF start_state, http_parser_init
<1>2. s \in States /\ s \notin AssertedStates
  BY <1>1 DEF States, AssertedStates, ChunkStates, LengthStates
<1>3. PICK r : r = [q EXCEPT !.state = s]
  OBVIOUS
<1>4. NEW_MESSAGE(q) = r
  BY <1>3 DEF NEW_MESSAGE
<1> HIDE DEF s
<1>5. r \in http_parser /\ r.state = s /\ r.http_errno = "HPE_OK"
  BY <1>2, <1>3 DEF http_parser
<1>6. Sound(r)
  BY <1>2, <1>5 DEF Sound, LengthSound, ChunkSound, ValueSound, AssertedStates, ChunkStates,
       LengthStates
<1> QED BY <1>4, <1>5, <1>6

LEMMA MessageCompleteRound ==
  ASSUME InRound, NEW q \in http_parser, q.http_errno = "HPE_OK",
         CALLBACK_NOTIFY("message_complete", NEW_MESSAGE(q))
  PROVE  IndInv'
<1>1. "message_complete" \in Callbacks
  BY DEF Callbacks
<1> QED BY <1>1, NewMessage, NotifyRound

LEMMA HeadersAlmostDoneStep ==
  ASSUME InRound, HeadersAlmostDone
  PROVE  IndInv'
<1>1. "s_headers_done" \in PlainStates /\ "HPE_STRICT" \in Errors /\ "headers_complete" \in Callbacks
  BY DEF PlainStates, Errors, Callbacks
<1> DEFINE upgrade == "F_UPGRADE" \in parser.flags \/ parser.method = CONNECT
           q == [To("s_headers_done") EXCEPT !.upgrade = upgrade]
<1>2. Ready(q)
  <2>1. PICK t : t = To("s_headers_done")
    OBVIOUS
  <2>2. t \in http_parser /\ t.state \in PlainStates /\ t.http_errno = "HPE_OK"
    BY <1>1, <2>1, ToPlain
  <2>3. upgrade \in BOOLEAN
    OBVIOUS
  <2> HIDE DEF upgrade
  <2>4. PICK r : r = [t EXCEPT !.upgrade = upgrade]
    OBVIOUS
  <2>5. r \in http_parser /\ r.state = t.state /\ r.http_errno = t.http_errno
    BY <2>2, <2>3, <2>4 DEF http_parser
  <2> QED BY <2>1, <2>2, <2>4, <2>5, PlainReady
<1>3. \/ Error("HPE_STRICT")
      \/ CALLBACK_NOTIFY("message_complete", NEW_MESSAGE(Counted))
      \/ CALLBACK_NOTIFY_NOADVANCE("headers_complete", q)
  BY DEF HeadersAlmostDone
<1>4. Counted \in http_parser /\ Counted.http_errno = "HPE_OK"
  BY CountedFacts, RoundFacts
<1> HIDE DEF q
<1>5. CASE CALLBACK_NOTIFY_NOADVANCE("headers_complete", q)
  BY <1>1, <1>2, <1>5, NotifyRound DEF Ready
<1> QED BY <1>1, <1>3, <1>4, <1>5, ErrorRound, MessageCompleteRound

LEMMA HeadersDoneStep ==
  ASSUME InRound, HeadersDone
  PROVE  IndInv'
<1>1. "HPE_STRICT" \in Errors
  BY DEF Errors
<1>2. PICK q : q = [Counted EXCEPT !.nread = 0]
  OBVIOUS
<1>3. q \in http_parser /\ q.http_errno = "HPE_OK" /\ q.nread = 0
  <2>1. PICK c : c = Counted
    OBVIOUS
  <2>2. c \in http_parser /\ c.http_errno = "HPE_OK" /\ q = [c EXCEPT !.nread = 0]
    BY <1>2, <2>1, CountedFacts, RoundFacts
  <2> QED BY <2>2 DEF http_parser
<1> DEFINE R(s) == [q EXCEPT !.state = s]
<1>4. ASSUME NEW s \in {"s_chunk_size_start", "s_body_identity", "s_body_identity_eof"}
      PROVE  /\ R(s) \in http_parser /\ R(s).state = s /\ R(s).http_errno = "HPE_OK"
             /\ R(s).nread = 0 /\ R(s).flags = q.flags /\ R(s).content_length = q.content_length
  <2>1. s \in States
    BY DEF States
  <2> QED BY <1>3, <2>1 DEF http_parser
<1>5. "F_CHUNKED" \in q.flags => Ready(R("s_chunk_size_start"))
  BY <1>4 DEF Ready, Sound, LengthSound, ChunkSound, ValueSound, ChunkStates, LengthStates
<1>6. q.content_length \notin {0, ULLONG_MAX} => Ready(R("s_body_identity"))
  BY <1>4 DEF Ready, Sound, LengthSound, ChunkSound, ValueSound, ChunkStates, LengthStates
<1>7. Ready(R("s_body_identity_eof"))
  BY <1>4 DEF Ready, Sound, LengthSound, ChunkSound, ValueSound, ChunkStates, LengthStates
<1>8. \/ Error("HPE_STRICT")
      \/ CALLBACK_NOTIFY("message_complete", NEW_MESSAGE(q))
      \/ "F_CHUNKED" \in q.flags /\ Consume(R("s_chunk_size_start"))
      \/ q.content_length \notin {0, ULLONG_MAX} /\ Consume(R("s_body_identity"))
      \/ Consume(R("s_body_identity_eof"))
  BY <1>2 DEF HeadersDone
<1> HIDE DEF R
<1> QED BY <1>1, <1>3, <1>5, <1>6, <1>7, <1>8, ErrorRound, MessageCompleteRound, ConsumeRound

(***************************************************************************)
(* Bodies.                                                                 *)
(***************************************************************************)
\* What is taken of a body is not empty and lies within the buffer.
LEMMA ToRead ==
  ASSUME InRound, parser.state \in {"s_body_identity", "s_chunk_data"}
  PROVE  /\ parser.content_length \in 1..ULLONG_MAX - 1
         /\ to_read \in 1..parser.content_length
         /\ p + to_read \in 1..Len(data)
<1>1. parser.content_length \in 0..ULLONG_MAX /\ parser.content_length \notin {0, ULLONG_MAX}
  <2>1. parser.content_length \in Lengths
    BY RoundFacts DEF http_parser
  <2> QED BY <2>1, RoundFacts DEF Ready, Sound, LengthSound, Lengths
<1>2. parser.content_length \in 1..ULLONG_MAX - 1
  BY <1>1, UllongAssumption
<1>3. p \in Nat /\ Len(data) \in Nat /\ p < Len(data)
  BY RoundFacts
<1>4. CASE parser.content_length < Len(data) - p
  BY <1>2, <1>3, <1>4, UllongAssumption DEF to_read
<1>5. CASE ~(parser.content_length < Len(data) - p)
  BY <1>2, <1>3, <1>5, UllongAssumption DEF to_read
<1> QED BY <1>2, <1>4, <1>5

LEMMA BodyMarkType ==
  ASSUME InRound
  PROVE  BodyMark \in [of : Strings \cup {"none"}, at : 0..p]
<1>1. "body" \in Strings \cup {"none"} /\ p \in 0..p
  BY RoundFacts DEF Strings
<1>2. CASE BodyMark = mark
  BY <1>2, RoundFacts
<1>3. CASE BodyMark = [of |-> "body", at |-> p]
  BY <1>1, <1>3
<1> QED BY <1>2, <1>3 DEF BodyMark

LEMMA TakeBodyRound ==
  ASSUME InRound, parser.state \in {"s_body_identity", "s_chunk_data"}, NEW s,
         \/ to_read < parser.content_length
         \/ parser.state = "s_chunk_data" /\ s = "s_chunk_data_almost_done",
         TakeBody(s)
  PROVE  IndInv'
<1> DEFINE t == IF parser.content_length = to_read THEN s ELSE parser.state
           n == parser.content_length - to_read
<1>1. n \in Lengths /\ n # ULLONG_MAX /\ (n = 0 <=> parser.content_length = to_read)
  BY ToRead, UllongAssumption DEF Lengths
<1>2. t \in States
  BY ToRead, <1>1 DEF States
<1>3. PICK r : r = parser'
  OBVIOUS
<1>4. r = [parser EXCEPT !.content_length = n, !.state = t]
  <2>1. parser \in http_parser
    BY RoundFacts
  <2> QED BY <1>3, <2>1 DEF TakeBody, http_parser
<1>5. IF parser.content_length = to_read
        THEN parser.state = "s_chunk_data" /\ t = "s_chunk_data_almost_done"
        ELSE t = parser.state
  BY ToRead
<1> HIDE DEF t, n
<1>6. /\ r \in http_parser /\ r.state = t /\ r.content_length = n /\ r.flags = parser.flags
      /\ r.http_errno = "HPE_OK"
  <2>1. parser \in http_parser /\ parser.http_errno = "HPE_OK"
    BY RoundFacts
  <2> QED BY <1>1, <1>2, <1>4, <2>1 DEF http_parser
<1>7. Ready(r)
  <2>1. ChunkSound(parser)
    BY RoundFacts DEF Ready, Sound
  <2>2. t \in {"s_body_identity", "s_chunk_data", "s_chunk_data_almost_done"}
    BY <1>5
  <2>3. t # "s_body_identity" => "F_CHUNKED" \in parser.flags
    BY <1>5, <2>1 DEF ChunkSound, ChunkStates
  <2>4. ChunkSound(r) /\ ValueSound(r)
    BY <1>6, <2>2, <2>3 DEF ChunkSound, ValueSound, ChunkStates, LengthStates
  <2>5. LengthSound(r)
    BY <1>1, <1>5, <1>6, <2>2 DEF LengthSound, LengthStates
  <2> QED BY <1>6, <2>2, <2>4, <2>5 DEF Ready, Sound
<1>8. ParserTypeOK'
  <2>1. p + to_read \in 0..Len(data)
    BY ToRead, RoundFacts
  <2>2. BodyMark \in [of : Strings \cup {"none"}, at : 0..(p + to_read)]
    BY BodyMarkType, ToRead, RoundFacts
  <2> QED BY <1>3, <1>6, <2>1, <2>2, RoundFacts DEF TakeBody, ParserTypeOK
<1>9. InCall' /\ nparsed' = Running /\ data' = data
  BY <1>3, <1>7, RoundFacts DEF TakeBody, InCall
<1> QED BY <1>8, <1>9, ReaderKept DEF IndInv

LEMMA BodyIdentityStep ==
  ASSUME InRound, BodyIdentity
  PROVE  IndInv'
<1>1. parser.state = "s_body_identity"
  BY DEF BodyIdentity, At
<1>2. CASE to_read < parser.content_length
  BY <1>1, <1>2, TakeBodyRound DEF BodyIdentity
<1>3. CASE ~(to_read < parser.content_length)
  <2>1. PICK q : q = [parser EXCEPT !.content_length = 0, !.state = "s_message_done"]
    OBVIOUS
  <2>2. 0 \in Lengths /\ "s_message_done" \in States /\ "s_message_done" \in PlainStates
        /\ "body" \in Callbacks
    BY UllongAssumption DEF Lengths, States, PlainStates, Callbacks, Strings
  <2>3. q \in http_parser /\ q.state = "s_message_done" /\ q.http_errno = "HPE_OK"
    <3>1. parser \in http_parser /\ parser.http_errno = "HPE_OK"
      BY RoundFacts
    <3> QED BY <2>1, <2>2, <3>1 DEF http_parser
  <2>4. Ready(q)
    BY <2>2, <2>3, PlainReady
  <2>5. SubSeq(data, BodyMark.at + 1, p + to_read) \in Pieces
    <3>1. BodyMark.at \in 0..p
      BY BodyMarkType
    <3> QED BY <1>1, <3>1, ToRead, RoundFacts DEF Pieces
  <2>6. p + to_read - 1 \in 0..Len(data)
    BY <1>1, ToRead, RoundFacts
  <2>7. handle_http_callback(q, "body", SubSeq(data, BodyMark.at + 1, p + to_read), p + to_read - 1)
    BY <1>3, <2>1 DEF BodyIdentity
  <2> QED BY <2>2, <2>4, <2>5, <2>6, <2>7, CallbackRound DEF Ready
<1> QED BY <1>2, <1>3

LEMMA BodyIdentityEofStep ==
  ASSUME InRound, BodyIdentityEof
  PROVE  IndInv'
<1>1. ParserTypeOK'
  <2>1. BodyMark \in [of : Strings \cup {"none"}, at : 0..Len(data)]
    BY BodyMarkType, RoundFacts
  <2>2. /\ p' = Len(data) /\ mark' = BodyMark /\ again' = FALSE /\ parser' = parser
        /\ data' = data /\ cb' = cb /\ nparsed' = Running
    BY RoundFacts DEF BodyIdentityEof
  <2>3. p' \in 0..Len(data')
    BY <2>2, RoundFacts
  <2> QED BY <2>1, <2>2, <2>3, RoundFacts DEF ParserTypeOK
<1>2. InCall' /\ nparsed' = Running /\ data' = data
  BY RoundFacts DEF BodyIdentityEof, InCall
<1> QED BY <1>1, <1>2, ReaderKept DEF IndInv

LEMMA MessageDoneStep ==
  ASSUME InRound, MessageDone
  PROVE  IndInv'
BY RoundFacts, MessageCompleteRound DEF MessageDone

(***************************************************************************)
(* Chunks.                                                                 *)
(***************************************************************************)
\* One more digit keeps a length below its largest value, which stands for
\* "no length given", when the test before it has passed.
LEMMA LengthGrows ==
  ASSUME InRound, NEW c, unhex(c) # -1, ~LengthOverflows(16)
  PROVE  LengthDigit(16, c) \in Lengths /\ LengthDigit(16, c) # ULLONG_MAX
<1>1. PICK n : n = parser.content_length
  OBVIOUS
<1>2. PICK d : d = unhex(c)
  OBVIOUS
<1>3. n \in Nat /\ d \in 0..13 /\ ULLONG_MAX \in Nat /\ ULLONG_MAX > 16
  <2>1. parser.content_length \in Lengths
    BY RoundFacts DEF http_parser
  <2> QED BY <1>1, <1>2, <2>1, DigitFacts, UllongAssumption DEF Lengths
<1>4. n <= (ULLONG_MAX - 16) \div 16
  BY <1>1, <1>3 DEF LengthOverflows
<1>5. n * 16 + d \in 0..ULLONG_MAX - 1
  BY <1>3, <1>4
<1>6. LengthDigit(16, c) = n * 16 + d
  <2>1. (n * 16 + d) % (ULLONG_MAX + 1) = n * 16 + d
    BY <1>3, <1>5
  <2> QED BY <1>1, <1>2, <2>1 DEF LengthDigit
<1> QED BY <1>3, <1>5, <1>6 DEF Lengths

\* A chunked parser in a state where only its length is asserted.
LEMMA ChunkReady ==
  ASSUME NEW q \in http_parser, q.http_errno = "HPE_OK", "F_CHUNKED" \in q.flags,
         q.state \in LengthStates /\ q.content_length # ULLONG_MAX
  PROVE  Ready(q)
BY DEF Ready, Sound, LengthSound, ChunkSound, ValueSound, ChunkStates, LengthStates

LEMMA ChunkFacts ==
  ASSUME InRound, parser.state \in ChunkStates
  PROVE  /\ "F_CHUNKED" \in parser.flags
         /\ parser.state \in LengthStates => parser.content_length # ULLONG_MAX
         /\ parser.content_length \in Lengths
         /\ parser.flags \in SUBSET Flags
<1>1. parser \in http_parser /\ Ready(parser)
  BY RoundFacts
<1> QED BY <1>1 DEF Ready, Sound, ChunkSound, LengthSound, http_parser

LEMMA ChunkSizeStartStep ==
  ASSUME InRound, ChunkSizeStart
  PROVE  IndInv'
<1>1. "s_chunk_size" \in LengthStates /\ "s_chunk_size" \in States
      /\ "HPE_INVALID_CHUNK_SIZE" \in Errors /\ "s_chunk_size_start" \in ChunkStates
  BY DEF LengthStates, States, Errors, ChunkStates
<1>2. parser.state = "s_chunk_size_start"
  BY DEF ChunkSizeStart, At
<1>3. PICK q : q = To("s_chunk_size")
  OBVIOUS
<1>4. q \in http_parser /\ q.state = "s_chunk_size" /\ q.http_errno = "HPE_OK"
      /\ "F_CHUNKED" \in q.flags
  BY <1>1, <1>2, <1>3, ToFacts, RoundFacts, ChunkFacts
<1>5. PICK r : r = [q EXCEPT !.content_length = unhex(Ch)]
  OBVIOUS
<1>6. unhex(Ch) # -1 => Ready(r)
  <2>1. SUFFICES ASSUME unhex(Ch) # -1
                 PROVE  Ready(r)
    OBVIOUS
  <2>2. PICK d : d = unhex(Ch)
    OBVIOUS
  <2>3. d \in Lengths /\ d # ULLONG_MAX
    BY <2>1, <2>2, SmallDigit
  <2>4. r \in http_parser /\ r.state = "s_chunk_size" /\ r.http_errno = "HPE_OK"
        /\ r.flags = q.flags /\ r.content_length = d
    BY <1>4, <1>5, <2>2, <2>3 DEF http_parser
  <2> QED BY <1>1, <1>4, <2>3, <2>4, ChunkReady
<1>7. Expect(unhex(Ch) # -1, r, "HPE_INVALID_CHUNK_SIZE")
  BY <1>3, <1>5 DEF ChunkSizeStart
<1>8. (unhex(Ch) # -1) \in BOOLEAN
  OBVIOUS
<1> QED BY <1>1, <1>6, <1>7, <1>8, ExpectRound

\* Between the states in which a chunk's length is known.
LEMMA ToLength ==
  ASSUME InRound, parser.state \in LengthStates, NEW s \in LengthStates
  PROVE  Ready(To(s))
<1>1. s \in States /\ parser.state \in ChunkStates
  BY DEF LengthStates, States, ChunkStates
<1>2. /\ To(s) \in http_parser /\ To(s).state = s /\ To(s).http_errno = "HPE_OK"
      /\ To(s).flags = parser.flags /\ To(s).content_length = parser.content_length
  BY <1>1, ToFacts, RoundFacts
<1> QED BY <1>1, <1>2, ChunkFacts, ChunkReady

LEMMA ChunkSizeStep ==
  ASSUME InRound, ChunkSize
  PROVE  IndInv'
<1>1. /\ {"s_chunk_size", "s_chunk_size_almost_done", "s_chunk_parameters"} \subseteq LengthStates
      /\ {"HPE_INVALID_CHUNK_SIZE", "HPE_INVALID_CONTENT_LENGTH"} \subseteq Errors
      /\ LengthStates \subseteq ChunkStates
  BY DEF LengthStates, Errors, ChunkStates
<1>2. parser.state = "s_chunk_size"
  BY DEF ChunkSize, At
<1>3. PICK c : c = Counted
  OBVIOUS
<1>4. c \in http_parser /\ c.state = "s_chunk_size" /\ c.http_errno = "HPE_OK"
      /\ "F_CHUNKED" \in c.flags
  BY <1>1, <1>2, <1>3, CountedFacts, RoundFacts, ChunkFacts
<1>5. PICK r : r = [c EXCEPT !.content_length = LengthDigit(16, Ch)]
  OBVIOUS
<1>6. (unhex(Ch) # -1 /\ ~LengthOverflows(16)) => Ready(r)
  <2>1. SUFFICES ASSUME unhex(Ch) # -1, ~LengthOverflows(16)
                 PROVE  Ready(r)
    OBVIOUS
  <2>2. PICK d : d = LengthDigit(16, Ch)
    OBVIOUS
  <2>3. d \in Lengths /\ d # ULLONG_MAX
    BY <2>1, <2>2, LengthGrows
  <2>4. r \in http_parser /\ r.state = "s_chunk_size" /\ r.http_errno = "HPE_OK"
        /\ r.flags = c.flags /\ r.content_length = d
    BY <1>4, <1>5, <2>2, <2>3 DEF http_parser
  <2> QED BY <1>1, <1>4, <2>3, <2>4, ChunkReady
<1>7. \/ Consume(To("s_chunk_size_almost_done"))
      \/ Consume(To("s_chunk_parameters"))
      \/ unhex(Ch) # -1 /\ Expect(~LengthOverflows(16), r, "HPE_INVALID_CONTENT_LENGTH")
      \/ Error("HPE_INVALID_CHUNK_SIZE")
  BY <1>3, <1>5 DEF ChunkSize
<1>8. Ready(To("s_chunk_size_almost_done")) /\ Ready(To("s_chunk_parameters"))
      /\ (~LengthOverflows(16)) \in BOOLEAN
  BY <1>1, <1>2, ToLength
<1>9. CASE unhex(Ch) # -1 /\ Expect(~LengthOverflows(16), r, "HPE_INVALID_CONTENT_LENGTH")
  BY <1>1, <1>6, <1>8, <1>9, ExpectRound
<1> QED BY <1>1, <1>7, <1>8, <1>9, ConsumeRound, ErrorRound

LEMMA ChunkParametersStep ==
  ASSUME InRound, ChunkParameters
  PROVE  IndInv'
<1>1. {"s_chunk_parameters", "s_chunk_size_almost_done"} \subseteq LengthStates
  BY DEF LengthStates
<1>2. parser.state = "s_chunk_parameters"
  BY DEF ChunkParameters, At
<1>3. Consume(To("s_chunk_size_almost_done")) \/ Consume(Counted)
  BY DEF ChunkParameters
<1> QED BY <1>1, <1>2, <1>3, ToLength, CountedReady, ConsumeRound

LEMMA ChunkSizeAlmostDoneStep ==
  ASSUME InRound, ChunkSizeAlmostDone
  PROVE  IndInv'
<1>1. /\ "s_chunk_size_almost_done" \in LengthStates /\ LengthStates \subseteq ChunkStates
      /\ "s_header_field_start" \in PlainStates /\ "s_chunk_data" \in States
      /\ "s_header_field_start" \in States /\ "HPE_STRICT" \in Errors /\ "F_TRAILING" \in Flags
  BY DEF LengthStates, ChunkStates, PlainStates, States, Errors, Flags
<1>2. parser.state = "s_chunk_size_almost_done"
  BY DEF ChunkSizeAlmostDone, At
<1>3. /\ "F_CHUNKED" \in parser.flags /\ parser.content_length # ULLONG_MAX
      /\ parser.flags \in SUBSET Flags
  BY <1>1, <1>2, ChunkFacts
<1>4. PICK q : q = [To("s_header_field_start") EXCEPT !.nread = 0, !.flags = @ \cup {"F_TRAILING"}]
  OBVIOUS
<1>5. Ready(q)
  <2>1. PICK t : t = To("s_header_field_start")
    OBVIOUS
  <2>2. t \in http_parser /\ t.state = "s_header_field_start" /\ t.http_errno = "HPE_OK"
        /\ t.flags = parser.flags
    BY <1>1, <2>1, ToFacts, RoundFacts
  <2>3. t.flags \cup {"F_TRAILING"} \in SUBSET Flags
    BY <1>1, <1>3, <2>2
  <2>4. q \in http_parser /\ q.state = "s_header_field_start" /\ q.http_errno = "HPE_OK"
    BY <1>4, <2>1, <2>2, <2>3 DEF http_parser
  <2> QED BY <1>1, <2>4, PlainReady
<1>6. PICK r : r = [To("s_chunk_data") EXCEPT !.nread = 0]
  OBVIOUS
<1>7. parser.content_length # 0 => Ready(r)
  <2>1. PICK t : t = To("s_chunk_data")
    OBVIOUS
  <2>2. t \in http_parser /\ t.state = "s_chunk_data" /\ t.http_errno = "HPE_OK"
        /\ t.flags = parser.flags /\ t.content_length = parser.content_length
    BY <1>1, <2>1, ToFacts, RoundFacts
  <2>3. r \in http_parser /\ r.state = "s_chunk_data" /\ r.http_errno = "HPE_OK"
        /\ r.flags = parser.flags /\ r.content_length = parser.content_length
    BY <1>6, <2>1, <2>2 DEF http_parser
  <2> QED BY <1>3, <2>3 DEF Ready, Sound, LengthSound, ChunkSound, ValueSound, LengthStates
<1>8. PICK next : next = IF parser.content_length = 0 THEN q ELSE r
  OBVIOUS
<1>9. Ready(next) /\ Expect(Ch = "LF", next, "HPE_STRICT")
  BY <1>4, <1>5, <1>6, <1>7, <1>8 DEF ChunkSizeAlmostDone
<1> QED BY <1>1, <1>9, ExpectRound

LEMMA ChunkDataStep ==
  ASSUME InRound, ChunkData
  PROVE  IndInv'
BY TakeBodyRound DEF ChunkData, At

LEMMA ChunkDataAlmostDoneStep ==
  ASSUME InRound, ChunkDataAlmostDone
  PROVE  IndInv'
<1>1. /\ "s_chunk_data_almost_done" \in ChunkStates /\ "s_chunk_data_done" \in States
      /\ "body" \in Strings /\ "HPE_STRICT" \in Errors
  BY DEF ChunkStates, States, Strings, Errors
<1>2. parser.state = "s_chunk_data_almost_done"
  BY DEF ChunkDataAlmostDone, At
<1>3. PICK q : q = To("s_chunk_data_done")
  OBVIOUS
<1>4. q \in http_parser /\ q.state = "s_chunk_data_done" /\ q.http_errno = "HPE_OK"
      /\ "F_CHUNKED" \in q.flags
  BY <1>1, <1>2, <1>3, ToFacts, RoundFacts, ChunkFacts
<1>5. Ready(q)
  BY <1>4 DEF Ready, Sound, LengthSound, ChunkSound, ValueSound, LengthStates
<1>6. CALLBACK_DATA("body", q) \/ Error("HPE_STRICT")
  BY <1>3 DEF ChunkDataAlmostDone
<1> QED BY <1>1, <1>5, <1>6, CallbackDataRound, ErrorRound

LEMMA ChunkDataDoneStep ==
  ASSUME InRound, ChunkDataDone
  PROVE  IndInv'
<1>1. /\ "s_chunk_data_done" \in ChunkStates /\ "s_chunk_size_start" \in States
      /\ "HPE_STRICT" \in Errors
  BY DEF ChunkStates, States, Errors
<1>2. parser.state = "s_chunk_data_done"
  BY DEF ChunkDataDone, At
<1>3. PICK t : t = To("s_chunk_size_start")
  OBVIOUS
<1>4. t \in http_parser /\ t.state = "s_chunk_size_start" /\ t.http_errno = "HPE_OK"
      /\ "F_CHUNKED" \in t.flags
  BY <1>1, <1>2, <1>3, ToFacts, RoundFacts, ChunkFacts
<1>5. PICK q : q = [t EXCEPT !.nread = 0]
  OBVIOUS
<1>6. q \in http_parser /\ q.state = "s_chunk_size_start" /\ q.http_errno = "HPE_OK"
      /\ "F_CHUNKED" \in q.flags /\ q.nread = 0
  BY <1>4, <1>5 DEF http_parser
<1>7. Ready(q)
  BY <1>6 DEF Ready, Sound, LengthSound, ChunkSound, ValueSound, LengthStates
<1>8. Expect(Ch = "LF", q, "HPE_STRICT")
  BY <1>3, <1>5 DEF ChunkDataDone
<1> QED BY <1>1, <1>7, <1>8, ExpectRound

\* The end of the data, in the middle of a string or not.
LEMMA EndOfDataStep ==
  ASSUME IndInv, at = "parse", EndOfData,
         UNCHANGED <<source, rcvd, content, req, phase, streamed, at>>
  PROVE  IndInv'
<1>1. /\ Ready(parser) /\ parser \in http_parser /\ nparsed = Running /\ p = Len(data)
      /\ data \in Pieces /\ Len(data) \in Nat /\ mark \in [of : Strings \cup {"none"}, at : 0..p]
      /\ again \in BOOLEAN /\ cb \in [type : Callbacks, str : Pieces]
  BY DEF EndOfData, IndInv, InCall, ParserTypeOK, Pieces
<1>2. ReaderTypeOK' /\ LeftoverExact' /\ at' = "parse" /\ data = content /\ content' = content
  BY DEF IndInv, ReaderTypeOK, LeftoverExact
<1>3. CASE mark.of = "none"
  <2>1. nparsed' = Len(data) /\ UNCHANGED <<parser, data, p, mark, again, cb>>
    BY <1>3 DEF EndOfData
  <2>2. ParserTypeOK' /\ nparsed' # Running
    BY <1>1, <2>1 DEF ParserTypeOK, Running
  <2>3. Returned'
    BY <1>1, <2>1 DEF Returned
  <2> QED BY <1>2, <2>1, <2>2, <2>3 DEF IndInv
<1>4. CASE mark.of # "none"
  <2>1. handle_http_callback(parser, mark.of, Marked, p)
    BY <1>4 DEF EndOfData
  <2>2. Sound(parser') /\ parser'.state = parser.state /\ parser'.http_errno = "HPE_PAUSED"
    BY <1>1, <2>1, PauseFacts DEF handle_http_callback, Ready
  <2>3. Marked \in Pieces
    BY <1>1 DEF Marked, Pieces
  <2>4. cb' \in [type : Callbacks, str : Pieces]
    <3>1. mark.of \in Callbacks
      BY <1>1, <1>4 DEF Callbacks
    <3> QED BY <2>1, <2>3, <3>1 DEF handle_http_callback
  <2>5. ParserTypeOK' /\ nparsed' # Running
    <3>1. UNCHANGED <<data, p, mark, again>> /\ nparsed' = p /\ parser' \in http_parser
      BY <2>1, <2>2 DEF handle_http_callback, Sound
    <3>2. nparsed' \in 0..Len(data') /\ nparsed' # Running
      BY <1>1, <3>1 DEF Running
    <3> QED BY <1>1, <2>4, <3>1, <3>2 DEF ParserTypeOK
  <2>6. parser'.state # "s_dead"
    BY <1>1, <2>2 DEF Ready
  <2>7. Returned'
    BY <2>2, <2>6 DEF Returned
  <2>8. data' = data
    BY <2>1 DEF handle_http_callback
  <2> QED BY <1>2, <2>5, <2>7, <2>8 DEF IndInv
<1> QED BY <1>3, <1>4

\* Only at the end of the buffer is there no byte to look at.
LEMMA RoundInLoop ==
  ASSUME Execute, ~EndOfData
  PROVE  InLoop
<1>1. (HeaderOverflow \/ StartRes \/ ResHTTP \/ ResLineAlmostDone \/ ReqLineAlmostDone \/ StartReq \/ ReqMethod) => InLoop
  BY DEF At, HeaderOverflow, StartRes, ResHTTP, ResLineAlmostDone, ReqLineAlmostDone, StartReq, ReqMethod
<1>2. (ResMajor \/ ResMinor \/ ResStatusCode) => InLoop
  BY DEF At, ResMajor, ResMinor, ResStatusCode
<1>3. (ReqHTTP \/ ReqMajor \/ ReqMinor \/ ResStatus) => InLoop
  BY DEF At, ReqHTTP, ReqMajor, ReqMinor, ResStatus
<1>4. (ReqSpacesBeforeUrl \/ ReqUrl) => InLoop
  BY DEF At, ReqSpacesBeforeUrl, ReqUrl
<1>5. (HeaderFieldStart \/ HeaderField \/ HeaderValueStart) => InLoop
  BY DEF At, HeaderFieldStart, HeaderField, HeaderValueStart
<1>6. (HeaderValue) => InLoop
  BY DEF At, HeaderValue
<1>7. (HeaderAlmostDone \/ HeaderValueLws \/ HeadersAlmostDone) => InLoop
  BY DEF At, HeaderAlmostDone, HeaderValueLws, HeadersAlmostDone
<1>8. (HeadersDone) => InLoop
  BY DEF At, HeadersDone
<1>9. (BodyIdentity \/ BodyIdentityEof \/ MessageDone \/ ChunkSizeStart \/ ChunkSize \/ ChunkParameters) => InLoop
  BY DEF At, BodyIdentity, BodyIdentityEof, MessageDone, ChunkSizeStart, ChunkSize, ChunkParameters
<1>10. (ChunkSizeAlmostDone \/ ChunkData \/ ChunkDataAlmostDone \/ ChunkDataDone) => InLoop
  BY DEF At, ChunkSizeAlmostDone, ChunkData, ChunkDataAlmostDone, ChunkDataDone
<1> QED BY <1>1, <1>2, <1>3, <1>4, <1>5, <1>6, <1>7, <1>8, <1>9, <1>10 DEF Execute

LEMMA ParseStep ==
  ASSUME IndInv, Parse
  PROVE  IndInv'
<1>1. CASE EndOfData
  BY <1>1, EndOfDataStep DEF Parse
<1>2. CASE ~EndOfData
  <2>1. Execute /\ InLoop
    BY <1>2, RoundInLoop DEF Parse
  <2>2. InRound
    BY <2>1 DEF InRound, Parse
  <2> QED BY <1>2, <2>1, <2>2, HeaderOverflowStep, StartResStep, ResHTTPStep, ResMajorStep, ResMinorStep,
            ResStatusCodeStep, ResStatusStep, LineAlmostDoneStep, StartReqStep, ReqMethodStep,
            ReqSpacesBeforeUrlStep, ReqUrlStep, ReqHTTPStep, ReqMajorStep, ReqMinorStep,
            HeaderFieldStartStep, HeaderFieldStep, HeaderValueStartStep, HeaderValueStep,
            HeaderAlmostDoneStep, HeaderValueLwsStep, HeadersAlmostDoneStep, HeadersDoneStep,
            BodyIdentityStep, BodyIdentityEofStep, MessageDoneStep, ChunkSizeStartStep, ChunkSizeStep,
            ChunkParametersStep, ChunkSizeAlmostDoneStep, ChunkDataStep, ChunkDataAlmostDoneStep,
            ChunkDataDoneStep DEF Execute
<1> QED BY <1>1, <1>2

(***************************************************************************)
(* The reader.                                                             *)
(***************************************************************************)
LEMMA InitReady ==
  ASSUME NEW t \in Kinds
  PROVE  Ready(http_parser_init(t))
<1>1. PICK s : s = IF t = "HTTP_REQUEST" THEN "s_start_req" ELSE "s_start_res"
  OBVIOUS
<1>2. s \in States /\ s \in PlainStates
  BY <1>1 DEF States, PlainStates
<1>3. h_general \in HeaderStates /\ 0 \in Lengths /\ 0 \in Numbers /\ <<>> \in Pieces
      /\ "HPE_OK" \in Errnos /\ {} \in SUBSET Flags
  BY UllongAssumption DEF HeaderStates, Lengths, Numbers, Pieces, Errnos
<1>4. PICK q : q = http_parser_init(t)
  OBVIOUS
<1>5. q = [type |-> t, state |-> s, header_state |-> h_general, flags |-> {}, nread |-> 0,
           content_length |-> 0, http_major |-> 0, http_minor |-> 0, status_code |-> 0,
           method |-> <<>>, http_errno |-> "HPE_OK", upgrade |-> FALSE]
  BY <1>1, <1>4 DEF http_parser_init
<1>6. q \in http_parser /\ q.state = s /\ q.http_errno = "HPE_OK"
  BY <1>2, <1>3, <1>5 DEF http_parser
<1> QED BY <1>2, <1>4, <1>6, PlainReady

LEMMA StreamFacts ==
  ASSUME source \in Streams
  PROVE  source.type \in Kinds /\ source.bytes \in Pieces /\ Len(source.bytes) \in Nat
BY StreamsAssumption DEF Pieces

LEMMA InitInv == Init => IndInv
<1> SUFFICES ASSUME Init
             PROVE  IndInv
  OBVIOUS
<1>1. source \in Streams /\ source.type \in Kinds /\ source.bytes \in Pieces
      /\ Len(source.bytes) \in Nat
  BY StreamFacts DEF Init
<1>2. Ready(parser) /\ parser \in http_parser
  BY <1>1, InitReady DEF Init, Ready, Sound
<1>3. <<>> \in Pieces /\ Len(<<>>) = 0 /\ {"none"} \subseteq Callbacks
  BY DEF Pieces, Callbacks
<1>4. ParserTypeOK
  <2>1. NoMark \in [of : Strings \cup {"none"}, at : 0..0]
    BY DEF NoMark
  <2>2. NoCallback \in [type : Callbacks, str : Pieces]
    BY <1>3 DEF NoCallback
  <2>3. data = <<>> /\ p = 0 /\ mark = NoMark /\ again = FALSE /\ cb = NoCallback /\ nparsed = 0
    BY DEF Init
  <2>4. p \in 0..Len(data) /\ nparsed \in {Running} \cup 0..Len(data) /\ data \in Pieces
    BY <1>3, <2>3
  <2>5. mark \in [of : Strings \cup {"none"}, at : 0..p]
    BY <2>1, <2>3
  <2> QED BY <1>2, <2>2, <2>3, <2>4, <2>5 DEF ParserTypeOK
<1>5. ReaderTypeOK
  BY <1>1, <1>3 DEF Init, ReaderTypeOK
<1>6. LeftoverExact
  <2>1. SubSeq(source.bytes, 1, 0) = <<>>
    BY <1>1 DEF Pieces
  <2>2. content = <<>> /\ rcvd = 0
    BY DEF Init
  <2> QED BY <1>3, <2>1, <2>2 DEF LeftoverExact
<1>7. at = "loop"
  BY DEF Init
<1> QED BY <1>2, <1>4, <1>5, <1>6, <1>7 DEF IndInv

\* A call begins with a parser that is ready.
LEMMA ExecuteBegins ==
  ASSUME IndInv, at = "loop", NEW buf \in Pieces, http_parser_execute(buf), at' = "parse"
  PROVE  ParserTypeOK' /\ data' = buf /\ nparsed' = Running /\ InCall'
<1>1. Ready(parser) /\ parser \in http_parser /\ parser.http_errno = "HPE_OK"
  BY DEF IndInv, Ready, Sound
<1>2. MarkOnEntry(parser.state) \in [of : Strings \cup {"none"}, at : {0}]
  <2>1. MarkOnEntry(parser.state) \in
          {[of |-> s, at |-> 0] : s \in {"header_field", "header_value", "url", "status", "none"}}
    BY DEF MarkOnEntry, NoMark
  <2> QED BY <2>1 DEF Strings
<1>3. NoCallback \in [type : Callbacks, str : Pieces]
  <2>1. "none" \in Callbacks /\ <<>> \in Pieces
    BY DEF Callbacks, Pieces
  <2> QED BY <2>1 DEF NoCallback
<1>4. Len(buf) \in Nat
  BY DEF Pieces
<1>5. /\ data' = buf /\ p' = 0 /\ mark' = MarkOnEntry(parser.state) /\ again' = FALSE
      /\ cb' = NoCallback /\ nparsed' = Running /\ parser' = parser
  BY <1>1 DEF http_parser_execute
<1>6. mark' \in [of : Strings \cup {"none"}, at : 0..p']
  BY <1>2, <1>5
<1>7. ParserTypeOK'
  <2>1. p' \in 0..Len(data') /\ nparsed' \in {Running} \cup 0..Len(data') /\ data' \in Pieces
    BY <1>4, <1>5
  <2> QED BY <1>1, <1>3, <1>5, <1>6, <2>1 DEF ParserTypeOK
<1> QED BY <1>1, <1>5, <1>7 DEF InCall

LEMMA ReadStep ==
  ASSUME IndInv, NEW n \in 1..Len(source.bytes) - rcvd, Read(n)
  PROVE  IndInv'
<1>1. /\ source \in Streams /\ source.bytes \in Pieces /\ Len(source.bytes) \in Nat
      /\ rcvd \in 0..Len(source.bytes)
  BY StreamFacts DEF IndInv, ReaderTypeOK
<1>2. /\ at = "loop" /\ rcvd' = rcvd + n /\ at' = "parse" /\ source' = source
      /\ content' = SubSeq(source.bytes, rcvd + 1, rcvd + n) /\ http_parser_execute(content')
  BY DEF Read, WantsMore
<1>3. content' \in Pieces /\ Len(content') = n
  <2>1. rcvd + 1 \in 1..Len(source.bytes) /\ rcvd + n \in 1..Len(source.bytes)
    BY <1>1
  <2> QED BY <1>1, <1>2, <2>1 DEF Pieces
<1>4. ParserTypeOK' /\ data' = content' /\ nparsed' = Running /\ InCall'
  <2>1. PICK buf : buf = content'
    OBVIOUS
  <2> QED BY <1>2, <1>3, <2>1, ExecuteBegins
<1>5. ReaderTypeOK'
  BY <1>1, <1>2, <1>3 DEF ReaderTypeOK
<1>6. LeftoverExact'
  <2>1. rcvd' - Len(content') + 1 = rcvd + 1 /\ Len(content') <= rcvd'
    BY <1>1, <1>2, <1>3
  <2> QED BY <1>2, <2>1 DEF LeftoverExact
<1> QED BY <1>2, <1>4, <1>5, <1>6 DEF IndInv

LEMMA UseLeftoverStep ==
  ASSUME IndInv, UseLeftover
  PROVE  IndInv'
<1>1. /\ at = "loop" /\ at' = "parse" /\ UNCHANGED <<source, rcvd, content>>
      /\ http_parser_execute(content) /\ content \in Pieces
  BY DEF UseLeftover, WantsMore, IndInv, ReaderTypeOK
<1>2. ParserTypeOK' /\ data' = content /\ nparsed' = Running /\ InCall'
  BY <1>1, ExecuteBegins
<1>3. ReaderTypeOK' /\ LeftoverExact'
  BY <1>1 DEF IndInv, ReaderTypeOK, LeftoverExact
<1> QED BY <1>1, <1>2, <1>3 DEF IndInv

\* readAndParse returns to the loop or the reader stops.
LEMMA ReturnAt ==
  ASSUME NEW r, Return(r)
  PROVE  at' \in {"loop", "done", "undefined"}
BY DEF Return

\* The steps that leave the parser and the content alone.
LEMMA QuietStep ==
  ASSUME IndInv, at = "loop", UNCHANGED <<pvars, source, rcvd, content>>,
         at' \in {"loop", "done", "error", "undefined"}
  PROVE  IndInv'
BY DEF IndInv, ParserTypeOK, ReaderTypeOK, LeftoverExact, Ready, Sound, LengthSound, ChunkSound,
       ValueSound, pvars

\* t is the slice of s from m to n, element by element.
Within(S, s, m, n) == s \in Seq(S) /\ m \in Nat /\ n \in Nat /\ 1 <= m /\ m <= n + 1 /\ n <= Len(s)
IsSlice(S, t, s, m, n) ==
    /\ t \in Seq(S)
    /\ Len(t) = n - m + 1
    /\ \A i \in 1..n - m + 1 : t[i] = s[m + i - 1]

LEMMA SliceFacts ==
  ASSUME NEW S, NEW s, NEW m, NEW n, Within(S, s, m, n)
  PROVE  IsSlice(S, SubSeq(s, m, n), s, m, n)
<1>1. m \in Int /\ n \in Int /\ \A i \in m..n : s[i] \in S
  BY DEF Within
<1>2. PICK t : t = SubSeq(s, m, n)
  OBVIOUS
<1>3. /\ t \in Seq(S)
      /\ Len(t) = IF m <= n THEN n - m + 1 ELSE 0
      /\ \A i \in 1..n - m + 1 : t[i] = s[m + i - 1]
  BY <1>1, <1>2, SubSeqProperties
<1>4. Len(t) = n - m + 1
  BY <1>3 DEF Within
<1> QED BY <1>2, <1>3, <1>4 DEF IsSlice

\* The end of a slice that ends at r ends there too.
Ending(S, b, r, c) == b \in Seq(S) /\ r \in 0..Len(b) /\ c \in Seq(S) /\ Len(c) <= r

Slices(b, r, c, n, d) ==
    /\ c = SubSeq(b, r - Len(c) + 1, r)
    /\ n \in 0..Len(c)
    /\ d = SubSeq(c, n + 1, Len(c))
TailEnds(S, b, r, c, n, d) ==
    d \in Seq(S) /\ Len(d) = Len(c) - n /\ d = SubSeq(b, r - Len(d) + 1, r)

LEMMA TailOfSlice ==
  ASSUME NEW S, NEW b, NEW r, NEW c, NEW n, NEW d, Ending(S, b, r, c), Slices(b, r, c, n, d)
  PROVE  TailEnds(S, b, r, c, n, d)
<1>a. /\ c = SubSeq(b, r - Len(c) + 1, r)
      /\ n \in 0..Len(c)
      /\ d = SubSeq(c, n + 1, Len(c))
  BY DEF Slices
<1>0. PICK l : l = Len(c)
  OBVIOUS
<1>1. /\ l \in Nat /\ r \in Nat /\ n \in 0..l /\ l <= r /\ Len(b) \in Nat /\ r <= Len(b)
      /\ b \in Seq(S) /\ c \in Seq(S)
  BY <1>0, <1>a DEF Ending
<1>2. /\ d \in Seq(S) /\ Len(d) = l - n
      /\ \A i \in 1..l - n : d[i] = c[n + i]
  <2>1. PICK m : m = n + 1
    OBVIOUS
  <2>2. Within(S, c, m, l)
    BY <1>0, <1>1, <2>1 DEF Within
  <2>3. IsSlice(S, SubSeq(c, m, l), c, m, l)
    BY <2>2, SliceFacts
  <2>4. IsSlice(S, d, c, m, l)
    BY <1>0, <1>a, <2>1, <2>3
  <2>5. d \in Seq(S) /\ Len(d) = l - m + 1 /\ l - m + 1 = l - n
    BY <1>1, <2>1, <2>4 DEF IsSlice
  <2>6. ASSUME NEW i \in 1..l - n
        PROVE  d[i] = c[n + i]
    <3>1. i \in 1..l - m + 1 /\ m + i - 1 = n + i
      BY <1>1, <2>1
    <3> QED BY <2>4, <3>1 DEF IsSlice
  <2> QED BY <2>5, <2>6
<1>3. ASSUME NEW k \in 0..l
      PROVE  /\ SubSeq(b, r - k + 1, r) \in Seq(S) /\ Len(SubSeq(b, r - k + 1, r)) = k
             /\ \A i \in 1..k : SubSeq(b, r - k + 1, r)[i] = b[r - k + i]
  <2>1. PICK m : m = r - k + 1
    OBVIOUS
  <2>2. Within(S, b, m, r)
    BY <1>1, <2>1 DEF Within
  <2>3. PICK e : e = SubSeq(b, m, r)
    OBVIOUS
  <2>4. IsSlice(S, e, b, m, r)
    BY <2>2, <2>3, SliceFacts
  <2>5. e \in Seq(S) /\ Len(e) = k
    BY <1>1, <2>1, <2>4 DEF IsSlice
  <2>6. ASSUME NEW i \in 1..k
        PROVE  e[i] = b[r - k + i]
    <3>1. i \in 1..r - m + 1 /\ m + i - 1 = r - k + i
      BY <1>1, <2>1
    <3> QED BY <2>4, <3>1 DEF IsSlice
  <2> QED BY <2>1, <2>3, <2>5, <2>6
<1>4. \A i \in 1..l : c[i] = b[r - l + i]
  <2>1. l \in 0..l
    BY <1>1
  <2> QED BY <1>0, <1>a, <1>3, <2>1
<1>5. PICK k : k = Len(d)
  OBVIOUS
<1>6. k = l - n /\ k \in 0..l
  BY <1>1, <1>2, <1>5
<1>7. PICK e : e = SubSeq(b, r - k + 1, r)
  OBVIOUS
<1>8. /\ e \in Seq(S) /\ Len(e) = k
      /\ \A i \in 1..k : e[i] = b[r - k + i]
  BY <1>3, <1>6, <1>7
<1>9. ASSUME NEW i \in 1..k
      PROVE  d[i] = e[i]
  <2>1. n + i \in 1..l /\ r - l + (n + i) = r - k + i /\ i \in 1..l - n
    BY <1>1, <1>6
  <2>2. d[i] = c[n + i] /\ c[n + i] = b[r - l + (n + i)] /\ e[i] = b[r - k + i]
    BY <1>2, <1>4, <1>8, <2>1
  <2> QED BY <2>1, <2>2
<1>10. d = e
  BY <1>2, <1>5, <1>8, <1>9, SeqEqual
<1> QED BY <1>0, <1>2, <1>5, <1>7, <1>10 DEF TailEnds

\* What parse_http() leaves of the content is the end of it.
LEMMA RestExact ==
  ASSUME IndInv, nparsed \in 0..Len(content), content' = SubSeq(content, nparsed + 1, Len(content)),
         UNCHANGED <<source, rcvd>>
  PROVE  /\ LeftoverExact' /\ content' \in Pieces
         /\ content' = <<>> <=> nparsed = Len(content)
         /\ Len(content') = Len(content) - nparsed
<1>1. /\ source.bytes \in Pieces /\ rcvd \in 0..Len(source.bytes) /\ content \in Pieces
      /\ Len(content) <= rcvd /\ content = SubSeq(source.bytes, rcvd - Len(content) + 1, rcvd)
  BY StreamFacts DEF IndInv, ReaderTypeOK, LeftoverExact
<1>2. /\ content' \in Seq(STRING) /\ Len(content') = Len(content) - nparsed
      /\ content' = SubSeq(source.bytes, rcvd - Len(content') + 1, rcvd)
  <2>1. PICK c : c = content
    OBVIOUS
  <2>2. PICK d : d = content'
    OBVIOUS
  <2>3. PICK b : b = source.bytes
    OBVIOUS
  <2>4. PICK S : S = STRING
    OBVIOUS
  <2>5. /\ b \in Seq(S) /\ c \in Seq(S) /\ nparsed \in 0..Len(c)
        /\ d = SubSeq(c, nparsed + 1, Len(c)) /\ Len(c) <= rcvd
        /\ c = SubSeq(b, rcvd - Len(c) + 1, rcvd) /\ rcvd \in 0..Len(b)
    BY <1>1, <2>1, <2>2, <2>3, <2>4 DEF Pieces
  <2>6. Ending(S, b, rcvd, c) /\ Slices(b, rcvd, c, nparsed, d)
    BY <2>5 DEF Ending, Slices
  <2>7. TailEnds(S, b, rcvd, c, nparsed, d)
    BY <2>6, TailOfSlice
  <2> QED BY <2>1, <2>2, <2>3, <2>4, <2>7 DEF TailEnds
<1>3. Len(content) \in Nat /\ rcvd \in Nat
  BY <1>1 DEF Pieces
<1>4. content' = <<>> <=> nparsed = Len(content)
  <2>1. content' = <<>> <=> Len(content') = 0
    <3>1. PICK S : S = STRING
      OBVIOUS
    <3>2. PICK d : d = content'
      OBVIOUS
    <3>3. d \in Seq(S)
      BY <1>2, <3>1, <3>2
    <3>4. d = <<>> <=> Len(d) = 0
      BY <3>3, EmptySeq
    <3> QED BY <3>2, <3>4
  <2>2. PICK n : n = nparsed
    OBVIOUS
  <2>3. PICK k : k = Len(content)
    OBVIOUS
  <2>4. k - n = 0 <=> n = k
    BY <1>3, <2>2, <2>3
  <2> QED BY <1>2, <2>1, <2>2, <2>3, <2>4
<1>5. Len(content') <= rcvd
  BY <1>1, <1>2, <1>3
<1> QED BY <1>2, <1>4, <1>5 DEF LeftoverExact, Pieces

LEMMA ParseHttpStep ==
  ASSUME IndInv, parse_http
  PROVE  IndInv'
<1> DEFINE fails == content' # <<>> /\ parser.http_errno # "HPE_PAUSED"
<1>1. /\ at = "parse" /\ nparsed # Running /\ data = content /\ Returned /\ ParserTypeOK
      /\ nparsed \in 0..Len(content) /\ ReaderTypeOK /\ Len(content) \in Nat
  BY DEF parse_http, IndInv, ParserTypeOK, Pieces
<1>2. /\ content' = SubSeq(content, nparsed + 1, Len(content))
      /\ UNCHANGED <<data, p, mark, again, cb, nparsed, source, rcvd, phase>>
      /\ at' = "error" \/ (~fails /\ at' \in {"loop", "done", "undefined"})
      /\ parser' = IF cb.type = "message_complete" /\ ~fails THEN http_parser_init(parser.type)
                   ELSE http_parser_pause(parser, FALSE)
  <2>1. /\ content' = SubSeq(content, nparsed + 1, Len(content))
        /\ UNCHANGED <<data, p, mark, again, cb, nparsed, source, rcvd, phase>>
        /\ at' = "error" \/ (~fails /\ Return(callback(req, parser)))
        /\ parser' = IF cb.type = "message_complete" /\ ~fails THEN http_parser_init(parser.type)
                     ELSE http_parser_pause(parser, FALSE)
    BY DEF parse_http
  <2> HIDE DEF fails
  <2> QED BY <2>1, ReturnAt
<1>3. /\ LeftoverExact' /\ content' \in Pieces
      /\ content' = <<>> <=> nparsed = Len(content)
  BY <1>1, <1>2, RestExact
<1>4. parser \in http_parser /\ parser.type \in Kinds
  BY <1>1 DEF ParserTypeOK, http_parser
<1>5. http_parser_pause(parser, FALSE) \in http_parser
  <2>1. PICK q : q = http_parser_pause(parser, FALSE)
    OBVIOUS
  <2>2. q = parser \/ q = [parser EXCEPT !.http_errno = "HPE_OK"]
    BY <2>1 DEF http_parser_pause
  <2>3. "HPE_OK" \in Errnos
    BY DEF Errnos
  <2> QED BY <1>4, <2>1, <2>2, <2>3 DEF http_parser
<1>6. Ready(http_parser_init(parser.type))
  BY <1>4, InitReady
<1>7. parser' \in http_parser
  <2>1. http_parser_init(parser.type) \in http_parser
    BY <1>6 DEF Ready, Sound
  <2> QED BY <1>2, <1>5, <2>1
<1>8. ParserTypeOK'
  BY <1>1, <1>2, <1>7 DEF ParserTypeOK
<1>9. ReaderTypeOK'
  BY <1>1, <1>2, <1>3 DEF ReaderTypeOK
<1>10. ~fails => Ready(parser')
  <2>1. SUFFICES ASSUME ~fails
                 PROVE  Ready(parser')
    OBVIOUS
  <2>2. CASE cb.type = "message_complete"
    BY <1>2, <1>6, <2>1, <2>2
  <2>3. CASE cb.type # "message_complete"
    <3>1. parser' = http_parser_pause(parser, FALSE)
      BY <1>2, <2>3
    <3>2. /\ Sound(parser) /\ parser.state # "s_dead"
          /\ parser.http_errno \in {"HPE_OK", "HPE_PAUSED"}
      BY <1>1, <1>3, <2>1, <2>3 DEF Returned, Ready
    <3> QED BY <3>1, <3>2, PauseFacts DEF Ready
  <2> QED BY <2>2, <2>3
<1> HIDE DEF fails
<1> QED BY <1>2, <1>3, <1>8, <1>9, <1>10 DEF IndInv

(***************************************************************************)
(* Every step keeps the invariant.                                         *)
(***************************************************************************)
LEMMA NextInv == IndInv /\ [Next]_vars => IndInv'
<1> SUFFICES ASSUME IndInv, [Next]_vars
             PROVE  IndInv'
  OBVIOUS
<1>1. CASE readFull_returns
  <2>1. at = "loop" /\ UNCHANGED <<pvars, source, rcvd, content>> /\ at' = "done"
    BY <1>1 DEF readFull_returns
  <2> QED BY <2>1, QuietStep
<1>9. CASE readFull_headers_done
  <2>1. at = "loop" /\ UNCHANGED <<pvars, source, rcvd, content>> /\ at' \in {"loop", "error"}
    BY <1>9 DEF readFull_headers_done
  <2> QED BY <2>1, QuietStep
<1>2. ASSUME NEW n \in 1..Len(source.bytes) - rcvd, Read(n)
      PROVE  IndInv'
  BY <1>2, ReadStep
<1>3. CASE UseLeftover
  BY <1>3, UseLeftoverStep
<1>4. CASE ReadEOF
  <2>1. PICK r : Return(r)
    BY <1>4 DEF ReadEOF
  <2>2. at = "loop" /\ UNCHANGED <<pvars, source, rcvd, content>>
    BY <1>4 DEF ReadEOF, WantsMore
  <2> QED BY <2>1, <2>2, ReturnAt, QuietStep
<1>5. CASE ReadError
  <2>1. at = "loop" /\ at' = "error" /\ UNCHANGED <<pvars, source, rcvd, content>>
    BY <1>5 DEF ReadError, WantsMore
  <2> QED BY <2>1, QuietStep
<1>6. CASE Parse
  BY <1>6, ParseStep
<1>7. CASE parse_http
  BY <1>7, ParseHttpStep
<1>8. CASE UNCHANGED vars
  <2>1. UNCHANGED <<parser, data, p, mark, again, cb, nparsed, source, rcvd, content, at>>
    BY <1>8 DEF vars, pvars
  <2> QED BY <2>1 DEF IndInv, ParserTypeOK, ReaderTypeOK, LeftoverExact, InCall, Returned
<1> QED BY <1>1, <1>2, <1>3, <1>4, <1>5, <1>6, <1>7, <1>8, <1>9 DEF Next

(***************************************************************************)
(* The marks.                                                              *)
(***************************************************************************)
\* A round of the loop, with the mark that its state allows.
MarkRoundStart == InRound /\ OneMark

LEMMA MarkFacts ==
  ASSUME MarkRoundStart
  PROVE  /\ InRound /\ nparsed = Running /\ mark.of \in {"none", StringAt(parser.state)}
         /\ p \in Nat /\ p # Running /\ p + 1 # Running /\ parser \in http_parser
BY RoundFacts DEF MarkRoundStart, InRound, OneMark, InLoop, Running

LEMMA UrlStrings == \A s \in UrlStates : StringAt(s) = "url"
BY DEF StringAt, UrlStates

\* A call that returns, with a callback or an error, needs no mark any more.
LEMMA ReturnedMark ==
  ASSUME MarkRoundStart, nparsed' \in {p, p + 1}
  PROVE  OneMark'
BY MarkFacts DEF OneMark

LEMMA ErrorMark ==
  ASSUME MarkRoundStart, NEW e, Error(e)
  PROVE  OneMark'
BY ReturnedMark DEF Error

LEMMA ConsumeMark ==
  ASSUME MarkRoundStart, NEW q, Consume(q), StringAt(parser.state) \in {"none", StringAt(q.state)}
  PROVE  OneMark'
BY MarkFacts DEF OneMark, Consume

LEMMA CallbackMark ==
  ASSUME MarkRoundStart, NEW q, NEW type, NEW str, NEW n \in {p, p + 1},
         handle_http_callback(q, type, str, n)
  PROVE  OneMark'
BY ReturnedMark DEF handle_http_callback

\* The string that ends is the one that is marked, if any is.
LEMMA CallbackDataMark ==
  ASSUME MarkRoundStart, NEW q, CALLBACK_DATA(StringAt(parser.state), q)
  PROVE  OneMark'
<1>1. CASE mark.of = StringAt(parser.state)
  BY <1>1, CallbackMark DEF CALLBACK_DATA
<1>2. CASE mark.of # StringAt(parser.state)
  BY <1>2, MarkFacts DEF CALLBACK_DATA, OneMark, Consume
<1> QED BY <1>1, <1>2

LEMMA MarkMark ==
  ASSUME MarkRoundStart, NEW q, NEW of, MARK(of, q), StringAt(q.state) = of
  PROVE  OneMark'
<1>1. mark'.of = of /\ parser' = q
  BY DEF MARK
<1> QED BY <1>1 DEF OneMark

\* Rounds that set no mark.
LEMMA StepKeepsMark ==
  /\ \A q : Consume(q) => mark' = mark
  /\ \A q : Reexecute(q) => mark' = mark
  /\ \A e : Error(e) => mark' = mark
  /\ \A ok, q, e : Expect(ok, q, e) => mark' = mark
  /\ \A q, type, str, n : handle_http_callback(q, type, str, n) => mark' = mark
  /\ \A type, q : CALLBACK_NOTIFY(type, q) => mark' = mark
  /\ \A type, q : CALLBACK_NOTIFY_NOADVANCE(type, q) => mark' = mark
BY DEF Consume, Reexecute, Error, Expect, handle_http_callback, CALLBACK_NOTIFY,
       CALLBACK_NOTIFY_NOADVANCE

UnmarkedStates ==
    {"s_start_res", "s_res_H", "s_res_first_http_major", "s_res_http_major",
     "s_res_first_http_minor", "s_res_http_minor", "s_res_first_status_code", "s_res_status_code",
     "s_res_status_start", "s_res_line_almost_done", "s_start_req", "s_req_method",
     "s_req_spaces_before_url", "s_req_http_start", "s_req_http_H", "s_req_first_http_major",
     "s_req_http_major", "s_req_first_http_minor", "s_req_http_minor", "s_req_line_almost_done",
     "s_header_field_start", "s_header_value_start", "s_header_value_lws", "s_header_almost_done",
     "s_headers_almost_done", "s_headers_done", "s_chunk_size_start", "s_chunk_size",
     "s_chunk_parameters", "s_chunk_size_almost_done", "s_chunk_data_done", "s_message_done"}

LEMMA UnmarkedStrings == \A s \in UnmarkedStates : StringAt(s) = "none"
BY DEF UnmarkedStates, StringAt, UrlStates

LEMMA UnmarkedRound ==
  ASSUME MarkRoundStart, parser.state \in UnmarkedStates, mark' = mark
  PROVE  OneMark'
BY MarkFacts, UnmarkedStrings DEF OneMark

LEMMA UnmarkedKeep ==
  ASSUME StartRes \/ ResHTTP \/ ResMajor \/ ResMinor \/ ResStatusCode \/ ResLineAlmostDone \/
         StartReq \/ ReqMethod \/ ReqHTTP \/ ReqMajor \/ ReqMinor \/
         ReqLineAlmostDone \/ HeaderAlmostDone \/ HeaderValueLws \/
         HeadersAlmostDone \/ HeadersDone \/ MessageDone \/ ChunkSizeStart \/
         ChunkSize \/ ChunkParameters \/ ChunkSizeAlmostDone \/ ChunkDataDone
  PROVE  parser.state \in UnmarkedStates /\ mark' = mark
<1>1. CASE StartRes
  <2>1. mark' = mark
    BY <1>1, StepKeepsMark DEF StartRes
  <2>2. parser.state \in UnmarkedStates
    BY <1>1 DEF StartRes, At, UnmarkedStates
  <2> QED BY <2>1, <2>2
<1>2. CASE ResHTTP
  <2>1. mark' = mark
    BY <1>2, StepKeepsMark DEF ResHTTP
  <2>2. parser.state \in UnmarkedStates
    BY <1>2 DEF ResHTTP, At, UnmarkedStates
  <2> QED BY <2>1, <2>2
<1>3. CASE ResMajor
  <2>1. mark' = mark
    BY <1>3, StepKeepsMark DEF ResMajor
  <2>2. parser.state \in UnmarkedStates
    BY <1>3 DEF ResMajor, At, UnmarkedStates
  <2> QED BY <2>1, <2>2
<1>4. CASE ResMinor
  <2>1. mark' = mark
    BY <1>4, StepKeepsMark, Zenon DEF ResMinor
  <2>2. parser.state \in UnmarkedStates
    BY <1>4 DEF ResMinor, At, UnmarkedStates
  <2> QED BY <2>1, <2>2
<1>5. CASE ResStatusCode
  <2>1. mark' = mark
    BY <1>5, StepKeepsMark, Zenon DEF ResStatusCode
  <2>2. parser.state \in UnmarkedStates
    BY <1>5 DEF ResStatusCode, At, UnmarkedStates
  <2> QED BY <2>1, <2>2
<1>6. CASE ResLineAlmostDone
  <2>1. mark' = mark
    BY <1>6, StepKeepsMark DEF ResLineAlmostDone
  <2>2. parser.state \in UnmarkedStates
    BY <1>6 DEF ResLineAlmostDone, At, UnmarkedStates
  <2> QED BY <2>1, <2>2
<1>7. CASE StartReq
  <2>1. mark' = mark
    BY <1>7, StepKeepsMark DEF StartReq
  <2>2. parser.state \in UnmarkedStates
    BY <1>7 DEF StartReq, At, UnmarkedStates
  <2> QED BY <2>1, <2>2
<1>8. CASE ReqMethod
  <2>1. mark' = mark
    BY <1>8, StepKeepsMark, Zenon DEF ReqMethod
  <2>2. parser.state \in UnmarkedStates
    BY <1>8 DEF ReqMethod, At, UnmarkedStates
  <2> QED BY <2>1, <2>2
<1>9. CASE ReqHTTP
  <2>1. mark' = mark
    BY <1>9, StepKeepsMark, Zenon DEF ReqHTTP
  <2>2. parser.state \in UnmarkedStates
    BY <1>9 DEF ReqHTTP, At, UnmarkedStates
  <2> QED BY <2>1, <2>2
<1>10. CASE ReqMajor
  <2>1. mark' = mark
    BY <1>10, StepKeepsMark DEF ReqMajor
  <2>2. parser.state \in UnmarkedStates
    BY <1>10 DEF ReqMajor, At, UnmarkedStates
  <2> QED BY <2>1, <2>2
<1>11. CASE ReqMinor
  <2>1. mark' = mark
    BY <1>11, StepKeepsMark DEF ReqMinor
  <2>2. parser.state \in UnmarkedStates
    BY <1>11 DEF ReqMinor, At, UnmarkedStates
  <2> QED BY <2>1, <2>2
<1>12. CASE ReqLineAlmostDone
  <2>1. mark' = mark
    BY <1>12, StepKeepsMark DEF ReqLineAlmostDone
  <2>2. parser.state \in UnmarkedStates
    BY <1>12 DEF ReqLineAlmostDone, At, UnmarkedStates
  <2> QED BY <2>1, <2>2
<1>13. CASE HeaderAlmostDone
  <2>1. mark' = mark
    BY <1>13, StepKeepsMark DEF HeaderAlmostDone
  <2>2. parser.state \in UnmarkedStates
    BY <1>13 DEF HeaderAlmostDone, At, UnmarkedStates
  <2> QED BY <2>1, <2>2
<1>14. CASE HeaderValueLws
  <2>1. mark' = mark
    BY <1>14, StepKeepsMark, Zenon DEF HeaderValueLws
  <2>2. parser.state \in UnmarkedStates
    BY <1>14 DEF HeaderValueLws, At, UnmarkedStates
  <2> QED BY <2>1, <2>2
<1>15. CASE HeadersAlmostDone
  <2>1. mark' = mark
    BY <1>15, StepKeepsMark DEF HeadersAlmostDone
  <2>2. parser.state \in UnmarkedStates
    BY <1>15 DEF HeadersAlmostDone, At, UnmarkedStates
  <2> QED BY <2>1, <2>2
<1>16. CASE HeadersDone
  <2>1. mark' = mark
    BY <1>16, StepKeepsMark DEF HeadersDone
  <2>2. parser.state \in UnmarkedStates
    BY <1>16 DEF HeadersDone, At, UnmarkedStates
  <2> QED BY <2>1, <2>2
<1>17. CASE MessageDone
  <2>1. mark' = mark
    BY <1>17, StepKeepsMark DEF MessageDone
  <2>2. parser.state \in UnmarkedStates
    BY <1>17 DEF MessageDone, At, UnmarkedStates
  <2> QED BY <2>1, <2>2
<1>18. CASE ChunkSizeStart
  <2>1. mark' = mark
    BY <1>18, StepKeepsMark DEF ChunkSizeStart
  <2>2. parser.state \in UnmarkedStates
    BY <1>18 DEF ChunkSizeStart, At, UnmarkedStates
  <2> QED BY <2>1, <2>2
<1>19. CASE ChunkSize
  <2>1. mark' = mark
    BY <1>19, StepKeepsMark, Zenon DEF ChunkSize
  <2>2. parser.state \in UnmarkedStates
    BY <1>19 DEF ChunkSize, At, UnmarkedStates
  <2> QED BY <2>1, <2>2
<1>20. CASE ChunkParameters
  <2>1. mark' = mark
    BY <1>20, StepKeepsMark DEF ChunkParameters
  <2>2. parser.state \in UnmarkedStates
    BY <1>20 DEF ChunkParameters, At, UnmarkedStates
  <2> QED BY <2>1, <2>2
<1>21. CASE ChunkSizeAlmostDone
  <2>1. mark' = mark
    BY <1>21, StepKeepsMark DEF ChunkSizeAlmostDone
  <2>2. parser.state \in UnmarkedStates
    BY <1>21 DEF ChunkSizeAlmostDone, At, UnmarkedStates
  <2> QED BY <2>1, <2>2
<1>22. CASE ChunkDataDone
  <2>1. mark' = mark
    BY <1>22, StepKeepsMark DEF ChunkDataDone
  <2>2. parser.state \in UnmarkedStates
    BY <1>22 DEF ChunkDataDone, At, UnmarkedStates
  <2> QED BY <2>1, <2>2
<1> QED BY <1>1, <1>2, <1>3, <1>4, <1>5, <1>6, <1>7, <1>8, <1>9, <1>10, <1>11, <1>12,
        <1>13, <1>14, <1>15, <1>16, <1>17, <1>18, <1>19, <1>20, <1>21, <1>22

\* Where a string begins, its mark is set.
LEMMA BeginMark ==
  ASSUME MarkRoundStart, ReqSpacesBeforeUrl \/ HeaderFieldStart \/ HeaderValueStart
  PROVE  OneMark'
<1>1. ASSUME parser.state \in UnmarkedStates, mark' = mark
      PROVE  OneMark'
  BY <1>1, UnmarkedRound
<1>2. CASE ReqSpacesBeforeUrl
  <2> DEFINE t == parse_url_char(IF parser.method = CONNECT THEN "s_req_server_start"
                                 ELSE parser.state, Ch)
  <2>1. parser.state = "s_req_spaces_before_url"
    BY <1>2 DEF ReqSpacesBeforeUrl, At
  <2>2. t \in UrlStates \cup {"s_dead"}
    <3>1. "s_req_server_start" \in UrlStates
      BY DEF UrlStates
    <3> QED BY <2>1, <3>1, UrlCharStates
  <2>3. mark' = mark \/ (t # "s_dead" /\ MARK("url", To(t)))
    BY <1>2, StepKeepsMark, Zenon DEF ReqSpacesBeforeUrl
  <2> HIDE DEF t
  <2>4. ASSUME t # "s_dead", MARK("url", To(t))
        PROVE  OneMark'
    <3>1. t \in States /\ StringAt(t) = "url"
      BY <2>2, <2>4, UrlStrings DEF States
    <3>2. To(t).state = t
      BY <3>1, ToFacts, MarkFacts
    <3> QED BY <2>4, <3>1, <3>2, MarkMark
  <2>5. parser.state \in UnmarkedStates
    BY <2>1 DEF UnmarkedStates
  <2> QED BY <1>1, <2>3, <2>4, <2>5
<1>3. CASE HeaderFieldStart
  <2> DEFINE q == [To("s_header_field") EXCEPT !.header_state = Match(<<>>, Ch, KnownFields)]
  <2>1. parser.state \in UnmarkedStates
    BY <1>3 DEF HeaderFieldStart, At, UnmarkedStates
  <2>2. mark' = mark \/ MARK("header_field", q)
    BY <1>3, StepKeepsMark DEF HeaderFieldStart
  <2>3. StringAt(q.state) = "header_field"
    <3>1. To("s_header_field") \in http_parser /\ To("s_header_field").state = "s_header_field"
      BY ToFacts, MarkFacts DEF States
    <3>2. q.state = "s_header_field"
      BY <3>1 DEF http_parser
    <3> QED BY <3>2 DEF StringAt, UrlStates
  <2> HIDE DEF q
  <2> QED BY <1>1, <2>1, <2>2, <2>3, MarkMark
<1>4. CASE HeaderValueStart
  <2> DEFINE t == To("s_header_value")
  <2>1. parser.state \in UnmarkedStates
    BY <1>4 DEF HeaderValueStart, At, UnmarkedStates
  <2>2. t \in http_parser /\ t.state = "s_header_value"
    BY ToFacts, MarkFacts DEF States
  <2>3. \/ mark' = mark
        \/ \E q : q.state = "s_header_value" /\ MARK("header_value", q)
    <3> DEFINE h == parser.header_state
               general == [t EXCEPT !.header_state = h_general]
               first == [general EXCEPT !.flags = @ \cup {"F_UPGRADE"}]
               second == [t EXCEPT !.content_length = unhex(Ch)]
               third == [t EXCEPT !.header_state = Match(h, Ch, KnownHeaders)]
    <3>1. \/ mark' = mark
          \/ MARK("header_value",
               CASE h = Upgrade -> first
                 [] h = ContentLength -> second
                 [] h \in {Connection, ProxyConnection, TransferEncoding} -> third
                 [] OTHER -> general)
      BY <1>4, StepKeepsMark, Zenon DEF HeaderValueStart
    <3>2. /\ general.state = "s_header_value" /\ second.state = "s_header_value"
          /\ third.state = "s_header_value"
      BY <2>2 DEF http_parser
    <3>3. first.state = "s_header_value"
      BY <2>2 DEF http_parser
    <3> HIDE DEF t, general, first, second, third, h
    <3>4. (CASE h = Upgrade -> first
             [] h = ContentLength -> second
             [] h \in {Connection, ProxyConnection, TransferEncoding} -> third
             [] OTHER -> general) \in {first, second, third, general}
      OBVIOUS
    <3> QED BY <3>1, <3>2, <3>3, <3>4
  <2>4. ASSUME NEW q, q.state = "s_header_value", MARK("header_value", q)
        PROVE  OneMark'
    <3>1. StringAt(q.state) = "header_value"
      BY <2>4 DEF StringAt, UrlStates
    <3> QED BY <2>4, <3>1, MarkMark
  <2> QED BY <1>1, <2>1, <2>3, <2>4
<1> QED BY <1>2, <1>3, <1>4

LEMMA ResStatusMark ==
  ASSUME MarkRoundStart, ResStatus
  PROVE  OneMark'
<1> DEFINE q == To("s_res_status")
           l == LineEnd("s_res_line_almost_done")
<1>1. \/ parser.state = "s_res_status_start" /\ (mark' = mark \/ MARK("status", q))
      \/ parser.state = "s_res_status" /\ (CALLBACK_DATA("status", l) \/ Consume(Counted))
  BY StepKeepsMark DEF ResStatus, At
<1>2. q.state = "s_res_status"
  BY ToFacts, MarkFacts DEF States
<1>3. StringAt("s_res_status") = "status" /\ "s_res_status_start" \in UnmarkedStates
  BY DEF StringAt, UrlStates, UnmarkedStates
<1>4. Counted.state = parser.state
  BY CountedFacts, MarkFacts
<1> HIDE DEF q, l
<1> QED BY <1>1, <1>2, <1>3, <1>4, UnmarkedRound, MarkMark, CallbackDataMark, ConsumeMark

LEMMA ReqUrlMark ==
  ASSUME MarkRoundStart, ReqUrl
  PROVE  OneMark'
<1> DEFINE t == parse_url_char(parser.state, Ch)
           l == LineEnd("s_req_line_almost_done")
           next == IF Ch = " " THEN To("s_req_http_start")
                   ELSE [l EXCEPT !.http_major = 0, !.http_minor = 9]
           ok == t # "s_dead"
<1>1. parser.state \in UrlStates
  BY DEF ReqUrl, At
<1>2. t \in UrlStates \cup {"s_dead"} /\ StringAt(parser.state) = "url"
  BY <1>1, UrlCharStates, UrlStrings
<1>3. Expect(ok, To(t), "HPE_INVALID_URL") \/ CALLBACK_DATA("url", next)
  BY DEF ReqUrl
<1>4. (ok /\ Consume(To(t))) \/ Error("HPE_INVALID_URL") \/ CALLBACK_DATA("url", next)
  BY <1>3 DEF Expect
<1> HIDE DEF t, next, l
<1>5. ok => To(t).state = t /\ StringAt(t) = "url"
  BY <1>2, UrlStrings, ToFacts, MarkFacts DEF States
<1> QED BY <1>2, <1>4, <1>5, ConsumeMark, ErrorMark, CallbackDataMark

LEMMA HeaderFieldMark ==
  ASSUME MarkRoundStart, HeaderField
  PROVE  OneMark'
<1> DEFINE q == [Counted EXCEPT !.header_state = Match(@, Ch, KnownFields)]
<1>1. parser.state = "s_header_field" /\ StringAt(parser.state) = "header_field"
  <2>1. parser.state = "s_header_field"
    BY DEF HeaderField, At
  <2> QED BY <2>1 DEF StringAt, UrlStates
<1>2. Counted \in http_parser /\ Counted.state = parser.state
  BY CountedFacts, MarkFacts
<1>3. q.state = parser.state
  BY <1>2 DEF http_parser
<1>4. \/ Consume(q) \/ Error("HPE_INVALID_HEADER_TOKEN")
      \/ \E r : CALLBACK_DATA("header_field", r)
  BY DEF HeaderField
<1> HIDE DEF q
<1> QED BY <1>1, <1>3, <1>4, ConsumeMark, ErrorMark, CallbackDataMark

LEMMA HeaderValueMark ==
  ASSUME MarkRoundStart, HeaderValue
  PROVE  OneMark'
<1> DEFINE longer == [Counted EXCEPT !.content_length = LengthDigit(10, Ch)]
           matched == [Counted EXCEPT !.header_state = Match(parser.header_state, Ch, KnownHeaders)]
           almost == To("s_header_almost_done")
<1>1. parser.state = "s_header_value" /\ StringAt(parser.state) = "header_value"
  <2>1. parser.state = "s_header_value"
    BY DEF HeaderValue, At
  <2> QED BY <2>1 DEF StringAt, UrlStates
<1>2. Counted \in http_parser /\ Counted.state = parser.state
  BY CountedFacts, MarkFacts
<1>3. longer.state = parser.state /\ matched.state = parser.state
  BY <1>2 DEF http_parser
<1>4. \/ CALLBACK_DATA("header_value", almost)
      \/ handle_http_callback(almost, "header_value", Marked, p)
      \/ \E ok : Expect(ok, longer, "HPE_INVALID_CONTENT_LENGTH")
      \/ Consume(Counted)
      \/ Consume(matched)
  BY Zenon DEF HeaderValue
<1> HIDE DEF longer, matched, almost
<1>5. \A ok : Expect(ok, longer, "HPE_INVALID_CONTENT_LENGTH")
                => Consume(longer) \/ Error("HPE_INVALID_CONTENT_LENGTH")
  BY DEF Expect
<1> QED BY <1>1, <1>2, <1>3, <1>4, <1>5, ConsumeMark, ErrorMark, CallbackDataMark, CallbackMark

LEMMA BodyMarks ==
  ASSUME MarkRoundStart, BodyIdentity \/ BodyIdentityEof \/ ChunkData \/ ChunkDataAlmostDone
  PROVE  OneMark'
<1>1. BodyMark.of = "body"
  BY DEF BodyMark
<1>2. \A s \in {"s_body_identity", "s_body_identity_eof", "s_chunk_data",
               "s_chunk_data_almost_done"} : StringAt(s) = "body"
  BY DEF StringAt, UrlStates
<1>3. ASSUME NEW s \in {"s_body_identity", "s_chunk_data_almost_done"}, TakeBody(s),
             parser.state \in {"s_body_identity", "s_chunk_data"}
      PROVE  OneMark'
  <2>1. parser'.state \in {s, parser.state} /\ mark' = BodyMark
    BY <1>3, MarkFacts DEF TakeBody, http_parser
  <2> QED BY <1>1, <1>2, <1>3, <2>1 DEF OneMark
<1>4. CASE BodyIdentity
  <2>1. parser.state = "s_body_identity"
    BY <1>4 DEF BodyIdentity, At
  <2>2. TakeBody("s_body_identity") \/ nparsed' = p + to_read - 1
    BY <1>4 DEF BodyIdentity, handle_http_callback
  <2>3. ASSUME nparsed' = p + to_read - 1
        PROVE  OneMark'
    <3>1. to_read \in Nat \ {0}
      BY <2>1, ToRead, MarkFacts
    <3>2. nparsed' # Running
      BY <2>3, <3>1, MarkFacts DEF Running
    <3> QED BY <3>2 DEF OneMark
  <2> QED BY <1>3, <2>1, <2>2, <2>3
<1>5. CASE BodyIdentityEof
  <2>1. parser.state = "s_body_identity_eof" /\ parser' = parser /\ mark' = BodyMark
    BY <1>5 DEF BodyIdentityEof, At
  <2> QED BY <1>1, <1>2, <2>1 DEF OneMark
<1>6. CASE ChunkData
  BY <1>3, <1>6 DEF ChunkData, At
<1>7. CASE ChunkDataAlmostDone
  <2>1. parser.state = "s_chunk_data_almost_done"
    BY <1>7 DEF ChunkDataAlmostDone, At
  <2>2. CALLBACK_DATA("body", To("s_chunk_data_done")) \/ Error("HPE_STRICT")
    BY <1>7 DEF ChunkDataAlmostDone
  <2> QED BY <1>2, <2>1, <2>2, CallbackDataMark, ErrorMark
<1> QED BY <1>4, <1>5, <1>6, <1>7

LEMMA ParseMark ==
  ASSUME IndInv, OneMark, Parse
  PROVE  OneMark'
<1>1. CASE EndOfData
  <2>1. nparsed' = Len(data) /\ p = Len(data)
    BY <1>1 DEF EndOfData, handle_http_callback
  <2>2. Len(data) # Running
    BY DEF IndInv, ParserTypeOK, Pieces, Running
  <2> QED BY <2>1, <2>2 DEF OneMark
<1>2. CASE ~EndOfData
  <2>1. Execute /\ InLoop
    BY <1>2, RoundInLoop DEF Parse
  <2>2. MarkRoundStart
    BY <2>1 DEF MarkRoundStart, InRound, Parse
  <2>3. CASE HeaderOverflow
    BY <2>2, <2>3, ErrorMark DEF HeaderOverflow
  <2>4. CASE StartRes \/ ResHTTP \/ ResMajor \/ ResMinor \/ ResStatusCode \/ ResLineAlmostDone \/
            StartReq \/ ReqMethod \/ ReqHTTP \/ ReqMajor \/ ReqMinor \/
            ReqLineAlmostDone \/ HeaderAlmostDone \/ HeaderValueLws \/
            HeadersAlmostDone \/ HeadersDone \/ MessageDone \/ ChunkSizeStart \/
            ChunkSize \/ ChunkParameters \/ ChunkSizeAlmostDone \/ ChunkDataDone
    BY <2>2, <2>4, UnmarkedKeep, UnmarkedRound
  <2> QED BY <1>2, <2>1, <2>2, <2>3, <2>4, BeginMark, ResStatusMark, ReqUrlMark, HeaderFieldMark,
            HeaderValueMark, BodyMarks DEF Execute
<1> QED BY <1>1, <1>2

LEMMA NextMark == IndInv /\ OneMark /\ [Next]_vars => OneMark'
<1> SUFFICES ASSUME IndInv, OneMark, [Next]_vars
             PROVE  OneMark'
  OBVIOUS
<1>1. ASSUME at' # "parse"
      PROVE  OneMark'
  BY <1>1 DEF OneMark
<1>2. ASSUME NEW buf, http_parser_execute(buf)
      PROVE  OneMark'
  <2>1. mark'.of \in {"none", StringAt(parser.state)} /\ parser' = parser
    BY <1>2, UrlStrings DEF http_parser_execute, MarkOnEntry, NoMark, StringAt, UrlStates
  <2> QED BY <2>1 DEF OneMark
<1>3. CASE readFull_returns
  BY <1>1, <1>3 DEF readFull_returns
<1>4. CASE readFull_headers_done
  BY <1>1, <1>4 DEF readFull_headers_done
<1>5. CASE UseLeftover \/ \E n \in 1..Len(source.bytes) - rcvd : Read(n)
  BY <1>2, <1>5 DEF UseLeftover, Read
<1>6. CASE ReadEOF
  BY <1>1, <1>6, ReturnAt DEF ReadEOF
<1>7. CASE ReadError
  BY <1>1, <1>7 DEF ReadError
<1>8. CASE Parse
  BY <1>8, ParseMark
<1>9. CASE parse_http
  BY <1>1, <1>9, ReturnAt DEF parse_http
<1>10. CASE UNCHANGED vars
  BY <1>10 DEF vars, pvars, OneMark
<1> QED BY <1>3, <1>4, <1>5, <1>6, <1>7, <1>8, <1>9, <1>10 DEF Next

\* The invariant says of the loop what the assertions do.
LEMMA InvAsserts == IndInv /\ OneMark => AssertionsHold
<1> SUFFICES ASSUME IndInv, OneMark, at = "parse", InLoop
             PROVE  AssertionsHold
  BY DEF AssertionsHold
<1>1. /\ Ready(parser) /\ parser \in http_parser
      /\ again => parser.state \in ReexecutedStates
  BY DEF IndInv, InLoop, InCall, Ready, Sound
<1>2. parser.state = "s_chunk_size_start" => Counted.nread = 1
  <2>1. SUFFICES ASSUME parser.state = "s_chunk_size_start"
                 PROVE  Counted.nread = 1
    OBVIOUS
  <2>2. ~again /\ parser.nread = 0
    BY <1>1, <2>1 DEF ReexecutedStates, Ready, Sound, ChunkSound
  <2>3. PARSING_HEADER(parser.state)
    BY <2>1 DEF PARSING_HEADER, BodyStates
  <2>4. Counted = [parser EXCEPT !.nread = @ + 1]
    BY <2>2, <2>3 DEF Counted
  <2> QED BY <1>1, <2>2, <2>4 DEF http_parser
<1>3. parser.state = "s_header_value" =>
        parser.header_state \notin {Connection, ProxyConnection, TransferEncoding}
  <2>1. SUFFICES ASSUME parser.state = "s_header_value",
                        parser.header_state \in {Connection, ProxyConnection, TransferEncoding}
                 PROVE  FALSE
    OBVIOUS
  <2>2. parser.header_state \in KnownFields
    BY <2>1 DEF KnownFields
  <2>3. Len(parser.header_state) = 2 /\ parser.header_state[1] # "general"
    BY <2>2, KnownFieldFacts
  <2>4. parser.header_state \in {h_general, ContentLength}
    BY <1>1, <2>1, <2>3 DEF Ready, Sound, ValueSound
  <2>5. parser.header_state = ContentLength
    BY <2>3, <2>4 DEF h_general
  <2> QED BY <2>1, <2>5 DEF Connection, ProxyConnection, TransferEncoding, ContentLength
<1>4. /\ parser.state # "s_dead" /\ parser.http_errno = "HPE_OK"
      /\ LengthSound(parser) /\ ChunkSound(parser)
  BY <1>1 DEF Ready, Sound
<1> QED BY <1>2, <1>3, <1>4 DEF AssertionsHold, LengthSound, ChunkSound, ChunkStates, LengthStates

LEMMA Invariance == Spec => []IndInv
BY InitInv, NextInv, PTL DEF Spec

LEMMA MarkInvariance == Spec => []OneMark
<1>1. Init => OneMark
  BY DEF Init, OneMark
<1> QED BY <1>1, Invariance, NextMark, PTL DEF Spec

\* Every field of the parser keeps its type, and the positions p, mark and
\* nparsed of http_parser_execute stay inside the buffer, for every stream.
THEOREM ParserTypes == Spec => []ParserTypeOK
<1>1. IndInv => ParserTypeOK
  BY DEF IndInv
<1> QED BY <1>1, Invariance, PTL

\* None of the assertions of http_parser.c fails and no call meets the dead
\* state, whatever the peer sends and however it is cut into segments.
THEOREM AssertionsNeverFail == Spec => []AssertionsHold
BY Invariance, MarkInvariance, InvAsserts, PTL


(***************************************************************************)
(* The position in the stream.                                             *)
(***************************************************************************)
\* A round passes its byte or looks at it again, whether or not it returns.
Passes == (nparsed' = nparsed /\ p' \in {p, p + 1}) \/ nparsed' \in {p, p + 1}

\* A round in a body passes what it takes of it.
PassesBody ==
    \/ nparsed' = nparsed /\ p' \in Int /\ p' > p
    \/ nparsed' \in Nat /\ nparsed' >= p

LEMMA StepPasses ==
  /\ \A q : Consume(q) => Passes
  /\ \A of, q : MARK(of, q) => Passes
  /\ \A q : Reexecute(q) => Passes
  /\ \A e : Error(e) => Passes
  /\ \A ok, q, e : Expect(ok, q, e) => Passes
  /\ \A q, type, str : handle_http_callback(q, type, str, p) => Passes
  /\ \A q, type, str : handle_http_callback(q, type, str, p + 1) => Passes
  /\ \A of, q : CALLBACK_DATA(of, q) => Passes
BY DEF Consume, MARK, Reexecute, Error, Expect, handle_http_callback, CALLBACK_DATA, Passes

LEMMA RoundPasses ==
  ASSUME Execute, ~EndOfData, ~BodyIdentity, ~BodyIdentityEof, ~ChunkData
  PROVE  Passes
<1>1. CASE HeaderOverflow
  BY <1>1, StepPasses DEF HeaderOverflow, CALLBACK_NOTIFY, CALLBACK_NOTIFY_NOADVANCE
<1>2. CASE StartRes
  BY <1>2, StepPasses DEF StartRes, CALLBACK_NOTIFY, CALLBACK_NOTIFY_NOADVANCE
<1>3. CASE ResHTTP
  BY <1>3, StepPasses DEF ResHTTP, CALLBACK_NOTIFY, CALLBACK_NOTIFY_NOADVANCE
<1>4. CASE ResMajor
  BY <1>4, StepPasses DEF ResMajor, CALLBACK_NOTIFY, CALLBACK_NOTIFY_NOADVANCE
<1>5. CASE ResMinor
  BY <1>5, StepPasses, Zenon DEF ResMinor
<1>6. CASE ResStatusCode
  BY <1>6, StepPasses, Zenon DEF ResStatusCode
<1>7. CASE ResStatus
  BY <1>7, StepPasses DEF ResStatus, CALLBACK_NOTIFY, CALLBACK_NOTIFY_NOADVANCE
<1>8. CASE ResLineAlmostDone
  BY <1>8, StepPasses DEF ResLineAlmostDone, CALLBACK_NOTIFY, CALLBACK_NOTIFY_NOADVANCE
<1>9. CASE StartReq
  BY <1>9, StepPasses DEF StartReq, CALLBACK_NOTIFY, CALLBACK_NOTIFY_NOADVANCE
<1>10. CASE ReqMethod
  BY <1>10, StepPasses, Zenon DEF ReqMethod
<1>11. CASE ReqSpacesBeforeUrl
  BY <1>11, StepPasses, Zenon DEF ReqSpacesBeforeUrl
<1>12. CASE ReqUrl
  BY <1>12, StepPasses, Zenon DEF ReqUrl
<1>13. CASE ReqHTTP
  BY <1>13, StepPasses, Zenon DEF ReqHTTP
<1>14. CASE ReqMajor
  BY <1>14, StepPasses DEF ReqMajor, CALLBACK_NOTIFY, CALLBACK_NOTIFY_NOADVANCE
<1>15. CASE ReqMinor
  BY <1>15, StepPasses DEF ReqMinor, CALLBACK_NOTIFY, CALLBACK_NOTIFY_NOADVANCE
<1>16. CASE ReqLineAlmostDone
  BY <1>16, StepPasses DEF ReqLineAlmostDone, CALLBACK_NOTIFY, CALLBACK_NOTIFY_NOADVANCE
<1>17. CASE HeaderFieldStart
  BY <1>17, StepPasses DEF HeaderFieldStart, CALLBACK_NOTIFY, CALLBACK_NOTIFY_NOADVANCE
<1>18. CASE HeaderField
  BY <1>18, StepPasses DEF HeaderField, CALLBACK_NOTIFY, CALLBACK_NOTIFY_NOADVANCE
<1>19. CASE HeaderValueStart
  BY <1>19, StepPasses, Zenon DEF HeaderValueStart
<1>20. CASE HeaderValue
  BY <1>20, StepPasses, Zenon DEF HeaderValue
<1>21. CASE HeaderAlmostDone
  BY <1>21, StepPasses DEF HeaderAlmostDone, CALLBACK_NOTIFY, CALLBACK_NOTIFY_NOADVANCE
<1>22. CASE HeaderValueLws
  BY <1>22, StepPasses, Zenon DEF HeaderValueLws
<1>23. CASE HeadersAlmostDone
  BY <1>23, StepPasses DEF HeadersAlmostDone, CALLBACK_NOTIFY, CALLBACK_NOTIFY_NOADVANCE
<1>24. CASE HeadersDone
  BY <1>24, StepPasses DEF HeadersDone, CALLBACK_NOTIFY, CALLBACK_NOTIFY_NOADVANCE
<1>25. CASE MessageDone
  BY <1>25, StepPasses DEF MessageDone, CALLBACK_NOTIFY, CALLBACK_NOTIFY_NOADVANCE
<1>26. CASE ChunkSizeStart
  BY <1>26, StepPasses DEF ChunkSizeStart, CALLBACK_NOTIFY, CALLBACK_NOTIFY_NOADVANCE
<1>27. CASE ChunkSize
  BY <1>27, StepPasses, Zenon DEF ChunkSize
<1>28. CASE ChunkParameters
  BY <1>28, StepPasses DEF ChunkParameters, CALLBACK_NOTIFY, CALLBACK_NOTIFY_NOADVANCE
<1>29. CASE ChunkSizeAlmostDone
  BY <1>29, StepPasses DEF ChunkSizeAlmostDone, CALLBACK_NOTIFY, CALLBACK_NOTIFY_NOADVANCE
<1>30. CASE ChunkDataAlmostDone
  BY <1>30, StepPasses DEF ChunkDataAlmostDone, CALLBACK_NOTIFY, CALLBACK_NOTIFY_NOADVANCE
<1>31. CASE ChunkDataDone
  BY <1>31, StepPasses DEF ChunkDataDone, CALLBACK_NOTIFY, CALLBACK_NOTIFY_NOADVANCE
<1> QED BY <1>1, <1>2, <1>3, <1>4, <1>5, <1>6, <1>7, <1>8, <1>9, <1>10, <1>11, <1>12,
        <1>13, <1>14, <1>15, <1>16, <1>17, <1>18, <1>19, <1>20, <1>21, <1>22, <1>23,
        <1>24, <1>25, <1>26, <1>27, <1>28, <1>29, <1>30, <1>31
        DEF Execute

LEMMA EndPasses == ASSUME ParserTypeOK, EndOfData PROVE nparsed = Running /\ Passes
<1>1. nparsed = Running /\ p = Len(data) /\ nparsed' = p
  BY DEF EndOfData, handle_http_callback
<1> QED BY <1>1 DEF Passes

LEMMA BodyPasses ==
  ASSUME IndInv, at = "parse", BodyIdentity \/ BodyIdentityEof \/ ChunkData
  PROVE  /\ PassesBody
         /\ parser.state \in {"s_body_identity", "s_body_identity_eof", "s_chunk_data"}
<1>1. /\ InLoop /\ nparsed = Running /\ p < Len(data)
      /\ parser.state \in {"s_body_identity", "s_body_identity_eof", "s_chunk_data"}
  BY DEF BodyIdentity, BodyIdentityEof, ChunkData, At, InLoop
<1>2. p \in Nat /\ Len(data) \in Nat /\ parser \in http_parser /\ InCall
  BY <1>1 DEF IndInv, ParserTypeOK, Pieces
<1>3. ASSUME parser.state \in {"s_body_identity", "s_chunk_data"}
      PROVE  to_read \in Nat \ {0}
  <2>1. parser.content_length # 0
    BY <1>2, <1>3 DEF InCall, Ready, Sound, LengthSound
  <2>2. parser.content_length \in Nat
    BY <1>2, UllongAssumption DEF http_parser, Lengths
  <2>3. PICK n : n = parser.content_length
    OBVIOUS
  <2> QED BY <1>1, <1>2, <2>1, <2>2, <2>3 DEF to_read
<1>4. ASSUME p' = p + to_read, nparsed' = nparsed, to_read \in Nat \ {0}
      PROVE  PassesBody
  BY <1>2, <1>4 DEF PassesBody
<1>5. CASE BodyIdentity
  <2>1. to_read \in Nat \ {0}
    BY <1>3, <1>5 DEF BodyIdentity, At
  <2>2. (p' = p + to_read /\ nparsed' = nparsed) \/ nparsed' = p + to_read - 1
    BY <1>5 DEF BodyIdentity, handle_http_callback, TakeBody
  <2>3. ASSUME nparsed' = p + to_read - 1
        PROVE  PassesBody
    BY <1>2, <2>1, <2>3 DEF PassesBody
  <2> QED BY <1>1, <1>4, <2>1, <2>2, <2>3
<1>6. CASE BodyIdentityEof
  BY <1>1, <1>2, <1>6 DEF BodyIdentityEof, PassesBody
<1>7. CASE ChunkData
  <2>1. to_read \in Nat \ {0} /\ p' = p + to_read /\ nparsed' = nparsed
    BY <1>3, <1>7 DEF ChunkData, At, TakeBody
  <2> QED BY <1>1, <1>4, <2>1
<1> QED BY <1>1, <1>5, <1>6, <1>7

LEMMA ParseAdvances ==
  ASSUME IndInv, Parse
  PROVE  Advances
<1> DEFINE base == rcvd - Len(content)
<1>1. /\ at = "parse" /\ at' = "parse" /\ UNCHANGED <<rcvd, content>> /\ Execute
  BY DEF Parse
<1>2. /\ ParserTypeOK /\ p \in Nat /\ base \in Int
  <2>1. source.bytes \in Pieces /\ rcvd \in 0..Len(source.bytes) /\ content \in Pieces
    BY StreamFacts DEF IndInv, ReaderTypeOK
  <2>2. Len(source.bytes) \in Nat /\ Len(content) \in Nat
    BY <2>1 DEF Pieces
  <2>3. ParserTypeOK /\ Len(data) \in Nat
    BY DEF IndInv, ParserTypeOK, Pieces
  <2> QED BY <2>1, <2>2, <2>3 DEF ParserTypeOK
<1>3. nparsed = Running
  BY <1>1, <1>2, RoundInLoop, EndPasses DEF InLoop
<1>4. Position = base + p
  BY <1>1, <1>3 DEF Position
<1>5. Position' = base + (IF nparsed' = Running THEN p' ELSE nparsed')
  BY <1>1 DEF Position
<1> HIDE DEF base
<1>6. ASSUME Passes
      PROVE  Advances
  <2>1. Position' = base + p \/ Position' = base + (p + 1)
    BY <1>2, <1>3, <1>5, <1>6 DEF Passes, Running
  <2>2. Position' = Position \/ Position' = Position + 1
    BY <1>2, <1>4, <2>1
  <2> QED BY <2>2 DEF Advances
<1>7. CASE BodyIdentity \/ BodyIdentityEof \/ ChunkData
  <2>1. /\ PassesBody
        /\ parser.state \in {"s_body_identity", "s_body_identity_eof", "s_chunk_data"}
    BY <1>1, <1>7, BodyPasses
  <2>2. Position' = Position \/ Position' > Position
    BY <1>2, <1>3, <1>4, <1>5, <2>1 DEF PassesBody, Running
  <2> QED BY <2>1, <2>2 DEF Advances
<1>8. CASE EndOfData
  BY <1>2, <1>6, <1>8, EndPasses
<1> QED BY <1>1, <1>6, <1>7, <1>8, RoundPasses

LEMMA ReaderKeepsPosition ==
  ASSUME IndInv, Next, ~Parse
  PROVE  Position' = Position
<1>1. /\ rcvd \in Nat /\ Len(content) \in Nat /\ ParserTypeOK
      /\ source.bytes \in Pieces /\ rcvd \in 0..Len(source.bytes) /\ Len(source.bytes) \in Nat
  BY StreamFacts DEF IndInv, ReaderTypeOK, Pieces
<1>2. ASSUME at = "loop", at' # "parse", UNCHANGED <<rcvd, content>>
      PROVE  Position' = Position
  BY <1>2 DEF Position
<1>3. ASSUME NEW buf, http_parser_execute(buf), at' = "parse"
      PROVE  Position' = rcvd' - Len(content')
  <2>1. p' = 0 /\ nparsed' \in {Running, 0}
    BY <1>3 DEF http_parser_execute
  <2>2. Position' = (rcvd' - Len(content')) + 0
    BY <1>3, <2>1 DEF Position
  <2>3. rcvd' - Len(content') \in Int
    BY NextInv, StreamFacts DEF IndInv, ReaderTypeOK, Pieces
  <2> QED BY <2>2, <2>3
<1>4. CASE readFull_returns \/ readFull_headers_done
  <2>1. at = "loop" /\ at' # "parse" /\ UNCHANGED <<rcvd, content>>
    BY <1>4 DEF readFull_returns, readFull_headers_done
  <2> QED BY <1>2, <2>1
<1>5. ASSUME NEW n \in 1..Len(source.bytes) - rcvd, Read(n)
      PROVE  Position' = Position
  <2>1. /\ at = "loop" /\ content = <<>> /\ rcvd' = rcvd + n /\ at' = "parse"
        /\ content' = SubSeq(source.bytes, rcvd + 1, rcvd + n) /\ http_parser_execute(content')
    BY <1>5 DEF Read, WantsMore
  <2>2. Len(content') = n
    <3>1. rcvd + 1 \in 1..Len(source.bytes) /\ rcvd + n \in 1..Len(source.bytes)
      BY <1>1
    <3> QED BY <1>1, <2>1, <3>1 DEF Pieces
  <2>3. Position = rcvd
    BY <1>1, <2>1 DEF Position
  <2> QED BY <1>1, <1>3, <2>1, <2>2, <2>3
<1>6. CASE UseLeftover
  <2>1. /\ at = "loop" /\ at' = "parse" /\ UNCHANGED <<rcvd, content>>
        /\ http_parser_execute(content)
    BY <1>6 DEF UseLeftover, WantsMore
  <2>2. Position = (rcvd - Len(content)) + 0
    BY <2>1 DEF Position
  <2> QED BY <1>1, <1>3, <2>1, <2>2
<1>7. CASE ReadEOF
  <2>1. at = "loop" /\ UNCHANGED <<rcvd, content>> /\ at' # "parse"
    BY <1>7, ReturnAt DEF ReadEOF, WantsMore
  <2> QED BY <1>2, <2>1
<1>8. CASE ReadError
  BY <1>2, <1>8 DEF ReadError, WantsMore
<1>9. CASE parse_http
  <2>1. /\ at = "parse" /\ nparsed # Running /\ rcvd' = rcvd /\ source' = source
        /\ content' = SubSeq(content, nparsed + 1, Len(content)) /\ at' # "parse"
    BY <1>9, ReturnAt DEF parse_http
  <2>2. nparsed \in 0..Len(content)
    BY <1>1, <2>1 DEF IndInv, ParserTypeOK
  <2>3. Len(content') = Len(content) - nparsed
    BY <2>1, <2>2, RestExact
  <2>4. Position = (rcvd - Len(content)) + nparsed
    BY <2>1 DEF Position
  <2>5. Position' = (rcvd - Len(content')) + 0
    BY <2>1 DEF Position
  <2> QED BY <1>1, <2>2, <2>3, <2>4, <2>5
<1>10. CASE UNCHANGED vars
  BY <1>10 DEF vars, pvars, Position
<1> QED BY <1>4, <1>5, <1>6, <1>7, <1>8, <1>9, <1>10 DEF Next

\* Each byte is given to http_parser_execute once and in order, whichever
\* callback the parser stops at and wherever a segment ends.
THEOREM BytesParsedOnce == Spec => ParsedOnce
<1>1. IndInv /\ [Next]_vars => [Advances]_vars
  BY ParseAdvances, ReaderKeepsPosition DEF Advances
<1> QED BY <1>1, Invariance, PTL DEF Spec, ParsedOnce

\* What is kept between two calls is the end of what was received, in order
\* and without a gap.
THEOREM LeftoverIsExact == Spec => []LeftoverExact
<1>1. IndInv => LeftoverExact
  BY DEF IndInv
<1> QED BY <1>1, Invariance, PTL

============================================================================
