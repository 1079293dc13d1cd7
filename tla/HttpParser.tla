------------------------------ MODULE HttpParser ------------------------------
(***************************************************************************)
(* http_parser_execute() of http_parser.c as luaw_http_parser.c drives it: *)
(* every callback pauses the parser, so one call parses up to the next     *)
(* callback, the end of the buffer or an error.                            *)
(*                                                                         *)
(* A buffer is a sequence of pieces.  A piece is one character, or the     *)
(* rest of a word the parser compares letter by letter: a method, "HTTP/", *)
(* a header name or value it knows is two pieces, and a buffer may end     *)
(* between them.  One action is one round of the parser's loop, named for  *)
(* the states it handles.                                                  *)
(***************************************************************************)
EXTENDS Integers, Sequences, SequencesExt, UrlChars

CONSTANTS HTTP_MAX_HEADER_SIZE,  \* limit on the size of the header part
          ULLONG_MAX             \* largest length; stands for "no length given"

ASSUME HeaderSizeAssumption == HTTP_MAX_HEADER_SIZE \in Nat
ASSUME UllongAssumption == ULLONG_MAX \in Nat /\ ULLONG_MAX > 16

VARIABLES parser,   \* the http_parser structure
          data,     \* the buffer handed to http_parser_execute
          p,        \* the loop's position in data, counted from 0
          mark,     \* the mark that is set: of which string, and where it starts
          again,    \* the byte is looked at again (goto reexecute_byte)
          cb,       \* the callback's record in luaw_http_parser_t
          nparsed   \* what the call returned, Running while it runs

pvars == <<parser, data, p, mark, again, cb, nparsed>>

Running == -1
NoMark == [of |-> "none", at |-> 0]
NoCallback == [type |-> "none", str |-> <<>>]

(***************************************************************************)
(* Words the parser matches.                                               *)
(***************************************************************************)
CONNECT == <<"C", "ONNECT">>
Methods == {<<"G", "ET">>, <<"P", "OST">>, CONNECT}

Connection == <<"con", "nection">>
ProxyConnection == <<"proxy", "-connection">>
ContentLength == <<"con", "tent-length">>
TransferEncoding == <<"transfer", "-encoding">>
Upgrade == <<"up", "grade">>
KnownFields == {Connection, ProxyConnection, ContentLength, TransferEncoding, Upgrade}
KeepAlive == <<"k", "eep-alive">>
Close == <<"c", "lose">>
Chunked == <<"c", "hunked">>

\* A known header with a value the parser knows: header_state and index say
\* how much of one has been seen.
KeepAliveHeaders == {f \o KeepAlive : f \in {Connection, ProxyConnection}}
CloseHeaders == {f \o Close : f \in {Connection, ProxyConnection}}
ChunkedHeader == TransferEncoding \o Chunked
KnownHeaders == KeepAliveHeaders \cup CloseHeaders \cup {ChunkedHeader}
h_general == <<"general">>

\* One more piece c behind the matched piece sequence m of one of the words.
Match(m, c, words) ==
    IF \E w \in words : IsPrefix(Append(m, c), w) THEN Append(m, c) ELSE h_general

\* TOKEN(): what a header name may consist of.
TOKEN(c) == c \notin {" ", "HT", ":", "/", "?", "@", "[", "]", "=", "CR", "LF"}

(***************************************************************************)
(* The parser structure.                                                   *)
(***************************************************************************)
http_parser_init(t) ==
    [type |-> t, state |-> IF t = "HTTP_REQUEST" THEN "s_start_req" ELSE "s_start_res",
     header_state |-> h_general, flags |-> {}, nread |-> 0, content_length |-> 0,
     http_major |-> 0, http_minor |-> 0, status_code |-> 0, method |-> <<>>,
     http_errno |-> "HPE_OK", upgrade |-> FALSE]

States ==
    UrlStates \cup
    {"s_dead", "s_start_res", "s_res_H", "s_res_first_http_major", "s_res_http_major",
     "s_res_first_http_minor", "s_res_http_minor", "s_res_first_status_code", "s_res_status_code",
     "s_res_status_start", "s_res_status", "s_res_line_almost_done", "s_start_req", "s_req_method",
     "s_req_spaces_before_url", "s_req_http_start", "s_req_http_H", "s_req_first_http_major",
     "s_req_http_major", "s_req_first_http_minor", "s_req_http_minor", "s_req_line_almost_done",
     "s_header_field_start", "s_header_field", "s_header_value_start", "s_header_value",
     "s_header_value_lws", "s_header_almost_done", "s_headers_almost_done", "s_headers_done",
     "s_chunk_size_start", "s_chunk_size", "s_chunk_parameters", "s_chunk_size_almost_done",
     "s_chunk_data", "s_chunk_data_almost_done", "s_chunk_data_done",
     "s_body_identity", "s_body_identity_eof", "s_message_done"}
Flags ==
    {"F_CHUNKED", "F_CONNECTION_KEEP_ALIVE", "F_CONNECTION_CLOSE", "F_TRAILING", "F_UPGRADE"}
Kinds == {"HTTP_REQUEST", "HTTP_RESPONSE"}
Pieces == Seq(STRING)
HeaderStates == Pieces \cup {h_general}
Lengths == 0..ULLONG_MAX
Numbers == 0..999
Errors ==
    {"HPE_HEADER_OVERFLOW", "HPE_STRICT", "HPE_INVALID_CONSTANT", "HPE_INVALID_VERSION",
     "HPE_INVALID_STATUS", "HPE_INVALID_METHOD", "HPE_INVALID_URL", "HPE_LF_EXPECTED",
     "HPE_INVALID_HEADER_TOKEN", "HPE_INVALID_CONTENT_LENGTH", "HPE_INVALID_CHUNK_SIZE"}
Errnos == Errors \cup {"HPE_OK", "HPE_PAUSED"}
http_parser ==
    [type : Kinds, state : States, header_state : HeaderStates, flags : SUBSET Flags, nread : Nat,
     content_length : Lengths, http_major : Numbers, http_minor : Numbers, status_code : Numbers,
     method : Pieces, http_errno : Errnos, upgrade : BOOLEAN]

http_message_needs_eof(q) ==
    /\ q.type = "HTTP_RESPONSE"
    /\ q.status_code \div 100 # 1
    /\ q.status_code \notin {204, 304}
    /\ "F_CHUNKED" \notin q.flags
    /\ q.content_length = ULLONG_MAX

http_should_keep_alive(q) ==
    /\ IF q.http_major > 0 /\ q.http_minor > 0
         THEN "F_CONNECTION_CLOSE" \notin q.flags
         ELSE "F_CONNECTION_KEEP_ALIVE" \in q.flags
    /\ ~http_message_needs_eof(q)

start_state(q) == http_parser_init(q.type).state
NEW_MESSAGE(q) ==
    [q EXCEPT !.state = IF http_should_keep_alive(q) THEN start_state(q) ELSE "s_dead"]

\* http_parser_pause(): q with the pause set or taken back.
http_parser_pause(q, paused) ==
    IF q.http_errno \in {"HPE_OK", "HPE_PAUSED"}
      THEN [q EXCEPT !.http_errno = IF paused THEN "HPE_PAUSED" ELSE "HPE_OK"]
      ELSE q

(***************************************************************************)
(* One round of the loop.                                                  *)
(***************************************************************************)
Ch == data[p + 1]

BodyStates ==
    {"s_chunk_data", "s_chunk_data_almost_done", "s_chunk_data_done",
     "s_body_identity", "s_body_identity_eof", "s_message_done"}
PARSING_HEADER(s) == s \notin BodyStates

\* The parser with the current byte counted; a byte looked at again is not
\* counted twice within one call.
Counted ==
    IF PARSING_HEADER(parser.state) /\ ~again
      THEN [parser EXCEPT !.nread = @ + 1]
      ELSE parser

Overflow == Counted # parser /\ Counted.nread > HTTP_MAX_HEADER_SIZE

InLoop == nparsed = Running /\ p < Len(data)
At(states) == InLoop /\ parser.state \in states /\ ~Overflow

To(s) == [Counted EXCEPT !.state = s]
Failed(e) == [Counted EXCEPT !.http_errno = e]

\* break: on to the next byte with parser q.
Consume(q) ==
    /\ parser' = q
    /\ p' = p + 1
    /\ again' = FALSE
    /\ UNCHANGED <<data, mark, cb, nparsed>>

\* MARK(of), then break.
MARK(of, q) ==
    /\ mark' = IF mark.of = of THEN mark ELSE [of |-> of, at |-> p]
    /\ parser' = q
    /\ p' = p + 1
    /\ again' = FALSE
    /\ UNCHANGED <<data, cb, nparsed>>

\* goto reexecute_byte
Reexecute(q) ==
    /\ parser' = q
    /\ again' = TRUE
    /\ UNCHANGED <<data, p, mark, cb, nparsed>>

\* SET_ERRNO(e); goto error
Error(e) ==
    /\ parser' = Failed(e)
    /\ nparsed' = p
    /\ UNCHANGED <<data, p, mark, again, cb>>

\* break if the byte is what it must be, an error otherwise (STRICT_CHECK).
Expect(ok, q, e) == IF ok THEN Consume(q) ELSE Error(e)

\* handle_http_callback(): note the callback and pause; the call returns n.
handle_http_callback(q, type, str, n) ==
    /\ cb' = [type |-> type, str |-> str]
    /\ parser' = http_parser_pause(q, TRUE)
    /\ nparsed' = n
    /\ UNCHANGED <<data, p, mark, again>>

CALLBACK_NOTIFY(type, q) == handle_http_callback(q, type, <<>>, p + 1)
CALLBACK_NOTIFY_NOADVANCE(type, q) == handle_http_callback(q, type, <<>>, p)

Marked == SubSeq(data, mark.at + 1, p)
CALLBACK_DATA(of, q) ==
    IF mark.of = of THEN handle_http_callback(q, of, Marked, p + 1) ELSE Consume(q)

(***************************************************************************)
(* Entry: the marks of a string that goes on from the buffer before.       *)
(***************************************************************************)
\* Mutation: a header value that goes on is not marked.
MarkOnEntry_no_value(s) ==
    CASE s = "s_header_field" -> [of |-> "header_field", at |-> 0]
      [] s \in UrlStates -> [of |-> "url", at |-> 0]
      [] s = "s_res_status" -> [of |-> "status", at |-> 0]
      [] OTHER -> NoMark

MarkOnEntry(s) ==
    CASE s = "s_header_field" -> [of |-> "header_field", at |-> 0]
      [] s = "s_header_value" -> [of |-> "header_value", at |-> 0]
      [] s \in UrlStates -> [of |-> "url", at |-> 0]
      [] s = "s_res_status" -> [of |-> "status", at |-> 0]
      [] OTHER -> NoMark

\* The call http_parser_execute(parser, settings, buf, len) begins, with
\* http_cb reset by parse_http.  Buffers are never empty here: conn:read()
\* returns what arrived, and parse_http is not called without content.
http_parser_execute(buf) ==
    /\ data' = buf
    /\ p' = 0
    /\ mark' = MarkOnEntry(parser.state)
    /\ again' = FALSE
    /\ cb' = NoCallback
    /\ nparsed' = IF parser.http_errno = "HPE_OK" THEN Running ELSE 0
    /\ UNCHANGED parser

\* The header part is longer than allowed.
HeaderOverflow == InLoop /\ Overflow /\ Error("HPE_HEADER_OVERFLOW")

Fresh(s) == [To(s) EXCEPT !.flags = {}, !.content_length = ULLONG_MAX]

(***************************************************************************)
(* The first line of a response.                                           *)
(***************************************************************************)
StartRes ==
    /\ At({"s_start_res"})
    /\ CASE Ch = "H" -> CALLBACK_NOTIFY("message_begin", Fresh("s_res_H"))
         [] Ch \in {"CR", "LF"} -> CALLBACK_NOTIFY("message_begin", Fresh("s_start_res"))
         [] OTHER -> Error("HPE_INVALID_CONSTANT")

\* The states s_res_H to s_res_HTTP.
ResHTTP == At({"s_res_H"}) /\ Expect(Ch = "TTP/", To("s_res_first_http_major"), "HPE_STRICT")

ResMajor ==
    \/ /\ At({"s_res_first_http_major"})
       /\ Expect(IS_NUM(Ch), [To("s_res_http_major") EXCEPT !.http_major = unhex(Ch)],
                 "HPE_INVALID_VERSION")
    \/ /\ At({"s_res_http_major"})
       /\ IF Ch = "." THEN Consume(To("s_res_first_http_minor"))
          ELSE Expect(IS_NUM(Ch) /\ Decimal(parser.http_major, Ch) <= 999,
                      [Counted EXCEPT !.http_major = Decimal(@, Ch)], "HPE_INVALID_VERSION")

ResMinor ==
    \/ /\ At({"s_res_first_http_minor"})
       /\ Expect(IS_NUM(Ch), [To("s_res_http_minor") EXCEPT !.http_minor = unhex(Ch)],
                 "HPE_INVALID_VERSION")
    \/ /\ At({"s_res_http_minor"})
       /\ IF Ch = " " THEN Consume(To("s_res_first_status_code"))
          ELSE Expect(IS_NUM(Ch) /\ Decimal(parser.http_minor, Ch) <= 999,
                      [Counted EXCEPT !.http_minor = Decimal(@, Ch)], "HPE_INVALID_VERSION")

LineEnd(almost) ==
    IF Ch = "CR" THEN To(almost) ELSE To("s_header_field_start")

ResStatusCode ==
    \/ /\ At({"s_res_first_status_code"})
       /\ IF Ch = " " THEN Consume(Counted)
          ELSE Expect(IS_NUM(Ch), [To("s_res_status_code") EXCEPT !.status_code = unhex(Ch)],
                      "HPE_INVALID_STATUS")
    \/ /\ At({"s_res_status_code"})
       /\ CASE Ch = " " -> Consume(To("s_res_status_start"))
            [] Ch \in {"CR", "LF"} -> Consume(LineEnd("s_res_line_almost_done"))
            [] OTHER -> Expect(IS_NUM(Ch) /\ Decimal(parser.status_code, Ch) <= 999,
                               [Counted EXCEPT !.status_code = Decimal(@, Ch)],
                               "HPE_INVALID_STATUS")

ResStatus ==
    \/ /\ At({"s_res_status_start"})
       /\ IF Ch \in {"CR", "LF"} THEN Consume(LineEnd("s_res_line_almost_done"))
          ELSE MARK("status", To("s_res_status"))
    \/ /\ At({"s_res_status"})
       /\ IF Ch \in {"CR", "LF"}
            THEN CALLBACK_DATA("status", LineEnd("s_res_line_almost_done"))
            ELSE Consume(Counted)

ResLineAlmostDone ==
    At({"s_res_line_almost_done"}) /\ Expect(Ch = "LF", To("s_header_field_start"), "HPE_STRICT")

(***************************************************************************)
(* The first line of a request.                                            *)
(***************************************************************************)
StartReq ==
    /\ At({"s_start_req"})
    /\ CASE Ch \in {"CR", "LF"} -> Consume(Counted)
         [] \E m \in Methods : m[1] = Ch ->
                CALLBACK_NOTIFY("message_begin", [Fresh("s_req_method") EXCEPT !.method = <<Ch>>])
         [] OTHER -> Error("HPE_INVALID_METHOD")

ReqMethod ==
    /\ At({"s_req_method"})
    /\ IF Ch = " " /\ parser.method \in Methods
         THEN Consume(To("s_req_spaces_before_url"))
         ELSE Expect(Match(parser.method, Ch, Methods) # h_general,
                     [Counted EXCEPT !.method = Append(@, Ch)], "HPE_INVALID_METHOD")

ReqSpacesBeforeUrl ==
    LET t == parse_url_char(IF parser.method = CONNECT THEN "s_req_server_start" ELSE parser.state, Ch)
    IN  /\ At({"s_req_spaces_before_url"})
        /\ CASE Ch = " " -> Consume(Counted)
             [] Ch # " " /\ t = "s_dead" -> Error("HPE_INVALID_URL")
             [] OTHER -> MARK("url", To(t))

\* In the first four states no white space is allowed, behind them it ends
\* the URL; a line end in its place makes the request one of HTTP/0.9.
ReqUrl ==
    /\ At(UrlStates)
    /\ IF \/ Ch \notin {" ", "CR", "LF"}
          \/ parser.state \in {"s_req_schema", "s_req_schema_slash",
                               "s_req_schema_slash_slash", "s_req_server_start"}
         THEN LET t == parse_url_char(parser.state, Ch)
              IN  Expect(t # "s_dead", To(t), "HPE_INVALID_URL")
         ELSE CALLBACK_DATA("url",
                IF Ch = " " THEN To("s_req_http_start")
                ELSE [LineEnd("s_req_line_almost_done") EXCEPT !.http_major = 0, !.http_minor = 9])

\* The states s_req_http_start to s_req_http_HTTP.
ReqHTTP ==
    \/ /\ At({"s_req_http_start"})
       /\ IF Ch = " " THEN Consume(Counted)
          ELSE Expect(Ch = "H", To("s_req_http_H"), "HPE_INVALID_CONSTANT")
    \/ /\ At({"s_req_http_H"})
       /\ Expect(Ch = "TTP/", To("s_req_first_http_major"), "HPE_STRICT")

ReqMajor ==
    \/ /\ At({"s_req_first_http_major"})
       /\ Expect(IS_NUM(Ch) /\ Ch # "0", [To("s_req_http_major") EXCEPT !.http_major = unhex(Ch)],
                 "HPE_INVALID_VERSION")
    \/ /\ At({"s_req_http_major"})
       /\ IF Ch = "." THEN Consume(To("s_req_first_http_minor"))
          ELSE Expect(IS_NUM(Ch) /\ Decimal(parser.http_major, Ch) <= 999,
                      [Counted EXCEPT !.http_major = Decimal(@, Ch)], "HPE_INVALID_VERSION")

ReqMinor ==
    \/ /\ At({"s_req_first_http_minor"})
       /\ Expect(IS_NUM(Ch), [To("s_req_http_minor") EXCEPT !.http_minor = unhex(Ch)],
                 "HPE_INVALID_VERSION")
    \/ /\ At({"s_req_http_minor"})
       /\ IF Ch \in {"CR", "LF"} THEN Consume(LineEnd("s_req_line_almost_done"))
          ELSE Expect(IS_NUM(Ch) /\ Decimal(parser.http_minor, Ch) <= 999,
                      [Counted EXCEPT !.http_minor = Decimal(@, Ch)], "HPE_INVALID_VERSION")

ReqLineAlmostDone ==
    /\ At({"s_req_line_almost_done"})
    /\ Expect(Ch = "LF", To("s_header_field_start"), "HPE_LF_EXPECTED")

(***************************************************************************)
(* Headers, and the trailers of a chunked message.                         *)
(***************************************************************************)
HeaderFieldStart ==
    /\ At({"s_header_field_start"})
    /\ CASE Ch = "CR" -> Consume(To("s_headers_almost_done"))
         [] Ch = "LF" -> Reexecute(To("s_headers_almost_done"))
         [] TOKEN(Ch) -> MARK("header_field",
                [To("s_header_field") EXCEPT !.header_state = Match(<<>>, Ch, KnownFields)])
         [] OTHER -> Error("HPE_INVALID_HEADER_TOKEN")

HeaderField ==
    /\ At({"s_header_field"})
    /\ CASE TOKEN(Ch) -> Consume([Counted EXCEPT !.header_state = Match(@, Ch, KnownFields)])
         [] Ch = ":" -> CALLBACK_DATA("header_field", To("s_header_value_start"))
         [] Ch = "CR" -> CALLBACK_DATA("header_field", To("s_header_almost_done"))
         [] Ch = "LF" -> CALLBACK_DATA("header_field", To("s_header_field_start"))
         [] OTHER -> Error("HPE_INVALID_HEADER_TOKEN")

HeaderValueStart ==
    /\ At({"s_header_value_start"})
    /\ LET h == parser.header_state
           q == To("s_header_value")
           general == [q EXCEPT !.header_state = h_general]
       IN  IF Ch \in {" ", "HT"} THEN Consume(Counted)
           ELSE IF Ch = "CR" THEN handle_http_callback(
             [general EXCEPT !.state = "s_header_almost_done"], "header_value", <<>>, p + 1)
           ELSE IF Ch = "LF" THEN handle_http_callback(
             To("s_header_field_start"), "header_value", <<>>, p + 1)
           ELSE IF h = ContentLength /\ ~IS_NUM(Ch) THEN Error("HPE_INVALID_CONTENT_LENGTH")
           ELSE MARK("header_value",
             CASE h = Upgrade -> [general EXCEPT !.flags = @ \cup {"F_UPGRADE"}]
               [] h = ContentLength -> [q EXCEPT !.content_length = unhex(Ch)]
               [] h \in {Connection, ProxyConnection, TransferEncoding} ->
                    [q EXCEPT !.header_state = Match(h, Ch, KnownHeaders)]
               [] OTHER -> general)

\* One more digit of a length in the given base.  The test that keeps it
\* from wrapping is made on the length before the digit, after the digit
\* has been added to a copy.
LengthDigit(base, c) == (parser.content_length * base + unhex(c)) % (ULLONG_MAX + 1)

\* Mutation: only the sum is tested.
LengthOverflows_sum(base) == parser.content_length + base > ULLONG_MAX

LengthOverflows(base) == (ULLONG_MAX - base) \div base < parser.content_length

HeaderValue ==
    /\ At({"s_header_value"})
    /\ LET h == parser.header_state
       IN  IF Ch = "CR" THEN CALLBACK_DATA("header_value", To("s_header_almost_done"))
           ELSE IF Ch = "LF"
             THEN handle_http_callback(To("s_header_almost_done"), "header_value", Marked, p)
           ELSE IF h = ContentLength /\ Ch # " "
             THEN Expect(IS_NUM(Ch) /\ ~LengthOverflows(10),
                         [Counted EXCEPT !.content_length = LengthDigit(10, Ch)],
                         "HPE_INVALID_CONTENT_LENGTH")
           ELSE IF h \in KnownHeaders \cup {ContentLength} /\ Ch = " "
             THEN Consume(Counted)
           ELSE Consume([Counted EXCEPT !.header_state = Match(h, Ch, KnownHeaders)])

FlagOf(h) ==
    CASE h \in KeepAliveHeaders -> {"F_CONNECTION_KEEP_ALIVE"}
      [] h \in CloseHeaders -> {"F_CONNECTION_CLOSE"}
      [] h = ChunkedHeader -> {"F_CHUNKED"}
      [] OTHER -> {}

HeaderAlmostDone ==
    /\ At({"s_header_almost_done"})
    /\ Expect(Ch = "LF",
              [To("s_header_value_lws") EXCEPT !.flags = @ \cup FlagOf(parser.header_state)],
              "HPE_STRICT")

HeaderValueLws ==
    /\ At({"s_header_value_lws"})
    /\ IF Ch \in {" ", "HT"} THEN Consume(To("s_header_value_start"))
       ELSE Reexecute(To("s_header_field_start"))

\* Mutation: the byte is consumed by on_headers_complete.
HeadersAlmostDone_advance ==
    /\ At({"s_headers_almost_done"})
    /\ IF Ch # "LF" THEN Error("HPE_STRICT")
       ELSE IF "F_TRAILING" \in parser.flags
         THEN CALLBACK_NOTIFY("message_complete", NEW_MESSAGE(Counted))
       ELSE CALLBACK_NOTIFY("headers_complete",
              [To("s_headers_done") EXCEPT
                 !.upgrade = "F_UPGRADE" \in parser.flags \/ parser.method = CONNECT])

\* The empty line: the end of a chunked message's trailers, or of the
\* headers.  After on_headers_complete the byte is left for the next call.
HeadersAlmostDone ==
    /\ At({"s_headers_almost_done"})
    /\ IF Ch # "LF" THEN Error("HPE_STRICT")
       ELSE IF "F_TRAILING" \in parser.flags
         THEN CALLBACK_NOTIFY("message_complete", NEW_MESSAGE(Counted))
       ELSE CALLBACK_NOTIFY_NOADVANCE("headers_complete",
              [To("s_headers_done") EXCEPT
                 !.upgrade = "F_UPGRADE" \in parser.flags \/ parser.method = CONNECT])

\* Mutation: the count of header bytes is not reset.
HeadersDone_keep_nread ==
    /\ At({"s_headers_done"})
    /\ IF Ch # "LF" THEN Error("HPE_STRICT")
       ELSE IF parser.upgrade THEN CALLBACK_NOTIFY("message_complete", NEW_MESSAGE(Counted))
       ELSE IF "F_CHUNKED" \in parser.flags THEN Consume(To("s_chunk_size_start"))
       ELSE IF parser.content_length \notin {0, ULLONG_MAX} THEN Consume(To("s_body_identity"))
       ELSE IF ~http_message_needs_eof(parser)
         THEN CALLBACK_NOTIFY("message_complete", NEW_MESSAGE(Counted))
       ELSE Consume(To("s_body_identity_eof"))

\* How the end of the body will be found.
HeadersDone ==
    /\ At({"s_headers_done"})
    /\ LET q == [Counted EXCEPT !.nread = 0]
       IN  IF Ch # "LF" THEN Error("HPE_STRICT")
           ELSE IF q.upgrade THEN CALLBACK_NOTIFY("message_complete", NEW_MESSAGE(q))
           ELSE IF "F_CHUNKED" \in q.flags
             THEN Consume([q EXCEPT !.state = "s_chunk_size_start"])
           ELSE IF q.content_length \notin {0, ULLONG_MAX}
             THEN Consume([q EXCEPT !.state = "s_body_identity"])
           ELSE IF q.content_length = 0 \/ q.type = "HTTP_REQUEST" \/ ~http_message_needs_eof(q)
             THEN CALLBACK_NOTIFY("message_complete", NEW_MESSAGE(q))
           ELSE Consume([q EXCEPT !.state = "s_body_identity_eof"])

(***************************************************************************)
(* Bodies.                                                                 *)
(***************************************************************************)
to_read == IF parser.content_length < Len(data) - p THEN parser.content_length ELSE Len(data) - p

\* The bytes from p on that belong to the body are taken at once, with p
\* left on the last of them.
BodyMark == IF mark.of = "body" THEN mark ELSE [of |-> "body", at |-> p]
TakeBody(s) ==
    /\ parser' = [parser EXCEPT !.content_length = @ - to_read,
                                !.state = IF parser.content_length = to_read THEN s ELSE @]
    /\ mark' = BodyMark
    /\ p' = p + to_read
    /\ again' = FALSE
    /\ UNCHANGED <<data, cb, nparsed>>

\* With the body complete its last byte is left for the call that reports
\* the end of the message.
BodyIdentity ==
    /\ At({"s_body_identity"})
    /\ IF to_read < parser.content_length THEN TakeBody("s_body_identity")
       ELSE handle_http_callback(
              [parser EXCEPT !.content_length = 0, !.state = "s_message_done"],
              "body", SubSeq(data, BodyMark.at + 1, p + to_read), p + to_read - 1)

BodyIdentityEof ==
    /\ At({"s_body_identity_eof"})
    /\ mark' = BodyMark
    /\ p' = Len(data)
    /\ again' = FALSE
    /\ UNCHANGED <<parser, data, cb, nparsed>>

MessageDone ==
    At({"s_message_done"}) /\ CALLBACK_NOTIFY("message_complete", NEW_MESSAGE(parser))

ChunkSizeStart ==
    /\ At({"s_chunk_size_start"})
    /\ Expect(unhex(Ch) # -1, [To("s_chunk_size") EXCEPT !.content_length = unhex(Ch)],
              "HPE_INVALID_CHUNK_SIZE")

ChunkSize ==
    /\ At({"s_chunk_size"})
    /\ CASE Ch = "CR" -> Consume(To("s_chunk_size_almost_done"))
         [] Ch \in {";", " "} -> Consume(To("s_chunk_parameters"))
         [] unhex(Ch) # -1 -> Expect(~LengthOverflows(16),
                [Counted EXCEPT !.content_length = LengthDigit(16, Ch)],
                "HPE_INVALID_CONTENT_LENGTH")
         [] OTHER -> Error("HPE_INVALID_CHUNK_SIZE")

ChunkParameters ==
    /\ At({"s_chunk_parameters"})
    /\ Consume(IF Ch = "CR" THEN To("s_chunk_size_almost_done") ELSE Counted)

\* The chunk of size 0 is the last one; trailers follow it.
ChunkSizeAlmostDone ==
    /\ At({"s_chunk_size_almost_done"})
    /\ Expect(Ch = "LF",
              IF parser.content_length = 0
                THEN [To("s_header_field_start") EXCEPT !.nread = 0, !.flags = @ \cup {"F_TRAILING"}]
                ELSE [To("s_chunk_data") EXCEPT !.nread = 0],
              "HPE_STRICT")

ChunkData == At({"s_chunk_data"}) /\ TakeBody("s_chunk_data_almost_done")

ChunkDataAlmostDone ==
    /\ At({"s_chunk_data_almost_done"})
    /\ IF Ch = "CR" THEN CALLBACK_DATA("body", To("s_chunk_data_done")) ELSE Error("HPE_STRICT")

ChunkDataDone ==
    /\ At({"s_chunk_data_done"})
    /\ Expect(Ch = "LF", [To("s_chunk_size_start") EXCEPT !.nread = 0], "HPE_STRICT")

\* The buffer is used up: report the part of a string seen so far.
EndOfData ==
    /\ nparsed = Running
    /\ p = Len(data)
    /\ IF mark.of # "none" THEN handle_http_callback(parser, mark.of, Marked, p)
       ELSE nparsed' = Len(data) /\ UNCHANGED <<parser, data, p, mark, again, cb>>

Execute ==
    \/ HeaderOverflow
    \/ StartRes \/ ResHTTP \/ ResMajor \/ ResMinor \/ ResStatusCode \/ ResStatus \/ ResLineAlmostDone
    \/ StartReq \/ ReqMethod \/ ReqSpacesBeforeUrl \/ ReqUrl \/ ReqHTTP \/ ReqMajor \/ ReqMinor
    \/ ReqLineAlmostDone
    \/ HeaderFieldStart \/ HeaderField \/ HeaderValueStart \/ HeaderValue
    \/ HeaderAlmostDone \/ HeaderValueLws \/ HeadersAlmostDone \/ HeadersDone
    \/ BodyIdentity \/ BodyIdentityEof \/ MessageDone
    \/ ChunkSizeStart \/ ChunkSize \/ ChunkParameters \/ ChunkSizeAlmostDone
    \/ ChunkData \/ ChunkDataAlmostDone \/ ChunkDataDone \/ EndOfData

Strings == {"status", "url", "header_field", "header_value", "body"}
Callbacks == Strings \cup {"none", "message_begin", "headers_complete", "message_complete"}

\* The positions in the buffer lie within it, whatever the peer sends: p, the
\* mark and the number of bytes that parse_http() takes for parsed; the
\* numbers of the first line stay below 1000 and a length within its type.
ParserTypeOK ==
    /\ parser \in http_parser
    /\ data \in Pieces
    /\ p \in 0..Len(data)
    /\ mark \in [of : Strings \cup {"none"}, at : 0..p]
    /\ again \in BOOLEAN
    /\ cb \in [type : Callbacks, str : Pieces]
    /\ nparsed \in {Running} \cup 0..Len(data)
================================================================================
