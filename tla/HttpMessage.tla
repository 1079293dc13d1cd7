------------------------------ MODULE HttpMessage ------------------------------
(***************************************************************************)
(* Reading one HTTP message from a connection: readFull, readAndParse and  *)
(* the parser callbacks of lib/luaw_http.lua, parse_http of                *)
(* luaw_http_parser.c, and the streaming reader newLPackReqReader of       *)
(* lib/luapack.lua, on top of http_parser_execute (HttpParser).            *)
(*                                                                         *)
(* conn:read() delivers the bytes of `stream` in segments of any size, the *)
(* end of file or an error.                                                *)
(***************************************************************************)
EXTENDS HttpParser, Url

CONSTANTS Nil,       \* Lua's nil
          Streams    \* records [type, bytes]: what the peer would send

ASSUME StreamsAssumption == \A x \in Streams : x.type \in Kinds /\ x.bytes \in Pieces

VARIABLES source,    \* the member of Streams that is being read
          rcvd,      \* how many of its bytes conn:read() has delivered
          content,   \* luaw_read_content from luaw_read_offset on
          req,       \* the request or response object
          phase,     \* of readFull: "headers", "body", or "streaming" once it has returned early
          streamed,  \* what the streaming reader's readFn has returned
          at         \* "loop", "parse", "done", "error", "undefined"

vars == <<pvars, source, rcvd, content, req, phase, streamed, at>>

FormType == <<"form">>
LuaPackType == <<"luapack">>
ContentType == <<"content-type">>

newHttpMessage ==
    [headers |-> <<>>, accName |-> Nil, accValue |-> Nil, url |-> Nil, statusMesg |-> Nil,
     bodyParts |-> <<>>, body |-> Nil, params |-> Nil, headersDone |-> FALSE, mesgDone |-> FALSE,
     EOF |-> FALSE, major |-> Nil, minor |-> Nil, method |-> Nil, status |-> Nil]

Init ==
    /\ source \in Streams
    /\ parser = http_parser_init(source.type)
    /\ data = <<>> /\ p = 0 /\ mark = NoMark /\ again = FALSE /\ cb = NoCallback /\ nparsed = 0
    /\ rcvd = 0
    /\ content = <<>>
    /\ req = newHttpMessage
    /\ phase = "headers"
    /\ streamed = <<>>
    /\ at = "loop"

(***************************************************************************)
(* The callbacks, each from the message object to its new value.           *)
(***************************************************************************)
accumulateChunkedValue(acc, chunk) == IF acc = Nil THEN chunk ELSE acc \o chunk

addHeader(r, name, value) ==
    IF name = Nil \/ value = Nil THEN r
    ELSE [r EXCEPT !.headers = Append(@, <<name, value>>)]

handleAccHttpHeader(r) ==
    IF r.accName = Nil \/ r.accValue = Nil THEN r
    ELSE [addHeader(r, r.accName, r.accValue) EXCEPT !.accName = Nil, !.accValue = Nil]

\* headers['Content-Type']: nil, a string, or the table of the strings of a
\* header that was repeated.
ContentTypes(r) == SelectSeq(r.headers, LAMBDA h : h[1] = ContentType)
RepeatedType(r) == Len(ContentTypes(r)) > 1
HasType(r, type) == Len(ContentTypes(r)) = 1 /\ ContentTypes(r)[1][2] = type

\* headers['Connection'] = 'close' replaces whatever was there.
handleKeepAlive(r, keepAlive) ==
    IF keepAlive THEN r
    ELSE [r EXCEPT !.headers = Append(SelectSeq(@, LAMBDA h : h[1] # Connection),
                                      <<Connection, Close>>),
                   !.EOF = TRUE]

onMesgBegin(r) ==
    [newHttpMessage EXCEPT !.EOF = r.EOF, !.major = r.major, !.minor = r.minor, !.method = r.method]

onHeaderName(r, chunk) ==
    LET h == handleAccHttpHeader(r)
    IN  [h EXCEPT !.accName = accumulateChunkedValue(@, chunk)]

\* The parts of the URL; the windows of parts that are not set do not matter
\* to the URLs considered here.
parsedURL(r) == http_parser_parse_url(r.url, r.method = CONNECT, [off |-> 0, len |-> 0])
query(r) ==
    IF r.url = Nil THEN <<>>
    ELSE LET u == parsedURL(r).u
         IN  IF "queryString" \in u.field_set THEN Slice(r.url, u, "queryString") ELSE <<>>

onHeadersComplete(r, q) ==
    LET h == [handleKeepAlive(handleAccHttpHeader(r), http_should_keep_alive(q)) EXCEPT
                !.major = q.http_major, !.minor = q.http_minor,
                !.method = IF q.type = "HTTP_REQUEST" THEN q.method ELSE Nil,
                !.status = IF q.type = "HTTP_RESPONSE" THEN q.status_code ELSE Nil]
    IN  [h EXCEPT !.params = luaw_url_decode(query(h)).params, !.headersDone = TRUE]

\* A URL that cannot be parsed and a query that cannot be decoded raise errors.
HeadersRaise(r, q) ==
    LET h == onHeadersComplete(r, q)
    IN  h.url # Nil /\ ~(parsedURL(h).ok /\ luaw_url_decode(query(h)).ok)

isForm(r) == HasType(r, FormType)

onMesgComplete(r, q) ==
    LET h == handleKeepAlive(handleAccHttpHeader(r), http_should_keep_alive(q))
    IN  [h EXCEPT !.body = h.bodyParts, !.bodyParts = <<>>, !.mesgDone = TRUE,
                  !.params = IF isForm(h) THEN @ \o luaw_url_decode(h.bodyParts).params ELSE @]

\* contentType:lower() raises an error if the header, or a trailer, was
\* repeated, and a form that cannot be decoded does.
BodyRaises(r) ==
    LET h == handleAccHttpHeader(r)
    IN  RepeatedType(h) \/ (isForm(h) /\ ~luaw_url_decode(h.bodyParts).ok)

Raises(r, q) ==
    \/ cb.type = "headers_complete" /\ HeadersRaise(r, q)
    \/ cb.type = "message_complete" /\ BodyRaises(r)

callback(r, q) ==
    CASE cb.type = "none" -> r
      [] cb.type = "message_begin" -> onMesgBegin(r)
      [] cb.type = "status" -> [r EXCEPT !.statusMesg = accumulateChunkedValue(@, cb.str)]
      [] cb.type = "url" -> [r EXCEPT !.url = accumulateChunkedValue(@, cb.str)]
      [] cb.type = "header_field" -> onHeaderName(r, cb.str)
      [] cb.type = "header_value" -> [r EXCEPT !.accValue = accumulateChunkedValue(@, cb.str)]
      [] cb.type = "headers_complete" -> onHeadersComplete(r, q)
      [] cb.type = "body" -> [r EXCEPT !.bodyParts = @ \o cb.str]
      [] cb.type = "message_complete" -> onMesgComplete(r, q)

(***************************************************************************)
(* readAndParse, called by readFull until the message is done, or until    *)
(* the headers are and then by the streaming reader.                       *)
(***************************************************************************)
isLuaPackMesg(r) == HasType(r, LuaPackType)

\* readFull has to go on, or readFn is called again.
WantsMore ==
    /\ at = "loop"
    /\ CASE phase = "headers" -> ~req.headersDone
         [] phase = "body" -> ~req.mesgDone
         [] phase = "streaming" -> ~req.mesgDone /\ ~req.EOF

\* readFull has the headers: a LuaPack message is left to the streaming
\* reader.  isMultipart, asked first, raises an error on a repeated header.
readFull_headers_done ==
    /\ at = "loop" /\ phase = "headers" /\ ~WantsMore
    /\ IF RepeatedType(req) THEN at' = "error" /\ UNCHANGED phase
       ELSE phase' = (IF isLuaPackMesg(req) THEN "streaming" ELSE "body") /\ UNCHANGED at
    /\ UNCHANGED <<pvars, source, rcvd, content, req, streamed>>

\* readFull or the streaming reader is done with the message.
readFull_returns ==
    /\ at = "loop" /\ phase # "headers" /\ ~WantsMore
    /\ at' = "done"
    /\ UNCHANGED <<pvars, source, rcvd, content, req, phase, streamed>>

\* conn:read() returns the next n bytes and they are parsed.
Read(n) ==
    /\ WantsMore
    /\ content = <<>>
    /\ rcvd' = rcvd + n
    /\ content' = SubSeq(source.bytes, rcvd + 1, rcvd + n)
    /\ http_parser_execute(content')
    /\ at' = "parse"
    /\ UNCHANGED <<source, req, phase, streamed>>

\* What an earlier call left over is parsed first.
UseLeftover ==
    /\ WantsMore
    /\ content # <<>>
    /\ http_parser_execute(content)
    /\ at' = "parse"
    /\ UNCHANGED <<source, rcvd, content, req, phase, streamed>>

\* consumeBodyChunkParsed(): what readFn returns, and the message without it.
BodyChunk(r) ==
    CASE r.body # Nil -> r.body
      [] r.body = Nil /\ r.bodyParts # <<>> -> r.bodyParts
      [] OTHER -> Nil

\* Mutation: the parts stay in the buffer.
consumeBodyChunkParsed_keep_parts(r) == [r EXCEPT !.body = Nil]

consumeBodyChunkParsed(r) ==
    IF r.body # Nil THEN [r EXCEPT !.body = Nil] ELSE [r EXCEPT !.bodyParts = <<>>]

\* readAndParse returns with message r.  The streaming reader takes a chunk
\* and gives up for good when there is none; before that it calls debugDump,
\* a global that no file of Luaw defines, though an application may.
Return(r) ==
    IF phase # "streaming"
      THEN req' = r /\ at' = "loop" /\ UNCHANGED streamed
      ELSE /\ req' = consumeBodyChunkParsed(r)
           /\ streamed' = IF BodyChunk(r) = Nil THEN streamed ELSE streamed \o BodyChunk(r)
           /\ at' \in IF BodyChunk(r) = Nil THEN {"done", "undefined"} ELSE {"loop"}

\* conn:read() reports the end of file.
ReadEOF ==
    /\ WantsMore
    /\ content = <<>>
    /\ Return([addHeader(req, Connection, Close) EXCEPT
                 !.headersDone = TRUE, !.mesgDone = TRUE, !.EOF = TRUE])
    /\ UNCHANGED <<pvars, source, rcvd, content, phase>>

\* conn:read() reports an error, for example a timeout.
ReadError ==
    /\ WantsMore
    /\ content = <<>>
    /\ at' = "error"
    /\ UNCHANGED <<pvars, source, rcvd, content, req, phase, streamed>>

\* Mutation: the parser stays paused.
parse_http_keep_pause ==
    /\ at = "parse"
    /\ nparsed # Running
    /\ content' = SubSeq(content, nparsed + 1, Len(content))
    /\ LET fails == content' # <<>> /\ parser.http_errno # "HPE_PAUSED"
       IN  /\ IF fails \/ Raises(req, parser)
                THEN at' = "error" /\ UNCHANGED <<req, streamed>>
                ELSE Return(callback(req, parser))
           /\ parser' = IF cb.type = "message_complete" /\ ~fails THEN http_parser_init(parser.type)
                        ELSE parser
    /\ UNCHANGED <<data, p, mark, again, cb, nparsed, source, rcvd, phase>>

\* parse_http() returns: the callback is made and the rest kept.
parse_http ==
    /\ at = "parse"
    /\ nparsed # Running
    /\ content' = SubSeq(content, nparsed + 1, Len(content))
    /\ LET fails == content' # <<>> /\ parser.http_errno # "HPE_PAUSED"
       IN  /\ IF fails \/ Raises(req, parser)
                THEN at' = "error" /\ UNCHANGED <<req, streamed>>
                ELSE Return(callback(req, parser))
           /\ parser' = IF cb.type = "message_complete" /\ ~fails THEN http_parser_init(parser.type)
                        ELSE http_parser_pause(parser, FALSE)
    /\ UNCHANGED <<data, p, mark, again, cb, nparsed, source, rcvd, phase>>

Parse == at = "parse" /\ Execute /\ UNCHANGED <<source, rcvd, content, req, phase, streamed, at>>

Stopped == at \in {"done", "error", "undefined"}

Next ==
    \/ readFull_headers_done \/ readFull_returns
    \/ \E n \in 1..Len(source.bytes) - rcvd : Read(n)
    \/ UseLeftover \/ ReadEOF \/ ReadError
    \/ Parse \/ parse_http
    \/ Stopped /\ UNCHANGED vars

Spec == Init /\ [][Next]_vars

\* conn:read() is given a timeout and returns; everything else runs without
\* waiting.  This is WF_vars(Next) with its ENABLED spelled out: a step can be
\* taken until the reader has stopped, which the check for deadlocks confirms.
Fairness == []<><<Next>>_vars \/ <>[]Stopped
FairSpec == Spec /\ Fairness

(***************************************************************************)
(* Properties for every stream                                             *)
(***************************************************************************)
\* The one string whose mark may be set in a state.
StringAt(s) ==
    CASE s = "s_header_field" -> "header_field"
      [] s = "s_header_value" -> "header_value"
      [] s \in UrlStates -> "url"
      [] s = "s_res_status" -> "status"
      [] s \in {"s_body_identity", "s_body_identity_eof", "s_chunk_data",
                "s_chunk_data_almost_done"} -> "body"
      [] OTHER -> "none"

\* At most one of the five marks is set: the state says which, so that none
\* is left over when another is set or when the data are used up.
OneMark == (at = "parse" /\ nparsed = Running) => mark.of \in {"none", StringAt(parser.state)}

\* The assertions of http_parser.c hold, and no call of http_parser_execute
\* meets the dead state, because onMesgComplete resets the parser.
AssertionsHold == OneMark /\
    ((at = "parse" /\ InLoop) =>
        LET s == parser.state
            f == parser.flags
        IN  /\ parser.http_errno = "HPE_OK"
            /\ s # "s_dead"
            /\ s = "s_chunk_size_start" => Counted.nread = 1
            /\ s \in {"s_body_identity", "s_chunk_data"} =>
                 parser.content_length \notin {0, ULLONG_MAX}
            /\ s \in {"s_chunk_size_start", "s_chunk_size", "s_chunk_parameters",
                      "s_chunk_size_almost_done", "s_chunk_data", "s_chunk_data_almost_done",
                      "s_chunk_data_done"} => "F_CHUNKED" \in f
            /\ s = "s_chunk_data_almost_done" => parser.content_length = 0
            /\ s = "s_header_value" =>
                 parser.header_state \notin {Connection, ProxyConnection, TransferEncoding})

\* What the reader keeps between two calls is the end of what it received, in
\* the order of the stream and without a gap.
LeftoverExact ==
    /\ Len(content) <= rcvd
    /\ content = SubSeq(source.bytes, rcvd - Len(content) + 1, rcvd)

\* How much of the stream has been parsed: what was received, less what is
\* kept, and what the call under way has passed of that.
Position ==
    (rcvd - Len(content)) + CASE at # "parse" -> 0
                              [] at = "parse" /\ nparsed = Running -> p
                              [] at = "parse" /\ nparsed # Running -> nparsed

\* No byte is parsed twice or left out: between two calls of http_parser_execute
\* the position in the stream stays, although a callback may stop the parser
\* before or behind the byte it looks at, and in a call it goes on by a byte,
\* or by what is reported of a body.
Advances ==
    \/ Position' = Position
    \/ Parse /\ Position' = Position + 1
    \/ /\ Parse /\ Position' > Position
       /\ parser.state \in {"s_body_identity", "s_body_identity_eof", "s_chunk_data"}
ParsedOnce == [][Advances]_vars
================================================================================
