---------------------------- MODULE MCHttpMessage ----------------------------
(***************************************************************************)
(* Messages and their encodings for HttpMessage: well-formed ones with     *)
(* what the reader should make of them, and malformed ones.                *)
(***************************************************************************)
EXTENDS HttpWriter

LF == <<"LF">>
HTTP(major, minor) == <<"H", "TTP/", major, ".", minor>>

Field(name, value) == [name |-> name, sent |-> <<" ">> \o value, value |-> value]
Folded(name, a, b) == [name |-> name, sent |-> a \o CRLF \o <<" ", "HT">> \o b, value |-> a \o b]

Lines(fields, eol) ==
    FoldLeft(LAMBDA acc, f : acc \o f.name \o <<":">> \o f.sent \o eol, <<>>, fields)
Stored(fields) == [i \in 1..Len(fields) |-> <<fields[i].name, fields[i].value>>]

ChunkLines(chunks) ==
    FoldLeft(LAMBDA acc, c : acc \o <<Digit(Len(c))>> \o CRLF \o c \o CRLF, <<>>, chunks)

\* A message from its first line, its headers and the bytes behind them.
Bytes(first, fields, rest, eol) == first \o eol \o Lines(fields, eol) \o eol \o rest
Chunks(chunks, trailers) ==
    ChunkLines(chunks) \o <<"0">> \o CRLF \o Lines(trailers, CRLF) \o CRLF

CloseField == <<Connection, Close>>
\* The stored headers of a message after which the connection is closed.
Closing(headers) == Append(SelectSeq(headers, LAMBDA h : h[1] # Connection), CloseField)

Message(headers, url, params, body) == [headers |-> headers, url |-> url, params |-> params, body |-> body]

Good(type, bytes, behind, expect) ==
    [type |-> type, bytes |-> bytes \o behind, ok |-> TRUE, len |-> Len(bytes), expect |-> expect]
Bad(type, bytes) ==
    [type |-> type, bytes |-> bytes, ok |-> FALSE, len |-> Len(bytes),
     expect |-> Message(<<>>, Nil, Nil, <<>>)]

Req(bytes, behind, expect) == Good("HTTP_REQUEST", bytes, behind, expect)
Res(bytes, behind, expect) == Good("HTTP_RESPONSE", bytes, behind, expect)

GetLine(url) == GET \o <<" ">> \o url \o <<" ">> \o HTTP("1", "1")
PostLine == POST \o <<" ", "/", " ">> \o HTTP("1", "1")
XField == Field(<<"x">>, <<"v", " ", "w">>)
Length(n) == Field(ContentLength, <<n>>)
ChunkedField == Field(TransferEncoding, Chunked)
Simple(fields, url, params) ==
    Req(Bytes(GetLine(url), fields, <<>>, CRLF), <<>>, Message(Stored(fields), url, params, <<>>))

Requests ==
    { \* pipelined: the start of a second request follows
      Req(Bytes(GetLine(<<"/", "?", "a", "=", "1">>), <<XField>>, <<>>, CRLF), <<"G", "ET">>,
          Message(Stored(<<XField>>), <<"/", "?", "a", "=", "1">>, <<<<<<"a">>, <<"1">>>>>>, <<>>)),
      \* bare LF, a folded, an empty and a repeated header
      Req(Bytes(<<"G", "ET", " ", " ", "/", " ">> \o HTTP("1", "0"),
                <<Field(<<"x">>, <<>>), Field(<<"x">>, <<"v">>), Field(Connection, KeepAlive)>>, <<>>, LF),
          <<>>, Message(Stored(<<Field(<<"x">>, <<>>), Field(<<"x">>, <<"v">>), Field(Connection, KeepAlive)>>),
                       <<"/">>, <<>>, <<>>)),
      Simple(<<Folded(<<"con", "x">>, <<"v">>, <<"w">>)>>, <<"a", ":", "/", "/", "a", "/", "#">>, <<>>),
      \* a form in the body
      LET f == <<Length("2"), Field(ContentType, FormType)>>
      IN  Req(Bytes(PostLine, <<Length("1"), f[2], Length("2")>>, <<"a", "=">>, CRLF), <<"P">>,
              Message(Stored(<<Length("1"), f[2], Length("2")>>), <<"/">>, <<>>, <<"a", "=">>)),
      \* chunked with a trailer, the next request behind it
      Req(Bytes(PostLine, <<ChunkedField>>, Chunks(<<<<"a", "CR">>, <<"LF">>>>, <<XField>>), CRLF), <<"G">>,
          Message(Stored(<<ChunkedField, XField>>), <<"/">>, <<>>, <<"a", "CR", "LF">>)),
      \* a chunk extension; the connection will be closed
      Req(Bytes(PostLine, <<ChunkedField, Field(Connection, Close)>>,
                <<"1", ";", "a", "CR", "LF", "a", "CR", "LF", "0", "CR", "LF", "CR", "LF">>, CRLF), <<>>,
          Message(Closing(Stored(<<ChunkedField>>)), <<"/">>, <<>>, <<"a">>)),
      \* streamed bodies
      LET f == <<Field(ContentType, LuaPackType), ChunkedField>>
      IN  Req(Bytes(PostLine, f, Chunks(<<<<"a">>, <<"1", "2">>>>, <<>>), CRLF), <<>>,
              Message(Stored(f), <<"/">>, <<>>, <<"a", "1", "2">>)),
      LET f == <<Length("2"), Field(ContentType, LuaPackType)>>
      IN  Req(Bytes(PostLine, f, <<"a", "1">>, CRLF), <<"G">>, Message(Stored(f), <<"/">>, <<>>, <<"a", "1">>)),
      \* a tunnel, an upgrade, HTTP/0.9
      LET url == <<"a", ":", "1">>
      IN  Req(Bytes(<<"C", "ONNECT", " ">> \o url \o <<" ">> \o HTTP("1", "1"), <<>>, <<>>, CRLF), <<"a">>,
              Message(<<>>, url, <<>>, <<>>)),
      Simple(<<Field(Upgrade, <<"a">>)>>, <<"/">>, <<>>),
      Req(<<"LF", "G", "ET", " ", "/">> \o CRLF \o CRLF, <<>>,
          Message(<<CloseField>>, <<"/">>, <<>>, <<>>)) }

OK == HTTP("1", "1") \o <<" ", "2", "0", "0", " ", "OK">>
Responses ==
    { Res(Bytes(OK, <<Length("1")>>, <<"a">>, CRLF), <<"H">>,
          Message(Stored(<<Length("1")>>), Nil, <<>>, <<"a">>)),
      Res(CRLF \o Bytes(OK, <<ChunkedField, Field(ProxyConnection, Close)>>, Chunks(<<<<"a">>>>, <<>>), CRLF), <<>>,
          Message(Closing(Stored(<<ChunkedField, Field(ProxyConnection, Close)>>)), Nil, <<>>, <<"a">>)),
      Res(Bytes(HTTP("1", "1") \o <<" ", "2", "0", "1">>, <<Length("0")>>, <<>>, LF), <<>>,
          Message(Stored(<<Length("0")>>), Nil, <<>>, <<>>)),
      \* no length: all up to the end of file
      Res(Bytes(HTTP("1", "1") \o <<" ", "2", "0", "0", " ">>, <<>>, <<"a", "1">>, CRLF), <<>>,
          Message(<<CloseField>>, Nil, <<>>, <<"a", "1">>)) }

(***************************************************************************)
(* Messages as this library writes them.                                   *)
(***************************************************************************)
Parts == {<<<<"a">>>>, <<<<"a", "1">>, <<"2">>>>, <<<<"a">>, <<"1", "2", "a">>, <<"1">>>>}
Whole(parts) == FoldLeft(LAMBDA acc, x : acc \o x, <<>>, parts)
Written(m, parts) == flush(FoldLeft(appendBody, m, parts)).wire
NewResponse ==
    newHttpWriter(firstResponseLine(<<"2", "0", "0">>, <<"OK">>), <<<<<<"x">>, <<"v">>>>>>, Nil, <<>>)

\* A last chunk that endStreaming wrote twice is behind the message.
Streamed(parts) ==
    LET bytes == Written(startStreaming(NewResponse), parts)
        twice == FoldLeft(appendBody, startStreaming(NewResponse), parts).bodyParts = <<>>
        n == IF twice THEN 5 ELSE 0
    IN  Res(SubSeq(bytes, 1, Len(bytes) - n), SubSeq(bytes, Len(bytes) - n + 1, Len(bytes)),
            Message(<<<<<<"x">>, <<"v">>>>, <<TransferEncoding, Chunked>>>>, Nil, <<>>, Whole(parts)))
Buffered(parts) ==
    Res(Written(NewResponse, parts), <<>>,
        Message(<<<<<<"x">>, <<"v">>>>, <<ContentLength, <<Digit(Len(Whole(parts)))>>>>>>,
                Nil, <<>>, Whole(parts)))
\* A client's request with parameters.
NewRequest(method, url, params) ==
    newHttpWriter(firstRequestLine(method, buildURL(method, url, params)), <<>>, method, params)
Get(params) ==
    Req(Written(NewRequest(GET, <<"/">>, params), <<>>), <<>>,
        Message(<<<<ContentLength, <<"0">>>>>>, buildURL(GET, <<"/">>, params), params, <<>>))
\* A POST without parameters, and one whose body is never sent: the peer must
\* not take it for complete.
Post(parts) ==
    Req(Written(NewRequest(POST, <<"/">>, <<>>), parts), <<>>,
        Message(<<<<ContentLength, <<Digit(Len(Whole(parts)))>>>>>>, <<"/">>, <<>>, Whole(parts)))
PostParams(params) ==
    LET bytes == Written(NewRequest(POST, <<"/">>, params), <<>>)
    IN  [Bad("HTTP_REQUEST", bytes) EXCEPT !.len = Len(bytes) + 1]

WrittenMessages ==
    {Streamed(parts) : parts \in Parts \cup {<<>>}} \cup {Buffered(parts) : parts \in Parts}
    \cup {Post(<<<<"a">>, <<"1">>>>), PostParams(<<<<<<"a">>, <<" ", "=">>>>>>)}
    \cup {Get(params) : params \in {<<>>, <<<<<<"a">>, <<" ", "=", "&">>>>, <<<<"%", "+">>, <<"1">>>>>>}}

\* Each malformed message ends with the byte that makes it so.
Start == GetLine(<<"/">>) \o CRLF
BadRequests ==
    { <<"X">>, <<"G", " ">>, <<"G", "ONNECT">>, <<"G", "ET", " ", "?">>,
      <<"G", "ET", " ", "a", " ">>, <<"G", "ET", " ", "/", " ", "X">>,
      <<"G", "ET", " ", "/", " ", "H", "X">>, <<"G", "ET", " ", "/", " ">> \o HTTP("0", "1"),
      <<"G", "ET", " ", "/", " ">> \o HTTP("1", "2") \o <<"2", "2", "2">>,
      <<"C", "ONNECT", " ", "a", " ">> \o HTTP("1", "1") \o CRLF \o CRLF,
      GetLine(<<"/", "?", "=">>) \o CRLF \o CRLF,
      GetLine(<<"/">>) \o <<"CR", "CR">>, Start \o <<"@">>, Start \o <<"x", " ">>,
      Start \o <<"x", ":", "v", "CR", "CR">>, Start \o <<"CR", "CR">>,
      Start \o Lines(<<Field(ContentLength, <<"x">>)>>, <<>>),
      Start \o Lines(<<Field(ContentLength, <<"1", " ", "x">>)>>, <<>>),
      \* lengths that would wrap
      Start \o Lines(<<Field(ContentLength, <<"2", "2", "2", "2">>)>>, <<>>),
      Bytes(PostLine, <<ChunkedField>>, <<"1", "0", "1">>, CRLF),
      Bytes(PostLine, <<ChunkedField>>, <<"x">>, CRLF),
      Bytes(PostLine, <<ChunkedField>>, <<"1", "CR", "a">>, CRLF),
      Bytes(PostLine, <<ChunkedField>>, <<"1", "CR", "LF", "a", "a">>, CRLF),
      Bytes(PostLine, <<ChunkedField>>, <<"1", "CR", "LF", "a", "CR", "a">>, CRLF),
      Bytes(PostLine, <<Length("1"), Field(ContentType, FormType)>>, <<"=">>, CRLF),
      \* two types, in the headers or with a trailer
      Bytes(PostLine, <<Length("1"), Field(ContentType, FormType), Field(ContentType, <<"v">>)>>,
            <<"a">>, CRLF),
      Bytes(PostLine, <<ChunkedField, Field(ContentType, FormType)>>,
            Chunks(<<<<"a", "=">>>>, <<Field(ContentType, <<"v">>)>>), CRLF),
      \* more headers, and more trailers, than allowed
      Start \o [i \in 1..HTTP_MAX_HEADER_SIZE + 5 |-> "x"],
      Bytes(PostLine, <<ChunkedField>>, <<"0", "CR", "LF">> \o
            [i \in 1..HTTP_MAX_HEADER_SIZE + 1 |-> IF i = 2 THEN ":" ELSE "x"], CRLF) }
BadResponses ==
    { <<"X">>, <<"H", "X">>, HTTP("x", "1"), HTTP("1", "x"), HTTP("1", "1") \o <<" ", "x">>,
      HTTP("1", "1") \o <<" ", "2", "0", "0", "0">>, HTTP("1", "1") \o <<" ", "2", "CR", "CR">> }

MCStreams ==
    Requests \cup Responses \cup WrittenMessages
    \cup {Bad("HTTP_REQUEST", b) : b \in BadRequests}
    \cup {Bad("HTTP_RESPONSE", b) : b \in BadResponses}

(***************************************************************************)
(* Properties                                                              *)
(***************************************************************************)
Consumed == rcvd - Len(content)
Delivered == streamed \o (IF req.body = Nil THEN req.bodyParts ELSE req.body)

\* However the bytes of a well-formed message are cut into segments, the
\* object that readFull() fills has exactly its headers, URL, parameters and
\* body, and the bytes behind the message are left alone.
DecodedExactly ==
    (source.ok /\ req.body # Nil) =>
        /\ Message(req.headers, req.url, req.params, Delivered) = source.expect
        /\ at = "loop" => Consumed = source.len

\* At every moment, also when the peer stops half way, what the handler was
\* given of the body is a prefix of what was sent; it is all of it once
\* the message is over.
BodyInOrder ==
    source.ok =>
        /\ IsPrefix(Delivered, source.expect.body)
        /\ (req.mesgDone /\ Consumed = source.len) => Delivered = source.expect.body

\* A well-formed message is never refused, wherever its segments end: reading
\* it fails only if conn:read() does.
NeverRefused == [][source.ok /\ at' = "error" => ReadError]_vars

\* A malformed message is refused by its last byte at the latest: it is never
\* taken for a complete one, and the reader does not wait for more.
MalformedRefused ==
    ~source.ok => /\ req.body = Nil
                  /\ ~(at = "loop" /\ Consumed = source.len)

\* Nothing that is stored before the body begins is longer than the limit, and
\* trailers cannot double it: a peer cannot make the reader buffer headers
\* without end.
StoredHeader(r) ==
    FoldLeft(LAMBDA n, h : n + Len(h[1]) + Len(h[2]), 0, r.headers)
    + (IF r.accName = Nil THEN 0 ELSE Len(r.accName))
    + (IF r.accValue = Nil THEN 0 ELSE Len(r.accValue))
HeadersBounded ==
    StoredHeader(req) <= (IF req.headersDone THEN 2 ELSE 1) * HTTP_MAX_HEADER_SIZE

\* readFull() and the streaming reader come to an end: no byte is parsed
\* for ever, and no paused parser is called for ever.
ReadingEnds == <>Stopped
================================================================================
