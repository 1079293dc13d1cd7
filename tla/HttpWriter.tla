------------------------------- MODULE HttpWriter -------------------------------
(***************************************************************************)
(* Writing an HTTP message (lib/luaw_http.lua): the headers, and the body  *)
(* in one piece or as chunks, as functions from a message object to the    *)
(* object with the bytes it has written.  conn:write() is taken to succeed *)
(* (Connection models when it does not).                                   *)
(***************************************************************************)
EXTENDS HttpMessage

CONSTANT CONN_BUFFER_SIZE   \* connection_buffer_size

ASSUME ConnBufferAssumption == CONN_BUFFER_SIZE \in Nat \ {0}

CRLF == <<"CR", "LF">>
GET == <<"G", "ET">>
POST == <<"P", "OST">>
Digit(n) == CHOOSE c \in {"0", "1", "2", "3", "4", "5", "6"} : unhex(c) = n

newHttpWriter(firstLine, headers, method, params) ==
    [firstLine |-> firstLine, headers |-> headers, method |-> method, params |-> params,
     bodyParts |-> <<>>, is_chunked |-> FALSE, wire |-> <<>>, raised |-> FALSE]

\* sendBuffer(): the buffer goes out, as a chunk or as it is.
sendBuffer(m, chunked) ==
    LET bytes == IF chunked THEN <<Digit(Len(m.bodyParts))>> \o CRLF \o m.bodyParts \o CRLF
                 ELSE m.bodyParts
    IN  [m EXCEPT !.wire = @ \o bytes, !.bodyParts = <<>>]

\* The first line and the headers, which are forgotten once written.
bufferHeaders(m) ==
    [m EXCEPT !.headers = <<>>,
              !.wire = FoldLeft(LAMBDA w, h : w \o h[1] \o <<":", " ">> \o h[2] \o CRLF,
                                @ \o m.firstLine \o CRLF, m.headers) \o CRLF]

startStreaming(m) ==
    bufferHeaders([addHeader(m, TransferEncoding, Chunked) EXCEPT !.is_chunked = TRUE])

appendBody(m, part) ==
    LET a == [m EXCEPT !.bodyParts = @ \o part]
    IN  IF a.is_chunked /\ Len(a.bodyParts) >= CONN_BUFFER_SIZE THEN sendBuffer(a, TRUE) ELSE a

\* The table that urlEncodeParams returns: names, values, '=' and '&'.
EncodedPieces(params) == 4 * Len(params) - 1

\* The parameters of a POST are appended as that table: its length counts
\* the pieces, and table.concat raises an error on it once the headers are out.
writeFullBody(m) ==
    LET table == m.method = POST /\ m.params # <<>>
        a == IF table THEN addHeader(m, ContentType, FormType) ELSE m
        len == Len(m.bodyParts) + (IF table THEN EncodedPieces(m.params) ELSE 0)
        b == bufferHeaders(addHeader(a, ContentLength, <<Digit(len)>>))
    IN  IF table THEN [b EXCEPT !.raised = TRUE] ELSE sendBuffer(b, FALSE)

\* What is left in the buffer is a chunk even if it is empty; then the last one.
endStreaming(m) ==
    LET a == sendBuffer(m, TRUE)
    IN  [a EXCEPT !.wire = @ \o <<"0">> \o CRLF \o CRLF]

flush(m) == IF m.is_chunked THEN endStreaming(m) ELSE writeFullBody(m)

\* buildURL(): the parameters of a GET request are part of its URL.
buildURL(method, url, params) ==
    IF method # GET \/ params = <<>> THEN url ELSE url \o <<"?">> \o urlEncodeParams(params)

firstRequestLine(method, url) == method \o <<" ">> \o url \o <<" ", "H", "TTP/", "1", ".", "1">>
firstResponseLine(status, mesg) == <<"H", "TTP/", "1", ".", "1", " ">> \o status \o <<" ">> \o mesg
================================================================================
