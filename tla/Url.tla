---------------------------------- MODULE Url ----------------------------------
(***************************************************************************)
(* The URL parser (http_parser_parse_url and http_parse_host of            *)
(* http_parser.c behind luaw_http_lib.parseURL) and the decoder of form    *)
(* parameters (luaw_url_decode of luaw_http_parser.c) with its inverse,    *)
(* urlEncodeParams of lib/luaw_http.lua, as functions of their input.      *)
(***************************************************************************)
EXTENDS Integers, Sequences, SequencesExt, UrlChars

CONSTANTS FieldMod,   \* 2^16: offsets and lengths of fields are of type uint16_t
          MaxPort     \* 0xffff

ASSUME FieldModAssumption == FieldMod \in Nat \ {0, 1}
ASSUME MaxPortAssumption == MaxPort \in Nat

Fields == {"schema", "host", "port", "path", "queryString", "fragment", "userInfo"}
Window == [off : 0..FieldMod - 1, len : 0..FieldMod - 1]

\* struct http_parser_url with the fields that are set, and their windows.
\* luaw_parse_url allocates it with malloc: unset windows hold what w says.
http_parser_url(w) == [field_set |-> {}, field_data |-> [f \in Fields |-> w]]

\* The byte at offset off belongs to field f: the first one, or one more.
Grow(u, f, off, first) ==
    IF first
      THEN [field_set |-> u.field_set \cup {f},
            field_data |-> [u.field_data EXCEPT ![f] = [off |-> off % FieldMod, len |-> 1]]]
      ELSE [u EXCEPT !.field_data[f].len = (@ + 1) % FieldMod]

(***************************************************************************)
(* http_parse_host                                                         *)
(***************************************************************************)
http_parse_host_char(s, c) ==
    CASE s \in {"userinfo_start", "userinfo"} /\ c = "@" -> "host_start"
      [] s \in {"userinfo_start", "userinfo"} /\ IS_USERINFO_CHAR(c) -> "userinfo"
      [] s = "host_start" /\ c = "[" -> "v6_start"
      [] s \in {"host_start", "host"} /\ IS_HOST_CHAR(c) -> "host"
      [] s \in {"host", "v6_end"} /\ c = ":" -> "port_start"
      [] s = "v6" /\ c = "]" -> "v6_end"
      [] s \in {"v6_start", "v6"} /\ (IS_HEX(c) \/ c \in {":", "."}) -> "v6"
      [] s \in {"port_start", "port"} /\ IS_NUM(c) -> "port"
      [] OTHER -> "host_dead"

\* Which field the byte that led to a state is part of.
HostField(s) ==
    CASE s \in {"host", "v6"} -> "host"
      [] s = "port" -> "port"
      [] s = "userinfo" -> "userInfo"
      [] OTHER -> "none"

\* Mutation: the host's window keeps its start.
HostStep_keep_off(h, c) ==
    LET s == http_parse_host_char(h.s, c)
        f == HostField(s)
        v == IF f = "host" THEN [h.u EXCEPT !.field_data[f].len = (@ + 1) % FieldMod]
             ELSE Grow(h.u, f, h.at, s # h.s)
    IN  [s |-> s, at |-> h.at + 1, u |-> IF f = "none" THEN h.u ELSE v]

\* The host's window starts anew without being marked as set.
HostStep(h, c) ==
    LET s == http_parse_host_char(h.s, c)
        f == HostField(s)
        v == IF f = "host" /\ s # h.s
               THEN [h.u EXCEPT !.field_data[f] = [off |-> h.at % FieldMod,
                                                   len |-> (@.len + 1) % FieldMod]]
               ELSE Grow(h.u, f, h.at, s # h.s)
    IN  [s |-> s, at |-> h.at + 1, u |-> IF f = "none" THEN h.u ELSE v]

\* Mutation: the length of the host's window is not reset.
HostStart_keep_len(u, found_at) ==
    [s |-> IF found_at THEN "userinfo_start" ELSE "host_start",
     at |-> u.field_data["host"].off, u |-> u]

\* The window is emptied before it is filled again.
HostStart(u, found_at) ==
    [s |-> IF found_at THEN "userinfo_start" ELSE "host_start",
     at |-> u.field_data["host"].off, u |-> [u EXCEPT !.field_data["host"].len = 0]]

\* Where the authority ends, taken before that.
HostEnd(u) == u.field_data["host"].off + u.field_data["host"].len

HostOk(s) == s \in {"host", "v6_end", "port"}

\* A window that does not lie within the URL meets the NUL behind it, which
\* no state accepts.
http_parse_host(buf, u, found_at) ==
    LET h == FoldLeft(HostStep, HostStart(u, found_at),
               IF HostEnd(u) <= Len(buf)
                 THEN SubSeq(buf, u.field_data["host"].off + 1, HostEnd(u)) ELSE <<"NUL">>)
    IN  [ok |-> HostOk(h.s), u |-> h.u]

(***************************************************************************)
(* http_parser_parse_url                                                   *)
(***************************************************************************)
\* The field that the byte that led to state s belongs to; the other states
\* are those of delimiters.
UrlField(s) ==
    CASE s = "s_req_schema" -> "schema"
      [] s \in {"s_req_server", "s_req_server_with_at"} -> "host"
      [] s = "s_req_path" -> "path"
      [] s = "s_req_query_string" -> "queryString"
      [] s = "s_req_fragment" -> "fragment"
      [] OTHER -> "none"

UrlStep(a, c) ==
    LET s == parse_url_char(a.s, c)
        f == UrlField(s)
    IN  [s |-> s, at |-> a.at + 1, found_at |-> a.found_at \/ s = "s_req_server_with_at",
         uf |-> IF f = "none" THEN a.uf ELSE f,
         u |-> IF f = "none" THEN a.u ELSE Grow(a.u, f, a.at, f # a.uf)]

ScanStart(is_connect, w) ==
    [s |-> IF is_connect THEN "s_req_server_start" ELSE "s_req_spaces_before_url",
     at |-> 0, found_at |-> FALSE, uf |-> "none", u |-> http_parser_url(w)]

Scan(buf, is_connect, w) == FoldLeft(UrlStep, ScanStart(is_connect, w), buf)

Slice(buf, u, f) ==
    SubSeq(buf, u.field_data[f].off + 1, u.field_data[f].off + u.field_data[f].len)

\* strtoul() reads on to the first byte that is no digit.
PortDigits(buf, off) ==
    LET ends == {i \in off + 1..Len(buf) : ~IS_NUM(buf[i])}
    IN  SubSeq(buf, off + 1,
          IF ends = {} THEN Len(buf) ELSE (CHOOSE i \in ends : \A j \in ends : i <= j) - 1)

\* A schema or a host calls for http_parse_host.
HasAuthority(u) == {"schema", "host"} \cap u.field_set # {}

\* CONNECT takes a host and a port and nothing else, and a port has a limit.
Complies(buf, is_connect, u) ==
    /\ is_connect => u.field_set = {"host", "port"}
    /\ "port" \in u.field_set =>
         FoldLeft(Decimal, 0, PortDigits(buf, u.field_data["port"].off)) <= MaxPort

\* The result: not ok if the URL is refused.  w is what the uninitialised
\* windows hold: with a schema and no host, http_parse_host looks there.
http_parser_parse_url(buf, is_connect, w) ==
    LET a == Scan(buf, is_connect, w)
        h == IF HasAuthority(a.u) THEN http_parse_host(buf, a.u, a.found_at)
             ELSE [ok |-> TRUE, u |-> a.u]
    IN  [ok |-> a.s # "s_dead" /\ h.ok /\ Complies(buf, is_connect, h.u), u |-> h.u]

\* luaw_parse_url(): the table of the parts that are set.
luaw_parse_url(buf, r) == [f \in r.u.field_set |-> Slice(buf, r.u, f)]

(***************************************************************************)
(* Form parameters.  A parameter is a pair of a name and a value.          *)
(***************************************************************************)
Codes == [c \in {"%", "&", "+", "="} |->
            CASE c = "%" -> <<"2", "5">> [] c = "&" -> <<"2", "6">>
              [] c = "+" -> <<"2", "B">> [] c = "=" -> <<"3", "D">>]

\* Mutation: a plus sign is sent as it is.
toURLSafeChar_keep_plus(c) ==
    CASE c = " " -> <<"+">>
      [] c \in DOMAIN Codes \ {"+"} -> <<"%">> \o Codes[c]
      [] OTHER -> <<c>>

toURLSafeChar(c) ==
    CASE c = " " -> <<"+">>
      [] c \in DOMAIN Codes -> <<"%">> \o Codes[c]
      [] OTHER -> <<c>>

urlEncode(str) == FoldLeft(LAMBDA acc, c : acc \o toURLSafeChar(c), <<>>, str)

\* urlEncodeParams(): pairs joined with '&'.
urlEncodeParams(params) ==
    FoldLeft(LAMBDA acc, kv : acc \o (IF acc = <<>> THEN <<>> ELSE <<"&">>)
                                  \o urlEncode(kv[1]) \o <<"=">> \o urlEncode(kv[2]),
             <<>>, params)

\* sscanf("%2x") on the two bytes behind a '%'.
hex_ch(a, b) ==
    IF \E c \in DOMAIN Codes : Codes[c] = <<a, b>>
      THEN CHOOSE c \in DOMAIN Codes : Codes[c] = <<a, b>> ELSE "?"

\* decode_hex_str(): skip counts the bytes of an escape still to be passed.
decode_hex_str(str) ==
    FoldLeft(LAMBDA a, i :
        IF a.skip > 0 THEN [a EXCEPT !.skip = @ - 1]
        ELSE IF str[i] = "%" /\ Len(str) - i >= 2
          THEN [out |-> Append(a.out, hex_ch(str[i + 1], str[i + 2])), skip |-> 2]
        ELSE [a EXCEPT !.out = Append(@, str[i])],
      [out |-> <<>>, skip |-> 0], [i \in 1..Len(str) |-> i]).out

\* handle_name_value_pair(): a name without a value is dropped.
handle_name_value_pair(d) ==
    IF d.name # <<>> /\ d.value # <<>>
      THEN Append(d.params, <<decode_hex_str(d.name), decode_hex_str(d.value)>>)
      ELSE d.params

\* Mutation: the value of the parameter before is not forgotten.
DecodeStep_keep_value(d, c) ==
    LET ch == IF c = "+" THEN " " ELSE c
    IN  CASE d.ds = "error" -> d
          [] d.ds = "starting_name" ->
               [d EXCEPT !.ds = IF c \in {"&", "="} THEN "error" ELSE "in_name",
                         !.params = handle_name_value_pair(d), !.name = <<ch>>]
          [] d.ds = "in_name" ->
               (CASE c = "&" -> [d EXCEPT !.ds = "error"]
                  [] c = "=" -> [d EXCEPT !.ds = "starting_value"]
                  [] OTHER -> [d EXCEPT !.name = Append(@, ch)])
          [] d.ds = "starting_value" ->
               [d EXCEPT !.ds = IF c \in {"&", "="} THEN "error" ELSE "in_value", !.value = <<ch>>]
          [] d.ds = "in_value" ->
               (CASE c = "&" -> [d EXCEPT !.ds = "starting_name"]
                  [] c = "=" -> [d EXCEPT !.ds = "error"]
                  [] OTHER -> [d EXCEPT !.value = Append(@, ch)])

\* One character; a '+' is stored as a blank.
DecodeStep(d, c) ==
    LET ch == IF c = "+" THEN " " ELSE c
    IN  CASE d.ds = "error" -> d
          [] d.ds = "starting_name" ->
               [ds |-> IF c \in {"&", "="} THEN "error" ELSE "in_name",
                params |-> handle_name_value_pair(d), name |-> <<ch>>, value |-> <<>>]
          [] d.ds = "in_name" ->
               (CASE c = "&" -> [d EXCEPT !.ds = "error"]
                  [] c = "=" -> [d EXCEPT !.ds = "starting_value"]
                  [] OTHER -> [d EXCEPT !.name = Append(@, ch)])
          [] d.ds = "starting_value" ->
               [d EXCEPT !.ds = IF c \in {"&", "="} THEN "error" ELSE "in_value", !.value = <<ch>>]
          [] d.ds = "in_value" ->
               (CASE c = "&" -> [d EXCEPT !.ds = "starting_name"]
                  [] c = "=" -> [d EXCEPT !.ds = "error"]
                  [] OTHER -> [d EXCEPT !.value = Append(@, ch)])

\* luaw_url_decode(): the parameters, or not ok.
luaw_url_decode(str) ==
    LET d == FoldLeft(DecodeStep,
               [ds |-> "starting_name", params |-> <<>>, name |-> <<>>, value |-> <<>>], str)
    IN  [ok |-> d.ds # "error", params |-> handle_name_value_pair(d)]
================================================================================
