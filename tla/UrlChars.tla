------------------------------- MODULE UrlChars -------------------------------
(***************************************************************************)
(* The byte-for-byte part of the URL grammar of http_parser.c, which the   *)
(* message parser (HttpParser) and the URL parser (Url) share.             *)
(*                                                                         *)
(* A character is a string.  The classes below list one or two members of  *)
(* every class the code tells apart; "CR" and "LF" stand for the two line  *)
(* end characters.  The parser is compiled with HTTP_PARSER_STRICT.        *)
(***************************************************************************)
LOCAL INSTANCE Integers

IS_ALPHA(c) == c \in {"a", "B", "D"}
IS_NUM(c) == c \in {"0", "1", "2", "3", "4", "5", "6"}
IS_ALPHANUM(c) == IS_ALPHA(c) \/ IS_NUM(c)
IS_HEX(c) == IS_NUM(c) \/ IS_ALPHA(c)
IS_MARK(c) == c \in {"-", ".", "*"}
IS_USERINFO_CHAR(c) == IS_ALPHANUM(c) \/ IS_MARK(c) \/ c \in {"%", ":", "&", "=", "+"}
IS_HOST_CHAR(c) == IS_ALPHANUM(c) \/ c \in {"-", "."}

\* The characters set in normal_url_char: all that print but '?' and '#'.
IS_URL_CHAR(c) == IS_USERINFO_CHAR(c) \/ c \in {"/", "@", "[", "]"}

unhex(c) ==
    CASE c = "0" -> 0 [] c = "1" -> 1 [] c = "2" -> 2 [] c = "3" -> 3
      [] c = "4" -> 4 [] c = "5" -> 5
      [] c = "6" -> 6 [] c = "a" -> 10 [] c = "B" -> 11 [] c = "D" -> 13 [] OTHER -> -1

\* A decimal digit behind the number n.
Decimal(n, c) == n * 10 + unhex(c)

UrlStates ==
    {"s_req_schema", "s_req_schema_slash", "s_req_schema_slash_slash",
     "s_req_server_start", "s_req_server", "s_req_server_with_at", "s_req_path",
     "s_req_query_string_start", "s_req_query_string",
     "s_req_fragment_start", "s_req_fragment"}

\* parse_url_char in the states of the authority part.
serverChar(s, c) ==
    CASE s = "s_req_server_with_at" /\ c = "@" -> "s_dead"
      [] c = "/" -> "s_req_path"
      [] c = "?" -> "s_req_query_string_start"
      [] s # "s_req_server_with_at" /\ c = "@" -> "s_req_server_with_at"
      [] IS_USERINFO_CHAR(c) \/ c \in {"[", "]"} -> "s_req_server"
      [] OTHER -> "s_dead"

\* parse_url_char in the states behind the authority: where a plain URL
\* character, a '?' and a '#' lead.
tailChar(plain, question, hash, c) ==
    CASE IS_URL_CHAR(c) -> plain
      [] c = "?" -> question
      [] c = "#" -> hash
      [] OTHER -> "s_dead"

\* parse_url_char(): the state that follows s on character c.
parse_url_char(s, c) ==
    CASE s = "s_req_spaces_before_url" /\ c \in {"/", "*"} -> "s_req_path"
      [] s = "s_req_spaces_before_url" /\ IS_ALPHA(c) -> "s_req_schema"
      [] s = "s_req_schema" /\ IS_ALPHA(c) -> s
      [] s = "s_req_schema" /\ c = ":" -> "s_req_schema_slash"
      [] s = "s_req_schema_slash" /\ c = "/" -> "s_req_schema_slash_slash"
      [] s = "s_req_schema_slash_slash" /\ c = "/" -> "s_req_server_start"
      [] s \in {"s_req_server_start", "s_req_server", "s_req_server_with_at"} ->
            serverChar(s, c)
      [] s = "s_req_path" ->
            tailChar(s, "s_req_query_string_start", "s_req_fragment_start", c)
      [] s \in {"s_req_query_string_start", "s_req_query_string"} ->
            tailChar("s_req_query_string", "s_req_query_string", "s_req_fragment_start", c)
      [] s = "s_req_fragment_start" -> tailChar("s_req_fragment", "s_req_fragment", s, c)
      [] s = "s_req_fragment" -> tailChar(s, s, s, c)
      [] OTHER -> "s_dead"
================================================================================
