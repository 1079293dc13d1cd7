--------------------------------- MODULE MCUrl ---------------------------------
(***************************************************************************)
(* Every URL, form string and list of parameters up to a length, built one *)
(* character at a time, is given to UrlParser and to the operators of Url. *)
(***************************************************************************)
EXTENDS UrlParser, FiniteSets

CONSTANTS MaxUrl, MaxPath, MaxForm, MaxParams   \* bounds: lengths of a URL with a schema and of
                                                \* one without, of a form and of parameters

VARIABLES form, params
vars == <<uvars, form, params>>

\* Behind the authority all but '?' and '#' are treated alike.
UrlAlphabet(s) ==
    IF UrlField(s) \in {"path", "queryString", "fragment"} THEN {"a", "?", "#"} ELSE Chars \ {"#"}
Schema == <<"a", ":", "/", "/">>
FormAlphabet == {"a", "2", "5", "%", "&", "=", "+"}
ParamStrings == {<<"a">>, <<"+">>, <<"%", "a">>, <<" ", "=">>, <<"&">>}
MCGarbage == {[off |-> 0, len |-> 0], [off |-> 0, len |-> 1]}

Init == UrlInit /\ form = <<>> /\ params = <<>>

\* Some continuation of the URL may be accepted: its authority is the start
\* of a host, or of user information and a host.
Viable(str, a) ==
    LET auth == IF "host" \in a.u.field_set THEN Slice(str, a.u, "host") ELSE <<>>
    IN  /\ a.s # "s_dead"
        /\ \E s \in {"host_start", "userinfo_start"} :
             FoldLeft(http_parse_host_char, s, auth) # "host_dead"

AddToUrl ==
    /\ Len(url) < IF IsPrefix(Schema, url) THEN MaxUrl ELSE MaxPath
    /\ form = <<>> /\ params = <<>>
    /\ \E c \in UrlAlphabet(scan.s) : Viable(url, scan) /\ UrlChar(c)
    /\ UNCHANGED <<form, params>>

ParseUrl == form = <<>> /\ params = <<>> /\ (UrlEnd \/ HostChar \/ HostEnds) /\ UNCHANGED <<form, params>>

\* The other inputs, built at a URL that is left alone.
Elsewhere == url = <<>> /\ is_connect /\ pc = "scan" /\ scan.u.field_data["host"].len = 0

AddToForm(c) ==
    /\ Len(form) < MaxForm
    /\ Elsewhere /\ params = <<>>
    /\ form' = Append(form, c)
    /\ UNCHANGED <<uvars, params>>

AddToParams(name, value) ==
    /\ Len(params) < MaxParams
    /\ Elsewhere /\ form = <<>>
    /\ params' = Append(params, <<name, value>>)
    /\ UNCHANGED <<uvars, form>>

Next ==
    \/ AddToUrl \/ ParseUrl
    \/ \E c \in FormAlphabet : AddToForm(c)
    \/ \E name, value \in ParamStrings : AddToParams(name, value)

Spec == Init /\ [][Next]_vars

\* The loops compute what the operator of Url says.
LoopsAgree ==
    pc \in {"accepted", "refused"} =>
        LET unset == scan.u.field_data["port"]
            r == http_parser_parse_url(url, is_connect, unset)
        IN  r.ok = (pc = "accepted") /\ (r.ok => r.u = parsed_url)

\* luaw_url_decode gives back the parameters that urlEncodeParams encoded,
\* whatever characters they consist of.
DecodeInvertsEncode == luaw_url_decode(urlEncodeParams(params)) = [ok |-> TRUE, params |-> params]

\* The reference: the string cut at each '&', each part cut at its '='.
Cuts == {0, Len(form) + 1} \cup {i \in 1..Len(form) : form[i] = "&"}
Parts ==
    LET cuts == SetToSortSeq(Cuts, <)
    IN  [k \in 1..Cardinality(Cuts) - 1 |-> SubSeq(form, cuts[k] + 1, cuts[k + 1] - 1)]
Equals(part) == {i \in 1..Len(part) : part[i] = "="}
Plain(str) == decode_hex_str([i \in 1..Len(str) |-> IF str[i] = "+" THEN " " ELSE str[i]])
Complete(part) == Cardinality(Equals(part)) = 1 /\ Equals(part) \cap {1, Len(part)} = {}
NameOnly(part) == part # <<>> /\ Equals(part) \subseteq {Len(part)} /\ 1 \notin Equals(part)
Malformed(part) == ~Complete(part) /\ ~NameOnly(part)
Pair(part) ==
    LET e == CHOOSE i \in Equals(part) : TRUE
    IN  <<Plain(SubSeq(part, 1, e - 1)), Plain(SubSeq(part, e + 1, Len(part)))>>

\* luaw_url_decode accepts a string of complete parts, of which the last may
\* be missing or lack its value; refuses one with a part that is empty, has
\* no name or has two '='; and yields one pair for each complete part of what
\* it accepts, in order: nothing carries over from one part to the next.
\* Whether a name without a value may stand before another part is left open:
\* the comment in handle_name_value_pair says it may, the loop refuses it.
DecodeMatchesSplit ==
    LET d == luaw_url_decode(form)
        last == Len(Parts)
        complete == SelectSeq(Parts, Complete)
        tail == Parts[last]
    IN  /\ (\A k \in 1..last - 1 : Complete(Parts[k])) /\ (tail = <<>> \/ ~Malformed(tail)) => d.ok
        /\ (\E k \in 1..last - 1 : Malformed(Parts[k])) \/ (tail # <<>> /\ Malformed(tail)) => ~d.ok
        /\ d.ok => d.params = [k \in 1..Len(complete) |-> Pair(complete[k])]
================================================================================
