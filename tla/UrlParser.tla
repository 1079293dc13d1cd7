------------------------------- MODULE UrlParser -------------------------------
(***************************************************************************)
(* http_parser_parse_url as the two loops it is, one step for each byte of *)
(* the URL and then one for each byte of the authority in it, for a URL of *)
(* any length.  Url has the same function as one operator, for the module  *)
(* that only needs its result.                                             *)
(***************************************************************************)
EXTENDS Url

CONSTANTS Chars,    \* what a URL may consist of
          Garbage   \* what the windows may hold that malloc() returns

ASSUME GarbageAssumption == Garbage \subseteq Window

VARIABLES url,         \* the bytes that the first loop has passed
          is_connect,
          scan,        \* the first loop: its state, position, field and struct
          host,        \* the loop of http_parse_host: likewise
          pc           \* "scan", "host", "accepted" or "refused"

uvars == <<url, is_connect, scan, host, pc>>

NoHost(u) == [s |-> "none", at |-> 0, u |-> u]

\* The struct that the caller sees.
parsed_url == IF host.s = "none" THEN scan.u ELSE host.u

UrlInit ==
    /\ url = <<>>
    /\ is_connect \in BOOLEAN
    /\ \E w \in Garbage : scan = ScanStart(is_connect, w) /\ host = NoHost(http_parser_url(w))
    /\ pc = "scan"

\* A turn of the first loop, on byte c.
UrlChar(c) ==
    /\ pc = "scan"
    /\ url' = Append(url, c)
    /\ scan' = UrlStep(scan, c)
    /\ pc' = IF scan'.s = "s_dead" THEN "refused" ELSE "scan"
    /\ UNCHANGED <<is_connect, host>>

\* The URL ends: http_parse_host is called, or the struct is complete.
UrlEnd ==
    /\ pc = "scan"
    /\ IF HasAuthority(scan.u)
         THEN pc' = "host" /\ host' = HostStart(scan.u, scan.found_at)
         ELSE /\ pc' = IF Complies(url, is_connect, scan.u) THEN "accepted" ELSE "refused"
              /\ UNCHANGED host
    /\ UNCHANGED <<url, is_connect, scan>>

\* A turn of the loop of http_parse_host.  Behind the URL is a NUL.
HostChar ==
    /\ pc = "host"
    /\ host.at < HostEnd(scan.u)
    /\ host' = HostStep(host, IF host.at < Len(url) THEN url[host.at + 1] ELSE "NUL")
    /\ pc' = IF host'.s = "host_dead" THEN "refused" ELSE "host"
    /\ UNCHANGED <<url, is_connect, scan>>

\* http_parse_host returns.
HostEnds ==
    /\ pc = "host"
    /\ host.at >= HostEnd(scan.u)
    /\ pc' = IF HostOk(host.s) /\ Complies(url, is_connect, host.u) THEN "accepted" ELSE "refused"
    /\ UNCHANGED <<url, is_connect, scan, host>>

UrlNext == (\E c \in Chars : UrlChar(c)) \/ UrlEnd \/ HostChar \/ HostEnds

UrlSpec == UrlInit /\ [][UrlNext]_uvars

(***************************************************************************)
(* Properties                                                              *)
(***************************************************************************)
HostKnown(u) == "schema" \in u.field_set => "host" \in u.field_set
Covers(win, i) == win.off < i /\ i <= win.off + win.len
End(win) == win.off + win.len

\* The order the fields have in a URL, and what may stand between them.
Rank(f) ==
    CASE f = "schema" -> 1 [] f = "userInfo" -> 2 [] f = "host" -> 3 [] f = "port" -> 4
      [] f = "path" -> 5 [] f = "queryString" -> 6 [] f = "fragment" -> 7
Delims == {":", "/", "?", "#", "@", "[", "]"}

\* The fields F with windows d follow each other in order between lo and hi
\* without overlap, and all that lies outside them there are delimiters.
Tiled(buf, F, d, lo, hi) ==
    /\ \A f \in F : lo <= d[f].off /\ d[f].len > 0 /\ End(d[f]) <= hi
    /\ \A f, g \in F : Rank(f) < Rank(g) => End(d[f]) <= d[g].off
    /\ \A k \in lo + 1..hi : (\A f \in F : ~Covers(d[f], k)) => buf[k] \in Delims

\* In a URL that http_parser_parse_url accepts no byte is lost, misplaced or
\* given to two fields, and no field is empty.  Holds for URLs shorter than
\* the range of the offsets and, where there is a schema, with a host.
FieldsTileUrl ==
    (pc = "accepted" /\ HostKnown(parsed_url) /\ Len(url) < FieldMod) =>
        Tiled(url, parsed_url.field_set, parsed_url.field_data, 0, Len(url))

\* http_parse_host reads no byte outside the URL and what luaw_parse_url cuts
\* out of an accepted URL lies within it, also when the URL is so long that
\* 16 bit offsets and lengths wrap.  Where there is a schema it takes a host.
FieldsInBounds ==
    HostKnown(parsed_url) =>
        /\ pc = "host" => HostEnd(scan.u) <= Len(url)
        /\ pc = "accepted" =>
             \A f \in parsed_url.field_set : End(parsed_url.field_data[f]) <= Len(url)
================================================================================
