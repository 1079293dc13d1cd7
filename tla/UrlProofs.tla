------------------------------- MODULE UrlProofs -------------------------------
(***************************************************************************)
(* http_parser_parse_url cuts every URL it accepts, whatever its length,   *)
(* into windows that lie within it, and as long as the offsets do not wrap *)
(* into windows that tile it.                                              *)
(***************************************************************************)
EXTENDS UrlParser, TLAPS

-----------------------------------------------------------------------------
(* Windows *)

LEMMA ModFacts ==
  ASSUME NEW M \in Nat \ {0}, NEW x \in Nat
  PROVE  x % M \in 0..M - 1 /\ x % M <= x /\ (x < M => x % M = x)
OBVIOUS

UrlStruct == [field_set : SUBSET Fields, field_data : [Fields -> Window]]

\* The windows e are d with the byte at position at given to field f, as the
\* first one or one more.  Without a wrap the window of f ends behind it.
Filled(d, e, f, at, first) ==
    /\ e \in [Fields -> Window]
    /\ \A g \in Fields \ {f} : e[g] = d[g]
    /\ End(e[f]) <= (IF first THEN at ELSE End(d[f])) + 1
    /\ (at + 1 < FieldMod /\ (first \/ End(d[f]) = at)) =>
         /\ e[f].off = IF first THEN at ELSE d[f].off
         /\ e[f].len > 0
         /\ End(e[f]) = at + 1

LEMMA WindowFacts ==
  ASSUME NEW x \in Window
  PROVE  x.off \in Nat /\ x.len \in Nat /\ End(x) \in Nat /\ End(x) = x.off + x.len
BY FieldModAssumption DEF Window, End

\* A first byte, where the length has been reset before it.
LEMMA FirstByte ==
  ASSUME NEW d \in [Fields -> Window], NEW f \in Fields, NEW at \in Nat, NEW e,
         e = [d EXCEPT ![f] = [off |-> at % FieldMod, len |-> 1]]
  PROVE  Filled(d, e, f, at, TRUE)
<1>1. /\ at % FieldMod \in 0..FieldMod - 1 /\ at % FieldMod <= at
      /\ at < FieldMod => at % FieldMod = at
  BY FieldModAssumption, ModFacts
<1>2. PICK o : o = at % FieldMod
  OBVIOUS
<1>3. PICK x : x = [off |-> o, len |-> 1]
  OBVIOUS
<1>4. x \in Window /\ x.off = o /\ x.len = 1
  BY <1>1, <1>2, <1>3, FieldModAssumption DEF Window
<1>5. e \in [Fields -> Window] /\ e[f] = x /\ \A g \in Fields \ {f} : e[g] = d[g]
  BY <1>2, <1>3, <1>4
<1>6. End(x) = o + 1
  BY <1>4 DEF End
<1>7. FieldMod \in Nat /\ o \in Nat
  BY <1>1, <1>2, FieldModAssumption
<1> QED BY <1>1, <1>2, <1>4, <1>5, <1>6, <1>7 DEF Filled

\* One more byte.
LEMMA NextByte ==
  ASSUME NEW d \in [Fields -> Window], NEW f \in Fields, NEW at \in Nat, NEW e,
         e = [d EXCEPT ![f].len = (@ + 1) % FieldMod]
  PROVE  Filled(d, e, f, at, FALSE)
<1>1. d[f] \in Window /\ d[f].off \in Nat /\ d[f].len \in Nat
  BY FieldModAssumption DEF Window
<1>2. PICK l : l = (d[f].len + 1) % FieldMod
  OBVIOUS
<1>3. /\ l \in 0..FieldMod - 1 /\ l <= d[f].len + 1
      /\ d[f].len + 1 < FieldMod => l = d[f].len + 1
  <2>1. d[f].len + 1 \in Nat
    BY <1>1
  <2> QED BY <1>2, <2>1, FieldModAssumption, ModFacts
<1>4. PICK x : x = [d[f] EXCEPT !.len = l]
  OBVIOUS
<1>5. x \in Window /\ x.off = d[f].off /\ x.len = l
  BY <1>1, <1>3, <1>4 DEF Window
<1>6. e \in [Fields -> Window] /\ e[f] = x /\ \A g \in Fields \ {f} : e[g] = d[g]
  BY <1>2, <1>4, <1>5
<1>7. End(x) = d[f].off + l /\ End(d[f]) = d[f].off + d[f].len
  BY <1>5 DEF End
<1>8. FieldMod \in Nat
  BY FieldModAssumption
<1> QED BY <1>1, <1>3, <1>5, <1>6, <1>7, <1>8 DEF Filled

\* The first byte of the host, whose window has been emptied before.
LEMMA FirstHostByte ==
  ASSUME NEW d \in [Fields -> Window], NEW f \in Fields, NEW at \in Nat, NEW e, d[f].len = 0,
         e = [d EXCEPT ![f] = [off |-> at % FieldMod, len |-> (@.len + 1) % FieldMod]]
  PROVE  Filled(d, e, f, at, TRUE)
<1>1. PICK l : l = (d[f].len + 1) % FieldMod
  OBVIOUS
<1>2. PICK o : o = at % FieldMod
  OBVIOUS
<1>3. e = [d EXCEPT ![f] = [off |-> o, len |-> l]]
  BY <1>1, <1>2, Zenon
<1>4. l = 1
  <2>1. d[f].len + 1 = 1
    OBVIOUS
  <2>2. 1 % FieldMod = 1
    <3>1. 1 \in Nat /\ FieldMod \in Nat \ {0} /\ 1 < FieldMod
      BY FieldModAssumption
    <3> QED BY <3>1, ModFacts
  <2> QED BY <1>1, <2>1, <2>2
<1>5. e = [d EXCEPT ![f] = [off |-> at % FieldMod, len |-> 1]]
  BY <1>2, <1>3, <1>4, Zenon
<1> QED BY <1>5, FirstByte

\* The struct v is u with the byte at position at given to field f.
Grown(u, v, f, at, first) ==
    /\ v \in UrlStruct
    /\ v.field_set = IF first THEN u.field_set \cup {f} ELSE u.field_set
    /\ Filled(u.field_data, v.field_data, f, at, first)

LEMMA GrowFacts ==
  ASSUME NEW u \in UrlStruct, NEW f \in Fields, NEW at \in Nat, NEW first \in BOOLEAN, NEW v,
         v = Grow(u, f, at, first)
  PROVE  Grown(u, v, f, at, first)
<1>1. u.field_data \in [Fields -> Window] /\ u.field_set \subseteq Fields
  BY DEF UrlStruct
<1>2. CASE first
  <2>1. PICK e : e = [u.field_data EXCEPT ![f] = [off |-> at % FieldMod, len |-> 1]]
    OBVIOUS
  <2>2. v = [field_set |-> u.field_set \cup {f}, field_data |-> e]
    BY <1>2, <2>1 DEF Grow
  <2>3. Filled(u.field_data, e, f, at, TRUE)
    BY <1>1, <2>1, FirstByte
  <2>4. e \in [Fields -> Window]
    BY <2>3 DEF Filled
  <2>5. v.field_set = u.field_set \cup {f} /\ v.field_data = e /\ v \in UrlStruct
    BY <1>1, <2>2, <2>4 DEF UrlStruct
  <2>6. first = TRUE
    BY <1>2
  <2> QED BY <1>2, <2>3, <2>5, <2>6 DEF Grown
<1>3. CASE ~first
  <2>1. PICK e : e = [u.field_data EXCEPT ![f].len = (@ + 1) % FieldMod]
    OBVIOUS
  <2>2. v = [u EXCEPT !.field_data = e]
    <3>1. v = [u EXCEPT !.field_data[f].len = (@ + 1) % FieldMod]
      BY <1>3 DEF Grow
    <3> QED BY <2>1, <3>1, Zenon
  <2>3. Filled(u.field_data, e, f, at, FALSE)
    BY <1>1, <2>1, NextByte
  <2>4. e \in [Fields -> Window]
    BY <2>3 DEF Filled
  <2>5. v.field_set = u.field_set /\ v.field_data = e /\ v \in UrlStruct
    BY <1>1, <2>2, <2>4 DEF UrlStruct
  <2>6. first = FALSE
    BY <1>3
  <2> QED BY <1>3, <2>3, <2>5, <2>6 DEF Grown
<1> QED BY <1>2, <1>3

-----------------------------------------------------------------------------
(* Tilings *)

Fresh(F, f) == f \notin F /\ \A g \in F : Rank(g) < Rank(f) /\ ~(Rank(f) < Rank(g))
Latest(F, f) == f \in F /\ \A g \in F \ {f} : Rank(g) < Rank(f) /\ ~(Rank(f) < Rank(g))

\* A byte that is given to no field has to be a delimiter.
LEMMA SkipTile ==
  ASSUME NEW buf, NEW F \in SUBSET Fields, NEW d \in [Fields -> Window], NEW lo \in Nat, NEW hi \in Nat,
         Tiled(buf, F, d, lo, hi), buf[hi + 1] \in Delims
  PROVE  Tiled(buf, F, d, lo, hi + 1)
<1>1. \A f \in F : End(d[f]) \in Nat
  BY WindowFacts
<1>2. ASSUME NEW k \in lo + 1..hi + 1, \A f \in F : ~Covers(d[f], k)
      PROVE  buf[k] \in Delims
  <2>1. CASE k = hi + 1
    BY <2>1
  <2>2. CASE k # hi + 1
    <3>1. k \in lo + 1..hi
      BY <2>2
    <3> QED BY <1>2, <3>1 DEF Tiled
  <2> QED BY <2>1, <2>2
<1>3. \A f \in F : lo <= d[f].off /\ d[f].len > 0 /\ End(d[f]) <= hi + 1
  BY <1>1 DEF Tiled
<1>4. \A f, g \in F : Rank(f) < Rank(g) => End(d[f]) <= d[g].off
  BY DEF Tiled
<1> QED BY <1>2, <1>3, <1>4 DEF Tiled

\* A tiling that can be continued, and one whose last field is f.
TileUpTo(buf, F, d, lo, hi) ==
    /\ F \in SUBSET Fields /\ d \in [Fields -> Window] /\ lo \in Nat /\ hi \in Nat
    /\ lo <= hi /\ hi + 1 < FieldMod
    /\ Tiled(buf, F, d, lo, hi)
TileEnding(buf, F, d, lo, hi, f) == Tiled(buf, F, d, lo, hi) /\ End(d[f]) = hi

\* The first byte of a field that comes behind the others.
LEMMA StartTile ==
  ASSUME NEW buf, NEW F, NEW d, NEW lo, NEW hi, NEW f, NEW e, TileUpTo(buf, F, d, lo, hi),
         f \in Fields, Fresh(F, f), Filled(d, e, f, hi, TRUE)
  PROVE  TileEnding(buf, F \cup {f}, e, lo, hi + 1, f)
<1>0. /\ F \in SUBSET Fields /\ d \in [Fields -> Window] /\ lo \in Nat /\ hi \in Nat /\ lo <= hi
      /\ hi + 1 < FieldMod /\ Tiled(buf, F, d, lo, hi)
  BY DEF TileUpTo
<1>1. /\ e \in [Fields -> Window] /\ \A g \in F : e[g] = d[g]
      /\ e[f].off = hi /\ e[f].len > 0 /\ End(e[f]) = hi + 1
  BY <1>0 DEF Filled, Fresh
<1>2. \A g \in F : lo <= d[g].off /\ d[g].len > 0 /\ End(d[g]) <= hi /\ End(d[g]) \in Nat
  BY <1>0, WindowFacts DEF Tiled
<1>3. ASSUME NEW g \in F \cup {f}
      PROVE  lo <= e[g].off /\ e[g].len > 0 /\ End(e[g]) <= hi + 1
  BY <1>0, <1>1, <1>2
<1>4. ASSUME NEW g \in F \cup {f}, NEW h \in F \cup {f}, Rank(g) < Rank(h)
      PROVE  End(e[g]) <= e[h].off
  <2>1. CASE g \in F /\ h \in F
    BY <1>0, <1>1, <1>4, <2>1 DEF Tiled
  <2>2. CASE g \in F /\ h = f
    BY <1>0, <1>1, <1>2, <2>2
  <2>3. CASE g = f /\ h \in F
    BY <1>0, <1>4, <2>3 DEF Fresh
  <2>4. CASE g = f /\ h = f
    <3>1. Rank(f) \in Int
      BY <1>0 DEF Rank, Fields
    <3> QED BY <1>0, <1>4, <2>4, <3>1
  <2> QED BY <1>0, <2>1, <2>2, <2>3, <2>4
<1>5. ASSUME NEW k \in lo + 1..hi + 1, \A g \in F \cup {f} : ~Covers(e[g], k)
      PROVE  buf[k] \in Delims
  <2>1. k # hi + 1
    <3>1. SUFFICES ASSUME k = hi + 1
                   PROVE  Covers(e[f], k)
      BY <1>0, <1>5
    <3> QED BY <1>0, <1>1, <3>1 DEF Covers, End
  <2>2. k \in lo + 1..hi
    BY <1>0, <2>1
  <2>3. \A g \in F : ~Covers(d[g], k)
    BY <1>0, <1>1, <1>5
  <2> QED BY <1>0, <2>2, <2>3 DEF Tiled
<1> QED BY <1>0, <1>1, <1>3, <1>4, <1>5 DEF Tiled, TileEnding

\* One more byte of the last field.
LEMMA ExtendTile ==
  ASSUME NEW buf, NEW F, NEW d, NEW lo, NEW hi, NEW f, NEW e, TileUpTo(buf, F, d, lo, hi),
         f \in Fields, Latest(F, f), End(d[f]) = hi, Filled(d, e, f, hi, FALSE)
  PROVE  TileEnding(buf, F, e, lo, hi + 1, f)
<1>0. /\ F \in SUBSET Fields /\ d \in [Fields -> Window] /\ lo \in Nat /\ hi \in Nat
      /\ hi + 1 < FieldMod /\ Tiled(buf, F, d, lo, hi)
  BY DEF TileUpTo
<1>1. /\ e \in [Fields -> Window] /\ \A g \in F \ {f} : e[g] = d[g]
      /\ e[f].off = d[f].off /\ e[f].len > 0 /\ End(e[f]) = hi + 1 /\ f \in F
  BY <1>0 DEF Filled, Latest
<1>2. \A g \in F : /\ lo <= d[g].off /\ d[g].len > 0 /\ End(d[g]) <= hi /\ End(d[g]) \in Nat
                   /\ d[g].off \in Nat
  BY <1>0, WindowFacts DEF Tiled
<1>3. ASSUME NEW g \in F
      PROVE  lo <= e[g].off /\ e[g].len > 0 /\ End(e[g]) <= hi + 1
  <2>1. CASE g = f
    BY <1>0, <1>1, <1>2, <2>1
  <2>2. CASE g # f
    BY <1>0, <1>1, <1>2, <2>2
  <2> QED BY <1>0, <2>1, <2>2
<1>4. ASSUME NEW g \in F, NEW h \in F, Rank(g) < Rank(h)
      PROVE  End(e[g]) <= e[h].off
  <2>1. g # f
    <3>1. Rank(f) \in Int
      BY <1>0 DEF Rank, Fields
    <3> QED BY <1>0, <1>4, <3>1 DEF Latest
  <2>2. e[g] = d[g] /\ e[h].off = d[h].off
    BY <1>0, <1>1, <2>1
  <2> QED BY <1>0, <1>4, <2>2 DEF Tiled
<1>5. ASSUME NEW k \in lo + 1..hi + 1, \A g \in F : ~Covers(e[g], k)
      PROVE  buf[k] \in Delims
  <2>1. ~(d[f].off < k)
    <3>1. ~Covers(e[f], k)
      BY <1>0, <1>1, <1>5
    <3> QED BY <1>0, <1>1, <3>1 DEF Covers, End
  <2>2. k \in lo + 1..hi
    <3>1. d[f].off <= hi
      <4>1. d[f] \in Window /\ d[f].len \in Nat /\ d[f].off \in Nat /\ End(d[f]) = d[f].off + d[f].len
        BY <1>0, WindowFacts
      <4> QED BY <1>0, <4>1
    <3> QED BY <1>0, <1>2, <1>1, <2>1, <3>1
  <2>3. \A g \in F : ~Covers(d[g], k)
    <3>1. ~Covers(d[f], k)
      BY <1>0, <2>1 DEF Covers
    <3> QED BY <1>0, <1>1, <1>5, <3>1
  <2> QED BY <1>0, <2>2, <2>3 DEF Tiled
<1> QED BY <1>0, <1>1, <1>3, <1>4, <1>5 DEF Tiled, TileEnding

\* A tiling says nothing of the bytes behind it.
LEMMA SameTile ==
  ASSUME NEW buf, NEW b, NEW F, NEW d, NEW lo \in Nat, NEW hi \in Nat, Tiled(buf, F, d, lo, hi),
         \A k \in 1..hi : b[k] = buf[k]
  PROVE  Tiled(b, F, d, lo, hi)
<1>1. \A k \in lo + 1..hi : k \in 1..hi
  OBVIOUS
<1> QED BY <1>1 DEF Tiled

-----------------------------------------------------------------------------
(* The order in which the loops meet the fields *)

ScanStates == UrlStates \cup {"s_req_spaces_before_url", "s_dead"}
HostStates == {"userinfo_start", "userinfo", "host_start", "host", "v6_start", "v6", "v6_end",
               "port_start", "port", "host_dead"}

\* The fields that may be set when the first loop is in state s.
Passed(s) ==
    CASE s = "s_req_spaces_before_url" -> {}
      [] s \in {"s_req_schema", "s_req_schema_slash", "s_req_schema_slash_slash",
                "s_req_server_start"} -> {"schema"}
      [] s \in {"s_req_server", "s_req_server_with_at"} -> {"schema", "host"}
      [] s \in {"s_req_path", "s_req_query_string_start"} -> {"schema", "host", "path"}
      [] s \in {"s_req_query_string", "s_req_fragment_start"} ->
            {"schema", "host", "path", "queryString"}
      [] OTHER -> {"schema", "host", "path", "queryString", "fragment"}

\* Likewise for the loop of http_parse_host.
HostPassed(s) ==
    CASE s = "userinfo_start" -> {}
      [] s \in {"userinfo", "host_start", "v6_start"} -> {"userInfo"}
      [] s \in {"host", "v6", "v6_end", "port_start"} -> {"userInfo", "host"}
      [] OTHER -> {"userInfo", "host", "port"}
HostSeen(s) == s \in {"host", "v6", "v6_end", "port_start", "port"}

\* From P, in which field old was met last, to Q on byte c for field f.
Follows(P, Q, old, f, c) ==
    /\ P \subseteq Q
    /\ f = "none" => c \in Delims
    /\ f # "none" => /\ f \in Q
                     /\ f \in P => old = f
                     /\ \A g \in P \ {f} : Rank(g) < Rank(f) /\ ~(Rank(f) < Rank(g))

LEMMA UrlCharFollows ==
  ASSUME NEW s \in ScanStates \ {"s_dead"}, NEW c, NEW t, t = parse_url_char(s, c), t # "s_dead"
  PROVE  /\ t \in ScanStates \ {"s_dead"}
         /\ Follows(Passed(s), Passed(t), UrlField(s), UrlField(t), c)
<1>1. CASE s \in {"s_req_spaces_before_url", "s_req_schema"}
  <2>1. \/ t = "s_req_path" /\ s = "s_req_spaces_before_url"
        \/ t = "s_req_schema"
        \/ t = "s_req_schema_slash" /\ c = ":" /\ s = "s_req_schema"
    BY <1>1 DEF parse_url_char
  <2> QED BY <1>1, <2>1 DEF Follows, Passed, UrlField, ScanStates, UrlStates, Delims, Rank
<1>2. CASE s \in {"s_req_schema_slash", "s_req_schema_slash_slash"}
  <2>1. c = "/" /\ t \in {"s_req_schema_slash_slash", "s_req_server_start"}
    BY <1>2 DEF parse_url_char
  <2> QED BY <1>2, <2>1 DEF Follows, Passed, UrlField, ScanStates, UrlStates, Delims, Rank
<1>3. CASE s \in {"s_req_server_start", "s_req_server", "s_req_server_with_at"}
  <2>1. t = serverChar(s, c)
    BY <1>3 DEF parse_url_char
  <2>2. \/ t \in {"s_req_path", "s_req_server_with_at", "s_req_server"}
        \/ t = "s_req_query_string_start" /\ c = "?"
    BY <2>1 DEF serverChar
  <2> QED BY <1>3, <2>2 DEF Follows, Passed, UrlField, ScanStates, UrlStates, Delims, Rank
<1>4. CASE s = "s_req_path"
  <2>1. \/ t = "s_req_path"
        \/ t = "s_req_query_string_start" /\ c = "?"
        \/ t = "s_req_fragment_start" /\ c = "#"
    BY <1>4 DEF parse_url_char, tailChar
  <2> QED BY <1>4, <2>1 DEF Follows, Passed, UrlField, ScanStates, UrlStates, Delims, Rank
<1>5. CASE s \in {"s_req_query_string_start", "s_req_query_string"}
  <2>1. t = "s_req_query_string" \/ (t = "s_req_fragment_start" /\ c = "#")
    BY <1>5 DEF parse_url_char, tailChar
  <2> QED BY <1>5, <2>1 DEF Follows, Passed, UrlField, ScanStates, UrlStates, Delims, Rank
<1>6. CASE s \in {"s_req_fragment_start", "s_req_fragment"}
  <2>1. t = "s_req_fragment" \/ (t = "s_req_fragment_start" /\ s = t /\ c = "#")
    <3>1. CASE s = "s_req_fragment_start"
      <4>1. t = tailChar("s_req_fragment", "s_req_fragment", s, c)
        BY <3>1 DEF parse_url_char
      <4> QED BY <3>1, <4>1 DEF tailChar
    <3>2. CASE s = "s_req_fragment"
      <4>1. t = tailChar(s, s, s, c)
        BY <3>2 DEF parse_url_char
      <4> QED BY <3>2, <4>1 DEF tailChar
    <3> QED BY <1>6, <3>1, <3>2
  <2> QED BY <1>6, <2>1 DEF Follows, Passed, UrlField, ScanStates, UrlStates, Delims, Rank
<1> QED BY <1>1, <1>2, <1>3, <1>4, <1>5, <1>6 DEF ScanStates, UrlStates

LEMMA HostCharFollows ==
  ASSUME NEW s \in HostStates \ {"host_dead"}, NEW c, NEW t, t = http_parse_host_char(s, c),
         t # "host_dead"
  PROVE  /\ t \in HostStates \ {"host_dead"}
         /\ Follows(HostPassed(s), HostPassed(t), IF s = t THEN HostField(t) ELSE "none", HostField(t), c)
         /\ HostSeen(s) => HostSeen(t)
         /\ HostSeen(t) /\ HostField(t) # "host" => HostSeen(s)
         /\ HostField(t) = "host" /\ s # t => ~HostSeen(s)
<1>1. CASE s \in {"userinfo_start", "userinfo"}
  <2>1. t = "userinfo" \/ (t = "host_start" /\ c = "@")
    BY <1>1 DEF http_parse_host_char
  <2> QED BY <1>1, <2>1 DEF Follows, HostPassed, HostField, HostStates, HostSeen, Delims, Rank
<1>2. CASE s = "host_start"
  <2>1. t = "host" \/ (t = "v6_start" /\ c = "[")
    BY <1>2 DEF http_parse_host_char
  <2> QED BY <1>2, <2>1 DEF Follows, HostPassed, HostField, HostStates, HostSeen, Delims, Rank
<1>3. CASE s \in {"host", "v6_end"}
  <2>1. (t = "host" /\ s = t) \/ (t = "port_start" /\ c = ":")
    BY <1>3 DEF http_parse_host_char
  <2> QED BY <1>3, <2>1 DEF Follows, HostPassed, HostField, HostStates, HostSeen, Delims, Rank
<1>4. CASE s \in {"v6_start", "v6"}
  <2>1. t = "v6" \/ (t = "v6_end" /\ c = "]" /\ s = "v6")
    BY <1>4 DEF http_parse_host_char
  <2> QED BY <1>4, <2>1 DEF Follows, HostPassed, HostField, HostStates, HostSeen, Delims, Rank
<1>5. CASE s \in {"port_start", "port"}
  <2>1. t = "port"
    BY <1>5 DEF http_parse_host_char
  <2> QED BY <1>5, <2>1 DEF Follows, HostPassed, HostField, HostStates, HostSeen, Delims, Rank
<1> QED BY <1>1, <1>2, <1>3, <1>4, <1>5 DEF HostStates

-----------------------------------------------------------------------------
(* The inductive invariant *)

UrlTypeOK ==
    /\ url \in Seq(Chars)
    /\ scan.s \in ScanStates /\ scan.at = Len(url) /\ scan.u \in UrlStruct
    /\ scan.uf \in Fields \cup {"none"}
    /\ host.s \in HostStates \cup {"none"} /\ host.at \in Nat /\ host.u \in UrlStruct
    /\ pc \in {"scan", "host", "accepted", "refused"}

\* The first loop, unless it has been left with an error.
ScanOrdered(a) ==
    /\ a.s # "s_dead"
    /\ a.u.field_set \subseteq Passed(a.s)
    /\ a.uf # "none" => a.uf \in a.u.field_set
    /\ UrlField(a.s) # "none" => a.uf = UrlField(a.s)
ScanBounded(a) ==
    \A f \in a.u.field_set : End(a.u.field_data[f]) <= a.at
ScanTiled(a) ==
    /\ Tiled(url, a.u.field_set, a.u.field_data, 0, a.at)
    /\ UrlField(a.s) # "none" => End(a.u.field_data[UrlField(a.s)]) = a.at
ScanInv ==
    /\ ScanOrdered(scan)
    /\ ScanBounded(scan)
    /\ Len(url) < FieldMod => ScanTiled(scan)

\* The fields http_parse_host has found; it does not mark the host.
HostParts(u) ==
    (u.field_set \cap {"userInfo", "port"}) \cup {f \in {"host"} : u.field_data[f].len > 0}

\* What http_parse_host leaves alone.
HostFrame(u, v) ==
    /\ v.field_set \ {"userInfo", "port"} = u.field_set \ {"userInfo", "port"}
    /\ \A f \in Fields \ {"userInfo", "host", "port"} : v.field_data[f] = u.field_data[f]
HostOrdered(h) ==
    /\ h.s \in HostStates \ {"host_dead"}
    /\ HostParts(h.u) \subseteq HostPassed(h.s)
    /\ ~HostSeen(h.s) => h.u.field_data["host"].len = 0
HostBounded(h) ==
    /\ h.at <= HostEnd(scan.u)
    /\ \A f \in {"userInfo", "host", "port"} :
         f = "host" \/ f \in h.u.field_set => End(h.u.field_data[f]) <= h.at
    /\ HostField(h.s) # "none" => HostField(h.s) = "host" \/ HostField(h.s) \in h.u.field_set
HostTiled(h) ==
    /\ scan.u.field_data["host"].off <= h.at
    /\ Tiled(url, HostParts(h.u), h.u.field_data, scan.u.field_data["host"].off, h.at)
    /\ HostSeen(h.s) => "host" \in HostParts(h.u)
    /\ HostField(h.s) # "none" =>
         HostField(h.s) \in HostParts(h.u) /\ End(h.u.field_data[HostField(h.s)]) = h.at
HostInv ==
    /\ HostFrame(scan.u, host.u)
    /\ "host" \in scan.u.field_set =>
         /\ HostOrdered(host)
         /\ HostBounded(host)
         /\ Len(url) < FieldMod => HostTiled(host)

UrlInv ==
    /\ UrlTypeOK
    /\ pc = "scan" => host.s = "none"
    /\ pc = "host" => host.s # "none" /\ HasAuthority(scan.u)
    /\ pc # "refused" => ScanInv
    /\ (pc # "refused" /\ host.s # "none") => HostInv
    /\ (pc = "accepted" /\ host.s # "none") =>
         HasAuthority(scan.u) /\ HostOk(host.s) /\ host.at >= HostEnd(scan.u)

-----------------------------------------------------------------------------
(* What a turn of a loop does to the struct *)

LEMMA FieldFacts ==
  /\ \A s : UrlField(s) \in {"none", "schema", "host", "path", "queryString", "fragment"}
  /\ \A s : HostField(s) \in {"none", "userInfo", "host", "port"}
  /\ {"userInfo", "host", "port"} \subseteq Fields
  /\ {"schema", "host", "path", "queryString", "fragment"} \subseteq Fields
  /\ "none" \notin Fields
  /\ HostField("host_dead") = "none"
BY DEF UrlField, HostField, Fields

UrlStepped(a, c, b) ==
    /\ b.s = parse_url_char(a.s, c)
    /\ b.at = a.at + 1
    /\ b.u \in UrlStruct
    /\ b.uf = IF UrlField(b.s) = "none" THEN a.uf ELSE UrlField(b.s)
    /\ UrlField(b.s) = "none" => b.u = a.u
    /\ UrlField(b.s) # "none" =>
         /\ UrlField(b.s) \in Fields
         /\ b.u.field_set = IF UrlField(b.s) # a.uf THEN a.u.field_set \cup {UrlField(b.s)}
                            ELSE a.u.field_set
         /\ Filled(a.u.field_data, b.u.field_data, UrlField(b.s), a.at, UrlField(b.s) # a.uf)

LEMMA UrlStepFacts ==
  ASSUME NEW a, a.u \in UrlStruct, a.at \in Nat, NEW c, NEW b, b = UrlStep(a, c)
  PROVE  UrlStepped(a, c, b)
<1>1. PICK t : t = parse_url_char(a.s, c)
  OBVIOUS
<1>2. PICK f : f = UrlField(t)
  OBVIOUS
<1>3. f \in Fields \cup {"none"} /\ "none" \notin Fields
  BY <1>2, FieldFacts
<1>4. /\ b.s = t /\ b.at = a.at + 1 /\ b.uf = IF f = "none" THEN a.uf ELSE f
      /\ b.u = IF f = "none" THEN a.u ELSE Grow(a.u, f, a.at, f # a.uf)
  BY <1>1, <1>2 DEF UrlStep
<1>5. CASE f = "none"
  BY <1>1, <1>2, <1>4, <1>5 DEF UrlStepped
<1>6. CASE f # "none"
  <2>1. PICK first \in BOOLEAN : first = (f # a.uf)
    OBVIOUS
  <2>2. b.u = Grow(a.u, f, a.at, first)
    BY <1>4, <1>6, <2>1
  <2>3. f \in Fields
    BY <1>3, <1>6
  <2>4. /\ b.u \in UrlStruct
        /\ b.u.field_set = IF first THEN a.u.field_set \cup {f} ELSE a.u.field_set
        /\ Filled(a.u.field_data, b.u.field_data, f, a.at, first)
    <3>1. PICK u : u = a.u
      OBVIOUS
    <3>2. PICK v : v = b.u
      OBVIOUS
    <3>3. PICK at : at = a.at
      OBVIOUS
    <3>4. u \in UrlStruct /\ at \in Nat /\ v = Grow(u, f, at, first)
      BY <2>2, <3>1, <3>2, <3>3
    <3>5. Grown(u, v, f, at, first)
      BY <2>3, <3>4, GrowFacts
    <3> QED BY <3>1, <3>2, <3>3, <3>5 DEF Grown
  <2> QED BY <1>1, <1>2, <1>4, <1>6, <2>1, <2>3, <2>4 DEF UrlStepped
<1> QED BY <1>5, <1>6

\* The window of the host when its first byte is met, reset or not.
HostGrow(u, at) ==
    [u EXCEPT !.field_data["host"] = [off |-> at % FieldMod, len |-> (@.len + 1) % FieldMod]]
HostGrown(u, v, at) ==
    /\ v \in UrlStruct
    /\ v.field_set = u.field_set
    /\ \A f \in Fields \ {"host"} : v.field_data[f] = u.field_data[f]
    /\ u.field_data["host"].len = 0 => Filled(u.field_data, v.field_data, "host", at, TRUE)

LEMMA HostWindow ==
  ASSUME NEW u \in UrlStruct, NEW at \in Nat, NEW v, v = HostGrow(u, at)
  PROVE  HostGrown(u, v, at)
<1>1. u.field_data \in [Fields -> Window] /\ "host" \in Fields
  BY DEF UrlStruct, Fields
<1>2. PICK d : d = u.field_data
  OBVIOUS
<1>3. PICK l : l = (d["host"].len + 1) % FieldMod
  OBVIOUS
<1>4. PICK o : o = at % FieldMod
  OBVIOUS
<1>5. PICK e : e = [d EXCEPT !["host"] = [off |-> o, len |-> l]]
  OBVIOUS
<1>6. v = [u EXCEPT !.field_data = e]
  BY <1>2, <1>3, <1>4, <1>5, Zenon DEF HostGrow
<1>7. l \in 0..FieldMod - 1 /\ o \in 0..FieldMod - 1
  <2>1. d["host"] \in Window
    BY <1>1, <1>2
  <2>2. d["host"].len + 1 \in Nat
    BY <2>1, WindowFacts
  <2>3. FieldMod \in Nat \ {0}
    BY FieldModAssumption
  <2>4. l \in 0..FieldMod - 1
    BY <1>3, <2>2, <2>3, ModFacts
  <2>5. o \in 0..FieldMod - 1
    BY <1>4, <2>3, ModFacts
  <2> QED BY <2>4, <2>5
<1>8. [off |-> o, len |-> l] \in Window
  BY <1>7 DEF Window
<1>9. e \in [Fields -> Window] /\ \A f \in Fields \ {"host"} : e[f] = d[f]
  BY <1>1, <1>2, <1>5, <1>8
<1>10. v \in UrlStruct /\ v.field_set = u.field_set /\ v.field_data = e
  BY <1>6, <1>9 DEF UrlStruct
<1>11. ASSUME d["host"].len = 0
       PROVE  Filled(d, e, "host", at, TRUE)
  <2>1. e = [d EXCEPT !["host"] = [off |-> at % FieldMod, len |-> (@.len + 1) % FieldMod]]
    BY <1>3, <1>4, <1>5, Zenon
  <2> QED BY <1>1, <1>2, <1>11, <2>1, FirstHostByte
<1> QED BY <1>2, <1>9, <1>10, <1>11 DEF HostGrown

\* One byte more of field f, which has begun before at iff first is FALSE.
HostByte(u, v, f, at, first) ==
    /\ f \in {"userInfo", "host", "port"}
    /\ v.field_set = IF f # "host" /\ first THEN u.field_set \cup {f} ELSE u.field_set
    /\ (f = "host" /\ first => u.field_data["host"].len = 0) =>
         Filled(u.field_data, v.field_data, f, at, first)

HostStepped(h, c, k) ==
    /\ k.s = http_parse_host_char(h.s, c)
    /\ k.at = h.at + 1
    /\ k.u \in UrlStruct
    /\ HostFrame(h.u, k.u)
    /\ HostField(k.s) = "none" => k.u = h.u
    /\ HostField(k.s) # "none" => HostByte(h.u, k.u, HostField(k.s), h.at, k.s # h.s)

LEMMA HostStepFacts ==
  ASSUME NEW h, h.u \in UrlStruct, h.at \in Nat, NEW c, NEW k, k = HostStep(h, c)
  PROVE  HostStepped(h, c, k)
<1>1. PICK t : t = http_parse_host_char(h.s, c)
  OBVIOUS
<1>2. PICK f : f = HostField(t)
  OBVIOUS
<1>3. f \in {"none", "userInfo", "host", "port"} /\ {"userInfo", "host", "port"} \subseteq Fields
      /\ "none" \notin Fields
  BY <1>2, FieldFacts
<1>4. /\ k.s = t /\ k.at = h.at + 1
      /\ f = "none" => k.u = h.u
      /\ f = "host" /\ t # h.s => k.u = HostGrow(h.u, h.at)
      /\ f # "none" /\ ~(f = "host" /\ t # h.s) => k.u = Grow(h.u, f, h.at, t # h.s)
  <2> DEFINE v == IF f = "host" /\ t # h.s
                    THEN [h.u EXCEPT !.field_data[f] = [off |-> h.at % FieldMod,
                                                        len |-> (@.len + 1) % FieldMod]]
                    ELSE Grow(h.u, f, h.at, t # h.s)
  <2>1. k = [s |-> t, at |-> h.at + 1, u |-> IF f = "none" THEN h.u ELSE v]
    BY <1>1, <1>2, Zenon DEF HostStep
  <2>2. f = "host" /\ t # h.s => v = HostGrow(h.u, h.at)
    BY Zenon DEF HostGrow
  <2>3. ~(f = "host" /\ t # h.s) => v = Grow(h.u, f, h.at, t # h.s)
    BY Zenon
  <2> HIDE DEF v
  <2>4. k.s = t /\ k.at = h.at + 1 /\ k.u = IF f = "none" THEN h.u ELSE v
    BY <2>1
  <2>5. f = "host" => f # "none"
    OBVIOUS
  <2> QED BY <2>2, <2>3, <2>4, <2>5, Zenon
<1>5. CASE f = "none"
  BY <1>1, <1>2, <1>4, <1>5 DEF HostFrame, HostStepped
<1>6. CASE f = "host" /\ t # h.s
  <2>1. /\ k.u \in UrlStruct /\ k.u.field_set = h.u.field_set
        /\ \A g \in Fields \ {"host"} : k.u.field_data[g] = h.u.field_data[g]
        /\ h.u.field_data["host"].len = 0 => Filled(h.u.field_data, k.u.field_data, "host", h.at, TRUE)
    <3>1. PICK u : u = h.u
      OBVIOUS
    <3>2. PICK v : v = k.u
      OBVIOUS
    <3>3. PICK at : at = h.at
      OBVIOUS
    <3>4. u \in UrlStruct /\ at \in Nat
      BY <3>1, <3>3
    <3>5. v = HostGrow(u, at)
      BY <1>4, <1>6, <3>1, <3>2, <3>3, Zenon
    <3>6. HostGrown(u, v, at)
      BY <3>4, <3>5, HostWindow
    <3> QED BY <3>1, <3>2, <3>3, <3>6 DEF HostGrown
  <2>2. HostFrame(h.u, k.u)
    BY <2>1 DEF HostFrame
  <2>3. HostByte(h.u, k.u, f, h.at, TRUE)
    BY <1>6, <2>1 DEF HostByte
  <2>4. (k.s # h.s) = TRUE
    BY <1>4, <1>6
  <2> QED BY <1>1, <1>2, <1>4, <1>6, <2>1, <2>2, <2>3, <2>4 DEF HostStepped
<1>7. CASE f # "none" /\ ~(f = "host" /\ t # h.s)
  <2>1. PICK first \in BOOLEAN : first = (t # h.s)
    OBVIOUS
  <2>2. f \in Fields /\ f \in {"userInfo", "host", "port"}
    BY <1>3, <1>7
  <2>3. k.u = Grow(h.u, f, h.at, first)
    BY <1>4, <1>7, <2>1
  <2>4. /\ k.u \in UrlStruct
        /\ k.u.field_set = IF first THEN h.u.field_set \cup {f} ELSE h.u.field_set
        /\ Filled(h.u.field_data, k.u.field_data, f, h.at, first)
    <3>1. PICK u : u = h.u
      OBVIOUS
    <3>2. PICK v : v = k.u
      OBVIOUS
    <3>3. PICK at : at = h.at
      OBVIOUS
    <3>4. u \in UrlStruct /\ at \in Nat /\ v = Grow(u, f, at, first)
      BY <2>3, <3>1, <3>2, <3>3
    <3>5. Grown(u, v, f, at, first)
      BY <2>2, <3>4, GrowFacts
    <3> QED BY <3>1, <3>2, <3>3, <3>5 DEF Grown
  <2>5. \A g \in Fields \ {f} : k.u.field_data[g] = h.u.field_data[g]
    BY <2>4 DEF Filled
  <2>6. k.u.field_set = IF f # "host" /\ first THEN h.u.field_set \cup {f} ELSE h.u.field_set
    BY <1>7, <2>1, <2>4
  <2>7. HostFrame(h.u, k.u)
    BY <2>2, <2>5, <2>6 DEF HostFrame
  <2>8. HostByte(h.u, k.u, f, h.at, first)
    BY <2>2, <2>4, <2>6 DEF HostByte
  <2>9. first = (k.s # h.s)
    BY <1>4, <2>1
  <2> QED BY <1>1, <1>2, <1>4, <1>7, <2>4, <2>7, <2>8, <2>9 DEF HostStepped
<1> QED BY <1>3, <1>5, <1>6, <1>7

-----------------------------------------------------------------------------
(* The steps *)

LEMMA UrlInitInv == UrlInit => UrlInv
<1> SUFFICES ASSUME UrlInit
             PROVE  UrlInv
  OBVIOUS
<1>1. PICK w \in Garbage : scan = ScanStart(is_connect, w) /\ host = NoHost(http_parser_url(w))
  BY DEF UrlInit
<1>2. url = <<>> /\ pc = "scan"
  BY DEF UrlInit
<1>3. w \in Window
  BY GarbageAssumption
<1>4. PICK u : u = http_parser_url(w)
  OBVIOUS
<1>5. u \in UrlStruct /\ u.field_set = {}
  BY <1>3, <1>4 DEF http_parser_url, UrlStruct
<1>6. /\ scan.s \in {"s_req_server_start", "s_req_spaces_before_url"} /\ scan.at = 0
      /\ scan.uf = "none" /\ scan.u = u
  BY <1>1, <1>4 DEF ScanStart
<1>7. host.s = "none" /\ host.at = 0 /\ host.u = u
  BY <1>1, <1>4 DEF NoHost
<1>8. UrlTypeOK
  BY <1>2, <1>5, <1>6, <1>7 DEF UrlTypeOK, ScanStates, UrlStates
<1>9. UrlField(scan.s) = "none" /\ scan.s # "s_dead"
  BY <1>6 DEF UrlField
<1>10. Tiled(url, {}, u.field_data, 0, 0)
  BY DEF Tiled
<1>11. ScanInv
  BY <1>5, <1>6, <1>9, <1>10 DEF ScanInv, ScanOrdered, ScanBounded, ScanTiled
<1> QED BY <1>2, <1>7, <1>8, <1>11 DEF UrlInv

LEMMA UrlCharStep ==
  ASSUME UrlInv, NEW c \in Chars, UrlChar(c)
  PROVE  UrlInv'
<1>1. PICK a : a = scan
  OBVIOUS
<1>2. PICK b : b = scan'
  OBVIOUS
<1>3. PICK n : n = Len(url)
  OBVIOUS
<1>4. /\ pc = "scan" /\ host.s = "none" /\ UrlTypeOK /\ ScanOrdered(a) /\ ScanBounded(a)
      /\ n < FieldMod => ScanTiled(a)
  BY <1>1, <1>3 DEF UrlChar, UrlInv, ScanInv
<1>5. /\ url \in Seq(Chars) /\ a.s \in ScanStates /\ a.at = n /\ n \in Nat /\ a.u \in UrlStruct
      /\ a.uf \in Fields \cup {"none"}
  BY <1>1, <1>3, <1>4 DEF UrlTypeOK
<1>6. /\ url' = Append(url, c) /\ b = UrlStep(a, c) /\ host' = host
      /\ pc' = IF b.s = "s_dead" THEN "refused" ELSE "scan"
  BY <1>1, <1>2 DEF UrlChar
<1>7. /\ url' \in Seq(Chars) /\ Len(url') = n + 1 /\ url'[n + 1] = c
      /\ \A k \in 1..n : url'[k] = url[k]
  BY <1>3, <1>5, <1>6
<1> DEFINE F == a.u.field_set
           G == b.u.field_set
           d == a.u.field_data
           e == b.u.field_data
           f == UrlField(b.s)
<1>8. /\ b.s = parse_url_char(a.s, c) /\ b.at = n + 1 /\ b.u \in UrlStruct
      /\ b.uf = IF f = "none" THEN a.uf ELSE f
      /\ f = "none" => b.u = a.u
      /\ f # "none" => /\ f \in Fields
                       /\ G = IF f # a.uf THEN F \cup {f} ELSE F
                       /\ Filled(d, e, f, n, f # a.uf)
  <2>1. UrlStepped(a, c, b)
    BY <1>5, <1>6, UrlStepFacts
  <2> QED BY <1>5, <2>1 DEF UrlStepped
<1>9. F \in SUBSET Fields /\ d \in [Fields -> Window]
  BY <1>5 DEF UrlStruct
<1>10. b.s \in ScanStates
  <2>1. CASE b.s = "s_dead"
    BY <2>1 DEF ScanStates
  <2>2. CASE b.s # "s_dead"
    BY <1>4, <1>5, <1>8, <2>2, UrlCharFollows DEF ScanOrdered
  <2> QED BY <2>1, <2>2
<1>11. UrlTypeOK'
  <2>1. b.uf \in Fields \cup {"none"}
    BY <1>5, <1>8
  <2>2. pc' \in {"scan", "host", "accepted", "refused"}
    BY <1>6
  <2>3. b.at = Len(url')
    BY <1>7, <1>8
  <2> QED BY <1>2, <1>4, <1>6, <1>7, <1>8, <1>10, <2>1, <2>2, <2>3 DEF UrlTypeOK
<1>12. ASSUME b.s # "s_dead"
       PROVE  ScanOrdered(b) /\ ScanBounded(b) /\ (n + 1 < FieldMod => ScanTiled(b)')
  <2>1. Follows(Passed(a.s), Passed(b.s), UrlField(a.s), f, c)
    BY <1>4, <1>5, <1>8, <1>12, UrlCharFollows DEF ScanOrdered
  <2>2. F \subseteq Passed(a.s) /\ (a.uf # "none" => a.uf \in F)
    BY <1>4 DEF ScanOrdered
  <2>3. \A g \in F : End(d[g]) <= n /\ End(d[g]) \in Nat
    BY <1>4, <1>5, <1>9, WindowFacts DEF ScanBounded
  <2>4. b.s \in ScanStates \ {"s_dead"} /\ f \in Fields \cup {"none"} /\ "none" \notin Fields
    BY <1>10, <1>12, FieldFacts
  <2> HIDE DEF F, G, d, e, f
  <2>5. CASE f = "none"
    <3>1. b.u = a.u /\ b.uf = a.uf
      BY <1>8, <2>5
    <3>2. G = F /\ e = d
      BY <3>1 DEF F, G, d, e
    <3>3. ScanOrdered(b)
      <4>1. G \subseteq Passed(b.s)
        BY <2>1, <2>2, <3>2 DEF Follows
      <4>2. b.uf # "none" => b.uf \in G
        BY <2>2, <3>1, <3>2
      <4> QED BY <1>12, <2>5, <4>1, <4>2 DEF ScanOrdered, G, f
    <3>4. ScanBounded(b)
      <4>1. \A g \in G : End(e[g]) <= n + 1
        BY <1>5, <2>3, <3>2
      <4> QED BY <1>8, <4>1 DEF ScanBounded, G, e
    <3>5. ASSUME n + 1 < FieldMod
          PROVE  ScanTiled(b)'
      <4>1. Tiled(url, F, d, 0, n)
        <5>1. n < FieldMod
          BY <1>5, <3>5, FieldModAssumption
        <5> QED BY <1>4, <1>5, <5>1 DEF ScanTiled, F, d
      <4>2. Tiled(url', F, d, 0, n)
        BY <1>5, <1>7, <4>1, SameTile
      <4>3. url'[n + 1] \in Delims
        BY <1>7, <2>1, <2>5 DEF Follows
      <4>4. Tiled(url', F, d, 0, n + 1)
        BY <1>5, <1>9, <4>2, <4>3, SkipTile
      <4> QED BY <1>8, <2>5, <3>2, <4>4 DEF ScanTiled, f, G, e
    <3> QED BY <3>3, <3>4, <3>5
  <2>6. CASE f # "none" /\ f # a.uf
    <3>1. f \in Fields /\ G = F \cup {f} /\ Filled(d, e, f, n, TRUE) /\ b.uf = f
      <4>1. (f # a.uf) = TRUE
        BY <2>6
      <4> QED BY <1>8, <2>6, <4>1
    <3>2. f \notin F
      <4>1. SUFFICES ASSUME f \in F
                     PROVE  FALSE
        OBVIOUS
      <4>2. UrlField(a.s) = f
        BY <2>1, <2>2, <2>6, <4>1 DEF Follows
      <4> QED BY <1>4, <2>6, <4>2 DEF ScanOrdered
    <3>3. Fresh(F, f)
      BY <2>1, <2>2, <2>6, <3>2 DEF Follows, Fresh
    <3>4. ScanOrdered(b)
      <4>1. G \subseteq Passed(b.s)
        BY <2>1, <2>2, <2>6, <3>1 DEF Follows
      <4> QED BY <1>12, <3>1, <4>1 DEF ScanOrdered, G, f
    <3>5. ScanBounded(b)
      <4>1. End(e[f]) <= n + 1 /\ \A g \in F : e[g] = d[g]
        BY <1>9, <3>1, <3>2 DEF Filled
      <4>2. \A g \in G : End(e[g]) <= n + 1
        BY <1>5, <2>3, <3>1, <4>1
      <4> QED BY <1>8, <4>2 DEF ScanBounded, G, e
    <3>6. ASSUME n + 1 < FieldMod
          PROVE  ScanTiled(b)'
      <4>1. Tiled(url, F, d, 0, n)
        <5>1. n < FieldMod
          BY <1>5, <3>6, FieldModAssumption
        <5> QED BY <1>4, <1>5, <5>1 DEF ScanTiled, F, d
      <4>2. Tiled(url', F, d, 0, n)
        BY <1>5, <1>7, <4>1, SameTile
      <4>3. TileUpTo(url', F, d, 0, n)
        BY <1>5, <1>9, <3>6, <4>2 DEF TileUpTo
      <4>4. TileEnding(url', F \cup {f}, e, 0, n + 1, f)
        BY <3>1, <3>3, <4>3, StartTile
      <4> QED BY <1>8, <3>1, <4>4 DEF ScanTiled, TileEnding, f, G, e
    <3> QED BY <3>4, <3>5, <3>6
  <2>7. CASE f # "none" /\ f = a.uf
    <3>1. f \in Fields /\ G = F /\ Filled(d, e, f, n, FALSE) /\ b.uf = f
      <4>1. (f # a.uf) = FALSE
        BY <2>7
      <4> QED BY <1>8, <2>7, <4>1
    <3>2. f \in F /\ UrlField(a.s) = f
      BY <2>1, <2>2, <2>7 DEF Follows
    <3>3. Latest(F, f)
      BY <2>1, <2>2, <2>7, <3>2 DEF Follows, Latest
    <3>4. ScanOrdered(b)
      <4>1. G \subseteq Passed(b.s)
        BY <2>1, <2>2, <2>7, <3>1 DEF Follows
      <4> QED BY <1>12, <3>1, <3>2, <4>1 DEF ScanOrdered, G, f
    <3>5. ScanBounded(b)
      <4>1. End(e[f]) <= End(d[f]) + 1 /\ \A g \in F \ {f} : e[g] = d[g]
        BY <1>9, <3>1 DEF Filled
      <4>2. End(e[f]) \in Nat
        BY <3>1, WindowFacts DEF Filled
      <4>3. \A g \in G : End(e[g]) <= n + 1
        BY <1>5, <2>3, <3>1, <3>2, <4>1, <4>2
      <4> QED BY <1>8, <4>3 DEF ScanBounded, G, e
    <3>6. ASSUME n + 1 < FieldMod
          PROVE  ScanTiled(b)'
      <4>1. Tiled(url, F, d, 0, n) /\ End(d[f]) = n
        <5>1. n < FieldMod
          BY <1>5, <3>6, FieldModAssumption
        <5> QED BY <1>4, <1>5, <2>7, <3>2, <5>1 DEF ScanTiled, F, d
      <4>2. Tiled(url', F, d, 0, n)
        BY <1>5, <1>7, <4>1, SameTile
      <4>3. TileUpTo(url', F, d, 0, n)
        BY <1>5, <1>9, <3>6, <4>2 DEF TileUpTo
      <4>4. TileEnding(url', F, e, 0, n + 1, f)
        BY <3>1, <3>3, <4>1, <4>3, ExtendTile
      <4> QED BY <1>8, <3>1, <4>4 DEF ScanTiled, TileEnding, f, G, e
    <3> QED BY <3>4, <3>5, <3>6
  <2> QED BY <2>5, <2>6, <2>7
<1>13. pc' # "refused" => ScanInv'
  <2>1. SUFFICES ASSUME pc' # "refused"
                 PROVE  ScanInv'
    OBVIOUS
  <2>2. b.s # "s_dead"
    BY <1>6, <2>1
  <2> QED BY <1>2, <1>7, <1>12, <2>2 DEF ScanInv, ScanOrdered, ScanBounded, ScanTiled
<1> QED BY <1>4, <1>6, <1>11, <1>13 DEF UrlInv

\* No state of the first loop knows of user information or a port.
LEMMA ScanFields ==
  ASSUME ScanOrdered(scan)
  PROVE  "userInfo" \notin scan.u.field_set /\ "port" \notin scan.u.field_set
<1>1. "userInfo" \notin Passed(scan.s) /\ "port" \notin Passed(scan.s)
  BY DEF Passed
<1> QED BY <1>1 DEF ScanOrdered

LEMMA UrlEndStep ==
  ASSUME UrlInv, UrlEnd
  PROVE  UrlInv'
<1>1. /\ pc = "scan" /\ host.s = "none" /\ UrlTypeOK /\ ScanInv
      /\ UNCHANGED <<url, is_connect, scan>>
  BY DEF UrlInv, UrlEnd
<1>2. ScanInv'
  BY <1>1 DEF ScanInv, ScanOrdered, ScanBounded, ScanTiled
<1>3. CASE ~HasAuthority(scan.u)
  <2>1. host' = host /\ pc' \in {"accepted", "refused"}
    BY <1>3 DEF UrlEnd
  <2>2. UrlTypeOK'
    BY <1>1, <2>1 DEF UrlTypeOK
  <2> QED BY <1>1, <1>2, <2>1, <2>2 DEF UrlInv
<1>4. CASE HasAuthority(scan.u)
  <2>1. pc' = "host" /\ host' = HostStart(scan.u, scan.found_at)
    BY <1>4 DEF UrlEnd
  <2>2. PICK u : u = scan.u
    OBVIOUS
  <2>3. PICK v : v = host'.u
    OBVIOUS
  <2>4. /\ host'.s \in {"userinfo_start", "host_start"} /\ host'.at = u.field_data["host"].off
        /\ v = [u EXCEPT !.field_data["host"].len = 0]
    BY <2>1, <2>2, <2>3 DEF HostStart
  <2>5. u \in UrlStruct /\ u.field_data \in [Fields -> Window] /\ "host" \in Fields
        /\ u.field_data["host"] \in Window
    BY <1>1, <2>2 DEF UrlTypeOK, UrlStruct, Fields
  <2>6. PICK x : x = [u.field_data["host"] EXCEPT !.len = 0]
    OBVIOUS
  <2>7. x \in Window /\ x.len = 0 /\ x.off = u.field_data["host"].off
    BY <2>5, <2>6, FieldModAssumption DEF Window
  <2>8. PICK e : e = [u.field_data EXCEPT !["host"] = x]
    OBVIOUS
  <2>9. v = [u EXCEPT !.field_data = e]
    BY <2>4, <2>6, <2>8, Zenon
  <2>10. e \in [Fields -> Window] /\ e["host"] = x /\ \A f \in Fields \ {"host"} : e[f] = u.field_data[f]
    BY <2>5, <2>7, <2>8
  <2>11. v \in UrlStruct /\ v.field_data = e /\ v.field_set = u.field_set
    BY <2>5, <2>9, <2>10 DEF UrlStruct
  <2>12. host'.at \in Nat /\ u.field_data["host"].len \in Nat
    BY <2>4, <2>5, WindowFacts
  <2>13. UrlTypeOK'
    <3>1. host'.s \in HostStates \cup {"none"}
      BY <2>4 DEF HostStates
    <3> QED BY <1>1, <2>1, <2>3, <2>11, <2>12, <3>1 DEF UrlTypeOK
  <2>14. HostParts(v) = {} /\ "userInfo" \notin v.field_set /\ "port" \notin v.field_set
    <3>1. "userInfo" \notin u.field_set /\ "port" \notin u.field_set
      BY <1>1, <2>2, ScanFields DEF ScanInv
    <3>2. ~(v.field_data["host"].len > 0)
      BY <2>7, <2>10, <2>11
    <3> QED BY <2>11, <3>1, <3>2 DEF HostParts
  <2>15. HostFrame(u, v)
    BY <2>10, <2>11 DEF HostFrame
  <2>16. PICK h : h = host'
    OBVIOUS
  <2>17. HostField(h.s) = "none" /\ ~HostSeen(h.s) /\ h.s \in HostStates \ {"host_dead"}
    BY <2>4, <2>16 DEF HostField, HostSeen, HostStates
  <2>18. HostOrdered(h)
    BY <2>3, <2>7, <2>10, <2>11, <2>14, <2>16, <2>17 DEF HostOrdered
  <2>19. HostBounded(h)'
    <3>1. h.at <= HostEnd(u)
      BY <2>4, <2>12, <2>16 DEF HostEnd
    <3>2. End(v.field_data["host"]) = h.at
      <4>1. v.field_data["host"] = x /\ x.off = h.at
        BY <2>4, <2>7, <2>10, <2>11, <2>16
      <4>2. End(x) = x.off + x.len
        BY DEF End
      <4>3. x.off \in Nat /\ x.len = 0
        BY <2>7, WindowFacts
      <4> QED BY <4>1, <4>2, <4>3
    <3>3. End(v.field_data["host"]) <= h.at
      BY <2>12, <2>16, <3>2
    <3> QED BY <1>1, <2>2, <2>3, <2>14, <2>16, <2>17, <3>1, <3>3 DEF HostBounded
  <2>20. HostTiled(h)'
    <3>1. Tiled(url', {}, v.field_data, h.at, h.at)
      BY <2>12, <2>16 DEF Tiled
    <3>2. scan'.u.field_data["host"].off = h.at /\ h.u = v
      BY <1>1, <2>2, <2>3, <2>4, <2>16
    <3>3. h.at <= h.at
      BY <2>12, <2>16
    <3> QED BY <2>14, <2>17, <3>1, <3>2, <3>3 DEF HostTiled
  <2>21. HostInv'
    BY <1>1, <2>2, <2>3, <2>15, <2>16, <2>18, <2>19, <2>20 DEF HostInv, HostOrdered, HostBounded, HostTiled
  <2>22. host'.s # "none" /\ HasAuthority(scan'.u)
    BY <1>1, <1>4, <2>4
  <2> QED BY <1>2, <2>1, <2>13, <2>21, <2>22 DEF UrlInv
<1> QED BY <1>3, <1>4

LEMMA HostEndsStep ==
  ASSUME UrlInv, HostEnds
  PROVE  UrlInv'
<1>1. /\ pc = "host" /\ pc' \in {"accepted", "refused"} /\ host.at >= HostEnd(scan.u)
      /\ pc' = "accepted" => HostOk(host.s)
      /\ UNCHANGED <<url, is_connect, scan, host>>
  BY DEF HostEnds
<1>2. UrlTypeOK /\ ScanInv /\ HostInv /\ host.s # "none" /\ HasAuthority(scan.u)
  BY <1>1 DEF UrlInv
<1>3. UrlTypeOK' /\ ScanInv'
  BY <1>1, <1>2 DEF UrlTypeOK, ScanInv, ScanOrdered, ScanBounded, ScanTiled
<1>4. HostInv'
  BY <1>1, <1>2 DEF HostInv, HostOrdered, HostBounded, HostTiled
<1> QED BY <1>1, <1>2, <1>3, <1>4 DEF UrlInv

\* A turn of the loop of http_parse_host keeps what is known of it.
LEMMA HostTurn ==
  ASSUME UrlTypeOK, ScanBounded(scan), "host" \in scan.u.field_set, HostOrdered(host), HostBounded(host),
         Len(url) < FieldMod => HostTiled(host), host.at < HostEnd(scan.u),
         NEW k, HostStepped(host, IF host.at < Len(url) THEN url[host.at + 1] ELSE "NUL", k),
         k.s # "host_dead"
  PROVE  /\ HostOrdered(k) /\ HostBounded(k)
         /\ Len(url) < FieldMod => HostTiled(k)
<1>1. PICK h : h = host
  OBVIOUS
<1>2. PICK n : n = h.at
  OBVIOUS
<1>3. PICK c : c = url[n + 1]
  OBVIOUS
<1>4. /\ n \in Nat /\ Len(url) \in Nat /\ h.u \in UrlStruct /\ scan.u \in UrlStruct
      /\ h.s \in HostStates \ {"host_dead"}
  BY <1>1, <1>2 DEF UrlTypeOK, HostOrdered
<1>5. PICK w : w = scan.u.field_data["host"]
  OBVIOUS
<1>6. w \in Window /\ w.off \in Nat /\ HostEnd(scan.u) = End(w) /\ End(w) \in Nat
  <2>1. w \in Window
    BY <1>4, <1>5 DEF UrlStruct, Fields
  <2>2. HostEnd(scan.u) = End(w)
    BY <1>5 DEF HostEnd, End
  <2> QED BY <2>1, <2>2, WindowFacts
<1>7. n + 1 <= End(w) /\ End(w) <= Len(url)
  <2>1. End(w) <= Len(url)
    BY <1>5 DEF ScanBounded, UrlTypeOK
  <2> QED BY <1>1, <1>2, <1>4, <1>6, <2>1
<1>8. HostStepped(h, c, k)
  BY <1>1, <1>2, <1>3, <1>4, <1>6, <1>7
<1> DEFINE f == HostField(k.s)
           first == k.s # h.s
           d == h.u.field_data
           e == k.u.field_data
           P == HostParts(h.u)
           Q == HostParts(k.u)
<1>9. /\ k.s = http_parse_host_char(h.s, c) /\ k.at = n + 1 /\ k.u \in UrlStruct
      /\ f = "none" => k.u = h.u
      /\ f # "none" => HostByte(h.u, k.u, f, n, first)
  BY <1>2, <1>8 DEF HostStepped
<1>10. /\ k.s \in HostStates \ {"host_dead"}
       /\ Follows(HostPassed(h.s), HostPassed(k.s), IF h.s = k.s THEN f ELSE "none", f, c)
       /\ HostSeen(h.s) => HostSeen(k.s)
       /\ HostSeen(k.s) /\ f # "host" => HostSeen(h.s)
       /\ f = "host" /\ h.s # k.s => ~HostSeen(h.s)
  BY <1>4, <1>9, HostCharFollows
<1>11. /\ P \subseteq HostPassed(h.s) /\ (~HostSeen(h.s) => d["host"].len = 0)
       /\ \A g \in {"userInfo", "host", "port"} : g = "host" \/ g \in h.u.field_set => End(d[g]) <= n
       /\ HostField(h.s) # "none" => HostField(h.s) = "host" \/ HostField(h.s) \in h.u.field_set
  BY <1>1, <1>2 DEF HostOrdered, HostBounded
<1>12. /\ d \in [Fields -> Window] /\ e \in [Fields -> Window] /\ {"userInfo", "host", "port"} \subseteq Fields
       /\ P \in SUBSET Fields
  BY <1>4, <1>9 DEF UrlStruct, Fields, HostParts
<1>13. \A g \in Fields : End(d[g]) \in Nat /\ End(e[g]) \in Nat /\ d[g].len \in Nat /\ e[g].len \in Nat
  BY <1>12, WindowFacts
<1>14. Len(url) < FieldMod =>
         /\ w.off <= n /\ Tiled(url, P, d, w.off, n)
         /\ HostSeen(h.s) => "host" \in P
         /\ HostField(h.s) # "none" => HostField(h.s) \in P /\ End(d[HostField(h.s)]) = n
  BY <1>1, <1>2, <1>5 DEF HostTiled
<1>15. CASE f = "none"
  <2>1. k.u = h.u /\ Q = P /\ e = d
    BY <1>9, <1>15
  <2>2. HostSeen(k.s) <=> HostSeen(h.s)
    BY <1>10, <1>15
  <2>3. HostOrdered(k)
    BY <1>10, <1>11, <2>1, <2>2 DEF HostOrdered, Follows
  <2>4. HostBounded(k)
    <3>1. \A g \in {"userInfo", "host", "port"} : g = "host" \/ g \in k.u.field_set => End(e[g]) <= n + 1
      BY <1>4, <1>11, <1>12, <1>13, <2>1
    <3> QED BY <1>6, <1>7, <1>9, <1>15, <3>1 DEF HostBounded
  <2>5. ASSUME Len(url) < FieldMod
        PROVE  HostTiled(k)
    <3>1. url[n + 1] \in Delims
      BY <1>3, <1>10, <1>15 DEF Follows
    <3>2. Tiled(url, P, d, w.off, n + 1)
      BY <1>4, <1>6, <1>12, <1>14, <2>5, <3>1, SkipTile
    <3>3. w.off <= n + 1
      BY <1>4, <1>6, <1>14, <2>5
    <3> QED BY <1>5, <1>9, <1>14, <1>15, <2>1, <2>2, <2>5, <3>2, <3>3 DEF HostTiled
  <2> QED BY <2>3, <2>4, <2>5
<1>16. CASE f # "none"
  <2>1. f \in {"userInfo", "host", "port"} /\ Filled(d, e, f, n, first)
        /\ k.u.field_set = IF f # "host" /\ first THEN h.u.field_set \cup {f} ELSE h.u.field_set
    <3>1. HostByte(h.u, k.u, f, n, first)
      BY <1>9, <1>16
    <3>2. f = "host" /\ first => d["host"].len = 0
      BY <1>10, <1>11
    <3> QED BY <3>1, <3>2 DEF HostByte
  <2>2. \A g \in Fields \ {f} : e[g] = d[g]
    BY <2>1 DEF Filled
  <2>3. ~first => HostField(h.s) = f
    OBVIOUS
  <2>4. f = "host" \/ f \in k.u.field_set
    BY <1>11, <1>16, <2>1, <2>3
  <2>5. f = "host" => HostSeen(k.s)
    BY DEF HostField, HostSeen
  <2> HIDE DEF d, e, f, first
  <2>6. Q \subseteq P \cup {f} /\ P \ {f} \subseteq Q
    <3>1. Q = (k.u.field_set \cap {"userInfo", "port"}) \cup {g \in {"host"} : e[g].len > 0}
      BY DEF HostParts, e
    <3>2. P = (h.u.field_set \cap {"userInfo", "port"}) \cup {g \in {"host"} : d[g].len > 0}
      BY DEF HostParts, d
    <3>3. f # "host" => e["host"] = d["host"]
      BY <1>12, <2>2
    <3> HIDE DEF P, Q
    <3> QED BY <2>1, <3>1, <3>2, <3>3
  <2>7. HostOrdered(k)
    <3>1. Q \subseteq HostPassed(k.s)
      <4> HIDE DEF P, Q
      <4> QED BY <1>10, <1>11, <1>16, <2>6 DEF Follows
    <3>2. ~HostSeen(k.s) => e["host"].len = 0
      BY <1>10, <1>11, <1>12, <2>2, <2>5
    <3> QED BY <1>10, <3>1, <3>2 DEF HostOrdered, e
  <2>8. HostBounded(k)
    <3>1. End(e[f]) <= n + 1
      <4>1. CASE first
        BY <2>1, <4>1 DEF Filled
      <4>2. CASE ~first
        <5>1. f = "host" \/ f \in h.u.field_set
          BY <1>11, <1>16, <2>3, <4>2
        <5>2. End(d[f]) <= n /\ End(d[f]) \in Nat /\ End(e[f]) \in Nat
          BY <1>11, <1>12, <1>13, <2>1, <5>1
        <5>3. End(e[f]) <= End(d[f]) + 1
          BY <2>1, <4>2 DEF Filled
        <5> QED BY <1>4, <5>2, <5>3
      <4> QED BY <4>1, <4>2
    <3>2. ASSUME NEW g \in {"userInfo", "host", "port"}, g = "host" \/ g \in k.u.field_set
          PROVE  End(e[g]) <= n + 1
      <4>1. CASE g = f
        BY <3>1, <4>1
      <4>2. CASE g # f
        <5>1. e[g] = d[g] /\ (g = "host" \/ g \in h.u.field_set) /\ End(d[g]) \in Nat
          BY <1>12, <1>13, <2>1, <2>2, <3>2, <4>2
        <5> QED BY <1>4, <1>11, <5>1
      <4> QED BY <4>1, <4>2
    <3> QED BY <1>6, <1>7, <1>9, <2>4, <3>2 DEF HostBounded, e, f
  <2>9. ASSUME Len(url) < FieldMod
        PROVE  HostTiled(k)
    <3>1. /\ n + 1 < FieldMod /\ w.off <= n + 1 /\ TileUpTo(url, P, d, w.off, n)
      <4>1. n + 1 < FieldMod /\ w.off <= n + 1
        BY <1>4, <1>6, <1>7, <1>14, <2>9, FieldModAssumption
      <4> QED BY <1>4, <1>6, <1>12, <1>14, <2>9, <4>1 DEF TileUpTo
    <3>2. End(e[f]) = n + 1 /\ Tiled(url, Q, e, w.off, n + 1) /\ f \in Q
      <4>1. CASE first
        <5>1. f \notin P
          <6>1. SUFFICES ASSUME f \in P
                         PROVE  FALSE
            OBVIOUS
          <6>2. (IF h.s = k.s THEN f ELSE "none") = f
            BY <1>10, <1>11, <1>16, <6>1 DEF Follows
          <6> QED BY <1>16, <4>1, <6>2 DEF first
        <5>2. Fresh(P, f)
          BY <1>10, <1>11, <1>16, <5>1 DEF Follows, Fresh
        <5>3. Filled(d, e, f, n, TRUE) /\ f \in Fields
          <6>1. first = TRUE
            BY <4>1 DEF first
          <6> QED BY <1>12, <2>1, <6>1
        <5>4. TileEnding(url, P \cup {f}, e, w.off, n + 1, f)
          <6> HIDE DEF P
          <6> QED BY <3>1, <5>2, <5>3, StartTile
        <5>5. f \in Q
          <6>1. f = "host" => e["host"].len > 0
            BY <3>1, <5>3 DEF Filled
          <6> QED BY <2>1, <4>1, <6>1 DEF HostParts, e
        <5>6. Q = P \cup {f}
          <6> HIDE DEF P, Q
          <6> QED BY <2>6, <5>1, <5>5
        <5> QED BY <5>4, <5>5, <5>6 DEF TileEnding
      <4>2. CASE ~first
        <5>1. f \in P /\ End(d[f]) = n
          BY <1>14, <1>16, <2>3, <2>9, <4>2
        <5>2. Latest(P, f)
          BY <1>10, <1>11, <1>16, <5>1 DEF Follows, Latest
        <5>3. Filled(d, e, f, n, FALSE) /\ f \in Fields
          <6>1. first = FALSE
            BY <4>2 DEF first
          <6> QED BY <1>12, <2>1, <6>1
        <5>4. TileEnding(url, P, e, w.off, n + 1, f)
          <6> HIDE DEF P
          <6> QED BY <3>1, <5>1, <5>2, <5>3, ExtendTile
        <5>5. f \in Q
          <6>1. f = "host" => e["host"].len > 0
            BY <3>1, <5>1, <5>3 DEF Filled
          <6>2. f # "host" => f \in k.u.field_set
            BY <2>4
          <6> QED BY <2>1, <6>1, <6>2 DEF HostParts, e
        <5>6. Q = P
          <6> HIDE DEF P, Q
          <6>1. Q \subseteq P
            BY <2>6, <5>1
          <6>2. P \subseteq Q
            BY <2>6, <5>5
          <6> QED BY <6>1, <6>2
        <5> QED BY <5>4, <5>5, <5>6 DEF TileEnding
      <4> QED BY <4>1, <4>2
    <3>3. HostSeen(k.s) => "host" \in Q
      <4>1. CASE f = "host"
        BY <3>2, <4>1
      <4>2. CASE f # "host"
        <5>1. HostSeen(k.s) => "host" \in P
          BY <1>10, <1>14, <2>9, <4>2
        <5> HIDE DEF P, Q
        <5> QED BY <2>6, <4>2, <5>1
      <4> QED BY <4>1, <4>2
    <3> QED BY <1>5, <1>9, <3>1, <3>2, <3>3 DEF HostTiled, e, f
  <2> QED BY <2>7, <2>8, <2>9
<1> QED BY <1>15, <1>16

LEMMA HostCharStep ==
  ASSUME UrlInv, HostChar
  PROVE  UrlInv'
<1>1. PICK k : k = host'
  OBVIOUS
<1>2. PICK c : c = IF host.at < Len(url) THEN url[host.at + 1] ELSE "NUL"
  OBVIOUS
<1>3. /\ pc = "host" /\ host.at < HostEnd(scan.u) /\ k = HostStep(host, c)
      /\ pc' = IF k.s = "host_dead" THEN "refused" ELSE "host"
      /\ UNCHANGED <<url, is_connect, scan>>
  BY <1>1, <1>2 DEF HostChar
<1>4. UrlTypeOK /\ ScanInv /\ HostInv /\ host.s # "none" /\ HasAuthority(scan.u)
  BY <1>3 DEF UrlInv
<1>5. HostStepped(host, c, k)
  BY <1>3, <1>4, HostStepFacts DEF UrlTypeOK
<1>6. /\ k.s = http_parse_host_char(host.s, c) /\ k.at = host.at + 1 /\ k.u \in UrlStruct
      /\ HostFrame(host.u, k.u)
  BY <1>5 DEF HostStepped
<1>7. k.s \in HostStates
  BY <1>6 DEF http_parse_host_char, HostStates
<1>8. UrlTypeOK'
  BY <1>1, <1>3, <1>4, <1>6, <1>7 DEF UrlTypeOK
<1>9. ScanInv'
  BY <1>3, <1>4 DEF ScanInv, ScanOrdered, ScanBounded, ScanTiled
<1>10. HostFrame(scan.u, k.u)
  BY <1>4, <1>6 DEF HostInv, HostFrame
<1>11. ASSUME k.s # "host_dead", "host" \in scan.u.field_set
       PROVE  /\ HostOrdered(k) /\ HostBounded(k)
              /\ Len(url) < FieldMod => HostTiled(k)
  <2>1. /\ ScanBounded(scan) /\ HostOrdered(host) /\ HostBounded(host)
        /\ Len(url) < FieldMod => HostTiled(host)
    BY <1>4, <1>11 DEF ScanInv, HostInv
  <2> QED BY <1>2, <1>3, <1>4, <1>5, <1>11, <2>1, HostTurn
<1>12. k.s # "host_dead" => HostInv'
  BY <1>1, <1>3, <1>10, <1>11 DEF HostInv, HostOrdered, HostBounded, HostTiled
<1>13. k.s # "none"
  BY <1>7 DEF HostStates
<1> QED BY <1>1, <1>3, <1>4, <1>8, <1>9, <1>12, <1>13 DEF UrlInv

LEMMA UrlNextInv == UrlInv /\ [UrlNext]_uvars => UrlInv'
<1> SUFFICES ASSUME UrlInv, [UrlNext]_uvars
             PROVE  UrlInv'
  OBVIOUS
<1>1. ASSUME NEW c \in Chars, UrlChar(c)
      PROVE  UrlInv'
  BY <1>1, UrlCharStep
<1>2. CASE UNCHANGED uvars
  <2>1. UNCHANGED <<url, scan, host, pc>>
    BY <1>2 DEF uvars
  <2>2. UrlTypeOK' <=> UrlTypeOK
    BY <2>1 DEF UrlTypeOK
  <2>3. ScanInv' <=> ScanInv
    BY <2>1 DEF ScanInv, ScanOrdered, ScanBounded, ScanTiled
  <2>4. HostInv' <=> HostInv
    BY <2>1 DEF HostInv, HostOrdered, HostBounded, HostTiled
  <2> QED BY <2>1, <2>2, <2>3, <2>4 DEF UrlInv
<1> QED BY <1>1, <1>2, UrlEndStep, HostCharStep, HostEndsStep DEF UrlNext

LEMMA UrlInvariance == UrlSpec => []UrlInv
BY UrlInitInv, UrlNextInv, PTL DEF UrlSpec

-----------------------------------------------------------------------------
(* What the invariant says of an accepted URL *)

\* A struct with a host among its fields, if it has a schema.
LEMMA AuthorityHost ==
  ASSUME HostFrame(scan.u, host.u), HasAuthority(scan.u), HostKnown(host.u)
  PROVE  "host" \in scan.u.field_set /\ "host" \in host.u.field_set
<1>1. \A f \in {"schema", "host"} : f \in host.u.field_set <=> f \in scan.u.field_set
  BY DEF HostFrame
<1> QED BY <1>1 DEF HasAuthority, HostKnown

LEMMA InvBounds == UrlInv => FieldsInBounds
<1> SUFFICES ASSUME UrlInv, HostKnown(parsed_url), pc \in {"host", "accepted"}
             PROVE  /\ pc = "host" => HostEnd(scan.u) <= Len(url)
                    /\ pc = "accepted" =>
                         \A f \in parsed_url.field_set : End(parsed_url.field_data[f]) <= Len(url)
  BY DEF FieldsInBounds
<1>1. UrlTypeOK /\ ScanBounded(scan) /\ scan.at = Len(url) /\ Len(url) \in Nat
  BY DEF UrlInv, ScanInv, UrlTypeOK
<1>2. CASE host.s = "none"
  <2>1. parsed_url = scan.u /\ pc = "accepted"
    BY <1>2 DEF parsed_url, UrlInv
  <2> QED BY <1>1, <2>1 DEF ScanBounded
<1>3. CASE host.s # "none"
  <2>1. parsed_url = host.u /\ HostInv /\ HasAuthority(scan.u)
    BY <1>3 DEF parsed_url, UrlInv
  <2>2. "host" \in scan.u.field_set /\ HostFrame(scan.u, host.u)
    BY <2>1, AuthorityHost DEF HostInv
  <2>3. HostBounded(host)
    BY <2>1, <2>2 DEF HostInv
  <2>4. HostEnd(scan.u) <= Len(url)
    BY <1>1, <2>2 DEF ScanBounded, HostEnd, End
  <2>5. /\ HostEnd(scan.u) \in Nat /\ host.at \in Nat
        /\ \A f \in Fields : End(host.u.field_data[f]) \in Nat
    <3>1. /\ scan.u.field_data["host"] \in Window /\ host.at \in Nat
          /\ \A f \in Fields : host.u.field_data[f] \in Window
      BY <1>1 DEF UrlTypeOK, UrlStruct, Fields
    <3>2. HostEnd(scan.u) = End(scan.u.field_data["host"])
      BY DEF HostEnd, End
    <3> QED BY <3>1, <3>2, WindowFacts
  <2>6. ASSUME NEW f \in host.u.field_set
        PROVE  End(host.u.field_data[f]) <= Len(url)
    <3>1. f \in Fields
      BY <1>1 DEF UrlTypeOK, UrlStruct
    <3>2. CASE f \in {"userInfo", "host", "port"}
      <4>1. End(host.u.field_data[f]) <= host.at /\ host.at <= HostEnd(scan.u)
        BY <2>3, <2>6, <3>2 DEF HostBounded
      <4> QED BY <1>1, <2>4, <2>5, <3>1, <4>1
    <3>3. CASE f \notin {"userInfo", "host", "port"}
      <4>1. f \in scan.u.field_set /\ host.u.field_data[f] = scan.u.field_data[f]
        BY <2>2, <2>6, <3>1, <3>3 DEF HostFrame
      <4> QED BY <1>1, <4>1 DEF ScanBounded
    <3> QED BY <3>2, <3>3
  <2> QED BY <2>1, <2>4, <2>6
<1> QED BY <1>2, <1>3

\* http_parse_host reads only bytes of the URL, and the windows of an
\* accepted URL lie within it, for URLs of every length, 16 bit offsets that
\* wrap included.
THEOREM WindowsInBounds == UrlSpec => []FieldsInBounds
BY UrlInvariance, InvBounds, PTL

\* The parts of the authority take the place of the host in the tiling.
Authority == {"userInfo", "host", "port"}

LEMMA RefineTile ==
  ASSUME NEW buf, NEW F \in SUBSET Fields, NEW P \in SUBSET Authority,
         NEW d \in [Fields -> Window], NEW e \in [Fields -> Window], NEW n \in Nat,
         F \cap Authority = {"host"}, \A f \in Fields \ Authority : e[f] = d[f],
         Tiled(buf, F, d, 0, n), Tiled(buf, P, e, d["host"].off, End(d["host"]))
  PROVE  Tiled(buf, (F \ Authority) \cup P, e, 0, n)
<1>1. "host" \in F /\ "host" \in Fields /\ P \subseteq Fields
  BY DEF Authority, Fields
<1>2. \A f \in Fields : /\ d[f].off \in Nat /\ End(d[f]) \in Nat /\ e[f].off \in Nat
                        /\ End(e[f]) \in Nat /\ e[f].len \in Nat
  BY WindowFacts
<1>3. /\ \A f \in F : d[f].len > 0 /\ End(d[f]) <= n
      /\ \A f, g \in F : Rank(f) < Rank(g) => End(d[f]) <= d[g].off
      /\ \A k \in 1..n : (\A f \in F : ~Covers(d[f], k)) => buf[k] \in Delims
  <2>1. 0 + 1 = 1
    OBVIOUS
  <2> QED BY <2>1 DEF Tiled
<1>4. /\ \A f \in P : d["host"].off <= e[f].off /\ e[f].len > 0 /\ End(e[f]) <= End(d["host"])
      /\ \A f, g \in P : Rank(f) < Rank(g) => End(e[f]) <= e[g].off
      /\ \A k \in d["host"].off + 1..End(d["host"]) : (\A f \in P : ~Covers(e[f], k)) => buf[k] \in Delims
  BY DEF Tiled
<1>5. \A f \in F \ Authority : f \in Fields /\ e[f] = d[f]
  OBVIOUS
<1>6. ASSUME NEW f \in (F \ Authority) \cup P
      PROVE  0 <= e[f].off /\ e[f].len > 0 /\ End(e[f]) <= n
  <2>1. CASE f \in F \ Authority
    BY <1>2, <1>3, <1>5, <2>1
  <2>2. CASE f \in P
    <3>1. End(e[f]) <= End(d["host"]) /\ End(d["host"]) <= n /\ e[f].len > 0
      BY <1>1, <1>3, <1>4, <2>2
    <3> QED BY <1>1, <1>2, <2>2, <3>1
  <2> QED BY <2>1, <2>2
<1>7. ASSUME NEW f \in (F \ Authority) \cup P, NEW g \in (F \ Authority) \cup P, Rank(f) < Rank(g)
      PROVE  End(e[f]) <= e[g].off
  <2>1. CASE f \in F \ Authority /\ g \in F \ Authority
    BY <1>3, <1>5, <1>7, <2>1
  <2>2. CASE f \in P /\ g \in P
    BY <1>4, <1>7, <2>2
  <2>3. CASE f \in F \ Authority /\ g \in P
    <3>1. f = "schema"
      BY <1>5, <1>7, <2>3 DEF Rank, Fields, Authority
    <3>2. Rank(f) < Rank("host")
      BY <3>1 DEF Rank
    <3>3. End(d[f]) <= d["host"].off /\ d["host"].off <= e[g].off /\ e[f] = d[f]
      BY <1>1, <1>3, <1>4, <1>5, <2>3, <3>2
    <3> QED BY <1>1, <1>2, <1>5, <2>3, <3>3
  <2>4. CASE f \in P /\ g \in F \ Authority
    <3>1. g \in {"path", "queryString", "fragment"}
      BY <1>5, <1>7, <2>4 DEF Rank, Fields, Authority
    <3>2. Rank("host") < Rank(g)
      BY <3>1 DEF Rank
    <3>3. End(e[f]) <= End(d["host"]) /\ End(d["host"]) <= d[g].off /\ e[g] = d[g]
      BY <1>1, <1>3, <1>4, <1>5, <2>4, <3>2
    <3> QED BY <1>1, <1>2, <1>5, <2>4, <3>3
  <2> QED BY <2>1, <2>2, <2>3, <2>4
<1>8. ASSUME NEW k \in 1..n, \A f \in (F \ Authority) \cup P : ~Covers(e[f], k)
      PROVE  buf[k] \in Delims
  <2>1. CASE Covers(d["host"], k)
    <3>1. k \in d["host"].off + 1..End(d["host"])
      BY <1>1, <1>2, <2>1 DEF Covers, End
    <3> QED BY <1>4, <1>8, <3>1
  <2>2. CASE ~Covers(d["host"], k)
    <3>1. ASSUME NEW f \in F
          PROVE  ~Covers(d[f], k)
      <4>1. CASE f \in Authority
        <5>1. f = "host"
          BY <4>1
        <5> QED BY <2>2, <5>1
      <4>2. CASE f \notin Authority
        BY <1>5, <1>8, <4>2
      <4> QED BY <4>1, <4>2
    <3> QED BY <1>3, <3>1
  <2> QED BY <2>1, <2>2
<1>9. \A k \in 0 + 1..n : k \in 1..n
  OBVIOUS
<1> QED BY <1>6, <1>7, <1>8, <1>9 DEF Tiled

LEMMA InvTiles == UrlInv => FieldsTileUrl
<1> SUFFICES ASSUME UrlInv, pc = "accepted", HostKnown(parsed_url), Len(url) < FieldMod
             PROVE  Tiled(url, parsed_url.field_set, parsed_url.field_data, 0, Len(url))
  BY DEF FieldsTileUrl
<1>1. UrlTypeOK /\ ScanOrdered(scan) /\ ScanTiled(scan) /\ scan.at = Len(url) /\ Len(url) \in Nat
  BY DEF UrlInv, ScanInv, UrlTypeOK
<1>2. CASE host.s = "none"
  BY <1>1, <1>2 DEF parsed_url, ScanTiled
<1>3. CASE host.s # "none"
  <2>1. /\ parsed_url = host.u /\ HostInv /\ HasAuthority(scan.u) /\ HostOk(host.s)
        /\ host.at >= HostEnd(scan.u)
    BY <1>3 DEF parsed_url, UrlInv
  <2>2. "host" \in scan.u.field_set /\ "host" \in host.u.field_set /\ HostFrame(scan.u, host.u)
    BY <2>1, AuthorityHost DEF HostInv
  <2>3. HostBounded(host) /\ HostTiled(host)
    BY <2>1, <2>2 DEF HostInv
  <2> DEFINE F == scan.u.field_set
             G == host.u.field_set
             d == scan.u.field_data
             e == host.u.field_data
             P == HostParts(host.u)
  <2>4. /\ F \in SUBSET Fields /\ d \in [Fields -> Window] /\ e \in [Fields -> Window]
        /\ G \in SUBSET Fields /\ P \in SUBSET Authority /\ host.at \in Nat
    BY <1>1 DEF UrlTypeOK, UrlStruct, HostParts, Authority
  <2>5. F \cap Authority = {"host"}
    <3>1. "userInfo" \notin F /\ "port" \notin F
      BY <1>1, ScanFields
    <3> QED BY <2>2, <3>1 DEF Authority
  <2>6. \A f \in Fields \ Authority : e[f] = d[f]
    BY <2>2 DEF HostFrame, Authority
  <2>7. Tiled(url, F, d, 0, Len(url))
    BY <1>1 DEF ScanTiled
  <2>8. HostEnd(scan.u) = End(d["host"]) /\ End(d["host"]) \in Nat
    <3>1. d["host"] \in Window
      BY <2>4 DEF Fields
    <3> QED BY <3>1, WindowFacts DEF HostEnd, End
  <2>9. host.at = End(d["host"])
    BY <2>1, <2>3, <2>4, <2>8 DEF HostBounded
  <2>10. Tiled(url, P, e, d["host"].off, End(d["host"]))
    BY <2>3, <2>9 DEF HostTiled
  <2>11. G = (F \ Authority) \cup P
    <3>1. "host" \in P
      BY <2>1, <2>3 DEF HostTiled, HostOk, HostSeen
    <3>2. P = (G \cap {"userInfo", "port"}) \cup {"host"}
      BY <3>1 DEF HostParts
    <3>3. G \ {"userInfo", "port"} = F \ {"userInfo", "port"}
      BY <2>2 DEF HostFrame
    <3> HIDE DEF F, G, P
    <3>4. "host" \in G
      BY <2>2 DEF G
    <3> QED BY <3>2, <3>3, <3>4 DEF Authority
  <2> HIDE DEF F, G, P, d, e
  <2>12. Tiled(url, (F \ Authority) \cup P, e, 0, Len(url))
    BY <1>1, <2>4, <2>5, <2>6, <2>7, <2>10, RefineTile
  <2> QED BY <2>1, <2>11, <2>12 DEF G, e
<1> QED BY <1>2, <1>3

\* The fields of an accepted URL follow each other in order, do not overlap and
\* leave out nothing but delimiters, whatever the URL, as long as it is shorter
\* than the range of the offsets.
THEOREM WindowsTileUrl == UrlSpec => []FieldsTileUrl
BY UrlInvariance, InvTiles, PTL

============================================================================
